--------------------------- MODULE ContextProofs ---------------------------
(***************************************************************************)
(* Theorems about Context: a cancel reaches every descendant that is       *)
(* registered, and what a cancelled context leaves behind.                 *)
(*                                                                         *)
(* The invariant ties the frames of the goroutines' stacks to the fields   *)
(* of the contexts.  A mutex is held by one frame only, that of a cancel   *)
(* at the children or of a creation which has met a cancelled parent; a    *)
(* child that lives is in its parent's children, still to be called or     *)
(* being called; and whatever would be left behind has a frame that will   *)
(* take it away.                                                           *)
(*                                                                         *)
(* At the end, sync.Once: f is called once, and every call of the closure  *)
(* of OnceFunc comes to what that call of f came to.                       *)
(***************************************************************************)
EXTENDS MCContext, SequenceTheorems, TLAPS

(* The frames of a goroutine's stack, from the bottom.                     *)
Depth(t) == Len(stack[t])
Frame(t, k) == stack[t][Len(stack[t]) + 1 - k]

Early == {"new", "newDone", "look", "inherit", "register"}
Late == {"unlock", "made", "expired"}
Cancels == {"cancel", "children", "remove", "finish"}
Watches == {"watch", "watchDone", "watching"}

ParentDone(c) == Parent(c) \in C /\ err[Parent(c)] # None

(* Only a cancel and the creation of a context call, and only cancels are  *)
(* called.                                                                 *)
StackInv ==
  \A t \in Threads : \A k \in 1 .. Depth(t) :
    LET f == Frame(t, k) IN
    /\ k < Depth(t) => f.at \in {"children"} \cup Late
    /\ k > 1 => f.at \in Cancels
    /\ f.at \in Late \cup (Early \ {"inherit"}) => t \in G
    /\ f.at \in Watches => t \notin G
    /\ k = 1 => \A c \in C : t = Watcher(c) => f.c = c

(* A frame that holds the mutex of c.                                      *)
Holds(f, c) ==
  (f.at = "children" /\ f.c = c) \/ (f.at = "unlock" /\ Parent(f.c) = c)

LockInv ==
  \A c \in C : \A t \in Threads : \A k \in 1 .. Depth(t) :
    Holds(Frame(t, k), c) =>
      /\ mu[c] = t
      /\ \A j \in 1 .. Depth(t) : Holds(Frame(t, j), c) => j = k

(* The channel of c is closed exactly when it has an error, which is its   *)
(* own or that of its parent.                                              *)
ErrInv ==
  \A c \in C :
    /\ Closed(c) <=> err[c] # None
    /\ err[c] # None /\ err[c].by # c => Parent(c) \in C /\ err[c] = err[Parent(c)]
    /\ fate[c] = "started" => ParentDone(c)

(* What the frames of a cancel and of a creation know.                     *)
FrameInv ==
  \A t \in Threads : \A k \in 1 .. Depth(t) :
    LET f == Frame(t, k) IN
    /\ f.at \in {"cancel", "children"} =>
         f.why # None /\ (f.why.by # f.c => Parent(f.c) \in C /\ f.why = err[Parent(f.c)])
    /\ f.at = "children" => err[f.c] = f.why /\ f.todo \subseteq children[f.c]
    /\ f.at \in {"children", "remove", "finish"} => err[f.c] # None
    /\ f.at \in {"cancel", "children"} /\ ~f.rm =>
         \/ hook[f.c] # "set" /\ (tree[f.c].link = "direct" => ParentDone(f.c))
         \/ f.at = "cancel" /\ err[f.c] # None
    /\ f.at \in Cancels /\ tree[f.c].kind = "after" => fate[f.c] # "none" \/ ParentDone(f.c)
    /\ f.at \in {"inherit", "unlock"} => ParentDone(f.c)
    /\ f.at \in {"newDone", "look", "register"} => Parent(f.c) \in C
    /\ f.at \in {"register", "unlock"} => tree[f.c].link = "direct"
    /\ f.at \in Watches \cup {"inherit"} /\ t \notin G =>
         Parent(f.c) \in C /\ (tree[f.c].link = "watch" \/ hook[f.c] = "fired")

(* The frame above frame k is about to cancel d.                           *)
Reaching(t, k, d) ==
  k + 1 = Depth(t) /\ Frame(t, k + 1).at = "cancel" /\ Frame(t, k + 1).c = d

(* A cancel has cancelled the children it is through with.                 *)
ReachInv ==
  \A t \in Threads : \A k \in 1 .. Depth(t) :
    LET f == Frame(t, k) IN
    f.at = "children" =>
      \A d \in children[f.c] : err[d] = None => d \in f.todo \/ Reaching(t, k, d)

(* A context that is made lives only if it is registered with its parent.  *)
RegisterInv ==
  \A d \in C : Parent(d) \in C /\ tree[d].link = "direct" /\ err[d] = None =>
    /\ d \in made => d \in children[Parent(d)]
    /\ \A t \in Threads : \A k \in 1 .. Depth(t) :
         Frame(t, k).at \in Late /\ Frame(t, k).c = d =>
           d \in children[Parent(d)] \/ Reaching(t, k, d)

(* A cancelled context has children only as long as its cancel is at them. *)
ChildrenInv ==
  \A p \in C :
    /\ \A d \in children[p] : Parent(d) = p /\ tree[d].link = "direct"
    /\ err[p] # None /\ children[p] # {} =>
         \E t \in Threads : \E k \in 1 .. Depth(t) :
           Frame(t, k).at = "children" /\ Frame(t, k).c = p

(* The program or its tree has heard of c.                                 *)
Known(c) ==
  \/ c \in made
  \/ \E t \in Threads : \E k \in 1 .. Depth(t) :
       Frame(t, k).at \in Late /\ Frame(t, k).c = c

Creates(t, f, c) == t \in G /\ f.at \in Early \cup Late /\ f.c = c

(* Of the others nothing is to be seen but the call that creates them, and *)
(* no two calls create the same.                                           *)
KnownInv ==
  \A c \in C :
    /\ ~Known(c) =>
         /\ err[c] = None /\ hook[c] = "none" /\ timer[c] = "nil" /\ fate[c] = "none"
         /\ \A p \in C : c \notin children[p]
         /\ \A t \in Threads : \A k \in 1 .. Depth(t) :
              Frame(t, k).c = c => Creates(t, Frame(t, k), c)
    /\ \A t \in Threads : \A k \in 1 .. Depth(t) :
         Creates(t, Frame(t, k), c) =>
           /\ c \notin made
           /\ \A u \in Threads : \A j \in 1 .. Depth(u) :
                Creates(u, Frame(u, j), c) => u = t

(* A frame that will yet take c out of its parent.                         *)
Removes(f, c) ==
  /\ f.c = c
  /\ \/ f.at = "remove"
     \/ f.at = "children" /\ f.rm
     \/ f.at = "cancel" /\ f.rm /\ tree[c].kind # "cancel"

(* What ties a cancelled context to its parent or its timer has a cancel   *)
(* that will undo it.                                                      *)
LeakInv ==
  \A c \in C :
    /\ timer[c] # "nil" => tree[c].kind = "timer"
    /\ hook[c] # "none" => tree[c].link = "hook" /\ Parent(c) \in C
    /\ timer[c] = "armed" /\ err[c] # None =>
         \E t \in Threads : \E k \in 1 .. Depth(t) :
           Frame(t, k).at \in Cancels /\ Frame(t, k).c = c
    /\ err[c] # None /\ (hook[c] = "set" \/ \E p \in C : c \in children[p] /\ err[p] = None) =>
         \E t \in Threads : \E k \in 1 .. Depth(t) : Removes(Frame(t, k), c)

CtxInv ==
  /\ TypeOK
  /\ StackInv /\ LockInv /\ ErrInv /\ FrameInv
  /\ ReachInv /\ RegisterInv /\ ChildrenInv /\ KnownInv /\ LeakInv

-----------------------------------------------------------------------------
(* How a step changes a stack.                                             *)

(* The frames of a stack have their type, and the last is on top.          *)
LEMMA FrameFacts ==
  ASSUME TypeOK, NEW t \in Threads
  PROVE  /\ Depth(t) \in Nat
         /\ \A k \in 1 .. Depth(t) : Frame(t, k) \in Frames
         /\ stack[t] # <<>> => Depth(t) >= 1 /\ Top(t) = Frame(t, Depth(t))
         /\ stack[t] = <<>> <=> Depth(t) = 0
<1>1. stack[t] \in Seq(Frames)
  BY DEF TypeOK
<1> QED
  BY <1>1 DEF Depth, Frame, Top

Same(u) ==
  /\ Depth(u)' = Depth(u)
  /\ \A k \in 1 .. Depth(u) : Frame(u, k)' = Frame(u, k)

(* The stacks of the others stay as they are.                              *)
LEMMA OtherFrames ==
  ASSUME TypeOK, NEW t \in Threads, NEW frames \in Seq(Frames), Instead(t, frames)
  PROVE  \A u \in Threads \ {t} : Same(u)
<1> QED
  BY DEF TypeOK, Instead, Same, Depth, Frame

StackOK == stack \in [Threads -> Seq(Frames)]

\* All frames but the one on top of t's stack.
Kept(t) ==
  \A u \in Threads : \A k \in 1 .. Depth(u) :
    u # t \/ k # Depth(t) => Frame(u, k)' = Frame(u, k)

Replaced(t, f) ==
  /\ \A u \in Threads : Depth(u)' = Depth(u)
  /\ Kept(t)
  /\ \A k \in Nat : k = Depth(t) => Frame(t, k)' = f

Pushed(t, g, f) ==
  /\ \A u \in Threads \ {t} : Depth(u)' = Depth(u)
  /\ Depth(t)' = Depth(t) + 1
  /\ Kept(t)
  /\ \A k \in Nat : k = Depth(t) => Frame(t, k)' = f
  /\ \A k \in Nat : k = Depth(t) + 1 => Frame(t, k)' = g

Popped(t) ==
  /\ \A u \in Threads \ {t} : Depth(u)' = Depth(u)
  /\ Depth(t)' = Depth(t) - 1
  /\ Kept(t)

Started(t, f) ==
  /\ Depth(t) = 0
  /\ \A u \in Threads \ {t} : Depth(u)' = Depth(u)
  /\ Depth(t)' = 1
  /\ Kept(t)
  /\ Frame(t, 1)' = f

(* The frame on top is replaced by another.                                *)
LEMMA GotoFrames ==
  ASSUME TypeOK, NEW t \in Threads, NEW f \in Frames, stack[t] # <<>>,
         Instead(t, <<f>>)
  PROVE  StackOK' /\ Replaced(t, f)
<1>1. stack[t] \in Seq(Frames) /\ stack \in [Threads -> Seq(Frames)]
  BY DEF TypeOK
<1>2. stack'[t] = <<f>> \o Tail(stack[t])
  BY <1>1 DEF Instead
<1>3. <<f>> \in Seq(Frames) /\ Tail(stack[t]) \in Seq(Frames)
  BY <1>1
<1>4. <<f>> \o Tail(stack[t]) \in Seq(Frames)
  BY <1>3
<1>5. Len(<<f>> \o Tail(stack[t])) = Len(stack[t])
  BY <1>1, <1>3
<1>6. \A i \in 1 .. Len(stack[t]) :
        (<<f>> \o Tail(stack[t]))[i] = IF i = 1 THEN f ELSE stack[t][i]
  BY <1>1, <1>3
<1>7. Len(stack[t]) \in Nat
  BY <1>1
<1>8. \A u \in Threads \ {t} : Same(u)
  BY <1>3, OtherFrames
<1>9. stack' \in [Threads -> Seq(Frames)]
  BY <1>1, <1>4 DEF Instead
<1>10. Depth(t)' = Len(stack[t]) /\ Len(stack'[t]) = Len(stack[t])
  BY <1>2, <1>5 DEF Depth
<1>11. ASSUME NEW k \in 1 .. Len(stack[t])
       PROVE  Frame(t, k)' = (<<f>> \o Tail(stack[t]))[Len(stack[t]) + 1 - k]
  BY <1>2, <1>10 DEF Frame
<1>12. ASSUME NEW k \in 1 .. Len(stack[t])
       PROVE  Frame(t, k)' = IF k = Depth(t) THEN f ELSE Frame(t, k)
  <2> DEFINE i == Len(stack[t]) + 1 - k
  <2>1. i \in 1 .. Len(stack[t]) /\ (k = Len(stack[t]) <=> i = 1)
       /\ i = Len(stack[t]) + 1 - k
    BY <1>7
  <2>2. Frame(t, k)' = (<<f>> \o Tail(stack[t]))[i]
    BY <1>11
  <2> HIDE DEF i
  <2> QED
    BY <2>1, <2>2 DEF Depth, Frame
<1> QED
  BY <1>8, <1>9, <1>10, <1>12 DEF StackOK, Kept, Depth, Same, Replaced

(* A call puts a frame on top and may change the one below.                *)
LEMMA PushFrames ==
  ASSUME TypeOK, NEW t \in Threads, NEW f \in Frames, NEW g \in Frames, stack[t] # <<>>,
         Instead(t, <<g, f>>)
  PROVE  StackOK' /\ Pushed(t, g, f)
<1>1. stack[t] \in Seq(Frames) /\ stack \in [Threads -> Seq(Frames)]
  BY DEF TypeOK
<1>2. stack'[t] = <<g, f>> \o Tail(stack[t])
  BY <1>1 DEF Instead
<1>3. <<g, f>> \in Seq(Frames) /\ Tail(stack[t]) \in Seq(Frames)
  BY <1>1
<1>4. <<g, f>> \o Tail(stack[t]) \in Seq(Frames)
  BY <1>3
<1>5. Len(<<g, f>> \o Tail(stack[t])) = Len(stack[t]) + 1
  BY <1>1, <1>3
<1>6. \A i \in 1 .. Len(stack[t]) + 1 :
        (<<g, f>> \o Tail(stack[t]))[i] =
          IF i = 1 THEN g ELSE IF i = 2 THEN f ELSE stack[t][i - 1]
  BY <1>1, <1>3
<1>7. Len(stack[t]) \in Nat
  BY <1>1
<1>8. \A u \in Threads \ {t} : Same(u)
  BY <1>3, OtherFrames
<1>9. stack' \in [Threads -> Seq(Frames)]
  BY <1>1, <1>4 DEF Instead
<1>10. Depth(t)' = Len(stack[t]) + 1 /\ Len(stack'[t]) = Len(stack[t]) + 1
  BY <1>2, <1>5 DEF Depth
<1>11. ASSUME NEW k \in 1 .. Len(stack[t]) + 1
       PROVE  Frame(t, k)' = (<<g, f>> \o Tail(stack[t]))[Len(stack[t]) + 2 - k]
  BY <1>2, <1>10 DEF Frame
<1>12. ASSUME NEW k \in 1 .. Len(stack[t]) + 1
       PROVE  Frame(t, k)' = IF k = Depth(t) + 1 THEN g
                             ELSE IF k = Depth(t) THEN f ELSE Frame(t, k)
  <2> DEFINE i == Len(stack[t]) + 2 - k
  <2>1. i \in 1 .. Len(stack[t]) + 1 /\ (k = Len(stack[t]) + 1 <=> i = 1)
       /\ (k = Len(stack[t]) <=> i = 2)
       /\ i - 1 = Len(stack[t]) + 1 - k
    BY <1>7
  <2>2. Frame(t, k)' = (<<g, f>> \o Tail(stack[t]))[i]
    BY <1>11
  <2> HIDE DEF i
  <2> QED
    BY <2>1, <2>2 DEF Depth, Frame
<1>13. Depth(t) \in Nat /\ Len(stack[t]) = Depth(t)
  BY <1>7 DEF Depth
<1>14. Kept(t)
  BY <1>8, <1>12, <1>13 DEF Kept, Same
<1>15. \A u \in Threads \ {t} : Depth(u)' = Depth(u)
  BY <1>8 DEF Same
<1> QED
  BY <1>9, <1>10, <1>12, <1>13, <1>14, <1>15 DEF StackOK, Pushed

(* A return takes the frame away.                                          *)
LEMMA PopFrames ==
  ASSUME TypeOK, NEW t \in Threads, stack[t] # <<>>, Pop(t)
  PROVE  StackOK' /\ Popped(t)
<1>1. stack[t] \in Seq(Frames) /\ stack \in [Threads -> Seq(Frames)]
  BY DEF TypeOK
<1>2. Tail(stack[t]) \in Seq(Frames)
  BY <1>1
<1>3. <<>> \o Tail(stack[t]) = Tail(stack[t])
  BY <1>2
<1>4. stack'[t] = Tail(stack[t])
  BY <1>1, <1>3 DEF Pop, Instead
<1>5. Len(Tail(stack[t])) = Len(stack[t]) - 1 /\ Len(stack[t]) \in Nat
  BY <1>1
<1>6. \A i \in 1 .. Len(stack[t]) - 1 : Tail(stack[t])[i] = stack[t][i + 1]
  BY <1>1
<1>7. Instead(t, <<>>)
  BY DEF Pop
<1>8. \A u \in Threads \ {t} : Same(u)
  <2>1. <<>> \in Seq(Frames)
    OBVIOUS
  <2> QED
    BY <2>1, <1>7, OtherFrames
<1>9. stack' \in [Threads -> Seq(Frames)]
  BY <1>1, <1>2, <1>3, <1>7 DEF Instead
<1>10. Depth(t)' = Depth(t) - 1 /\ \A k \in 1 .. Depth(t) - 1 : Frame(t, k)' = Frame(t, k)
  BY <1>4, <1>5, <1>6 DEF Depth, Frame
<1>11. Depth(t) \in Nat
  BY <1>5 DEF Depth
<1> QED
  BY <1>8, <1>9, <1>10, <1>11 DEF StackOK, Kept, Same, Popped

(* A goroutine that was idle begins a call.                                *)
LEMMA RunFrames ==
  ASSUME TypeOK, NEW t \in Threads, NEW f \in Frames, Run(t, f)
  PROVE  StackOK' /\ Started(t, f)
<1> QED
  BY DEF TypeOK, Run, Idle, StackOK, Kept, Depth, Frame, Started

-----------------------------------------------------------------------------
(* The steps.                                                              *)

(* In the beginning no context is known.                                   *)
LEMMA ContextInitInv == Init => CtxInv
<1> SUFFICES ASSUME Init PROVE CtxInv
  OBVIOUS
<1>1. TypeOK
  BY DEF Init, TypeOK
<1>2. \A t \in Threads : Depth(t) = 0
  BY DEF Init, Depth
<1>3. StackInv /\ LockInv /\ FrameInv /\ ReachInv
  BY <1>2 DEF StackInv, LockInv, FrameInv, ReachInv
<1>4. ErrInv
  BY DEF Init, ErrInv, Closed
<1>5. RegisterInv /\ ChildrenInv
  BY <1>2 DEF Init, RegisterInv, ChildrenInv
<1>6. KnownInv
  BY <1>2 DEF Init, KnownInv
<1>7. LeakInv
  BY DEF Init, LeakInv
<1> QED
  BY <1>1, <1>3, <1>4, <1>5, <1>6, <1>7 DEF CtxInv

(* Fields of the frames that a step writes.                                *)
LEMMA FrameEdit ==
  ASSUME NEW f \in Frames, NEW at \in Places
  PROVE  LET g == [f EXCEPT !.at = at] IN
         /\ g \in Frames /\ g.at = at
         /\ g.c = f.c /\ g.rm = f.rm /\ g.why = f.why /\ g.todo = f.todo
BY DEF Frames

(* What the frame on top of a stack is.                                    *)
LEMMA TopFacts ==
  ASSUME CtxInv, NEW t \in Threads, NEW at, At(t, at)
  PROVE  /\ stack[t] # <<>>
         /\ Depth(t) \in Nat \ {0} /\ Depth(t) \in 1 .. Depth(t)
         /\ Top(t) = Frame(t, Depth(t))
         /\ Top(t) \in Frames /\ Top(t).at = at /\ Top(t).c \in C
         /\ \A u \in Threads : Depth(u) \in Nat
         /\ \A u \in Threads : \A k \in 1 .. Depth(u) : Frame(u, k).c \in C
<1>1. TypeOK
  BY DEF CtxInv
<1>2. /\ \A u \in Threads : Depth(u) \in Nat
      /\ \A u \in Threads : \A k \in 1 .. Depth(u) : Frame(u, k).c \in C
  BY <1>1, FrameFacts DEF Frames
<1> QED
  BY <1>1, <1>2, FrameFacts DEF At, Frames

Awaits == {"await", "awaitDone", "wait", "err"}

(* A step within a wait, a watch or the beginning of a creation, which     *)
(* touches no context.                                                     *)
LEMMA QuietStep ==
  ASSUME CtxInv, NEW t \in Threads, NEW f \in Frames, stack[t] # <<>>, StackOK', Replaced(t, f),
         f.c = Top(t).c,
         Top(t).at \in Awaits \cup Watches \cup Early,
         f.at \in Awaits \cup Watches \cup Early,
         Top(t).at \in Early /\ t \in G <=> f.at \in Early /\ t \in G,
         f.at \in Early \ {"inherit"} => t \in G,
         f.at \in Watches => t \notin G,
         f.at = "inherit" => ParentDone(f.c),
         f.at \in {"newDone", "look", "register"} => Parent(f.c) \in C,
         f.at = "register" => tree[f.c].link = "direct",
         f.at \in Watches \cup {"inherit"} /\ t \notin G =>
           Parent(f.c) \in C /\ (tree[f.c].link = "watch" \/ hook[f.c] = "fired"),
         UNCHANGED <<mu, children, err, timer, fate, hook, made, calls, tree>>,
         done' \in [C -> {"nil", "open", "closed", "closedchan"}],
         \A c \in C : Closed(c)' <=> Closed(c)
  PROVE  CtxInv'
<1>1. TypeOK'
  BY DEF CtxInv, TypeOK, StackOK
<1>2. Depth(t) \in Nat \ {0} /\ Top(t) = Frame(t, Depth(t)) /\ Top(t) \in Frames
      /\ \A u \in Threads : Depth(u) \in Nat
  BY FrameFacts DEF CtxInv
<1>3. Top(t).c \in C
  BY <1>2 DEF Frames
<1> USE DEF CtxInv, Replaced, Kept, Awaits, Watches, Early, Late, Cancels
<1>4. StackInv'
  BY <1>2, <1>3 DEF StackInv
<1>5. LockInv'
  BY <1>2, <1>3 DEF LockInv, Holds, Parent
<1>6. ErrInv'
  BY DEF ErrInv, ParentDone, Parent
<1>7. FrameInv'
  BY <1>2, <1>3 DEF FrameInv, ParentDone, Parent
<1>8. ReachInv'
  BY <1>2, <1>3 DEF ReachInv, Reaching
<1>9. RegisterInv'
  BY <1>2, <1>3 DEF RegisterInv, Reaching, Parent
<1>10. ChildrenInv'
  BY <1>2, <1>3 DEF ChildrenInv, Parent
<1>11. KnownInv'
  BY <1>2, <1>3 DEF KnownInv, Known, Creates
<1>12. LeakInv'
  BY <1>2, <1>3 DEF LeakInv, Removes, Parent
<1> QED
  BY <1>1, <1>4, <1>5, <1>6, <1>7, <1>8, <1>9, <1>10, <1>11, <1>12

(* Every context of the tree has a parent, a kind and a link.              *)
LEMMA TreeFacts ==
  ASSUME TypeOK, NEW c \in C
  PROVE  /\ Parent(c) \in C \cup {Background}
         /\ tree[c].kind \in Kinds /\ tree[c].link \in Links
BY ContextAssumption DEF TypeOK, Parent

(* What the invariant says of the frame on top of a stack.                 *)
LEMMA TopInv ==
  ASSUME CtxInv, NEW t \in Threads, stack[t] # <<>>
  PROVE  LET f == Top(t) IN
    /\ f.at \in Late \cup (Early \ {"inherit"}) => t \in G
    /\ f.at \in Watches => t \notin G
    /\ f.at \in {"cancel", "children"} =>
         f.why # None /\ (f.why.by # f.c => Parent(f.c) \in C /\ f.why = err[Parent(f.c)])
    /\ f.at = "children" => err[f.c] = f.why /\ f.todo \subseteq children[f.c]
    /\ f.at \in {"children", "remove", "finish"} => err[f.c] # None
    /\ f.at \in {"cancel", "children"} /\ ~f.rm =>
         \/ hook[f.c] # "set" /\ (tree[f.c].link = "direct" => ParentDone(f.c))
         \/ f.at = "cancel" /\ err[f.c] # None
    /\ f.at \in Cancels /\ tree[f.c].kind = "after" => fate[f.c] # "none" \/ ParentDone(f.c)
    /\ f.at \in {"inherit", "unlock"} => ParentDone(f.c)
    /\ f.at \in {"newDone", "look", "register"} => Parent(f.c) \in C
    /\ f.at \in {"register", "unlock"} => tree[f.c].link = "direct"
    /\ f.at \in Watches \cup {"inherit"} /\ t \notin G =>
          Parent(f.c) \in C /\ (tree[f.c].link = "watch" \/ hook[f.c] = "fired")
<1>1. Depth(t) \in 1 .. Depth(t) /\ Top(t) = Frame(t, Depth(t))
  BY FrameFacts DEF CtxInv
<1>2. StackInv /\ FrameInv
  BY DEF CtxInv
<1> QED
  BY <1>1, <1>2 DEF StackInv, FrameInv

(* To go on in a frame is to replace it by one that is elsewhere.          *)
LEMMA GotoStep ==
  ASSUME CtxInv, NEW t \in Threads, NEW at, At(t, at), NEW to \in Places, Goto(t, to)
  PROVE  \E f \in Frames :
           /\ f = [Top(t) EXCEPT !.at = to]
           /\ f.at = to /\ f.c = Top(t).c /\ f.rm = Top(t).rm
           /\ f.why = Top(t).why /\ f.todo = Top(t).todo
           /\ StackOK' /\ Replaced(t, f)
<1> DEFINE f == [Top(t) EXCEPT !.at = to]
<1>1. stack[t] # <<>> /\ Top(t) \in Frames
  BY TopFacts
<1>2. f \in Frames /\ f.at = to /\ f.c = Top(t).c /\ f.rm = Top(t).rm
      /\ f.why = Top(t).why /\ f.todo = Top(t).todo
  BY <1>1, FrameEdit
<1>3. Instead(t, <<f>>)
  BY DEF Goto
<1> HIDE DEF f
<1>4. StackOK' /\ Replaced(t, f)
  BY <1>1, <1>2, <1>3, GotoFrames DEF CtxInv
<1>5. f = [Top(t) EXCEPT !.at = to]
  BY DEF f
<1> QED
  BY <1>2, <1>4, <1>5

(* Done, for a waiting call, a watching goroutine and a new context.       *)
LEMMA DoneStep ==
  ASSUME CtxInv, NEW t \in Threads, Done(t)
  PROVE  CtxInv'
<1>1. ASSUME NEW from \in Places, NEW to \in Places, At(t, from), Goto(t, to),
             <<from, to>> \in {<<"await", "awaitDone">>, <<"await", "wait">>,
               <<"awaitDone", "wait">>, <<"watch", "watchDone">>, <<"watch", "watching">>,
               <<"watchDone", "watching">>, <<"new", "newDone">>, <<"new", "look">>,
               <<"newDone", "look">>},
             from = "new" => Parent(Top(t).c) # Background,
             UNCHANGED <<mu, children, err, timer, fate, hook, calls, made, tree>>,
             done' = done \/ \E c \in C : MakeDone(c)
      PROVE  CtxInv'
  <2>1. PICK f \in Frames : f.at = to /\ f.c = Top(t).c /\ StackOK' /\ Replaced(t, f)
    BY <1>1, GotoStep
  <2>2. stack[t] # <<>> /\ Top(t).at = from /\ Top(t).c \in C
    BY <1>1, TopFacts
  <2>3. from = "new" => Parent(f.c) \in C
    BY <1>1, <2>1, <2>2, TreeFacts DEF CtxInv
  <2>4. /\ done' \in [C -> {"nil", "open", "closed", "closedchan"}]
        /\ \A c \in C : Closed(c)' <=> Closed(c)
    BY <1>1 DEF MakeDone, CtxInv, TypeOK, Closed
  <2>5. /\ from \in Watches => t \notin G
        /\ from \in {"new", "newDone"} => t \in G
        /\ from = "newDone" => Parent(f.c) \in C
        /\ from \in Watches =>
             Parent(f.c) \in C /\ (tree[f.c].link = "watch" \/ hook[f.c] = "fired")
    BY <2>1, <2>2, TopInv DEF Early
  <2>6. /\ from \in Awaits \cup Watches \cup Early /\ to \in Awaits \cup Watches \cup Early
        /\ from \in Early <=> to \in Early
        /\ to \in Early => from \in {"new", "newDone"} /\ to \notin {"inherit", "register"}
        /\ to \in Watches => from \in Watches
    BY <1>1 DEF Early, Awaits, Watches
  <2> QED
    BY <1>1, <2>1, <2>2, <2>3, <2>4, <2>5, <2>6, QuietStep
<1>2. ASSUME NEW from, NEW lock, NEW next, Load(t, from, lock, next),
             <<from, lock, next>> \in {<<"await", "awaitDone", "wait">>,
               <<"watch", "watchDone", "watching">>, <<"new", "newDone", "look">>},
             from = "new" => Parent(Top(t).c) # Background
      PROVE  CtxInv'
  <2>1. \E to \in {lock, next} : Goto(t, to)
    BY <1>2 DEF Load
  <2> QED
    BY <1>1, <1>2, <2>1 DEF Load, Places
<1>3. ASSUME NEW lock, NEW next, Make(t, lock, next),
             <<lock, next>> \in {<<"awaitDone", "wait">>,
               <<"watchDone", "watching">>, <<"newDone", "look">>}
      PROVE  CtxInv'
  <2>1. done' = done \/ \E c \in C : MakeDone(c)
    BY <1>3 DEF Make, MakeDone, CtxInv, TypeOK
  <2> QED
    BY <1>1, <1>3, <2>1 DEF Make, Places
<1>4. ASSUME Load(t, "new", "newDone", "look"), At(t, "new") => Parent(Top(t).c) # Background
      PROVE  CtxInv'
  BY <1>2, <1>4 DEF Load
<1> QED
  BY <1>2, <1>3, <1>4 DEF Done

(* A call that has waited or watched ends.                                 *)
LEMMA QuietPop ==
  ASSUME CtxInv, NEW t \in Threads, stack[t] # <<>>, StackOK', Popped(t),
         Top(t).at \in Awaits \cup Watches,
         UNCHANGED <<mu, done, children, err, timer, fate, hook, made, calls, tree>>
  PROVE  CtxInv'
<1>1. TypeOK'
  BY DEF CtxInv, TypeOK, StackOK
<1>2. Depth(t) \in Nat \ {0} /\ Top(t) = Frame(t, Depth(t)) /\ Top(t) \in Frames
      /\ \A u \in Threads : Depth(u) \in Nat
  BY FrameFacts DEF CtxInv
<1>3. Top(t).c \in C
  BY <1>2 DEF Frames
<1> USE DEF CtxInv, Awaits, Watches, Early, Late, Cancels
<1>4. Depth(t) = 1
  BY <1>2 DEF StackInv
<1>5. /\ \A u \in Threads \ {t} : Depth(u)' = Depth(u)
      /\ Depth(t)' = 0
      /\ \A u \in Threads : \A k \in 1 .. Depth(u) : u # t => Frame(u, k)' = Frame(u, k)
  BY <1>4 DEF Popped, Kept
<1>6. StackInv'
  BY <1>2, <1>3, <1>5 DEF StackInv
<1>7. LockInv'
  BY <1>5 DEF LockInv, Holds, Parent
<1>8. ErrInv'
  BY DEF ErrInv, ParentDone, Parent, Closed
<1>9. FrameInv'
  BY <1>5 DEF FrameInv, ParentDone, Parent
<1>10. ReachInv'
  BY <1>2, <1>3, <1>5 DEF ReachInv, Reaching
<1>11. RegisterInv'
  BY <1>5 DEF RegisterInv, Reaching, Parent
<1>12. ChildrenInv'
  BY <1>2, <1>4, <1>5 DEF ChildrenInv, Parent
<1>13. KnownInv'
  BY <1>2, <1>4, <1>5 DEF KnownInv, Known
<1>14. LeakInv'
  BY <1>2, <1>4, <1>5 DEF LeakInv, Removes, Parent
<1> QED
  BY <1>1, <1>6, <1>7, <1>8, <1>9, <1>10, <1>11, <1>12, <1>13, <1>14

(* A call begins: a creation, a wait, a cancel by the program or a timer,  *)
(* or a function that a parent calls.                                      *)
LEMMA StartStep ==
  ASSUME CtxInv, NEW t \in Threads, NEW f \in Frames, StackOK', Started(t, f),
         UNCHANGED <<mu, done, children, err, made, tree>>,
         timer' \in [C -> {"nil", "armed", "fired"}],
         fate' \in [C -> {"none", "started", "stopped"}],
         hook' \in [C -> {"none", "set", "fired", "stopped"}],
         calls' \in Nat,
         \A c \in C :
           /\ timer'[c] = timer[c] \/ (timer[c] # "nil" /\ timer'[c] = "fired")
           /\ fate'[c] = fate[c] \/ (c \in made /\ fate'[c] = "stopped")
           /\ hook'[c] = hook[c] \/ (hook[c] = "set" /\ hook'[c] = "fired"),
         f.at \in {"new", "await", "cancel", "inherit"},
         f.at = "new" =>
           /\ t \in G /\ f.c \notin made
           /\ \A u \in Threads : \A k \in 1 .. Depth(u) : ~Creates(u, Frame(u, k), f.c),
         f.at # "new" => Known(f.c),
         f.at = "inherit" => t \notin G /\ ParentDone(f.c) /\ hook'[f.c] = "fired",
         \A c \in C : t = Watcher(c) => f.c = c,
         f.at = "cancel" =>
           f.why # None /\ f.why.by = f.c /\ (f.rm \/ err[f.c] # None)
           /\ (tree[f.c].kind = "after" => fate'[f.c] # "none")
  PROVE  CtxInv'
<1>1. TypeOK'
  BY DEF CtxInv, TypeOK, StackOK
<1>2. \A u \in Threads : Depth(u) \in Nat
  BY FrameFacts DEF CtxInv
<1>3. f.c \in C
  BY DEF Frames
<1>4. /\ Depth(t) = 0 /\ Depth(t)' = 1 /\ Frame(t, 1)' = f
      /\ \A u \in Threads \ {t} : Depth(u)' = Depth(u)
      /\ \A u \in Threads : \A k \in 1 .. Depth(u) : Frame(u, k)' = Frame(u, k)
  BY DEF Started, Kept
<1> USE DEF CtxInv, Early, Late, Cancels, Watches
<1>6. StackInv'
  BY <1>2, <1>3, <1>4 DEF StackInv
<1>7. LockInv'
  BY <1>4 DEF LockInv, Holds, Parent
<1>8. ErrInv'
  BY DEF ErrInv, ParentDone, Parent, Closed
<1>9. FrameInv'
  <2>1. \A u \in Threads : \A k \in 1 .. Depth(u) : Frame(u, k).c \in C
    BY FrameFacts DEF Frames
  <2> QED
    BY <1>4, <2>1 DEF FrameInv, ParentDone, Parent
<1>10. ReachInv'
  BY <1>2, <1>3, <1>4 DEF ReachInv, Reaching
<1>11. RegisterInv'
  BY <1>4 DEF RegisterInv, Reaching, Parent
<1>12. ChildrenInv'
  BY <1>2, <1>3, <1>4 DEF ChildrenInv, Parent
<1>13. KnownInv'
  BY <1>4 DEF KnownInv, Known, Creates
<1>14. LeakInv'
  BY <1>4 DEF LeakInv, Removes, Parent
<1> QED
  BY <1>1, <1>6, <1>7, <1>8, <1>9, <1>10, <1>11, <1>12, <1>13, <1>14

LEMMA ReasonFacts ==
  ASSUME NEW c \in C, NEW e \in {"canceled", "deadline"}
  PROVE  Reason(e, c) \in Reasons /\ Reason(e, c) # None /\ Reason(e, c).by = c
BY ContextAssumption DEF Reason, Reasons

(* The calls of the program, the timers and the AfterFunc methods.         *)
LEMMA CallsStep ==
  ASSUME CtxInv, NEW g \in G, NEW c \in C, Calls(g, c)
  PROVE  CtxInv'
<1>1. g \in Threads
  BY DEF Threads
<1>2. TypeOK
  BY DEF CtxInv
<1>3. \A d \in C : g # Watcher(d)
  BY ContextAssumption
<1>4. c \in made => Known(c)
  BY DEF Known
<1>5. \A name \in {"new", "await"} : Call(name, c) \in Frames /\ Call(name, c).at = name
                                     /\ Call(name, c).c = c
  BY DEF Call, Frames, Places
<1>6. ASSUME NEW rm \in BOOLEAN
      PROVE  LET f == CancelCall(c, rm, Reason("canceled", c)) IN
             /\ f \in Frames /\ f.at = "cancel" /\ f.c = c /\ f.rm = rm
             /\ f.why # None /\ f.why.by = c
  <2>1. Reason("canceled", c) \in Reasons \cup {None} /\ Reason("canceled", c) # None
        /\ Reason("canceled", c).by = c
    BY ReasonFacts
  <2>2. LET h == CancelCall(c, rm, Reason("canceled", c)) IN
        /\ h \in Frames /\ h.at = "cancel" /\ h.c = c /\ h.rm = rm
        /\ h.why = Reason("canceled", c)
    BY <1>6, <2>1 DEF CancelCall, Call, Frames, Places
  <2> QED
    BY <2>1, <2>2
<1>7. CASE New(g, c)
  <2>1. StackOK' /\ Started(g, Call("new", c))
    BY <1>1, <1>2, <1>5, <1>7, RunFrames DEF New
  <2>2. ASSUME NEW u \in Threads, NEW k \in 1 .. Depth(u), Creates(u, Frame(u, k), c)
        PROVE  FALSE
    <3>1. Depth(u) \in Nat /\ (Idle(u) <=> Depth(u) = 0) /\ u \in G
      BY <1>2, <2>2, FrameFacts DEF Idle, Creates
    <3>2. k = 1
      BY <2>2 DEF CtxInv, StackInv, Creates, Early, Late, Cancels
    <3>3. Frame(u, 1) = stack[u][Len(stack[u])]
      BY <3>1 DEF Frame, Depth
    <3> QED
      BY <1>7, <2>2, <3>1, <3>2, <3>3 DEF New, Begun, Creates
  <2>3. c \notin made /\ calls \in Nat
    BY <1>2, <1>7 DEF New, Begun, TypeOK
  <2>4. UNCHANGED <<mu, done, children, err, timer, fate, hook, calls, made, tree>>
    BY <1>7 DEF New
  <2>5. /\ timer' \in [C -> {"nil", "armed", "fired"}]
        /\ fate' \in [C -> {"none", "started", "stopped"}]
        /\ hook' \in [C -> {"none", "set", "fired", "stopped"}]
    BY <1>2, <2>4 DEF TypeOK
  <2> QED
    BY <1>1, <1>3, <1>5, <2>1, <2>2, <2>3, <2>4, <2>5, StartStep
<1>8. CASE Await(g, c)
  <2>1. StackOK' /\ Started(g, Call("await", c))
    BY <1>1, <1>2, <1>5, <1>8, RunFrames DEF Await
  <2>2. UNCHANGED <<mu, done, children, err, timer, fate, hook, made, tree>>
    BY <1>8 DEF Await
  <2>3. /\ timer' \in [C -> {"nil", "armed", "fired"}]
        /\ fate' \in [C -> {"none", "started", "stopped"}]
        /\ hook' \in [C -> {"none", "set", "fired", "stopped"}]
        /\ calls' \in Nat
    BY <1>2, <1>8 DEF TypeOK, Await, Counted
  <2> QED
    BY <1>1, <1>3, <1>4, <1>5, <1>8, <2>1, <2>3, StartStep DEF Await
<1>9. CASE CancelFunc(g, c) \/ Stop(g, c)
  <2>6. PICK rm \in BOOLEAN : /\ Run(g, CancelCall(c, rm, Reason("canceled", c)))
                              /\ rm \/ err[c] # None
    BY <1>9 DEF CancelFunc, Stop
  <2> DEFINE f == CancelCall(c, rm, Reason("canceled", c))
  <2>1. StackOK' /\ Started(g, f)
    BY <1>1, <1>2, <1>6, <2>6, RunFrames
  <2>2. UNCHANGED <<mu, done, children, err, timer, hook, made, tree>> /\ c \in made
    BY <1>9 DEF CancelFunc, Stop
  <2>3. /\ timer' \in [C -> {"nil", "armed", "fired"}]
        /\ fate' \in [C -> {"none", "started", "stopped"}]
        /\ hook' \in [C -> {"none", "set", "fired", "stopped"}]
        /\ calls' \in Nat
    <3>1. calls' = calls + 1
      BY <1>9 DEF CancelFunc, Stop, Counted
    <3>2. fate' = fate \/ fate' = [fate EXCEPT ![c] = "stopped"]
      BY <1>9 DEF CancelFunc, Stop
    <3> QED
      BY <1>2, <2>2, <3>1, <3>2 DEF TypeOK
  <2>4. /\ \A d \in C : fate'[d] = fate[d] \/ (d \in made /\ fate'[d] = "stopped")
        /\ tree[c].kind = "after" => fate'[c] # "none"
    BY <1>2, <1>9 DEF TypeOK, CancelFunc, Stop
  <2>5. /\ f \in Frames /\ f.at = "cancel" /\ f.c = c /\ (f.rm \/ err[c] # None)
        /\ f.why # None /\ f.why.by = c
    BY <1>6, <2>6
  <2> HIDE DEF f
  <2> QED
    BY <1>1, <1>3, <1>4, <2>1, <2>2, <2>3, <2>4, <2>5, StartStep
<1> QED
  BY <1>7, <1>8, <1>9 DEF Calls

LEMMA TimerStep ==
  ASSUME CtxInv, NEW c \in C, TimerFires(c)
  PROVE  CtxInv'
<1> DEFINE t == Timer(c)
           f == CancelCall(c, TRUE, Reason("deadline", c))
<1>1. t \in Threads /\ \A d \in C : t # Watcher(d)
  BY DEF Threads, Timer, Watcher
<1>2. TypeOK
  BY DEF CtxInv
<1>3. f \in Frames /\ f.at = "cancel" /\ f.c = c /\ f.rm /\ f.why # None /\ f.why.by = c
  <2>1. Reason("deadline", c) \in Reasons \cup {None} /\ Reason("deadline", c) # None
        /\ Reason("deadline", c).by = c
    BY ReasonFacts
  <2>2. LET h == CancelCall(c, TRUE, Reason("deadline", c)) IN
        /\ h \in Frames /\ h.at = "cancel" /\ h.c = c /\ h.rm
        /\ h.why = Reason("deadline", c)
    BY <2>1 DEF CancelCall, Call, Frames, Places
  <2> QED
    BY <2>1, <2>2
<1>4. StackOK' /\ Started(t, f)
  BY <1>1, <1>2, <1>3, RunFrames DEF TimerFires
<1>5. Known(c) /\ tree[c].kind = "timer"
  BY DEF TimerFires, CtxInv, KnownInv, LeakInv
<1>6. /\ timer' \in [C -> {"nil", "armed", "fired"}]
      /\ fate' \in [C -> {"none", "started", "stopped"}]
      /\ hook' \in [C -> {"none", "set", "fired", "stopped"}]
      /\ calls' \in Nat
  BY <1>2 DEF TypeOK, TimerFires
<1>7. \A d \in C : timer'[d] = timer[d] \/ (timer[d] # "nil" /\ timer'[d] = "fired")
  BY <1>2 DEF TypeOK, TimerFires
<1>8. UNCHANGED <<mu, done, children, err, fate, hook, calls, made, tree>>
  BY DEF TimerFires
<1> HIDE DEF t, f
<1> QED
  BY <1>1, <1>3, <1>4, <1>5, <1>6, <1>7, <1>8, StartStep

LEMMA HookStep ==
  ASSUME CtxInv, NEW c \in C, HookFires(c)
  PROVE  CtxInv'
<1> DEFINE t == Watcher(c)
           f == Call("inherit", c)
<1>1. t \in Threads /\ t \notin G /\ \A d \in C : t = Watcher(d) => d = c
  BY ContextAssumption DEF Threads, Timer, Watcher
<1>2. TypeOK
  BY DEF CtxInv
<1>3. f \in Frames /\ f.at = "inherit" /\ f.c = c
  BY DEF Call, Frames, Places
<1>4. StackOK' /\ Started(t, f)
  BY <1>1, <1>2, <1>3, RunFrames DEF HookFires
<1>5. Known(c)
  BY DEF HookFires, CtxInv, KnownInv
<1>6. /\ timer' \in [C -> {"nil", "armed", "fired"}]
      /\ fate' \in [C -> {"none", "started", "stopped"}]
      /\ hook' \in [C -> {"none", "set", "fired", "stopped"}]
      /\ calls' \in Nat
  BY <1>2 DEF TypeOK, HookFires
<1>7. /\ \A d \in C : hook'[d] = hook[d] \/ (hook[d] = "set" /\ hook'[d] = "fired")
      /\ hook'[c] = "fired"
  BY <1>2 DEF TypeOK, HookFires
<1>8. UNCHANGED <<mu, done, children, err, timer, fate, calls, made, tree>>
  BY DEF HookFires
<1>9. ParentDone(c)
  BY DEF HookFires, ParentDone, CtxInv, ErrInv, LeakInv
<1> HIDE DEF t, f
<1> QED
  BY <1>1, <1>3, <1>4, <1>5, <1>6, <1>7, <1>8, <1>9, StartStep

(* To return is to pop the frame.                                          *)
LEMMA PopStep ==
  ASSUME CtxInv, NEW t \in Threads, stack[t] # <<>>, Pop(t)
  PROVE  StackOK' /\ Popped(t)
BY PopFrames DEF CtxInv

LEMMA WaitStep ==
  ASSUME CtxInv, NEW t \in Threads, Wait(t) \/ Err(t)
  PROVE  CtxInv'
<1>1. CASE Wait(t)
  <2>1. PICK f \in Frames : f.at = "err" /\ f.c = Top(t).c /\ StackOK' /\ Replaced(t, f)
    BY <1>1, GotoStep DEF Wait, Places
  <2>2. stack[t] # <<>> /\ Top(t).at = "wait" /\ Top(t).c \in C
    BY <1>1, TopFacts DEF Wait
  <2>3. /\ done' \in [C -> {"nil", "open", "closed", "closedchan"}]
        /\ \A c \in C : Closed(c)' <=> Closed(c)
        /\ UNCHANGED <<mu, children, err, timer, fate, hook, made, calls, tree>>
    BY <1>1 DEF Wait, CtxInv, TypeOK, Closed
  <2> QED
    BY <2>1, <2>2, <2>3, QuietStep DEF Awaits, Watches, Early
<1>2. CASE Err(t)
  <2>1. stack[t] # <<>> /\ Top(t).at = "err"
    BY <1>2, TopFacts DEF Err
  <2>2. StackOK' /\ Popped(t)
    BY <1>2, <2>1, PopStep DEF Err
  <2> QED
    BY <1>2, <2>1, <2>2, QuietPop DEF Err, Awaits
<1> QED
  BY <1>1, <1>2

LEMMA WatchStep ==
  ASSUME CtxInv, NEW t \in Threads, Watch(t)
  PROVE  CtxInv'
<1>1. stack[t] # <<>> /\ Top(t).at = "watching" /\ Top(t).c \in C
  BY TopFacts DEF Watch
<1>2. /\ t \notin G /\ Parent(Top(t).c) \in C
      /\ tree[Top(t).c].link = "watch" \/ hook[Top(t).c] = "fired"
  BY <1>1, TopInv DEF Watches
<1>3. /\ done' \in [C -> {"nil", "open", "closed", "closedchan"}]
      /\ \A c \in C : Closed(c)' <=> Closed(c)
      /\ UNCHANGED <<mu, done, children, err, timer, fate, hook, made, calls, tree>>
  BY DEF Watch, CtxInv, TypeOK, Closed
<1>4. CASE Closed(Parent(Top(t).c)) /\ Goto(t, "inherit")
  <2>1. PICK f \in Frames : f.at = "inherit" /\ f.c = Top(t).c /\ StackOK' /\ Replaced(t, f)
    BY <1>1, <1>4, GotoStep DEF Places, Watch
  <2>2. ParentDone(f.c)
    BY <1>2, <1>4, <2>1 DEF CtxInv, ErrInv, ParentDone
  <2> QED
    BY <1>1, <1>2, <1>3, <2>1, <2>2, QuietStep DEF Watches, Early
<1>5. CASE Pop(t)
  BY <1>1, <1>3, <1>5, PopStep, QuietPop DEF Watches
<1> QED
  BY <1>4, <1>5 DEF Watch

(* Before a new context is tied to its parent nothing else is about it.    *)
LEMMA EarlyUnknown ==
  ASSUME CtxInv, NEW t \in G, stack[t] # <<>>, Top(t).at \in Early
  PROVE  /\ t \in Threads /\ Depth(t) = 1 /\ Top(t).c \in C /\ Top(t) = Frame(t, 1)
         /\ ~Known(Top(t).c) /\ Top(t).c \notin made
         /\ \A u \in Threads : \A k \in 1 .. Depth(u) :
              Frame(u, k).c = Top(t).c => u = t /\ k = 1
         /\ Depth(Watcher(Top(t).c)) = 0
<1>1. /\ t \in Threads /\ Depth(t) \in Nat \ {0} /\ Top(t) = Frame(t, Depth(t))
      /\ Top(t) \in Frames /\ Top(t).c \in C /\ \A u \in Threads : Depth(u) \in Nat
  BY FrameFacts DEF CtxInv, Threads, Frames
<1> DEFINE c == Top(t).c
<1>2. Depth(t) = 1
  BY <1>1 DEF CtxInv, StackInv, Early, Cancels
<1>3. Creates(t, Frame(t, 1), c)
  BY <1>1, <1>2 DEF Creates
<1>4. /\ c \notin made
      /\ \A u \in Threads : \A k \in 1 .. Depth(u) : Creates(u, Frame(u, k), c) => u = t
  BY <1>1, <1>2, <1>3 DEF CtxInv, KnownInv
<1>5. ~Known(c)
  BY <1>1, <1>2, <1>4 DEF CtxInv, StackInv, Known, Creates, Early, Late
<1>6. \A u \in Threads : \A k \in 1 .. Depth(u) : Frame(u, k).c = c => Creates(u, Frame(u, k), c)
  BY <1>1, <1>5 DEF CtxInv, KnownInv
<1>7. \A u \in Threads : \A k \in 1 .. Depth(u) : Frame(u, k).c = c => u = t /\ k = 1
  BY <1>2, <1>4, <1>6
<1>8. Depth(Watcher(c)) = 0
  <2>1. Watcher(c) \in Threads /\ Watcher(c) # t
    BY <1>1, ContextAssumption DEF Threads
  <2>2. ASSUME Depth(Watcher(c)) # 0 PROVE FALSE
    <3>1. 1 \in 1 .. Depth(Watcher(c))
      BY <1>1, <2>1, <2>2
    <3>2. Frame(Watcher(c), 1).c = c
      BY <1>1, <2>1, <3>1 DEF CtxInv, StackInv
    <3> QED
      BY <1>7, <2>1, <3>1, <3>2
  <2> QED
    BY <2>2
<1> QED
  BY <1>1, <1>4, <1>5, <1>7, <1>8

(* An unknown context has not been touched.                                *)
LEMMA UnknownFacts ==
  ASSUME CtxInv, NEW c \in C, ~Known(c)
  PROVE  /\ err[c] = None /\ hook[c] = "none" /\ timer[c] = "nil" /\ fate[c] = "none"
         /\ \A p \in C : c \notin children[p]
BY DEF CtxInv, KnownInv

(* The creation of a context leaves it to a hook of its parent.            *)
LEMMA LookHookStep ==
  ASSUME CtxInv, NEW t \in Threads, At(t, "look"),
         tree[Top(t).c].link = "hook",
         hook' = [hook EXCEPT ![Top(t).c] = "set"],
         Goto(t, "made"),
         UNCHANGED <<mu, done, children, err, timer, fate, calls, made, tree>>
  PROVE  CtxInv'
<1>1. PICK f \in Frames : f.at = "made" /\ f.c = Top(t).c /\ StackOK' /\ Replaced(t, f)
  BY GotoStep DEF Places
<1>2. stack[t] # <<>> /\ Top(t).at = "look" /\ Top(t).c \in C /\ \A u \in Threads : Depth(u) \in Nat
  BY TopFacts, FrameFacts DEF CtxInv
<1>3. t \in G /\ Parent(Top(t).c) \in C
  BY <1>2, TopInv DEF Early
<1> DEFINE c == Top(t).c
<1>4. /\ Depth(t) = 1 /\ c \in C /\ Top(t) = Frame(t, 1) /\ ~Known(c) /\ c \notin made
      /\ \A u \in Threads : \A k \in 1 .. Depth(u) : Frame(u, k).c = c => u = t /\ k = 1
  BY <1>2, <1>3, EarlyUnknown DEF Early
<1>5. /\ err[c] = None /\ hook[c] = "none" /\ timer[c] = "nil" /\ fate[c] = "none"
      /\ \A p \in C : c \notin children[p]
  BY <1>4, UnknownFacts
<1>6. /\ \A u \in Threads : Depth(u)' = Depth(u)
      /\ \A u \in Threads : \A k \in 1 .. Depth(u) : u # t \/ k # 1 => Frame(u, k)' = Frame(u, k)
      /\ Frame(t, 1)' = f /\ f.at = "made" /\ f.c = c
  BY <1>1, <1>4 DEF Replaced, Kept
<1>7. Frame(t, 1).at = "look" /\ Frame(t, 1).c = c /\ tree[c].link = "hook" /\ Parent(c) \in C
  BY <1>2, <1>3, <1>4
<1>8. hook' \in [C -> {"none", "set", "fired", "stopped"}] /\ hook'[c] = "set"
      /\ \A d \in C \ {c} : hook'[d] = hook[d]
  BY <1>4 DEF CtxInv, TypeOK
<1>9. TypeOK'
  BY <1>1, <1>8 DEF CtxInv, TypeOK, StackOK
<1>10. \A u \in Threads : \A k \in 1 .. Depth(u) : Frame(u, k).c \in C
  BY FrameFacts DEF Frames, CtxInv
<1> HIDE DEF c
<1> USE DEF CtxInv, Early, Late, Cancels, Watches
<1>11. StackInv'
  BY <1>6, <1>7 DEF StackInv
<1>12. LockInv'
  BY <1>6 DEF LockInv, Holds, Parent
<1>13. ErrInv'
  BY DEF ErrInv, ParentDone, Parent, Closed
<1>14. FrameInv'
  BY <1>4, <1>6, <1>7 DEF FrameInv, ParentDone, Parent
<1>15. ReachInv'
  BY <1>6 DEF ReachInv, Reaching
<1>16. RegisterInv'
  BY <1>6, <1>7 DEF RegisterInv, Reaching, Parent
<1>17. ChildrenInv'
  BY <1>2, <1>4, <1>6 DEF ChildrenInv, Parent
<1>18. KnownInv'
  BY <1>4, <1>6, <1>7 DEF KnownInv, Known, Creates
<1>19. LeakInv'
  BY <1>4, <1>5, <1>6, <1>7 DEF LeakInv, Removes, Parent
<1> QED
  BY <1>9, <1>11, <1>12, <1>13, <1>14, <1>15, <1>16, <1>17, <1>18, <1>19

(* It starts a goroutine that watches the parent.                          *)
LEMMA LookWatchStep ==
  ASSUME CtxInv, NEW t \in Threads, At(t, "look"),
         tree[Top(t).c].link = "watch",
         stack' = [stack EXCEPT ![t] = <<[Top(t) EXCEPT !.at = "made"]>>,
                                ![Watcher(Top(t).c)] = <<Call("watch", Top(t).c)>>],
         UNCHANGED <<mu, done, children, err, timer, fate, hook, calls, made, tree>>
  PROVE  CtxInv'
<1>0a. PICK c : c = Top(t).c
  OBVIOUS
<1>0b. PICK w : w = Watcher(c)
  OBVIOUS
<1>0c. PICK f : f = [Top(t) EXCEPT !.at = "made"]
  OBVIOUS
<1>0d. PICK g : g = Call("watch", c)
  OBVIOUS
<1>1. stack[t] # <<>> /\ Top(t).at = "look" /\ c \in C /\ \A u \in Threads : Depth(u) \in Nat
  BY <1>0a, TopFacts, FrameFacts DEF CtxInv
<1>2. t \in G /\ Parent(c) \in C
  BY <1>0a, <1>1, TopInv DEF Early
<1>3. /\ Depth(t) = 1 /\ Top(t) = Frame(t, 1) /\ ~Known(c) /\ c \notin made
      /\ \A u \in Threads : \A k \in 1 .. Depth(u) : Frame(u, k).c = c => u = t /\ k = 1
      /\ Depth(w) = 0
  BY <1>0a, <1>0b, <1>1, <1>2, EarlyUnknown DEF Early
<1>4. /\ err[c] = None /\ hook[c] = "none" /\ timer[c] = "nil" /\ fate[c] = "none"
      /\ \A p \in C : c \notin children[p]
  BY <1>1, <1>3, UnknownFacts
<1>5. w \in Threads /\ w \notin G /\ w # t /\ \A d \in C : w = Watcher(d) => d = c
  BY <1>0b, <1>1, <1>2, ContextAssumption DEF Threads, Watcher
<1>6. /\ f \in Frames /\ f.at = "made" /\ f.c = c
      /\ g \in Frames /\ g.at = "watch" /\ g.c = c
  <2>1. Top(t) \in Frames
    BY TopFacts
  <2> QED
    BY <1>0a, <1>0c, <1>0d, <1>1, <2>1, FrameEdit, ZenonT(40) DEF Call, Frames, Places
<1>7. stack' = [stack EXCEPT ![t] = <<f>>, ![w] = <<g>>]
  BY <1>0a, <1>0b, <1>0c, <1>0d
<1>8. /\ StackOK'
      /\ \A u \in Threads \ {t, w} : stack'[u] = stack[u]
      /\ stack'[t] = <<f>> /\ stack'[w] = <<g>>
  <2>1. stack \in [Threads -> Seq(Frames)]
    BY DEF CtxInv, TypeOK
  <2>2. <<f>> \in Seq(Frames) /\ <<g>> \in Seq(Frames)
    BY <1>6
  <2> QED
    BY <1>5, <1>7, <2>1, <2>2 DEF StackOK
<1>9. /\ Depth(t)' = 1 /\ Depth(w)' = 1 /\ Frame(t, 1)' = f /\ Frame(w, 1)' = g
      /\ \A u \in Threads \ {t, w} : Depth(u)' = Depth(u)
      /\ \A u \in Threads : \A k \in 1 .. Depth(u) : u # t => Frame(u, k)' = Frame(u, k)
  <2>1. Len(stack'[t]) = 1 /\ stack'[t][1] = f /\ Len(stack'[w]) = 1 /\ stack'[w][1] = g
    <3>1. Len(<<f>>) = 1 /\ <<f>>[1] = f /\ Len(<<g>>) = 1 /\ <<g>>[1] = g
      OBVIOUS
    <3>2. stack'[t] = <<f>> /\ stack'[w] = <<g>>
      BY <1>8
    <3> QED
      BY ONLY <3>1, <3>2
  <2>2. Depth(t)' = 1 /\ Depth(w)' = 1 /\ Frame(t, 1)' = f /\ Frame(w, 1)' = g
    BY <2>1 DEF Depth, Frame
  <2>3. ASSUME NEW u \in Threads \ {t, w}
        PROVE  Depth(u)' = Depth(u) /\ \A k \in 1 .. Depth(u) : Frame(u, k)' = Frame(u, k)
    BY <1>8 DEF Depth, Frame
  <2>4. \A k \in 1 .. Depth(w) : FALSE
    BY <1>3
  <2> QED
    BY <2>2, <2>3, <2>4
<1>10. TypeOK'
  BY <1>8 DEF CtxInv, TypeOK, StackOK
<1>11. \A u \in Threads : \A k \in 1 .. Depth(u) : Frame(u, k).c \in C
  BY FrameFacts DEF Frames, CtxInv
<1>12. Frame(t, 1).at = "look" /\ Frame(t, 1).c = c /\ tree[c].link = "watch"
  BY <1>0a, <1>1, <1>3
<1>13. \A u \in Threads : \A k \in 1 .. Depth(u)' :
         \/ u = t /\ k = 1 /\ Frame(u, k)' = f
         \/ u = w /\ k = 1 /\ Frame(u, k)' = g
         \/ u \notin {t, w} /\ k \in 1 .. Depth(u) /\ Frame(u, k)' = Frame(u, k)
  BY <1>1, <1>9
<1>14. f.at = "made" /\ f.c = c /\ g.at = "watch" /\ g.c = c
  BY <1>6
<1> USE DEF CtxInv, Early, Late, Cancels, Watches
<1>15. StackInv'
  BY <1>3, <1>5, <1>9, <1>12, <1>14 DEF StackInv
<1>16. LockInv'
  BY <1>9, <1>14 DEF LockInv, Holds, Parent
<1>17. ErrInv'
  BY DEF ErrInv, ParentDone, Parent, Closed
<1>18. FrameInv'
  BY <1>2, <1>9, <1>12, <1>14 DEF FrameInv, ParentDone, Parent
<1>19. ReachInv'
  BY <1>9, <1>14 DEF ReachInv, Reaching
<1>20. RegisterInv'
  BY <1>9, <1>12, <1>14 DEF RegisterInv, Reaching, Parent
<1>21. ChildrenInv'
  BY <1>1, <1>3, <1>9 DEF ChildrenInv, Parent
<1>22. KnownInv'
  BY <1>1, <1>3, <1>9, <1>14 DEF KnownInv, Known, Creates
<1>23. LeakInv'
  BY <1>1, <1>3, <1>9 DEF LeakInv, Removes, Parent
<1> QED
  BY <1>10, <1>15, <1>16, <1>17, <1>18, <1>19, <1>20, <1>21, <1>22, <1>23

(* The first look at the parent.                                           *)
LEMMA LookStep ==
  ASSUME CtxInv, NEW t \in Threads, Look(t)
  PROVE  CtxInv'
<1>1. At(t, "look") /\ stack[t] # <<>> /\ Top(t).at = "look" /\ Top(t).c \in C
  <2>1. At(t, "look")
    BY DEF Look, Tie
  <2> QED
    BY <2>1, TopFacts
<1>2. t \in G /\ Parent(Top(t).c) \in C
  BY <1>1, TopInv DEF Early
<1>3. done' = done => /\ done' \in [C -> {"nil", "open", "closed", "closedchan"}]
                      /\ \A c \in C : Closed(c)' <=> Closed(c)
  BY DEF CtxInv, TypeOK, Closed
<1>4. ASSUME NEW to \in {"inherit", "register"}, Goto(t, to),
             to = "inherit" => Closed(Parent(Top(t).c)),
             to = "register" => tree[Top(t).c].link = "direct",
             UNCHANGED <<mu, done, children, err, timer, fate, hook, calls, made, tree>>
      PROVE  CtxInv'
  <2>1. PICK f \in Frames : f.at = to /\ f.c = Top(t).c /\ StackOK' /\ Replaced(t, f)
    BY <1>1, <1>4, GotoStep DEF Places
  <2>2. to = "inherit" => ParentDone(f.c)
    BY <1>2, <1>4, <2>1 DEF CtxInv, ErrInv, ParentDone
  <2> QED
    BY <1>1, <1>2, <1>3, <1>4, <2>1, <2>2, QuietStep DEF Watches, Early
<1>5. CASE /\ Closed(Parent(Top(t).c)) /\ Goto(t, "inherit")
           /\ UNCHANGED <<mu, done, children, err, timer, fate, hook, calls, made, tree>>
  BY <1>4, <1>5
<1>6. CASE /\ ~Closed(Parent(Top(t).c))
           /\ \/ /\ tree[Top(t).c].link = "direct"
                 /\ Goto(t, "register")
                 /\ UNCHANGED hook
              \/ /\ tree[Top(t).c].link = "watch"
                 /\ stack' = [stack EXCEPT ![t] = <<[Top(t) EXCEPT !.at = "made"]>>,
                                        ![Watcher(Top(t).c)] = <<Call("watch", Top(t).c)>>]
                 /\ UNCHANGED hook
              \/ /\ tree[Top(t).c].link = "hook"
                 /\ hook' = [hook EXCEPT ![Top(t).c] = "set"]
                 /\ Goto(t, "made")
           /\ UNCHANGED <<mu, done, children, err, timer, fate, calls, made, tree>>
  BY <1>1, <1>4, <1>6, LookWatchStep, LookHookStep
<1> QED
  BY <1>5, <1>6 DEF Look, Tie

LEMMA ConcatPair ==
  ASSUME NEW S, NEW g \in S, NEW f \in S
  PROVE  <<g>> \o <<f>> = <<g, f>>
<1>1. <<g>> \in Seq(S) /\ <<f>> \in Seq(S) /\ <<g, f>> \in Seq(S)
  OBVIOUS
<1>2. Len(<<g>>) = 1 /\ Len(<<f>>) = 1 /\ Len(<<g, f>>) = 2
  OBVIOUS
<1>3. <<g>> \o <<f>> \in Seq(S) /\ Len(<<g>> \o <<f>>) = 2
  BY <1>1, <1>2
<1>4. (<<g>> \o <<f>>)[1] = g /\ (<<g>> \o <<f>>)[2] = f
  BY <1>1, <1>2
<1>5. \A i \in 1 .. 2 : (<<g>> \o <<f>>)[i] = <<g, f>>[i]
  BY <1>4
<1> QED
  BY <1>1, <1>2, <1>3, <1>5, SeqEqual

(* The call with which a parent, or whoever stands for it, cancels c.      *)
LEMMA PassedOn ==
  ASSUME TypeOK, NEW c \in C, NEW why \in Reasons
  PROVE  LET g == CancelCall(c, FALSE, why) IN
         /\ g \in Frames /\ g.at = "cancel" /\ g.c = c /\ ~g.rm /\ g.why = why
         /\ why # None
BY ContextAssumption DEF CancelCall, Call, Frames, Places

(* The parent is done: so is the child.                                    *)
LEMMA InheritStep ==
  ASSUME CtxInv, NEW t \in Threads, Inherit(t)
  PROVE  CtxInv'
<1>1. /\ stack[t] # <<>> /\ Top(t).at = "inherit" /\ Top(t) \in Frames
      /\ Top(t) = Frame(t, Depth(t)) /\ Depth(t) \in Nat \ {0}
      /\ \A u \in Threads : Depth(u) \in Nat
      /\ \A u \in Threads : \A k \in 1 .. Depth(u) : Frame(u, k).c \in C
  <2>1. At(t, "inherit")
    BY DEF Inherit
  <2> QED
    BY <2>1, TopFacts
<1>2. PICK c \in C : c = Top(t).c
  BY TopFacts DEF Inherit
<1>3. ParentDone(c) /\ Depth(t) = 1
  <2>1. ParentDone(c)
    BY <1>1, <1>2, TopInv
  <2>2. Frame(t, Depth(t)).at = "inherit"
    BY <1>1
  <2>3. Depth(t) = 1
    BY <1>1, <2>2 DEF CtxInv, StackInv, Cancels
  <2> QED
    BY <2>1, <2>3
<1>4. err[Parent(c)] \in Reasons
  BY <1>3 DEF ParentDone, CtxInv, TypeOK
<1>5. PICK g : g = CancelCall(c, FALSE, err[Parent(c)])
  OBVIOUS
<1>6. g \in Frames /\ g.at = "cancel" /\ g.c = c /\ ~g.rm /\ g.why = err[Parent(c)] /\ g.why # None
  BY <1>4, <1>5, PassedOn DEF CtxInv
<1>7. UNCHANGED <<mu, done, children, err, timer, fate, hook, calls, made, tree>>
  BY DEF Inherit
<1>8. Frame(t, 1).at = "inherit" /\ Frame(t, 1).c = c
  BY <1>1, <1>2, <1>3
<1>9. CASE t \in G
  <2>1. PICK f \in Frames : f = [Top(t) EXCEPT !.at = "made"] /\ f.at = "made" /\ f.c = c
    <3>1. LET h == [Top(t) EXCEPT !.at = "made"] IN h \in Frames /\ h.at = "made" /\ h.c = c
      BY <1>1, <1>2, FrameEdit, ZenonT(40) DEF Places
    <3> QED
      BY <3>1
  <2>2. Instead(t, <<g, f>>)
    <3>1. <<g>> \o <<f>> = <<g, f>>
      BY <1>6, <2>1, ConcatPair
    <3>2. Instead(t, <<CancelCall(c, FALSE, err[Parent(c)])>> \o <<[Top(t) EXCEPT !.at = "made"]>>)
      BY <1>2, <1>9 DEF Inherit
    <3> QED
      BY <1>5, <2>1, <3>1, <3>2
  <2>3. StackOK' /\ Pushed(t, g, f)
    BY <1>1, <1>6, <2>2, PushFrames DEF CtxInv
  <2>4. /\ \A u \in Threads \ {t} : Depth(u)' = Depth(u)
        /\ Depth(t)' = 2 /\ Frame(t, 1)' = f /\ Frame(t, 2)' = g
        /\ \A u \in Threads : \A k \in 1 .. Depth(u) : u # t => Frame(u, k)' = Frame(u, k)
        /\ \A u \in Threads : \A k \in 1 .. Depth(u)' :
             \/ u = t /\ k = 1 /\ Frame(u, k)' = f
             \/ u = t /\ k = 2 /\ Frame(u, k)' = g
             \/ u # t /\ k \in 1 .. Depth(u) /\ Frame(u, k)' = Frame(u, k)
        /\ f.at = "made" /\ f.c = c
    BY <1>3, <2>1, <2>3 DEF Pushed, Kept
  <2>5. TypeOK'
    BY <1>7, <2>3 DEF CtxInv, TypeOK, StackOK
  <2>6. /\ ~Known(c) /\ c \notin made
        /\ \A u \in Threads : \A k \in 1 .. Depth(u) : Frame(u, k).c = c => u = t /\ k = 1
    BY <1>1, <1>2, <1>9, EarlyUnknown DEF Early
  <2>7. /\ err[c] = None /\ hook[c] = "none" /\ timer[c] = "nil" /\ fate[c] = "none"
        /\ \A p \in C : c \notin children[p]
    BY <2>6, UnknownFacts
  <2>8. \A d \in C : t # Watcher(d)
    BY <1>9, ContextAssumption
  <2> USE DEF CtxInv, Early, Late, Cancels, Watches
  <2>9. StackInv'
    BY <1>1, <1>6, <1>8, <1>9, <2>4 DEF StackInv
  <2>10. LockInv'
    BY <1>6, <1>7, <2>4 DEF LockInv, Holds, Parent
  <2>11. ErrInv'
    BY <1>7 DEF ErrInv, ParentDone, Parent, Closed
  <2>12. FrameInv'
    BY <1>3, <1>6, <1>7, <2>4, <2>7 DEF FrameInv, ParentDone, Parent
  <2>13. ReachInv'
    <3>1. ASSUME NEW u \in Threads, NEW k \in 1 .. Depth(u)', Frame(u, k)'.at = "children"
          PROVE  /\ u # t /\ k \in 1 .. Depth(u) /\ Frame(u, k)' = Frame(u, k)
                 /\ \A d : Reaching(u, k, d)' <=> Reaching(u, k, d)
      BY <3>1, <1>6, <2>4 DEF Reaching
    <3> QED
      BY <3>1, <1>7 DEF ReachInv
  <2>14. RegisterInv'
    BY <1>6, <1>7, <2>4 DEF RegisterInv, Reaching, Parent
  <2>15. ChildrenInv'
    BY <1>1, <1>3, <1>7, <2>4 DEF ChildrenInv, Parent
  <2>16. KnownInv'
    BY <1>3, <1>6, <1>7, <1>8, <2>4 DEF KnownInv, Known, Creates
  <2>17. LeakInv'
    BY <1>1, <1>3, <1>7, <2>4 DEF LeakInv, Removes, Parent
  <2> QED
    BY <2>5, <2>9, <2>10, <2>11, <2>12, <2>13, <2>14, <2>15, <2>16, <2>17
<1>10. CASE t \notin G
  <2>1. Instead(t, <<g>>)
    <3>1. <<g>> \o <<>> = <<g>>
      OBVIOUS
    <3>2. Instead(t, <<CancelCall(c, FALSE, err[Parent(c)])>> \o <<>>)
      BY <1>2, <1>10 DEF Inherit
    <3> QED
      BY <1>5, <3>1, <3>2
  <2>2. StackOK' /\ Replaced(t, g)
    BY <1>1, <1>6, <2>1, GotoFrames DEF CtxInv
  <2>3. /\ \A u \in Threads : Depth(u)' = Depth(u)
        /\ Frame(t, 1)' = g
        /\ \A u \in Threads : \A k \in 1 .. Depth(u) : u # t => Frame(u, k)' = Frame(u, k)
    BY <1>3, <2>2 DEF Replaced, Kept
  <2>4. TypeOK'
    BY <1>7, <2>2 DEF CtxInv, TypeOK, StackOK
  <2>5. hook[c] # "set"
    <3>1. tree[c].link = "watch" \/ hook[c] = "fired"
      BY <1>1, <1>2, <1>10, TopInv
    <3> QED
      BY <3>1 DEF CtxInv, LeakInv
  <2>6. Known(c)
    BY <1>3, <1>8, <1>10 DEF CtxInv, KnownInv, Creates
  <2> USE DEF CtxInv, Early, Late, Cancels, Watches
  <2>7. StackInv'
    BY <1>1, <1>6, <1>8, <2>3 DEF StackInv
  <2>8. LockInv'
    BY <1>3, <1>6, <1>7, <2>3 DEF LockInv, Holds, Parent
  <2>9. ErrInv'
    BY <1>7 DEF ErrInv, ParentDone, Parent, Closed
  <2>10. FrameInv'
    BY <1>3, <1>6, <1>7, <2>3, <2>5 DEF FrameInv, ParentDone, Parent
  <2>11. ReachInv'
    BY <1>3, <1>6, <1>7, <2>3 DEF ReachInv, Reaching
  <2>12. RegisterInv'
    BY <1>3, <1>6, <1>7, <2>3 DEF RegisterInv, Reaching, Parent
  <2>13. ChildrenInv'
    BY <1>1, <1>3, <1>7, <2>3 DEF ChildrenInv, Parent
  <2>14. KnownInv'
    BY <1>3, <1>6, <1>7, <1>8, <1>10, <2>3 DEF KnownInv, Known, Creates
  <2>15. LeakInv'
    BY <1>1, <1>3, <1>7, <2>3 DEF LeakInv, Removes, Parent
  <2> QED
    BY <2>4, <2>7, <2>8, <2>9, <2>10, <2>11, <2>12, <2>13, <2>14, <2>15
<1> QED
  BY <1>9, <1>10

(* The mutex of the parent is free: nobody is at its children.             *)
LEMMA FreeFacts ==
  ASSUME CtxInv, NEW p \in C, mu[p] = Nobody
  PROVE  /\ \A u \in Threads : \A k \in 1 .. Depth(u) : ~Holds(Frame(u, k), p)
         /\ err[p] # None => children[p] = {}
<1>1. \A u \in Threads : \A k \in 1 .. Depth(u) : ~Holds(Frame(u, k), p)
  BY ContextAssumption DEF CtxInv, LockInv
<1>2. err[p] # None => children[p] = {}
  BY <1>1 DEF CtxInv, ChildrenInv, Holds
<1> QED
  BY <1>1, <1>2

(* Registration with a parent that has a cancelCtx.                        *)
LEMMA RegisterStep ==
  ASSUME CtxInv, NEW t \in Threads, Register(t)
  PROVE  CtxInv'
<1>1. /\ stack[t] # <<>> /\ Top(t).at = "register" /\ Top(t) \in Frames
      /\ \A u \in Threads : Depth(u) \in Nat
      /\ \A u \in Threads : \A k \in 1 .. Depth(u) : Frame(u, k).c \in C
  <2>1. At(t, "register")
    BY DEF Register
  <2> QED
    BY <2>1, TopFacts
<1>2. PICK c \in C : c = Top(t).c
  BY TopFacts DEF Register
<1>3. t \in G /\ Parent(c) \in C /\ tree[c].link = "direct"
  BY <1>1, <1>2, TopInv DEF Early
<1>4. /\ Depth(t) = 1 /\ Frame(t, 1).at = "register" /\ Frame(t, 1).c = c
      /\ ~Known(c) /\ c \notin made
      /\ \A u \in Threads : \A k \in 1 .. Depth(u) : Frame(u, k).c = c => u = t /\ k = 1
  BY <1>1, <1>2, <1>3, EarlyUnknown DEF Early
<1>5. /\ err[c] = None /\ hook[c] = "none" /\ timer[c] = "nil" /\ fate[c] = "none"
      /\ \A p \in C : c \notin children[p]
  BY <1>4, UnknownFacts
<1>6. \A d \in C : t # Watcher(d)
  BY <1>3, ContextAssumption
<1>7. PICK p \in C : p = Parent(c) /\ mu[p] = Nobody
  BY <1>2, <1>3 DEF Register
<1>8. \A u \in Threads : \A k \in 1 .. Depth(u) : ~Holds(Frame(u, k), p)
  BY <1>7, FreeFacts
<1>9. UNCHANGED <<done, err, timer, fate, hook, calls, made, tree>>
  BY DEF Register
<1>10. CASE /\ err[p] # None
            /\ mu' = [mu EXCEPT ![p] = t]
            /\ Instead(t, <<CancelCall(c, FALSE, err[p]), [Top(t) EXCEPT !.at = "unlock"]>>)
            /\ UNCHANGED children
  <2>1. PICK f \in Frames : f = [Top(t) EXCEPT !.at = "unlock"] /\ f.at = "unlock" /\ f.c = c
    <3>1. LET h == [Top(t) EXCEPT !.at = "unlock"] IN h \in Frames /\ h.at = "unlock" /\ h.c = c
      BY <1>1, <1>2, FrameEdit, ZenonT(40) DEF Places
    <3> QED
      BY <3>1
  <2>2. PICK g : g = CancelCall(c, FALSE, err[p])
    OBVIOUS
  <2>3. g \in Frames /\ g.at = "cancel" /\ g.c = c /\ ~g.rm /\ g.why = err[p] /\ g.why # None
    <3>1. err[p] \in Reasons
      BY <1>10 DEF CtxInv, TypeOK
    <3> QED
      BY <2>2, <3>1, PassedOn DEF CtxInv
  <2>4. StackOK' /\ Pushed(t, g, f)
    BY <1>1, <1>10, <2>1, <2>2, <2>3, PushFrames DEF CtxInv
  <2>5. /\ \A u \in Threads \ {t} : Depth(u)' = Depth(u)
        /\ Depth(t)' = 2 /\ Frame(t, 1)' = f /\ Frame(t, 2)' = g
        /\ \A u \in Threads : \A k \in 1 .. Depth(u) : u # t => Frame(u, k)' = Frame(u, k)
        /\ \A u \in Threads : \A k \in 1 .. Depth(u)' :
             \/ u = t /\ k = 1 /\ Frame(u, k)' = f
             \/ u = t /\ k = 2 /\ Frame(u, k)' = g
             \/ u # t /\ k \in 1 .. Depth(u) /\ Frame(u, k)' = Frame(u, k)
        /\ f.at = "unlock" /\ f.c = c
    BY <1>4, <2>1, <2>4 DEF Pushed, Kept
  <2>6. TypeOK'
    BY <1>9, <1>10, <2>4 DEF CtxInv, TypeOK, StackOK
  <2>7. mu'[p] = t /\ \A d \in C \ {p} : mu'[d] = mu[d]
    BY <1>10 DEF CtxInv, TypeOK
  <2>8. err[p] # None /\ children' = children
    BY <1>10
  <2> USE DEF CtxInv, Early, Late, Cancels, Watches
  <2>9. StackInv'
    BY <1>4, <2>3, <2>5 DEF StackInv
  <2>10. LockInv'
    BY <1>7, <1>8, <1>9, <2>3, <2>5, <2>7 DEF LockInv, Holds, Parent
  <2>11. ErrInv'
    BY <1>9 DEF ErrInv, ParentDone, Parent, Closed
  <2>12. FrameInv'
    BY <1>3, <1>5, <1>7, <1>9, <2>3, <2>5, <2>8
    DEF FrameInv, ParentDone, Parent
  <2>13. ReachInv'
    BY <1>9, <2>3, <2>5, <2>8 DEF ReachInv, Reaching
  <2>14. RegisterInv'
    BY <1>9, <2>3, <2>5, <2>8 DEF RegisterInv, Reaching, Parent
  <2>15. ChildrenInv'
    BY <1>4, <1>9, <2>5, <2>8 DEF ChildrenInv, Parent
  <2>16. KnownInv'
    BY <1>4, <1>9, <2>3, <2>5, <2>8 DEF KnownInv, Known, Creates
  <2>17. LeakInv'
    BY <1>4, <1>9, <2>5, <2>8 DEF LeakInv, Removes, Parent
  <2> QED
    BY <2>6, <2>9, <2>10, <2>11, <2>12, <2>13, <2>14, <2>15, <2>16, <2>17
<1>11. CASE /\ err[p] = None
            /\ children' = [children EXCEPT ![p] = @ \cup {c}]
            /\ Goto(t, "made")
            /\ UNCHANGED mu
  <2>1. PICK f \in Frames : f.at = "made" /\ f.c = c /\ StackOK' /\ Replaced(t, f)
    BY <1>2, <1>11, GotoStep DEF Places, Register
  <2>2. /\ \A u \in Threads : Depth(u)' = Depth(u)
        /\ Frame(t, 1)' = f
        /\ \A u \in Threads : \A k \in 1 .. Depth(u) : u # t => Frame(u, k)' = Frame(u, k)
    BY <1>4, <2>1 DEF Replaced, Kept
  <2>3. /\ children'[p] = children[p] \cup {c}
        /\ \A d \in C \ {p} : children'[d] = children[d]
    BY <1>11 DEF CtxInv, TypeOK
  <2>4. TypeOK'
    BY <1>9, <1>11, <2>1 DEF CtxInv, TypeOK, StackOK
  <2>5. err[p] = None /\ mu' = mu
    BY <1>11
  <2> USE DEF CtxInv, Early, Late, Cancels, Watches
  <2>6. StackInv'
    BY <1>4, <2>1, <2>2 DEF StackInv
  <2>7. LockInv'
    BY <1>4, <1>9, <2>1, <2>2, <2>5 DEF LockInv, Holds, Parent
  <2>8. ErrInv'
    BY <1>9 DEF ErrInv, ParentDone, Parent, Closed
  <2>9. FrameInv'
    BY <1>1, <1>4, <1>9, <2>1, <2>2, <2>3 DEF FrameInv, ParentDone, Parent
  <2>10. ReachInv'
    <3>1. ASSUME NEW u \in Threads, NEW k \in 1 .. Depth(u)', Frame(u, k)'.at = "children"
          PROVE  /\ u # t /\ k \in 1 .. Depth(u) /\ Frame(u, k)' = Frame(u, k)
                 /\ \A d : Reaching(u, k, d)' <=> Reaching(u, k, d)
      BY <3>1, <1>4, <2>1, <2>2 DEF Reaching
    <3> QED
      BY <3>1, <1>1, <1>8, <1>9, <2>3 DEF ReachInv, Holds
  <2>11. RegisterInv'
    BY <1>4, <1>7, <1>9, <2>1, <2>2, <2>3 DEF RegisterInv, Reaching, Parent
  <2>12. ChildrenInv'
    BY <1>3, <1>4, <1>7, <1>9, <2>2, <2>3, <2>5 DEF ChildrenInv, Parent
  <2>13. KnownInv'
    BY <1>4, <1>9, <2>1, <2>2, <2>3 DEF KnownInv, Known, Creates
  <2>14. LeakInv'
    BY <1>4, <1>5, <1>9, <2>2, <2>3 DEF LeakInv, Removes, Parent
  <2> QED
    BY <2>4, <2>6, <2>7, <2>8, <2>9, <2>10, <2>11, <2>12, <2>13, <2>14
<1> QED
  BY <1>2, <1>7, <1>10, <1>11 DEF Register

LEMMA RegisterUnlockStep ==
  ASSUME CtxInv, NEW t \in Threads, RegisterUnlock(t)
  PROVE  CtxInv'
<1>1. /\ stack[t] # <<>> /\ Top(t).at = "unlock" /\ Top(t) \in Frames /\ Top(t).c \in C
      /\ Top(t) = Frame(t, Depth(t)) /\ Depth(t) \in Nat \ {0}
      /\ \A u \in Threads : Depth(u) \in Nat
      /\ \A u \in Threads : \A k \in 1 .. Depth(u) : Frame(u, k).c \in C
  <2>1. At(t, "unlock")
    BY DEF RegisterUnlock
  <2> QED
    BY <2>1, TopFacts
<1>2. PICK c \in C : c = Top(t).c
  BY <1>1
<1>3. t \in G /\ ParentDone(c) /\ tree[c].link = "direct"
  BY <1>1, <1>2, TopInv DEF Late
<1>4. PICK p \in C : p = Parent(c)
  BY <1>3 DEF ParentDone
<1>5. Depth(t) = 1 /\ Frame(t, 1).at = "unlock" /\ Frame(t, 1).c = c
  <2>1. Frame(t, Depth(t)).at = "unlock"
    BY <1>1
  <2>2. Depth(t) = 1
    BY <1>1, <2>1 DEF CtxInv, StackInv, Cancels
  <2> QED
    BY <1>1, <1>2, <2>2
<1>6. PICK f \in Frames : f.at = "made" /\ f.c = c /\ StackOK' /\ Replaced(t, f)
  BY <1>2, GotoStep DEF Places, RegisterUnlock
<1>7. /\ \A u \in Threads : Depth(u)' = Depth(u)
      /\ Frame(t, 1)' = f
      /\ \A u \in Threads : \A k \in 1 .. Depth(u) : u # t => Frame(u, k)' = Frame(u, k)
  BY <1>5, <1>6 DEF Replaced, Kept
<1>8. mu'[p] = Nobody /\ \A d \in C \ {p} : mu'[d] = mu[d]
  BY <1>2, <1>4 DEF RegisterUnlock, CtxInv, TypeOK
<1>9. UNCHANGED <<done, children, err, timer, fate, hook, calls, made, tree>>
  BY DEF RegisterUnlock
<1>10. TypeOK'
  <2>1. mu' = [mu EXCEPT ![p] = Nobody]
    BY <1>2, <1>4 DEF RegisterUnlock
  <2> QED
    BY <1>6, <1>9, <2>1 DEF CtxInv, TypeOK, StackOK
<1>11. \A u \in Threads : \A k \in 1 .. Depth(u) : Holds(Frame(u, k), p) => u = t /\ k = 1
  BY <1>4, <1>5 DEF CtxInv, LockInv, Holds
<1> USE DEF CtxInv, Early, Late, Cancels, Watches
<1>12. StackInv'
  BY <1>5, <1>6, <1>7 DEF StackInv
<1>13. LockInv'
  BY <1>4, <1>5, <1>6, <1>7, <1>8, <1>9 DEF LockInv, Holds, Parent
<1>14. ErrInv'
  BY <1>9 DEF ErrInv, ParentDone, Parent, Closed
<1>15. FrameInv'
  BY <1>5, <1>6, <1>7, <1>9 DEF FrameInv, ParentDone, Parent
<1>16. ReachInv'
  BY <1>5, <1>6, <1>7, <1>9 DEF ReachInv, Reaching
<1>17. RegisterInv'
  BY <1>5, <1>6, <1>7, <1>9 DEF RegisterInv, Reaching, Parent
<1>18. ChildrenInv'
  BY <1>5, <1>7, <1>9 DEF ChildrenInv, Parent
<1>19. KnownInv'
  BY <1>5, <1>6, <1>7, <1>9 DEF KnownInv, Known, Creates
<1>20. LeakInv'
  BY <1>5, <1>7, <1>9 DEF LeakInv, Removes, Parent
<1> QED
  BY <1>10, <1>12, <1>13, <1>14, <1>15, <1>16, <1>17, <1>18, <1>19, <1>20

(* cancelCtx.cancel sets the error, and keeps the mutex for the children.  *)
LEMMA CancelFirstStep ==
  ASSUME CtxInv, NEW t \in Threads, At(t, "cancel"), mu[Top(t).c] = Nobody,
         err[Top(t).c] = None,
         err' = [err EXCEPT ![Top(t).c] = Top(t).why],
         done' = [done EXCEPT ![Top(t).c] = IF @ = "nil" THEN "closedchan" ELSE "closed"],
         mu' = [mu EXCEPT ![Top(t).c] = t],
         Instead(t, <<[Top(t) EXCEPT !.at = "children", !.todo = children[Top(t).c]]>>),
         UNCHANGED <<children, timer, fate, hook, calls, made, tree>>
  PROVE  CtxInv'
<1>1. /\ stack[t] # <<>> /\ Top(t).at = "cancel" /\ Top(t) \in Frames /\ Top(t).c \in C
      /\ Top(t) = Frame(t, Depth(t)) /\ Depth(t) \in Nat \ {0}
      /\ \A u \in Threads : Depth(u) \in Nat
      /\ \A u \in Threads : \A k \in 1 .. Depth(u) : Frame(u, k).c \in C
  BY TopFacts
<1>2. PICK c \in C : c = Top(t).c
  BY <1>1
<1>3. PICK why : why = Top(t).why
  OBVIOUS
<1>4. PICK n \in Nat \ {0} : n = Depth(t)
  BY <1>1
<1>5. PICK f \in Frames : /\ f.at = "children" /\ f.c = c /\ f.why = why /\ f.rm = Top(t).rm
                          /\ f.todo = children[c] /\ Instead(t, <<f>>)
  <2> DEFINE f == [Top(t) EXCEPT !.at = "children", !.todo = children[Top(t).c]]
  <2>1. children[Top(t).c] \in SUBSET C
    BY <1>1 DEF CtxInv, TypeOK
  <2>2. f \in Frames /\ f.at = "children" /\ f.c = Top(t).c /\ f.why = Top(t).why
        /\ f.rm = Top(t).rm /\ f.todo = children[Top(t).c]
    BY <1>1, <2>1 DEF Frames, Places
  <2>3. Instead(t, <<f>>)
    OBVIOUS
  <2> HIDE DEF f
  <2> QED
    BY <1>2, <1>3, <2>2, <2>3
<1>6. StackOK' /\ Replaced(t, f)
  BY <1>1, <1>5, GotoFrames DEF CtxInv
<1>7. /\ \A u \in Threads : Depth(u)' = Depth(u)
      /\ Frame(t, n)' = f /\ n \in 1 .. Depth(t)
      /\ \A u \in Threads : \A k \in 1 .. Depth(u) : u # t \/ k # n => Frame(u, k)' = Frame(u, k)
      /\ Frame(t, n).at = "cancel" /\ Frame(t, n).c = c
  BY <1>1, <1>2, <1>4, <1>6 DEF Replaced, Kept
<1>8. /\ why \in Reasons /\ why # None
      /\ why.by # c => Parent(c) \in C /\ why = err[Parent(c)]
      /\ ~f.rm => hook[c] # "set" /\ (tree[c].link = "direct" => ParentDone(c))
      /\ tree[c].kind = "after" => fate[c] # "none" \/ ParentDone(c)
  <2>1. why \in Reasons \cup {None}
    BY <1>1, <1>3 DEF Frames
  <2> QED
    BY <1>1, <1>2, <1>3, <1>5, <2>1, TopInv DEF Cancels
<1>9. /\ err'[c] = why /\ err[c] = None /\ \A d \in C \ {c} : err'[d] = err[d]
      /\ done'[c] \in {"closed", "closedchan"} /\ \A d \in C \ {c} : done'[d] = done[d]
      /\ mu'[c] = t /\ \A d \in C \ {c} : mu'[d] = mu[d]
  BY <1>2, <1>3 DEF CtxInv, TypeOK
<1>10. TypeOK'
  <2>1. /\ err' = [err EXCEPT ![c] = why] /\ mu' = [mu EXCEPT ![c] = t]
        /\ done' = [done EXCEPT ![c] = IF @ = "nil" THEN "closedchan" ELSE "closed"]
    BY <1>2, <1>3
  <2>2. err' \in [C -> Reasons \cup {None}] /\ mu' \in [C -> Threads \cup {Nobody}]
        /\ done' \in [C -> {"nil", "open", "closed", "closedchan"}]
    <3>1. /\ err \in [C -> Reasons \cup {None}] /\ mu \in [C -> Threads \cup {Nobody}]
          /\ done \in [C -> {"nil", "open", "closed", "closedchan"}]
      BY DEF CtxInv, TypeOK
    <3>2. why \in Reasons
      BY <1>8
    <3>3. err' \in [C -> Reasons \cup {None}]
      BY ONLY <2>1, <3>1, <3>2
    <3>4. mu' \in [C -> Threads \cup {Nobody}]
      BY ONLY <2>1, <3>1, t \in Threads
    <3>5. done' \in [C -> {"nil", "open", "closed", "closedchan"}]
      BY ONLY <2>1, <3>1
    <3> QED
      BY <3>3, <3>4, <3>5
  <2> QED
    BY <1>6, <2>2 DEF CtxInv, TypeOK, StackOK
<1>11. \A u \in Threads : \A k \in 1 .. Depth(u) : ~Holds(Frame(u, k), c)
  BY <1>2, FreeFacts
<1>12. Known(c)
  BY <1>7 DEF CtxInv, KnownInv, Creates, Early, Late
<1>13. UNCHANGED <<children, timer, fate, hook, calls, made, tree>>
  OBVIOUS
<1>14. f.at = "children" /\ f.c = c /\ f.why = why /\ f.todo = children[c]
  BY <1>5
<1>15. f.rm <=> Top(t).rm
  BY <1>5
<1> USE DEF CtxInv, Early, Late, Cancels, Watches
<1>16. StackInv'
  BY <1>7, <1>14 DEF StackInv
<1>17. LockInv'
  BY <1>7, <1>9, <1>11, <1>14 DEF LockInv, Holds, Parent
<1>18. ErrInv'
  BY <1>8, <1>9 DEF ErrInv, ParentDone, Parent, Closed
<1>19. FrameInv'
  BY <1>7, <1>8, <1>9, <1>14 DEF FrameInv, ParentDone, Parent
<1>20. ReachInv'
  BY <1>7, <1>8, <1>9, <1>14 DEF ReachInv, Reaching
<1>21. RegisterInv'
  BY <1>7, <1>8, <1>9, <1>14 DEF RegisterInv, Reaching, Parent
<1>22. ChildrenInv'
  BY <1>7, <1>9, <1>14 DEF ChildrenInv, Parent
<1>23. KnownInv'
  BY <1>1, <1>7, <1>14, SMTT(30) DEF KnownInv, Known, Creates
<1>24. LeakInv'
  <2>1. ASSUME NEW d \in C
        PROVE  /\ timer'[d] # "nil" => tree'[d].kind = "timer"
               /\ hook'[d] # "none" => tree'[d].link = "hook" /\ Parent(d)' \in C
    BY <1>13 DEF LeakInv, Parent
  <2>2. ASSUME NEW d \in C, timer'[d] = "armed" /\ err'[d] # None
        PROVE  \E u \in Threads : \E k \in 1 .. Depth(u)' :
                 Frame(u, k)'.at \in Cancels /\ Frame(u, k)'.c = d
    <3>1. CASE d = c
      BY <1>7, <1>14, <3>1
    <3>2. CASE d # c
      <4>1. PICK u \in Threads : \E k \in 1 .. Depth(u) :
              Frame(u, k).at \in Cancels /\ Frame(u, k).c = d
        BY <1>9, <1>13, <2>2, <3>2 DEF LeakInv
      <4> QED
        BY <1>7, <3>2, <4>1
    <3> QED
      BY <3>1, <3>2
  <2>3. ASSUME NEW d \in C, err'[d] # None,
               hook'[d] = "set" \/ \E p \in C : d \in children'[p] /\ err'[p] = None
        PROVE  \E u \in Threads : \E k \in 1 .. Depth(u)' :
                 Removes(Frame(u, k), d)'
    <3>1. CASE d = c
      <4>1. f.rm
        BY <1>8, <2>3, <3>1 DEF ChildrenInv, ParentDone
      <4> QED
        BY <1>7, <1>14, <3>1, <4>1 DEF Removes
    <3>2. CASE d # c
      <4>1. PICK u \in Threads : \E k \in 1 .. Depth(u) : Removes(Frame(u, k), d)
        BY <1>9, <1>13, <2>3, <3>2 DEF LeakInv
      <4> QED
        BY <1>7, <1>13, <3>2, <4>1 DEF Removes
    <3> QED
      BY <3>1, <3>2
  <2> QED
    BY <2>1, <2>2, <2>3 DEF LeakInv
<1> QED
  BY <1>10, <1>16, <1>17, <1>18, <1>19, <1>20, <1>21, <1>22, <1>23, <1>24

(* A cancel of c is through with cancelCtx.cancel or with a later part: it *)
(* goes on, or returns.  What it has undone before is gone.                *)
LEMMA LeaveStep ==
  ASSUME CtxInv, NEW t \in Threads, stack[t] # <<>>, NEW c \in C, c = Top(t).c,
         Top(t).at \in Cancels, err[c] # None,
         NEW next \in {"remove", "finish", "gone"}, StackOK',
         \/ next = "gone" /\ Popped(t)
         \/ next # "gone" /\ \E f \in Frames : f.at = next /\ f.c = c /\ Replaced(t, f),
         UNCHANGED <<err, done, made, calls, tree>>,
         mu' \in [C -> Threads \cup {Nobody}],
         children' \in [C -> SUBSET C],
         timer' \in [C -> {"nil", "armed", "fired"}],
         fate' \in [C -> {"none", "started", "stopped"}],
         hook' \in [C -> {"none", "set", "fired", "stopped"}],
         \A d \in C : mu'[d] = mu[d] \/ (d = c /\ Top(t).at = "children"),
         \A p \in C :
           /\ children'[p] \subseteq children[p]
           /\ \A d \in children[p] \ children'[p] : err[d] # None
           /\ \/ children'[p] = children[p]
              \/ p = c /\ Top(t).at = "children"
              \/ mu[p] = Nobody,
         Top(t).at = "children" => children'[c] = {},
         \A d \in C :
           /\ timer'[d] = timer[d] \/ timer'[d] = "nil"
           /\ hook'[d] = hook[d] \/ (hook[d] = "set" /\ hook'[d] = "stopped")
           /\ fate'[d] = fate[d]
              \/ (d = c /\ fate'[d] # "none" /\ fate[d] = "none" /\ tree[d].kind = "after"),
         timer'[c] = "armed" => next # "gone",
         hook'[c] = "set" \/ (\E p \in C : c \in children'[p] /\ err[p] = None) =>
           next = "remove" \/ ~Removes(Top(t), c)
  PROVE  CtxInv'
<1>1. TypeOK'
  BY DEF CtxInv, TypeOK, StackOK
<1>2. /\ Depth(t) \in Nat \ {0} /\ Top(t) = Frame(t, Depth(t))
      /\ \A u \in Threads : Depth(u) \in Nat
      /\ \A u \in Threads : \A k \in 1 .. Depth(u) : Frame(u, k).c \in C
  BY FrameFacts DEF CtxInv, Frames
<1>3. PICK n \in Nat \ {0} : n = Depth(t)
  BY <1>2
<1>4. n \in 1 .. Depth(t) /\ Top(t) = Frame(t, n) /\ Frame(t, n).at \in Cancels /\ Frame(t, n).c = c
  BY <1>2, <1>3
<1>5. PICK f : next # "gone" => f.at = next /\ f.c = c /\ Replaced(t, f)
  OBVIOUS
<1>6. /\ \A u \in Threads \ {t} : Depth(u)' = Depth(u)
      /\ Depth(t)' \in {n - 1, n} /\ (Depth(t)' = n <=> next # "gone")
      /\ \A u \in Threads : \A k \in 1 .. Depth(u) :
           u # t \/ k # n => k \in 1 .. Depth(u)' /\ Frame(u, k)' = Frame(u, k)
      /\ \A u \in Threads : \A k \in 1 .. Depth(u)' :
           \/ u = t /\ k = n /\ Frame(u, k)' = f /\ next # "gone"
           \/ (u # t \/ k # n) /\ k \in 1 .. Depth(u) /\ Frame(u, k)' = Frame(u, k)
  <2>1. CASE next = "gone"
    BY <1>2, <1>3, <2>1 DEF Popped, Kept
  <2>2. CASE next # "gone"
    BY <1>3, <1>5, <2>2 DEF Replaced, Kept
  <2> QED
    BY <2>1, <2>2
<1>7. next # "gone" => f.at = next /\ f.c = c
  BY <1>5
<1>8. Known(c)
  BY DEF CtxInv, KnownInv
<1>9. tree[c].kind = "after" => fate[c] # "none" \/ ParentDone(c)
  BY TopInv
<1>10. UNCHANGED <<err, done, made, calls, tree>>
  OBVIOUS
<1>11. \A p \in C : children'[p] # children[p] =>
         \A u \in Threads : \A k \in 1 .. Depth(u) : Holds(Frame(u, k), p) => u = t /\ k = n
  <2>1. ASSUME NEW p \in C, children'[p] # children[p], mu[p] = Nobody,
               NEW u \in Threads, NEW k \in 1 .. Depth(u), Holds(Frame(u, k), p)
        PROVE  FALSE
    BY <2>1, FreeFacts
  <2>2. ASSUME Top(t).at = "children"
        PROVE  \A u \in Threads : \A k \in 1 .. Depth(u) : Holds(Frame(u, k), c) => u = t /\ k = n
    BY <1>4, <2>2 DEF CtxInv, LockInv, Holds
  <2> QED
    BY <2>1, <2>2
<1>12. \A d \in C : mu'[d] # mu[d] =>
         \A u \in Threads : \A k \in 1 .. Depth(u) : Holds(Frame(u, k), d) => u = t /\ k = n
  BY <1>4 DEF CtxInv, LockInv, Holds
<1>13. \A p \in C :
         /\ children'[p] \subseteq children[p]
         /\ \A d \in children[p] \ children'[p] : err[d] # None
  OBVIOUS
<1>14. Frame(t, n).at = "children" => children'[c] = {}
  BY <1>4
<1>15. \A d \in C :
         /\ timer'[d] = timer[d] \/ timer'[d] = "nil"
         /\ hook'[d] = hook[d] \/ (hook[d] = "set" /\ hook'[d] = "stopped")
         /\ fate'[d] = fate[d]
            \/ (d = c /\ fate'[d] # "none" /\ fate[d] = "none" /\ tree[d].kind = "after")
  OBVIOUS
<1> USE DEF CtxInv, Early, Late, Cancels, Watches
<1>16. StackInv'
  BY <1>2, <1>4, <1>6, <1>7 DEF StackInv
<1>17. LockInv'
  BY <1>2, <1>4, <1>6, <1>7, <1>8, <1>9, <1>10, <1>11, <1>12, <1>13, <1>14, <1>15, SMTT(30) DEF LockInv, Holds, Parent
<1>18. ErrInv'
  BY <1>2, <1>4, <1>6, <1>7, <1>8, <1>9, <1>10, <1>11, <1>12, <1>13, <1>14, <1>15 DEF ErrInv, ParentDone, Parent, Closed
<1>19. FrameInv'
  <2>1. ASSUME NEW u \in Threads, NEW k \in 1 .. Depth(u), u # t \/ k # n
        PROVE  LET h == Frame(u, k) IN
          /\ h.at = "children" => children'[h.c] = children[h.c]
          /\ hook[h.c] # "set" => hook'[h.c] # "set"
          /\ fate[h.c] # "none" => fate'[h.c] # "none"
          /\ hook[h.c] = "fired" => hook'[h.c] = "fired"
    <3>1. Frame(u, k).at = "children" => Holds(Frame(u, k), Frame(u, k).c)
      BY DEF Holds
    <3> QED
      BY <1>2, <1>11, <1>15, <2>1, <3>1 DEF FrameInv
  <2>2. \A d \in C : ParentDone(d)' <=> ParentDone(d)
    BY <1>10 DEF ParentDone, Parent
  <2>3. tree[c].kind = "after" => fate'[c] # "none" \/ ParentDone(c)
    BY <1>9, <1>15
  <2>4. \A d \in C : Parent(d)' = Parent(d)
    BY <1>10 DEF Parent
  <2> QED
    BY <1>2, <1>4, <1>6, <1>7, <1>10, <2>1, <2>2, <2>3, <2>4 DEF FrameInv
<1>20. ReachInv'
  BY <1>2, <1>4, <1>6, <1>7, <1>8, <1>9, <1>10, <1>11, <1>12, <1>13, <1>14, <1>15 DEF ReachInv, Reaching
<1>21. RegisterInv'
  BY <1>2, <1>4, <1>6, <1>7, <1>8, <1>9, <1>10, <1>11, <1>12, <1>13, <1>14, <1>15 DEF RegisterInv, Reaching, Parent
<1>22. ChildrenInv'
  BY <1>2, <1>4, <1>6, <1>7, <1>8, <1>9, <1>10, <1>11, <1>12, <1>13, <1>14, <1>15 DEF ChildrenInv, Parent
<1>23. KnownInv'
  BY <1>2, <1>4, <1>6, <1>7, <1>8, <1>9, <1>10, <1>11, <1>12, <1>13, <1>14, <1>15 DEF KnownInv, Known, Creates
<1>24. LeakInv'
  BY <1>2, <1>4, <1>6, <1>7, <1>8, <1>9, <1>10, <1>11, <1>12, <1>13, <1>14, <1>15 DEF LeakInv, Removes, Parent
<1> QED
  BY <1>1, <1>16, <1>17, <1>18, <1>19, <1>20, <1>21, <1>22, <1>23, <1>24

(* Where a cancel that takes nothing out of the parent goes on.            *)
LEMMA ReturnCases ==
  ASSUME NEW t, Return(t)
  PROVE  Goto(t, "finish") \/ (tree[Top(t).c].kind = "cancel" /\ Pop(t))
BY DEF Return

(* Who finds c cancelled goes on or returns at once.                       *)
LEMMA CancelAgainStep ==
  ASSUME CtxInv, NEW t \in Threads, At(t, "cancel"), mu[Top(t).c] = Nobody,
         err[Top(t).c] # None,
         IF Top(t).rm /\ tree[Top(t).c].kind # "cancel" THEN Goto(t, "remove") ELSE Return(t),
         UNCHANGED <<mu, done, children, err, timer, fate, hook, calls, made, tree>>
  PROVE  CtxInv'
<1>1. stack[t] # <<>> /\ Top(t).at = "cancel" /\ Top(t).c \in C
  BY TopFacts
<1>2. PICK c \in C : c = Top(t).c
  BY <1>1
<1>3. PICK next \in {"remove", "finish", "gone"} :
        /\ StackOK'
        /\ \/ next = "gone" /\ Popped(t)
           \/ next # "gone" /\ \E f \in Frames : f.at = next /\ f.c = c /\ Replaced(t, f)
        /\ next = "remove" \/ ~(Top(t).rm /\ tree[c].kind # "cancel")
        /\ next = "gone" => tree[c].kind = "cancel"
  <2>1. \/ Goto(t, "remove")
        \/ ~(Top(t).rm /\ tree[c].kind # "cancel") /\ Goto(t, "finish")
        \/ tree[c].kind = "cancel" /\ Pop(t)
    BY <1>2, ReturnCases
  <2>2. CASE Goto(t, "remove")
    <3>1. StackOK' /\ \E f \in Frames : f.at = "remove" /\ f.c = c /\ Replaced(t, f)
      BY <1>1, <1>2, <2>2, GotoStep DEF Places
    <3> WITNESS "remove" \in {"remove", "finish", "gone"}
    <3> QED
      BY <2>2, <3>1
  <2>3. CASE ~(Top(t).rm /\ tree[c].kind # "cancel") /\ Goto(t, "finish")
    <3>1. StackOK' /\ \E f \in Frames : f.at = "finish" /\ f.c = c /\ Replaced(t, f)
      BY <1>1, <1>2, <2>3, GotoStep DEF Places
    <3> WITNESS "finish" \in {"remove", "finish", "gone"}
    <3> QED
      BY <2>3, <3>1
  <2>4. CASE tree[c].kind = "cancel" /\ Pop(t)
    <3>1. StackOK' /\ Popped(t)
      BY <1>1, <2>4, PopStep
    <3> WITNESS "gone" \in {"remove", "finish", "gone"}
    <3> QED
      BY <2>4, <3>1
  <2> QED
    BY <2>1, <2>2, <2>3, <2>4
<1>5. next = "remove" \/ ~Removes(Top(t), c)
  BY <1>1, <1>3 DEF Removes
<1>6. timer'[c] = "armed" => next # "gone"
  BY <1>3 DEF CtxInv, LeakInv
<1>7. /\ mu' \in [C -> Threads \cup {Nobody}] /\ children' \in [C -> SUBSET C]
      /\ timer' \in [C -> {"nil", "armed", "fired"}]
      /\ fate' \in [C -> {"none", "started", "stopped"}]
      /\ hook' \in [C -> {"none", "set", "fired", "stopped"}]
  BY DEF CtxInv, TypeOK
<1> QED
  BY <1>1, <1>2, <1>3, <1>5, <1>6, <1>7, LeaveStep DEF Cancels

LEMMA CancelStep ==
  ASSUME CtxInv, NEW t \in Threads, Cancel(t)
  PROVE  CtxInv'
BY CancelFirstStep, CancelAgainStep DEF Cancel

(* The children are through; the mutex is released.                        *)
LEMMA CancelUnlockStep ==
  ASSUME CtxInv, NEW t \in Threads, CancelUnlock(t)
  PROVE  CtxInv'
<1>1. /\ stack[t] # <<>> /\ Top(t).at = "children" /\ Top(t).c \in C
      /\ Depth(t) \in 1 .. Depth(t) /\ Top(t) = Frame(t, Depth(t)) /\ Depth(t) \in Nat
  <2>1. At(t, "children")
    BY DEF CancelUnlock
  <2> QED
    BY <2>1, TopFacts
<1>2. PICK c \in C : c = Top(t).c
  BY <1>1
<1>3. PICK next \in {"remove", "finish", "gone"} :
        /\ StackOK'
        /\ \/ next = "gone" /\ Popped(t)
           \/ next # "gone" /\ \E f \in Frames : f.at = next /\ f.c = c /\ Replaced(t, f)
        /\ next = "remove" \/ ~Top(t).rm
        /\ next = "gone" => tree[c].kind = "cancel"
  <2>1. \/ Goto(t, "remove")
        \/ ~Top(t).rm /\ Goto(t, "finish")
        \/ ~Top(t).rm /\ tree[c].kind = "cancel" /\ Pop(t)
    BY <1>2, ReturnCases DEF CancelUnlock
  <2>2. CASE Goto(t, "remove")
    <3>1. StackOK' /\ \E f \in Frames : f.at = "remove" /\ f.c = c /\ Replaced(t, f)
      BY <1>1, <1>2, <2>2, GotoStep DEF Places, CancelUnlock
    <3> WITNESS "remove" \in {"remove", "finish", "gone"}
    <3> QED
      BY <2>2, <3>1
  <2>3. CASE ~Top(t).rm /\ Goto(t, "finish")
    <3>1. StackOK' /\ \E f \in Frames : f.at = "finish" /\ f.c = c /\ Replaced(t, f)
      BY <1>1, <1>2, <2>3, GotoStep DEF Places, CancelUnlock
    <3> WITNESS "finish" \in {"remove", "finish", "gone"}
    <3> QED
      BY <2>3, <3>1
  <2>4. CASE ~Top(t).rm /\ tree[c].kind = "cancel" /\ Pop(t)
    <3>1. StackOK' /\ Popped(t)
      BY <1>1, <2>4, PopStep
    <3> WITNESS "gone" \in {"remove", "finish", "gone"}
    <3> QED
      BY <2>4, <3>1
  <2> QED
    BY <2>1, <2>2, <2>3, <2>4
<1>5. next = "remove" \/ ~Removes(Top(t), c)
  BY <1>1, <1>3 DEF Removes
<1>6. timer'[c] = "armed" => next # "gone"
  BY <1>3 DEF CtxInv, LeakInv, CancelUnlock
<1>7. /\ mu' = [mu EXCEPT ![c] = Nobody] /\ children' = [children EXCEPT ![c] = {}]
      /\ UNCHANGED <<done, err, timer, fate, hook, calls, made, tree>>
  BY <1>2 DEF CancelUnlock
<1>8. /\ mu' \in [C -> Threads \cup {Nobody}] /\ children' \in [C -> SUBSET C]
      /\ timer' \in [C -> {"nil", "armed", "fired"}]
      /\ fate' \in [C -> {"none", "started", "stopped"}]
      /\ hook' \in [C -> {"none", "set", "fired", "stopped"}]
  BY <1>7 DEF CtxInv, TypeOK
<1>9. /\ \A d \in C \ {c} : mu'[d] = mu[d] /\ children'[d] = children[d]
      /\ children'[c] = {}
  BY <1>7 DEF CtxInv, TypeOK
<1>10. \A d \in children[c] : err[d] # None
  <2>1. Top(t).todo = {}
    BY DEF CancelUnlock
  <2>2. \A d : ~Reaching(t, Depth(t), d)
    BY <1>1 DEF Reaching
  <2>3. children[c] \subseteq C
    BY DEF CtxInv, TypeOK
  <2> QED
    BY <1>1, <1>2, <2>1, <2>2, <2>3 DEF CtxInv, ReachInv
<1>11. err[c] # None
  BY <1>1, <1>2, TopInv
<1> QED
  BY <1>1, <1>2, <1>3, <1>5, <1>6, <1>7, <1>8, <1>9, <1>10, <1>11, LeaveStep DEF Cancels

(* removeChild, from whatever parent.                                      *)
LEMMA RemoveChildStep ==
  ASSUME CtxInv, NEW t \in Threads, RemoveChild(t)
  PROVE  CtxInv'
<1>1. stack[t] # <<>> /\ Top(t).at = "remove" /\ Top(t).c \in C
  <2>1. At(t, "remove")
    BY DEF RemoveChild
  <2> QED
    BY <2>1, TopFacts
<1>2. PICK c \in C : c = Top(t).c
  BY <1>1
<1>3. PICK next \in {"remove", "finish", "gone"} :
        /\ StackOK'
        /\ \/ next = "gone" /\ Popped(t)
           \/ next # "gone" /\ \E f \in Frames : f.at = next /\ f.c = c /\ Replaced(t, f)
        /\ next = "gone" => tree[c].kind = "cancel"
  <2>1. Goto(t, "finish") \/ (tree[c].kind = "cancel" /\ Pop(t))
    BY <1>2, ReturnCases DEF RemoveChild
  <2>2. CASE Goto(t, "finish")
    <3>1. StackOK' /\ \E f \in Frames : f.at = "finish" /\ f.c = c /\ Replaced(t, f)
      BY <1>1, <1>2, <2>2, GotoStep DEF Places, RemoveChild
    <3> WITNESS "finish" \in {"remove", "finish", "gone"}
    <3> QED
      BY <2>2, <3>1
  <2>3. CASE tree[c].kind = "cancel" /\ Pop(t)
    <3>1. StackOK' /\ Popped(t)
      BY <1>1, <2>3, PopStep
    <3> WITNESS "gone" \in {"remove", "finish", "gone"}
    <3> QED
      BY <2>3, <3>1
  <2> QED
    BY <2>1, <2>2, <2>3
<1>5. UNCHANGED <<mu, done, err, timer, fate, calls, made, tree>>
  BY DEF RemoveChild
<1>6. timer'[c] = "armed" => next # "gone"
  BY <1>3, <1>5 DEF CtxInv, LeakInv
<1>7. err[c] # None
  BY <1>1, <1>2, TopInv
<1>8. \A p \in C : c \in children[p] => p = Parent(c) /\ tree[c].link = "direct"
  BY DEF CtxInv, ChildrenInv
<1>9. CASE /\ CancelCtxOf(c)
           /\ mu[Parent(c)] = Nobody
           /\ children' = [children EXCEPT ![Parent(c)] = @ \ {c}]
           /\ UNCHANGED hook
  <2>1. PICK p \in C : p = Parent(c)
    BY <1>9, TreeFacts DEF CancelCtxOf, CtxInv
  <2>2. /\ mu' \in [C -> Threads \cup {Nobody}] /\ children' \in [C -> SUBSET C]
        /\ timer' \in [C -> {"nil", "armed", "fired"}]
        /\ fate' \in [C -> {"none", "started", "stopped"}]
        /\ hook' \in [C -> {"none", "set", "fired", "stopped"}]
    BY <1>5, <1>9, <2>1 DEF CtxInv, TypeOK
  <2>3. /\ children'[p] = children[p] \ {c} /\ mu[p] = Nobody
        /\ \A d \in C \ {p} : children'[d] = children[d]
    BY <1>9, <2>1 DEF CtxInv, TypeOK
  <2>4. hook'[c] # "set" /\ \A d \in C : c \notin children'[d]
    <3>1. hook[c] # "set"
      BY <1>9 DEF CancelCtxOf, CtxInv, LeakInv
    <3> QED
      BY <1>8, <1>9, <2>1, <2>3, <3>1
  <2> QED
    BY <1>1, <1>2, <1>3, <1>5, <1>6, <1>7, <1>9, <2>2, <2>3, <2>4, LeaveStep DEF Cancels
<1>10. CASE /\ ~CancelCtxOf(c)
            /\ hook' = [hook EXCEPT ![c] = IF @ = "set" THEN "stopped" ELSE @]
            /\ UNCHANGED children
  <2>1. /\ mu' \in [C -> Threads \cup {Nobody}] /\ children' \in [C -> SUBSET C]
        /\ timer' \in [C -> {"nil", "armed", "fired"}]
        /\ fate' \in [C -> {"none", "started", "stopped"}]
        /\ hook' \in [C -> {"none", "set", "fired", "stopped"}]
    BY <1>5, <1>10 DEF CtxInv, TypeOK
  <2>2. /\ hook'[c] # "set"
        /\ \A d \in C : hook'[d] = hook[d] \/ (hook[d] = "set" /\ hook'[d] = "stopped")
    BY <1>10 DEF CtxInv, TypeOK
  <2>3. ASSUME NEW p \in C, c \in children[p] PROVE err[p] # None
    <3>1. done[p] = "closedchan"
      BY <1>8, <1>10, <2>3, ContextAssumption DEF CancelCtxOf
    <3> QED
      BY <3>1 DEF CtxInv, ErrInv, Closed
  <2>4. children' = children
    BY <1>10
  <2> QED
    BY <1>1, <1>2, <1>3, <1>5, <1>6, <1>7, <2>1, <2>2, <2>3, <2>4, LeaveStep DEF Cancels
<1> QED
  BY <1>2, <1>9, <1>10 DEF RemoveChild

(* The end of timerCtx.cancel and of afterFuncCtx.cancel.                  *)
LEMMA FinishStep ==
  ASSUME CtxInv, NEW t \in Threads, Finish(t)
  PROVE  CtxInv'
<1>1. stack[t] # <<>> /\ Top(t).at = "finish" /\ Top(t).c \in C
  <2>1. At(t, "finish")
    BY DEF Finish, FinishTimer, FinishAfter
  <2> QED
    BY <2>1, TopFacts
<1>2. PICK c \in C : c = Top(t).c
  BY <1>1
<1>3. StackOK' /\ Popped(t)
  BY <1>1, PopStep DEF Finish, FinishTimer, FinishAfter
<1>4. UNCHANGED <<mu, done, children, err, hook, calls, made, tree>>
  BY DEF Finish, FinishTimer, FinishAfter
<1>5. err[c] # None
  BY <1>1, <1>2, TopInv
<1>6. \/ /\ tree[c].kind = "timer"
         /\ timer' = [timer EXCEPT ![c] = "nil"] /\ fate' = fate
      \/ /\ tree[c].kind = "after"
         /\ fate' = [fate EXCEPT ![c] = IF @ = "none" THEN "started" ELSE @] /\ timer' = timer
  BY <1>2 DEF Finish, FinishTimer, FinishAfter
<1>7. /\ mu' \in [C -> Threads \cup {Nobody}] /\ children' \in [C -> SUBSET C]
      /\ timer' \in [C -> {"nil", "armed", "fired"}]
      /\ fate' \in [C -> {"none", "started", "stopped"}]
      /\ hook' \in [C -> {"none", "set", "fired", "stopped"}]
  BY <1>4, <1>6 DEF CtxInv, TypeOK
<1>8. timer'[c] # "armed"
  BY <1>6 DEF CtxInv, TypeOK, LeakInv
<1>9. \A d \in C :
        /\ timer'[d] = timer[d] \/ timer'[d] = "nil"
        /\ fate'[d] = fate[d]
           \/ (d = c /\ fate'[d] # "none" /\ fate[d] = "none" /\ tree[d].kind = "after")
  BY <1>6 DEF CtxInv, TypeOK
<1>10. ~Removes(Top(t), c)
  BY <1>1 DEF Removes
<1> QED
  BY <1>1, <1>2, <1>3, <1>4, <1>5, <1>7, <1>8, <1>9, <1>10, LeaveStep DEF Cancels

(* A cancel, with c.mu held, calls the cancel of a child.                  *)
LEMMA CancelChildStep ==
  ASSUME CtxInv, NEW t \in Threads, CancelChild(t)
  PROVE  CtxInv'
<1>1. /\ stack[t] # <<>> /\ Top(t).at = "children" /\ Top(t) \in Frames /\ Top(t).c \in C
      /\ Top(t) = Frame(t, Depth(t)) /\ Depth(t) \in Nat \ {0}
      /\ \A u \in Threads : Depth(u) \in Nat
      /\ \A u \in Threads : \A k \in 1 .. Depth(u) : Frame(u, k).c \in C
  <2>1. At(t, "children")
    BY DEF CancelChild
  <2> QED
    BY <2>1, TopFacts
<1>2. PICK c \in C : c = Top(t).c
  BY <1>1
<1>3. PICK n \in Nat \ {0} : n = Depth(t)
  BY <1>1
<1>4. PICK why : why = Top(t).why
  OBVIOUS
<1>5. PICK todo : todo = Top(t).todo
  OBVIOUS
<1>6. why \in Reasons /\ why = err[c] /\ err[c] # None /\ todo \subseteq children[c]
      /\ (why.by # c => Parent(c) \in C /\ why = err[Parent(c)])
      /\ (~Top(t).rm => hook[c] # "set" /\ (tree[c].link = "direct" => ParentDone(c)))
      /\ (tree[c].kind = "after" => fate[c] # "none" \/ ParentDone(c))
  <2>1. why \in Reasons \cup {None} /\ why # None
    BY <1>1, <1>4, TopInv DEF Frames
  <2> QED
    BY <1>1, <1>2, <1>4, <1>5, <2>1, TopInv DEF Cancels
<1>7. PICK d \in C : /\ d \in todo
                     /\ Instead(t, <<CancelCall(d, FALSE, why),
                                     [Top(t) EXCEPT !.todo = @ \ {d}]>>)
  <2>1. \A d \in todo : d \in C
    BY <1>6 DEF CtxInv, TypeOK
  <2> QED
    BY <1>4, <1>5, <2>1 DEF CancelChild
<1>8. /\ Parent(d) = c /\ tree[d].link = "direct" /\ Known(d) /\ hook[d] # "set"
      /\ ParentDone(d)
  BY <1>6, <1>7 DEF CtxInv, ChildrenInv, KnownInv, LeakInv, ParentDone
<1>9. PICK f \in Frames : /\ f = [Top(t) EXCEPT !.todo = @ \ {d}]
                          /\ f.at = "children" /\ f.c = c /\ f.why = why
                          /\ f.rm = Top(t).rm /\ f.todo = todo \ {d}
  <2> DEFINE f == [Top(t) EXCEPT !.todo = @ \ {d}]
  <2>1. f \in Frames /\ f.at = "children" /\ f.c = c /\ f.why = why
        /\ f.rm = Top(t).rm /\ f.todo = todo \ {d}
    BY <1>1, <1>2, <1>4, <1>5 DEF Frames
  <2> QED
    BY <2>1
<1>10. PICK g : g = CancelCall(d, FALSE, why)
  OBVIOUS
<1>11. g \in Frames /\ g.at = "cancel" /\ g.c = d /\ ~g.rm /\ g.why = why /\ why # None
  <2>1. why \in Reasons
    BY <1>6
  <2> QED
    BY <1>10, <2>1, PassedOn DEF CtxInv
<1>12. StackOK' /\ Pushed(t, g, f)
  BY <1>1, <1>7, <1>9, <1>10, <1>11, PushFrames DEF CtxInv
<1>13. /\ \A u \in Threads \ {t} : Depth(u)' = Depth(u)
       /\ Depth(t)' = n + 1 /\ Frame(t, n)' = f /\ Frame(t, n + 1)' = g
       /\ \A u \in Threads : \A k \in 1 .. Depth(u) :
            u # t \/ k # n => Frame(u, k)' = Frame(u, k)
       /\ \A u \in Threads : \A k \in 1 .. Depth(u)' :
            \/ u = t /\ k = n /\ Frame(u, k)' = f
            \/ u = t /\ k = n + 1 /\ Frame(u, k)' = g
            \/ (u # t \/ k # n) /\ k \in 1 .. Depth(u) /\ Frame(u, k)' = Frame(u, k)
       /\ Depth(t) = n /\ n \in 1 .. Depth(t)
  BY <1>1, <1>3, <1>12 DEF Pushed, Kept
<1>14. f.at = "children" /\ f.c = c /\ f.why = why /\ f.todo = todo \ {d}
  BY <1>9
<1>15. f.rm <=> Top(t).rm
  BY <1>9
<1>16. UNCHANGED <<mu, done, children, err, timer, fate, hook, calls, made, tree>>
  BY DEF CancelChild
<1>17. TypeOK'
  BY <1>12, <1>16 DEF CtxInv, TypeOK, StackOK
<1>18. Frame(t, n).at = "children" /\ Frame(t, n).c = c /\ Frame(t, n).todo = todo
       /\ (Frame(t, n).rm <=> f.rm)
  BY <1>1, <1>2, <1>3, <1>5, <1>15
<1> USE DEF CtxInv, Early, Late, Cancels, Watches
<1>19. StackInv'
  BY <1>1, <1>6, <1>8, <1>11, <1>13, <1>14, <1>15, <1>16, <1>18 DEF StackInv
<1>20. LockInv'
  BY <1>1, <1>6, <1>8, <1>11, <1>13, <1>14, <1>15, <1>16, <1>18 DEF LockInv, Holds, Parent
<1>21. ErrInv'
  BY <1>1, <1>6, <1>8, <1>11, <1>13, <1>14, <1>15, <1>16, <1>18 DEF ErrInv, ParentDone, Parent, Closed
<1>22. FrameInv'
  BY <1>1, <1>6, <1>8, <1>11, <1>13, <1>14, <1>15, <1>16, <1>18 DEF FrameInv, ParentDone, Parent
<1>23. ReachInv'
  BY <1>1, <1>6, <1>8, <1>11, <1>13, <1>14, <1>15, <1>16, <1>18 DEF ReachInv, Reaching
<1>24. RegisterInv'
  BY <1>1, <1>6, <1>8, <1>11, <1>13, <1>14, <1>15, <1>16, <1>18 DEF RegisterInv, Reaching, Parent
<1>25. ChildrenInv'
  BY <1>1, <1>6, <1>8, <1>11, <1>13, <1>14, <1>15, <1>16, <1>18 DEF ChildrenInv, Parent
<1>26. KnownInv'
  <2>1. ASSUME NEW x \in C, Known(x) PROVE Known(x)'
    BY <1>13, <1>16, <1>18, <2>1 DEF Known
  <2>2. ASSUME NEW x \in C, NEW u \in Threads, NEW k \in 1 .. Depth(u)',
               Creates(u, Frame(u, k), x)'
        PROVE  k \in 1 .. Depth(u) /\ Frame(u, k)' = Frame(u, k) /\ Creates(u, Frame(u, k), x)
    BY <1>11, <1>13, <1>14, <2>2 DEF Creates
  <2>3. ASSUME NEW x \in C, ~Known(x)'
        PROVE  /\ err'[x] = None /\ hook'[x] = "none" /\ timer'[x] = "nil" /\ fate'[x] = "none"
               /\ \A p \in C : x \notin children'[p]
               /\ \A u \in Threads : \A k \in 1 .. Depth(u)' :
                    Frame(u, k)'.c = x => Creates(u, Frame(u, k), x)'
    <3>1. ~Known(x)
      BY <2>1, <2>3
    <3>2. x # c /\ x # d
      BY <1>6, <1>8, <3>1 DEF KnownInv
    <3> QED
      BY <1>11, <1>13, <1>14, <1>16, <3>1, <3>2 DEF KnownInv, Creates
  <2>4. ASSUME NEW x \in C, NEW u \in Threads, NEW k \in 1 .. Depth(u)',
               Creates(u, Frame(u, k), x)'
        PROVE  /\ x \notin made'
               /\ \A w \in Threads : \A j \in 1 .. Depth(w)' :
                    Creates(w, Frame(w, j), x)' => w = u
    BY <1>16, <2>2, <2>4 DEF KnownInv
  <2> QED
    BY <2>3, <2>4 DEF KnownInv
<1>27. LeakInv'
  BY <1>1, <1>6, <1>8, <1>11, <1>13, <1>14, <1>15, <1>16, <1>18 DEF LeakInv, Removes, Parent
<1> QED
  BY <1>17, <1>19, <1>20, <1>21, <1>22, <1>23, <1>24, <1>25, <1>26, <1>27

(* A context that is built has a call that creates it, and nothing else.   *)
LEMMA BuiltFacts ==
  ASSUME CtxInv, NEW t \in Threads, Built(t) \/ At(t, "expired")
  PROVE  /\ stack[t] # <<>> /\ Top(t) \in Frames /\ Top(t).c \in C /\ t \in G
         /\ Depth(t) = 1 /\ Top(t) = Frame(t, 1)
         /\ Top(t).at \in {"made", "expired", "new"}
         /\ Top(t).at = "new" => Parent(Top(t).c) = Background
         /\ \A u \in Threads : Depth(u) \in Nat
         /\ \A u \in Threads : \A k \in 1 .. Depth(u) : Frame(u, k).c \in C
<1>1. PICK at \in {"made", "expired", "new"} :
        At(t, at) /\ (at = "new" => Parent(Top(t).c) = Background)
  BY DEF Built
<1>2. /\ stack[t] # <<>> /\ Top(t).at = at /\ Top(t) \in Frames /\ Top(t).c \in C
      /\ Top(t) = Frame(t, Depth(t)) /\ Depth(t) \in Nat \ {0}
      /\ \A u \in Threads : Depth(u) \in Nat
      /\ \A u \in Threads : \A k \in 1 .. Depth(u) : Frame(u, k).c \in C
  BY <1>1, TopFacts
<1>3. t \in G
  BY <1>1, <1>2, TopInv DEF Late, Early
<1>4. Frame(t, Depth(t)).at \in {"made", "expired", "new"}
  BY <1>1, <1>2
<1>5. Depth(t) = 1
  BY <1>2, <1>4 DEF CtxInv, StackInv, Cancels
<1> QED
  BY <1>1, <1>2, <1>3, <1>5

(* A creation returns the context, perhaps with its timer armed.           *)
LEMMA CompleteStep ==
  ASSUME CtxInv, NEW t \in Threads, Built(t) \/ At(t, "expired"), Complete(t),
         UNCHANGED <<mu, done, children, err, fate, hook, calls, tree>>,
         timer' \in [C -> {"nil", "armed", "fired"}],
         \A d \in C :
           \/ timer'[d] = timer[d]
           \/ d = Top(t).c /\ tree[d].kind = "timer" /\ err[d] = None
  PROVE  CtxInv'
<1>1. /\ stack[t] # <<>> /\ Top(t) \in Frames /\ Top(t).c \in C /\ t \in G
      /\ Depth(t) = 1 /\ Top(t) = Frame(t, 1)
      /\ Top(t).at \in {"made", "expired", "new"}
      /\ Top(t).at = "new" => Parent(Top(t).c) = Background
      /\ \A u \in Threads : Depth(u) \in Nat
      /\ \A u \in Threads : \A k \in 1 .. Depth(u) : Frame(u, k).c \in C
  BY BuiltFacts
<1>2. PICK c \in C : c = Top(t).c
  BY <1>1
<1>3. /\ Frame(t, 1).at \in {"made", "expired", "new"} /\ Frame(t, 1).c = c
      /\ Frame(t, 1).at = "new" => Parent(c) = Background
  BY <1>1, <1>2
<1>4. StackOK' /\ Popped(t) /\ made' = made \cup {c}
  BY <1>1, <1>2, PopStep DEF Complete
<1>5. /\ Depth(t)' = 0
      /\ \A u \in Threads \ {t} : Depth(u)' = Depth(u)
      /\ \A u \in Threads : \A k \in 1 .. Depth(u) : u # t => Frame(u, k)' = Frame(u, k)
      /\ \A u \in Threads : \A k \in 1 .. Depth(u)' :
           u # t /\ k \in 1 .. Depth(u) /\ Frame(u, k)' = Frame(u, k)
  BY <1>1, <1>4 DEF Popped, Kept
<1>6. UNCHANGED <<mu, done, children, err, fate, hook, calls, tree>>
  OBVIOUS
<1>7. TypeOK'
  BY <1>4, <1>6 DEF CtxInv, TypeOK, StackOK
<1>8. /\ \A d \in C \ {c} : timer'[d] = timer[d]
      /\ timer'[c] = timer[c] \/ (tree[c].kind = "timer" /\ err[c] = None)
  BY <1>2
<1>9. \A u \in Threads : \A k \in 1 .. Depth(u) : Creates(u, Frame(u, k), c) => u = t
  BY <1>1, <1>3 DEF CtxInv, KnownInv, Creates, Early, Late
<1>10. /\ made' = made \cup {c} /\ Depth(t) = 1 /\ t \in G /\ 1 \in 1 .. Depth(t)
       /\ Background \notin C
       /\ \A u \in Threads : Depth(u) \in Nat
       /\ \A u \in Threads : \A k \in 1 .. Depth(u) : Frame(u, k).c \in C
  BY <1>1, <1>4, ContextAssumption
<1> USE DEF CtxInv, Early, Late, Cancels, Watches
<1>11. StackInv'
  BY <1>3, <1>5, <1>6, <1>8, <1>9, <1>10 DEF StackInv
<1>12. LockInv'
  BY <1>3, <1>5, <1>6, <1>8, <1>9, <1>10 DEF LockInv, Holds, Parent
<1>13. ErrInv'
  BY <1>3, <1>5, <1>6, <1>8, <1>9, <1>10 DEF ErrInv, ParentDone, Parent, Closed
<1>14. FrameInv'
  BY <1>3, <1>5, <1>6, <1>8, <1>9, <1>10 DEF FrameInv, ParentDone, Parent
<1>15. ReachInv'
  BY <1>3, <1>5, <1>6, <1>8, <1>9, <1>10 DEF ReachInv, Reaching
<1>16. RegisterInv'
  BY <1>3, <1>5, <1>6, <1>8, <1>9, <1>10 DEF RegisterInv, Reaching, Parent
<1>17. ChildrenInv'
  BY <1>3, <1>5, <1>6, <1>8, <1>9, <1>10 DEF ChildrenInv, Parent
<1>18. KnownInv'
  BY <1>3, <1>5, <1>6, <1>8, <1>9, <1>10 DEF KnownInv, Known, Creates
<1>19. LeakInv'
  BY <1>3, <1>5, <1>6, <1>8, <1>9, <1>10 DEF LeakInv, Removes, Parent
<1> QED
  BY <1>7, <1>11, <1>12, <1>13, <1>14, <1>15, <1>16, <1>17, <1>18, <1>19

LEMMA MadeStep ==
  ASSUME CtxInv, NEW t \in Threads, Made(t) \/ Arm(t)
  PROVE  CtxInv'
<1>1. CASE Made(t)
  <2>1. timer' = timer /\ timer \in [C -> {"nil", "armed", "fired"}]
    BY <1>1 DEF Made, CtxInv, TypeOK
  <2> QED
    BY <1>1, <2>1, CompleteStep DEF Made
<1>2. CASE Arm(t)
  <2>1. Top(t).c \in C
    BY <1>2, BuiltFacts DEF Arm
  <2>2. PICK c \in C : c = Top(t).c
    BY <2>1
  <2>3. tree[c].kind = "timer"
        /\ timer' = [timer EXCEPT ![c] = IF err[c] = None THEN "armed" ELSE @]
    BY <1>2, <2>2 DEF Arm
  <2>4. timer' \in [C -> {"nil", "armed", "fired"}]
    BY <2>3 DEF CtxInv, TypeOK
  <2>5. \A d \in C :
          \/ timer'[d] = timer[d]
          \/ d = Top(t).c /\ tree[d].kind = "timer" /\ err[d] = None
    BY <2>2, <2>3 DEF CtxInv, TypeOK
  <2> QED
    BY <1>2, <2>4, <2>5, CompleteStep DEF Arm
<1> QED
  BY <1>1, <1>2

(* The deadline has passed when the context is built.                      *)
LEMMA ExpiredStep ==
  ASSUME CtxInv, NEW t \in Threads, Expired(t)
  PROVE  CtxInv'
<1>1. /\ stack[t] # <<>> /\ Top(t) \in Frames /\ Top(t).c \in C /\ t \in G
      /\ Depth(t) = 1 /\ Top(t) = Frame(t, 1)
      /\ Top(t).at \in {"made", "expired", "new"}
      /\ Top(t).at = "new" => Parent(Top(t).c) = Background
      /\ \A u \in Threads : Depth(u) \in Nat
      /\ \A u \in Threads : \A k \in 1 .. Depth(u) : Frame(u, k).c \in C
  BY BuiltFacts DEF Expired
<1>2. PICK c \in C : c = Top(t).c
  BY <1>1
<1>3. /\ Frame(t, 1).at \in {"made", "expired", "new"} /\ Frame(t, 1).c = c
      /\ Frame(t, 1).at = "new" => Parent(c) = Background
      /\ tree[c].kind = "timer"
  BY <1>1, <1>2 DEF Expired
<1>4. PICK f \in Frames : f = [Top(t) EXCEPT !.at = "expired"] /\ f.at = "expired" /\ f.c = c
  <2>1. LET h == [Top(t) EXCEPT !.at = "expired"] IN h \in Frames /\ h.at = "expired" /\ h.c = c
    BY <1>1, <1>2, FrameEdit, ZenonT(40) DEF Places
  <2> QED
    BY <2>1
<1>5. PICK g : g = CancelCall(c, TRUE, Reason("deadline", c))
  OBVIOUS
<1>6. g \in Frames /\ g.at = "cancel" /\ g.c = c /\ g.rm /\ g.why # None /\ g.why.by = c
  <2>1. Reason("deadline", c) \in Reasons \cup {None} /\ Reason("deadline", c) # None
        /\ Reason("deadline", c).by = c
    BY ReasonFacts
  <2>2. LET h == CancelCall(c, TRUE, Reason("deadline", c)) IN
        /\ h \in Frames /\ h.at = "cancel" /\ h.c = c /\ h.rm
        /\ h.why = Reason("deadline", c)
    BY <2>1 DEF CancelCall, Call, Frames, Places
  <2> QED
    BY <1>5, <2>1, <2>2
<1>7. StackOK' /\ Pushed(t, g, f)
  <2>1. Instead(t, <<CancelCall(c, TRUE, Reason("deadline", c)), [Top(t) EXCEPT !.at = "expired"]>>)
    BY <1>2 DEF Expired
  <2> QED
    BY <1>1, <1>4, <1>5, <1>6, <2>1, PushFrames DEF CtxInv
<1>8. /\ Depth(t)' = 2 /\ Frame(t, 1)' = f /\ Frame(t, 2)' = g
      /\ \A u \in Threads \ {t} : Depth(u)' = Depth(u)
      /\ \A u \in Threads : \A k \in 1 .. Depth(u) : u # t => Frame(u, k)' = Frame(u, k)
      /\ \A u \in Threads : \A k \in 1 .. Depth(u)' :
           \/ u = t /\ k = 1 /\ Frame(u, k)' = f
           \/ u = t /\ k = 2 /\ Frame(u, k)' = g
           \/ u # t /\ k \in 1 .. Depth(u) /\ Frame(u, k)' = Frame(u, k)
  BY <1>1, <1>7 DEF Pushed, Kept
<1>9. UNCHANGED <<mu, done, children, err, timer, fate, hook, calls, made, tree>>
  BY DEF Expired
<1>10. TypeOK'
  BY <1>7, <1>9 DEF CtxInv, TypeOK, StackOK
<1>11. Creates(t, Frame(t, 1), c)
  BY <1>1, <1>3 DEF Creates, Early, Late
<1>12. c \notin made
       /\ \A u \in Threads : \A k \in 1 .. Depth(u) : Creates(u, Frame(u, k), c) => u = t
  BY <1>1, <1>11 DEF CtxInv, KnownInv
<1>13. /\ Depth(t) = 1 /\ t \in G /\ 1 \in 1 .. Depth(t) /\ Background \notin C
       /\ (\A d \in C : t # Watcher(d)) /\ f.at = "expired" /\ f.c = c
       /\ \A u \in Threads : Depth(u) \in Nat
       /\ \A u \in Threads : \A k \in 1 .. Depth(u) : Frame(u, k).c \in C
  BY <1>1, <1>4, ContextAssumption
<1> USE DEF CtxInv, Early, Late, Cancels, Watches
<1>14. StackInv'
  BY <1>3, <1>6, <1>8, <1>9, <1>11, <1>12, <1>13 DEF StackInv
<1>15. LockInv'
  BY <1>3, <1>6, <1>8, <1>9, <1>11, <1>12, <1>13 DEF LockInv, Holds, Parent
<1>16. ErrInv'
  BY <1>3, <1>6, <1>8, <1>9, <1>11, <1>12, <1>13 DEF ErrInv, ParentDone, Parent, Closed
<1>17. FrameInv'
  BY <1>3, <1>6, <1>8, <1>9, <1>11, <1>12, <1>13 DEF FrameInv, ParentDone, Parent
<1>18. ReachInv'
  BY <1>3, <1>6, <1>8, <1>9, <1>11, <1>12, <1>13 DEF ReachInv, Reaching
<1>19. RegisterInv'
  BY <1>3, <1>6, <1>8, <1>9, <1>11, <1>12, <1>13 DEF RegisterInv, Reaching, Parent
<1>20. ChildrenInv'
  BY <1>3, <1>6, <1>8, <1>9, <1>11, <1>12, <1>13 DEF ChildrenInv, Parent
<1>21. KnownInv'
  BY <1>3, <1>6, <1>8, <1>9, <1>11, <1>12, <1>13 DEF KnownInv, Known, Creates
<1>22. LeakInv'
  BY <1>3, <1>6, <1>8, <1>9, <1>11, <1>12, <1>13 DEF LeakInv, Removes, Parent
<1> QED
  BY <1>10, <1>14, <1>15, <1>16, <1>17, <1>18, <1>19, <1>20, <1>21, <1>22

(* Whatever a goroutine, a timer or a helper does next.                    *)
LEMMA ContextProgressStep ==
  ASSUME CtxInv, NEW t \in Threads, Step(t)
  PROVE  CtxInv'
<1>1. CASE Done(t)
  BY <1>1, DoneStep
<1>2. CASE Cancel(t) \/ CancelChild(t) \/ CancelUnlock(t)
  BY <1>2, CancelStep, CancelChildStep, CancelUnlockStep
<1>3. CASE RemoveChild(t) \/ Finish(t)
  BY <1>3, RemoveChildStep, FinishStep
<1>4. CASE Look(t) \/ Register(t) \/ RegisterUnlock(t)
  BY <1>4, LookStep, RegisterStep, RegisterUnlockStep
<1>5. CASE Inherit(t) \/ Watch(t)
  BY <1>5, InheritStep, WatchStep
<1>6. CASE Made(t) \/ Expired(t) \/ Arm(t)
  BY <1>6, MadeStep, ExpiredStep
<1>7. CASE Wait(t) \/ Err(t)
  BY <1>7, WaitStep
<1> QED
  BY <1>1, <1>2, <1>3, <1>4, <1>5, <1>6, <1>7 DEF Step

LEMMA ContextStepInv == CtxInv /\ [Next]_vars => CtxInv'
<1> SUFFICES ASSUME CtxInv, [Next]_vars PROVE CtxInv'
  OBVIOUS
<1>1. CASE UNCHANGED vars
  <2>1. /\ \A t \in Threads : Depth(t)' = Depth(t)
        /\ \A t \in Threads : \A k \in 1 .. Depth(t) : Frame(t, k)' = Frame(t, k)
        /\ UNCHANGED <<mu, done, children, err, timer, fate, hook, made, tree>>
    BY <1>1 DEF vars, Depth, Frame
  <2>2. TypeOK'
    BY <1>1 DEF vars, CtxInv, TypeOK
  <2>3. StackInv'
    BY <2>1 DEF CtxInv, StackInv
  <2>4. LockInv'
    BY <2>1 DEF CtxInv, LockInv, Holds, Parent
  <2>5. ErrInv'
    BY <2>1 DEF CtxInv, ErrInv, ParentDone, Parent, Closed
  <2>6. FrameInv'
    BY <2>1 DEF CtxInv, FrameInv, ParentDone, Parent
  <2>7. ReachInv'
    BY <2>1 DEF CtxInv, ReachInv, Reaching
  <2>8. RegisterInv'
    BY <2>1 DEF CtxInv, RegisterInv, Reaching, Parent
  <2>9. ChildrenInv'
    BY <2>1 DEF CtxInv, ChildrenInv, Parent
  <2>10. KnownInv'
    BY <2>1 DEF CtxInv, KnownInv, Known, Creates
  <2>11. LeakInv'
    BY <2>1 DEF CtxInv, LeakInv, Removes, Parent
  <2> QED
    BY <2>2, <2>3, <2>4, <2>5, <2>6, <2>7, <2>8, <2>9, <2>10, <2>11 DEF CtxInv
<1>2. ASSUME NEW t \in Threads, Step(t) PROVE CtxInv'
  BY <1>2, ContextProgressStep
<1>3. ASSUME NEW c \in C, TimerFires(c) \/ HookFires(c) PROVE CtxInv'
  BY <1>3, TimerStep, HookStep
<1>4. ASSUME NEW g \in G, NEW c \in C, Calls(g, c) PROVE CtxInv'
  BY <1>4, CallsStep
<1> QED
  BY <1>1, <1>2, <1>3, <1>4 DEF Next, Progress

(* The invariant holds in every state of context/context.go's contexts,    *)
(* whatever their tree is and however many goroutines use them.            *)
THEOREM ContextInvariant == Spec => []CtxInv
BY ContextInitInv, ContextStepInv, PTL DEF Spec

(* The fields of contexts and the frames of calls keep their types.        *)
THEOREM ContextTypeCorrect == Spec => []TypeOK
<1>1. CtxInv => TypeOK
  BY DEF CtxInv
<1> QED
  BY <1>1, ContextInvariant, PTL

-----------------------------------------------------------------------------
(* What it is for.                                                         *)

(* When a cancel lets go of c.mu, every child that was registered with c   *)
(* is cancelled, and so is one whose registration the cancel met.          *)
LEMMA CancelReachesStep == CtxInv => CancelReaches
<1> SUFFICES ASSUME CtxInv, NEW c \in C
             PROVE  /\ err[c] # None /\ mu[c] = Nobody =>
                         /\ Closed(c)
                         /\ \A d \in made :
                              Parent(d) = c /\ tree[d].link = "direct" => err[d] # None
                    /\ err[c] # None /\ err[c].by # c => err[c] = err[Parent(c)]
                    /\ Closed(c) => err[c] # None
                    /\ fate[c] = "started" => Closed(Parent(c))
  BY DEF CancelReaches
<1>1. /\ Closed(c) <=> err[c] # None
      /\ err[c] # None /\ err[c].by # c => err[c] = err[Parent(c)]
      /\ fate[c] = "started" => Closed(Parent(c))
  BY DEF CtxInv, ErrInv, ParentDone
<1>2. ASSUME err[c] # None, mu[c] = Nobody, NEW d \in made,
             Parent(d) = c, tree[d].link = "direct", err[d] = None
      PROVE  FALSE
  <2>1. d \in C
    BY DEF CtxInv, TypeOK
  <2>2. d \in children[c]
    BY <1>2, <2>1 DEF CtxInv, RegisterInv
  <2> QED
    BY <1>2, <2>2, FreeFacts
<1> QED
  BY <1>1, <1>2

(* A cancel, whoever calls it, reaches every registered descendant; errors *)
(* and causes come from the parent, and functions start only after their   *)
(* context is done (cancel, propagateCancel and afterFuncCtx.cancel).      *)
THEOREM ContextCancelReaches == Spec => []CancelReaches
BY CancelReachesStep, ContextInvariant, PTL

LEMMA CancellingFrame ==
  ASSUME CtxInv, NEW c \in C, NEW t \in Threads, NEW k \in 1 .. Depth(t),
         Frame(t, k).c = c, Frame(t, k).at \in Cancels
  PROVE  Cancelling(c)
<1>1. stack[t] \in Seq(Frames) /\ Depth(t) = Len(stack[t])
  BY DEF CtxInv, TypeOK, Depth
<1>2. Len(stack[t]) + 1 - k \in DOMAIN stack[t]
  BY <1>1
<1> QED
  BY <1>2 DEF Cancelling, Frame, Cancels

LEMMA NothingLeaksStep == CtxInv => NothingLeaks
<1> SUFFICES ASSUME CtxInv, NEW c \in C, err[c] # None, ~Cancelling(c)
             PROVE  /\ timer[c] # "armed" /\ hook[c] # "set"
                    /\ Parent(c) # Background /\ ~Cancelling(Parent(c)) =>
                         c \notin children[Parent(c)]
  BY DEF NothingLeaks
<1>1. \A t \in Threads : \A k \in 1 .. Depth(t) :
        ~(Frame(t, k).at \in Cancels /\ Frame(t, k).c = c)
  BY CancellingFrame
<1>2. \A t \in Threads : \A k \in 1 .. Depth(t) : ~Removes(Frame(t, k), c)
  BY <1>1 DEF Removes, Cancels
<1>3. timer[c] # "armed" /\ hook[c] # "set"
  BY <1>1, <1>2 DEF CtxInv, LeakInv
<1>4. ASSUME Parent(c) # Background, ~Cancelling(Parent(c)), c \in children[Parent(c)]
      PROVE  FALSE
  <2>1. PICK p \in C : p = Parent(c)
    BY <1>4, TreeFacts DEF CtxInv
  <2>2. err[p] # None
    BY <1>2, <1>4, <2>1 DEF CtxInv, LeakInv
  <2>3. PICK t \in Threads : \E k \in 1 .. Depth(t) :
          Frame(t, k).at = "children" /\ Frame(t, k).c = p
    BY <1>4, <2>1, <2>2 DEF CtxInv, ChildrenInv
  <2> QED
    BY <1>4, <2>1, <2>3, CancellingFrame DEF Cancels
<1> QED
  BY <1>3, <1>4

(* Of a cancelled context nothing is left behind when its cancels have     *)
(* returned: no entry in a parent that lives on (removeChild), no timer    *)
(* (timerCtx.cancel), no call registered with the parent (stopCtx).        *)
THEOREM ContextNothingLeaks == Spec => []NothingLeaks
BY NothingLeaksStep, ContextInvariant, PTL

-----------------------------------------------------------------------------
(* sync.Once, for any set of callers and of panic values.                  *)

OnceHeld == {"locked", "call", "f", "store", "unlock"}
OnceRunning == {"f", "store"}

(* Once.m is held between DoSlow's Lock and its deferred Unlock.           *)
OnceLockInv ==
  \A g \in Callers : /\ holder = g <=> pc[g] \in OnceHeld
                     /\ g \in wants <=> pc[g] = "locking"

(* The count of calls, by where f's caller stands: this, and the holder's  *)
(* second look at done, is what makes the fast path right.                 *)
OnceRunsInv ==
  /\ onceDone => runs = 1 /\ onceFate # "none"
  /\ ~onceDone /\ (\A g \in Callers : pc[g] \notin OnceRunning) => runs = 0
  /\ runs = 0 => onceFate = "none"
  /\ \A g \in Callers :
       /\ pc[g] \in {"call", "f", "store"} => ~onceDone
       /\ pc[g] \in OnceRunning => runs = 1
       /\ pc[g] = "f" => onceFate = "none"
       /\ pc[g] = "store" => onceFate # "none"
       /\ pc[g] \in {"unlock", "valid", "return"} => onceDone

(* The closure's variables tell how f ended.                               *)
OnceFateInv ==
  /\ onceFate # "none" =>
       valid = (onceFate = "ok") /\ (onceFate # "ok" => thrown = onceFate)
  /\ \A g \in Callers :
       panicking[g] => pc[g] \in {"store", "unlock"} /\ onceFate # "ok"

OnceInv == O!TypeOK /\ OnceLockInv /\ OnceRunsInv /\ OnceFateInv /\ O!SameFate

(* The zero Once satisfies the invariant.                                  *)
LEMMA OnceInitInv == O!Init => OnceInv
<1> SUFFICES ASSUME O!Init PROVE OnceInv
  OBVIOUS
<1>1. O!TypeOK
  BY DEF O!Init, O!Lk!Init, O!TypeOK, O!OncePC, O!Fates
<1>2. OnceLockInv
  BY MCContextAssumption
  DEF O!OnceAssumption, O!Init, O!Lk!Init, OnceLockInv, OnceHeld
<1>3. OnceRunsInv /\ OnceFateInv /\ O!SameFate
  BY DEF O!Init, OnceRunsInv, OnceFateInv, O!SameFate, OnceRunning
<1> QED
  BY <1>1, <1>2, <1>3 DEF OnceInv

(* Every step of a goroutine preserves the invariant.                      *)
LEMMA OnceStepInv == OnceInv /\ [O!Next]_O!vars => OnceInv'
<1> SUFFICES ASSUME OnceInv, [O!Next]_O!vars PROVE OnceInv'
  OBVIOUS
<1> USE MCContextAssumption
    DEF O!OnceAssumption, OnceInv, O!TypeOK, OnceLockInv, OnceRunsInv,
        OnceFateInv, O!SameFate, O!OncePC, O!Fates, OnceHeld, OnceRunning
<1>1. CASE UNCHANGED O!vars
  BY <1>1 DEF O!vars
<1>2. ASSUME NEW g \in Callers, O!Call(g) PROVE OnceInv'
  BY <1>2 DEF O!Call, O!Goto
<1>3. ASSUME NEW g \in Callers, O!DoSlowLock(g) PROVE OnceInv'
  <2>1. CASE O!Lk!Request(g) /\ O!Goto(g, "lock", "locking")
    BY <1>3, <2>1 DEF O!DoSlowLock, O!Lk!Request, O!Goto
  <2>2. CASE O!Lk!Acquire(g) /\ O!Goto(g, "locking", "locked")
    BY <1>3, <2>2 DEF O!DoSlowLock, O!Lk!Acquire, O!Goto
  <2> QED
    BY <1>3, <2>1, <2>2 DEF O!DoSlowLock
<1>4. ASSUME NEW g \in Callers, O!Do(g) PROVE OnceInv'
  BY <1>4 DEF O!Do, O!Goto
<1>5. ASSUME NEW g \in Callers, O!DoSlow(g) PROVE OnceInv'
  BY <1>5 DEF O!DoSlow, O!Goto
<1>6. ASSUME NEW g \in Callers, O!CallF(g) PROVE OnceInv'
  <2>1. runs = 0
    BY <1>6 DEF O!CallF, O!Goto
  <2>2. \A h \in Callers : pc'[h] \in OnceRunning => h = g
    BY <1>6 DEF O!CallF, O!Goto
  <2> QED
    BY <1>6, <2>1, <2>2 DEF O!CallF, O!Goto
<1>7. ASSUME NEW g \in Callers, NEW how \in O!Fates, O!EndF(g, how)
      PROVE  OnceInv'
  BY <1>7 DEF O!EndF, O!Goto
<1>8. ASSUME NEW g \in Callers, O!Store(g) PROVE OnceInv'
  BY <1>8 DEF O!Store, O!Goto
<1>9. ASSUME NEW g \in Callers, O!DoSlowUnlock(g) PROVE OnceInv'
  BY <1>9 DEF O!DoSlowUnlock, O!Lk!Release, O!Goto
<1>10. ASSUME NEW g \in Callers, O!CheckValid(g) PROVE OnceInv'
  BY <1>10 DEF O!CheckValid, O!Goto
<1>11. ASSUME NEW g \in Callers, O!Return(g) PROVE OnceInv'
  BY <1>11 DEF O!Return, O!Goto
<1> QED
  BY <1>1, <1>2, <1>3, <1>4, <1>5, <1>6, <1>7, <1>8, <1>9, <1>10, <1>11
  DEF O!Next, O!Continue

(* The inductive invariant of Once holds in every behaviour.               *)
THEOREM OnceInvariant == O!Safety => []OnceInv
  BY OnceInitInv, OnceStepInv, PTL DEF O!Safety

(* The variables of Once have their types.                                 *)
THEOREM OnceTypeCorrect == O!Safety => []O!TypeOK
  BY OnceInvariant, PTL DEF OnceInv

(* f is called at most once, by whatever goroutines call Do.               *)
THEOREM OnceCallsOnce == O!Safety => []O!CalledOnce
<1>1. OnceInv => O!CalledOnce
  BY DEF OnceInv, OnceRunsInv, O!CalledOnce
<1> QED
  BY <1>1, OnceInvariant, PTL

(* No call gets past Do before f has ended, and all come to the same.      *)
THEOREM OnceSharesFate == O!Safety => []O!SameFate
  BY OnceInvariant, PTL DEF OnceInv

(* Both together.                                                          *)
THEOREM OnceIsForAll == O!Safety => []OnceForAll
  BY OnceCallsOnce, OnceSharesFate, PTL DEF OnceForAll, O!OnceForAll
=============================================================================
