-------------------------------- MODULE Chan --------------------------------
(***************************************************************************)
(* Channels and select: runtime/chan.go and runtime/select.go.  An         *)
(* operation on one channel runs under that channel's lock and is one      *)
(* step; closechan, which wakes goroutines that several channels may wake, *)
(* and selectgo, which locks several channels in the order of their        *)
(* addresses, hold their locks over several steps.  A goroutine is made    *)
(* ready after the locks have been released.  Locks are released in one    *)
(* step: a release waits for nobody.                                       *)
(*                                                                         *)
(* A goroutine that waits is in the queues of its channels as sudogs       *)
(* [g, case].  One that waits in a select is in several queues, and        *)
(* selectDone tells who may wake it; the sudogs it leaves in the other     *)
(* queues are stale until it removes them.                                 *)
(***************************************************************************)
EXTENDS Integers, FiniteSets, Sequences, SequencesExt

CONSTANTS
  G,       \* goroutines
  C,       \* channels
  Cap,     \* c.dataqsiz
  Key,     \* sortkey: the address of the channel
  Ops,     \* the calls: [kind, cases, block]
  Zero,    \* the zero value of the element type
  None     \* no goroutine, no call, no result

\* A case of a call that waits, and a sudog with what its waker tells it.
Sudog == [g : G, case : Nat \ {0}]
Wakeup == [sg : Sudog, success : BOOLEAN]

Value == {Zero} \cup UNION {{o.cases[i].val : i \in DOMAIN o.cases} : o \in Ops}
Results == [how : {"ok", "closed", "panic", "default"}, case : Nat, val : Value]

ASSUME ChanAssumption ==
  /\ IsFiniteSet(C)
  /\ Cap \in [C -> Nat]
  /\ Key \in [C -> Nat]
  /\ \A c, d \in C : Key[c] = Key[d] => c = d
  /\ None \notin G \cup Ops \cup Wakeup \cup Results

\* An operation on one channel is a call with one case, and so is a close.
ASSUME OpsAssumption ==
  \A o \in Ops :
    /\ o.kind \in {"chan", "select", "close"} /\ o.block \in BOOLEAN
    /\ Len(o.cases) \in Nat \ {0} /\ DOMAIN o.cases = 1 .. Len(o.cases)
    /\ o.kind # "select" => Len(o.cases) = 1
    /\ \A i \in DOMAIN o.cases :
         o.cases[i].chan \in C /\ o.cases[i].send \in BOOLEAN

VARIABLES
  ch,          \* the hchan of each channel
  owner,       \* who holds its lock
  pc,
  op,          \* the call a goroutine is in
  toLock,      \* the channels its select is still to lock
  selectDone,  \* g.selectDone
  wake,        \* the sudogs it has dequeued and is to make ready
  param,       \* g.param and sg.success: the sudog that woke it
  elem,        \* where its sudogs' elem points
  result       \* what its call returns

vars == <<ch, owner, pc, op, toLock, selectDone, wake, param, elem, result>>

ChanPC == {"out", "tryClosed", "tryFull", "tryEmpty", "tryEmptyAgain", "lock",
           "sellock", "parked", "woken", "relock", "close", "closeRecv",
           "closeSend", "ready", "done"}

Init ==
  /\ ch = [c \in C |->
       [buf |-> [n \in 0 .. Cap[c] - 1 |-> Zero], sendx |-> 0, recvx |-> 0,
        qcount |-> 0, closed |-> FALSE, recvq |-> <<>>, sendq |-> <<>>]]
  /\ owner = [c \in C |-> None]
  /\ pc = [g \in G |-> "out"]
  /\ op = [g \in G |-> None]
  /\ toLock = [g \in G |-> {}]
  /\ selectDone = [g \in G |-> FALSE]
  /\ wake = [g \in G |-> <<>>]
  /\ param = [g \in G |-> None]
  /\ elem = [g \in G |-> Zero]
  /\ result = [g \in G |-> None]

Goto(g, from, to) == pc[g] = from /\ pc' = [pc EXCEPT ![g] = to]

Cases(g) == IF op[g] = None THEN {} ELSE DOMAIN op[g].cases
Sends(g, i) == op[g].cases[i].send
ChanOf(g, i) == op[g].cases[i].chan

Result(how, i, v) == [how |-> how, case |-> i, val |-> v]

\* What the woken goroutine's call comes to.
Outcome(w) ==
  LET i == w.sg.case IN
  IF Sends(w.sg.g, i) THEN Result(IF w.success THEN "ok" ELSE "panic", i, Zero)
  ELSE Result(IF w.success THEN "ok" ELSE "closed", i, elem[w.sg.g])

-----------------------------------------------------------------------------
(* waitq.dequeue: it drops the sudogs of selects that somebody else has    *)
(* won, and wins the first one it finds free.                              *)

\* Slip: nobody asks who has won the select.
FreeAlways(sg) == TRUE

Free(sg) == op[sg.g].kind = "select" => ~selectDone[sg.g]

Dequeued(q) == SelectInSeq(q, Free)     \* its index, or 0
Waiting(q) == Dequeued(q) # 0

\* Slip: stale sudogs stay in the queue.
AfterDequeueKeeps(q) == IF Waiting(q) THEN RemoveAt(q, Dequeued(q)) ELSE q

AfterDequeue(q) ==
  IF Waiting(q) THEN SubSeq(q, Dequeued(q) + 1, Len(q)) ELSE <<>>

Win(g) ==
  selectDone' = [selectDone EXCEPT ![g] = op[g].kind = "select"]

-----------------------------------------------------------------------------
(* The ring buffer.                                                        *)

Step(x, c) == IF x + 1 = Cap[c] THEN 0 ELSE x + 1

Put(h, c, v) == [h EXCEPT !.buf[h.sendx] = v, !.sendx = Step(@, c),
                          !.qcount = @ + 1]

Get(h, c) == [h EXCEPT !.buf[h.recvx] = Zero, !.recvx = Step(@, c),
                       !.qcount = @ - 1]

\* Slip: sendx does not follow recvx.
ExchangeRecvx(h, c, v) ==
  [h EXCEPT !.buf[h.recvx] = v, !.recvx = Step(@, c)]

\* At a full buffer v takes the place of the oldest value.
Exchange(h, c, v) ==
  [h EXCEPT !.buf[h.recvx] = v, !.recvx = Step(@, c), !.sendx = Step(h.recvx, c)]

-----------------------------------------------------------------------------
(* One communication, on the channels h: case i of g meets a goroutine     *)
(* that waits, the buffer, or a closed channel.                            *)

Done(g, r) == result' = [result EXCEPT ![g] = r]

\* send, to a receiver that waits.
SendDirect(g, i, h) ==
  LET c == ChanOf(g, i)
      sg == h[c].recvq[Dequeued(h[c].recvq)] IN
  /\ Waiting(h[c].recvq)
  /\ ch' = [h EXCEPT ![c].recvq = AfterDequeue(@)]
  /\ Win(sg.g)
  /\ elem' = [elem EXCEPT ![sg.g] = op[g].cases[i].val]
  /\ wake' = [wake EXCEPT ![g] = <<[sg |-> sg, success |-> TRUE]>>]
  /\ Done(g, Result("ok", i, Zero))

SendToBuf(g, i, h) ==
  LET c == ChanOf(g, i)
      hc == [h[c] EXCEPT !.recvq = AfterDequeue(@)] IN
  /\ ~Waiting(h[c].recvq)
  /\ h[c].qcount < Cap[c]
  /\ ch' = [h EXCEPT ![c] = Put(hc, c, op[g].cases[i].val)]
  /\ Done(g, Result("ok", i, Zero))
  /\ UNCHANGED <<selectDone, elem, wake>>

Send(g, i, h) ==
  IF h[ChanOf(g, i)].closed
  THEN ch' = h /\ Done(g, Result("panic", i, Zero))
       /\ UNCHANGED <<selectDone, elem, wake>>
  ELSE SendDirect(g, i, h) \/ SendToBuf(g, i, h)

\* recv, from a sender that waits.
RecvDirect(g, i, h) ==
  LET c == ChanOf(g, i)
      sg == h[c].sendq[Dequeued(h[c].sendq)]
      hc == [h[c] EXCEPT !.sendq = AfterDequeue(@)]
      v == op[sg.g].cases[sg.case].val IN
  /\ Waiting(h[c].sendq)
  /\ ch' = [h EXCEPT ![c] = IF Cap[c] = 0 THEN hc ELSE Exchange(hc, c, v)]
  /\ Win(sg.g)
  /\ wake' = [wake EXCEPT ![g] = <<[sg |-> sg, success |-> TRUE]>>]
  /\ Done(g, Result("ok", i, IF Cap[c] = 0 THEN v ELSE h[c].buf[h[c].recvx]))
  /\ UNCHANGED elem

RecvFromBuf(g, i, h) ==
  LET c == ChanOf(g, i)
      hc == [h[c] EXCEPT !.sendq = AfterDequeue(@)] IN
  /\ ~Waiting(h[c].sendq)
  /\ h[c].qcount > 0
  /\ ch' = [h EXCEPT ![c] = Get(hc, c)]
  /\ Done(g, Result("ok", i, h[c].buf[h[c].recvx]))
  /\ UNCHANGED <<selectDone, elem, wake>>

RecvClosed(g, i, h) ==
  LET c == ChanOf(g, i) IN
  /\ h[c].closed
  /\ ~Waiting(h[c].sendq) /\ h[c].qcount = 0
  /\ ch' = h
  /\ Done(g, Result("closed", i, Zero))
  /\ UNCHANGED <<selectDone, elem, wake>>

Communicate(g, i, h) ==
  IF Sends(g, i) THEN Send(g, i, h)
  ELSE RecvDirect(g, i, h) \/ RecvFromBuf(g, i, h) \/ RecvClosed(g, i, h)

-----------------------------------------------------------------------------
(* A call, under the locks it needs.  It polls its cases in some order up  *)
(* to one that can proceed; the queues polled in vain are empty then.      *)

CanProceed(g, i) ==
  LET c == ch[ChanOf(g, i)] IN
  \/ c.closed
  \/ IF Sends(g, i) THEN Waiting(c.recvq) \/ c.qcount < Cap[ChanOf(g, i)]
     ELSE Waiting(c.sendq) \/ c.qcount > 0

On(g, I, c, send) == {i \in I : ChanOf(g, i) = c /\ Sends(g, i) = send}

Polled(g, I) ==
  [c \in C |-> [ch[c] EXCEPT
    !.recvq = IF On(g, I, c, TRUE) = {} THEN @ ELSE AfterDequeue(@),
    !.sendq = IF On(g, I, c, FALSE) = {} THEN @ ELSE AfterDequeue(@)]]

\* waitq.enqueue of a sudog for every case; those of one select that are in
\* one queue stand there in no particular order.
Sudogs(g, c, send) ==
  SetToSeq({[g |-> g, case |-> i] : i \in On(g, Cases(g), c, send)})

Enqueued(g, h) ==
  [c \in C |-> [h[c] EXCEPT !.recvq = @ \o Sudogs(g, c, FALSE),
                            !.sendq = @ \o Sudogs(g, c, TRUE)]]

Proceed(g) ==
  LET Able == {i \in Cases(g) : CanProceed(g, i)} IN
  /\ \E i \in Able, I \in SUBSET (Cases(g) \ Able) :
       Communicate(g, i, Polled(g, I))
  /\ pc' = [pc EXCEPT ![g] = IF wake'[g] = <<>> THEN "done" ELSE "ready"]

GiveUp(g) ==
  LET h == Polled(g, Cases(g)) IN
  /\ \A i \in Cases(g) : ~CanProceed(g, i)
  /\ IF op[g].block
     THEN /\ ch' = Enqueued(g, h)
          /\ pc' = [pc EXCEPT ![g] = "parked"]
          /\ UNCHANGED result
     ELSE /\ ch' = h
          /\ pc' = [pc EXCEPT ![g] = "done"]
          /\ Done(g, Result("default", 0, Zero))
  /\ UNCHANGED <<selectDone, wake, elem>>

ChanSend(g) ==
  /\ pc[g] = "lock" /\ Sends(g, 1)
  /\ owner[ChanOf(g, 1)] = None
  /\ Proceed(g) \/ GiveUp(g)
  /\ UNCHANGED <<owner, op, toLock, param>>

ChanRecv(g) ==
  /\ pc[g] = "lock" /\ ~Sends(g, 1)
  /\ owner[ChanOf(g, 1)] = None
  /\ Proceed(g) \/ GiveUp(g)
  /\ UNCHANGED <<owner, op, toLock, param>>

\* After gopark.
Woken(g) ==
  /\ Goto(g, "woken", "done")
  /\ Done(g, Outcome(param[g]))
  /\ param' = [param EXCEPT ![g] = None]
  /\ UNCHANGED <<ch, owner, op, toLock, selectDone, wake, elem>>

-----------------------------------------------------------------------------
(* The fast paths of calls that do not block: single reads without lock.   *)

Full(c) == IF Cap[c] = 0 THEN ch[c].recvq = <<>> ELSE ch[c].qcount = Cap[c]
Empty(c) == IF Cap[c] = 0 THEN ch[c].sendq = <<>> ELSE ch[c].qcount = 0

\* Everything but the place of the call and its result.
others == <<ch, owner, op, toLock, selectDone, wake, param, elem>>

\* A read that settles the call, with r, or sends it on to to.
Fast(g, from, settled, r, to) ==
  /\ Goto(g, from, IF settled THEN "done" ELSE to)
  /\ result' = [result EXCEPT ![g] = IF settled THEN r ELSE None]

\* Slip: the closed flag is left to the locked path.
SendTryClosedBlind(g) ==
  /\ pc[g] = "tryClosed" /\ Sends(g, 1)
  /\ Goto(g, "tryClosed", "tryFull")
  /\ UNCHANGED <<others, result>>

SendTryClosed(g) ==
  /\ pc[g] = "tryClosed" /\ Sends(g, 1)
  /\ Goto(g, "tryClosed", IF ch[ChanOf(g, 1)].closed THEN "lock" ELSE "tryFull")
  /\ UNCHANGED <<others, result>>

SendTryFull(g) ==
  /\ Fast(g, "tryFull", Full(ChanOf(g, 1)), Result("default", 0, Zero), "lock")
  /\ UNCHANGED others

RecvTryEmpty(g) ==
  /\ Goto(g, "tryEmpty", IF Empty(ChanOf(g, 1)) THEN "tryClosed" ELSE "lock")
  /\ UNCHANGED <<others, result>>

RecvTryClosed(g) ==
  /\ pc[g] = "tryClosed" /\ ~Sends(g, 1)
  /\ Fast(g, "tryClosed", ~ch[ChanOf(g, 1)].closed, Result("default", 0, Zero),
          "tryEmptyAgain")
  /\ UNCHANGED others

RecvTryEmptyAgain(g) ==
  /\ Fast(g, "tryEmptyAgain", Empty(ChanOf(g, 1)), Result("closed", 1, Zero),
          "lock")
  /\ UNCHANGED others

-----------------------------------------------------------------------------
(* selectgo.                                                               *)

Chans(o) == {o.cases[i].chan : i \in DOMAIN o.cases}

\* Slip: locks are taken in any order.
NextLockAny(g, c) == c \in toLock[g]

\* lockorder: the lock that g takes next.
NextLock(g, c) == c \in toLock[g] /\ \A d \in toLock[g] : Key[c] <= Key[d]

\* sellock, one lock at a time.
SelLock(g) ==
  /\ pc[g] \in {"sellock", "relock"}
  /\ \E c \in C :
       /\ NextLock(g, c)
       /\ owner[c] = None
       /\ owner' = [owner EXCEPT ![c] = g]
       /\ toLock' = [toLock EXCEPT ![g] = @ \ {c}]
  /\ UNCHANGED <<ch, pc, op, selectDone, wake, param, elem, result>>

\* selunlock and selparkcommit.
SelUnlock(g) ==
  owner' = [c \in C |-> IF owner[c] = g THEN None ELSE owner[c]]

\* Passes 1 and 2.
SelectPoll(g) ==
  /\ pc[g] = "sellock" /\ toLock[g] = {}
  /\ Proceed(g) \/ GiveUp(g)
  /\ SelUnlock(g)
  /\ UNCHANGED <<op, toLock, param>>

\* The sudogs of q at the indexes stay, in their order.
Left(q, stay) ==
  LET Nth(n) == CHOOSE m \in stay : Cardinality({k \in stay : k <= m}) = n IN
  [n \in 1 .. Cardinality(stay) |-> q[Nth(n)]]

\* Pass 3.
SelectFinish(g) ==
  LET Stay(q) == {n \in DOMAIN q : q[n].g # g \/ q[n] = param[g].sg} IN
  /\ toLock[g] = {}
  /\ Goto(g, "relock", "done")
  /\ selectDone' = [selectDone EXCEPT ![g] = FALSE]
  /\ ch' = [c \in C |-> [ch[c] EXCEPT !.recvq = Left(@, Stay(@)),
                                      !.sendq = Left(@, Stay(@))]]
  /\ Done(g, Outcome(param[g]))
  /\ param' = [param EXCEPT ![g] = None]
  /\ SelUnlock(g)
  /\ UNCHANGED <<op, toLock, wake, elem>>

-----------------------------------------------------------------------------
(* closechan: it closes, wins every goroutine that waits, and makes them   *)
(* ready, last one first, when it has released the lock.                   *)

CloseMark(g) ==
  LET c == ChanOf(g, 1) IN
  /\ pc[g] = "close" /\ owner[c] = None
  /\ Goto(g, "close", IF ch[c].closed THEN "done" ELSE "closeRecv")
  /\ ch' = [ch EXCEPT ![c].closed = TRUE]
  /\ owner' = [owner EXCEPT ![c] = IF ch[c].closed THEN None ELSE g]
  /\ Done(g, Result(IF ch[c].closed THEN "panic" ELSE "ok", 1, Zero))
  /\ UNCHANGED <<op, toLock, selectDone, wake, param, elem>>

Release(g, sg) ==
  /\ Win(sg.g)
  /\ elem' = [elem EXCEPT ![sg.g] = Zero]
  /\ wake' = [wake EXCEPT ![g] = <<[sg |-> sg, success |-> FALSE]>> \o @]

CloseRecv(g) ==
  LET c == ChanOf(g, 1)
      q == ch[c].recvq IN
  /\ pc[g] = "closeRecv"
  /\ ch' = [ch EXCEPT ![c].recvq = AfterDequeue(q)]
  /\ IF Waiting(q)
     THEN Release(g, q[Dequeued(q)]) /\ UNCHANGED pc
     ELSE Goto(g, "closeRecv", "closeSend") /\ UNCHANGED <<selectDone, wake, elem>>
  /\ UNCHANGED <<owner, op, toLock, param, result>>

CloseSend(g) ==
  LET c == ChanOf(g, 1)
      q == ch[c].sendq IN
  /\ pc[g] = "closeSend"
  /\ ch' = [ch EXCEPT ![c].sendq = AfterDequeue(q)]
  /\ IF Waiting(q)
     THEN Release(g, q[Dequeued(q)]) /\ UNCHANGED <<pc, owner>>
     ELSE /\ Goto(g, "closeSend", IF wake[g] = <<>> THEN "done" ELSE "ready")
          /\ owner' = [owner EXCEPT ![c] = None]
          /\ UNCHANGED <<selectDone, wake, elem>>
  /\ UNCHANGED <<op, toLock, param, result>>

-----------------------------------------------------------------------------
\* goready: the woken goroutine goes on after its gopark.
Ready(g) ==
  LET w == Head(wake[g])
      r == w.sg.g
      select == op[r].kind = "select" IN
  /\ pc[g] = "ready"
  /\ wake' = [wake EXCEPT ![g] = Tail(@)]
  /\ param' = [param EXCEPT ![r] = w]
  /\ pc' = [pc EXCEPT ![r] = IF select THEN "relock" ELSE "woken",
                      ![g] = IF Len(wake[g]) = 1 THEN "done" ELSE @]
  /\ toLock' = [toLock EXCEPT ![r] = IF select THEN Chans(op[r]) ELSE {}]
  /\ UNCHANGED <<ch, owner, op, selectDone, elem, result>>

Start(o) ==
  IF o.kind = "close" THEN "close"
  ELSE IF o.kind = "select" THEN "sellock"
  ELSE IF o.block THEN "lock"
  ELSE IF o.cases[1].send THEN "tryClosed" ELSE "tryEmpty"

Call(g, o) ==
  /\ Goto(g, "out", Start(o))
  /\ op' = [op EXCEPT ![g] = o]
  /\ toLock' = [toLock EXCEPT ![g] = IF o.kind = "select" THEN Chans(o) ELSE {}]
  /\ UNCHANGED <<ch, owner, selectDone, wake, param, elem, result>>

Return(g) ==
  /\ Goto(g, "done", "out")
  /\ op' = [op EXCEPT ![g] = None]
  /\ elem' = [elem EXCEPT ![g] = Zero]
  /\ result' = [result EXCEPT ![g] = None]
  /\ UNCHANGED <<ch, owner, toLock, selectDone, wake, param>>

Continue(g) ==
  \/ ChanSend(g) \/ ChanRecv(g) \/ Woken(g)
  \/ SendTryClosed(g) \/ SendTryFull(g)
  \/ RecvTryEmpty(g) \/ RecvTryClosed(g) \/ RecvTryEmptyAgain(g)
  \/ SelLock(g) \/ SelectPoll(g) \/ SelectFinish(g)
  \/ CloseMark(g) \/ CloseRecv(g) \/ CloseSend(g)
  \/ Ready(g) \/ Return(g)

Next == \E g \in G : Continue(g) \/ \E o \in Ops : Call(g, o)

Spec == Init /\ [][Next]_vars

-----------------------------------------------------------------------------
Queues == {ch[c].recvq : c \in C} \cup {ch[c].sendq : c \in C}

Hchan(c) ==
  LET index == IF Cap[c] = 0 THEN {0} ELSE 0 .. Cap[c] - 1 IN
  [buf : [0 .. Cap[c] - 1 -> Value], sendx : index, recvx : index,
   qcount : 0 .. Cap[c], closed : BOOLEAN, recvq : Seq(Sudog), sendq : Seq(Sudog)]

TypeOK ==
  /\ DOMAIN ch = C /\ \A c \in C : ch[c] \in Hchan(c)
  /\ owner \in [C -> G \cup {None}]
  /\ pc \in [G -> ChanPC]
  /\ op \in [G -> Ops \cup {None}]
  /\ toLock \in [G -> SUBSET C]
  /\ selectDone \in [G -> BOOLEAN]
  /\ wake \in [G -> Seq(Wakeup)]
  /\ param \in [G -> Wakeup \cup {None}]
  /\ elem \in [G -> Value]

(* The comment at the head of chan.go, for a channel nobody has locked.    *)
OneGoroutine(q) == \A s, t \in ToSet(q) : s.g = t.g

QueuesExclusive ==
  \A c \in C : owner[c] = None =>
    /\ \/ ch[c].recvq = <<>> \/ ch[c].sendq = <<>>
       \/ Cap[c] = 0 /\ OneGoroutine(ch[c].recvq \o ch[c].sendq)
    /\ ch[c].qcount > 0 => ch[c].recvq = <<>>
    /\ ch[c].qcount < Cap[c] => ch[c].sendq = <<>>
    /\ ch[c].closed => ch[c].recvq = <<>> /\ ch[c].sendq = <<>>

(* A goroutine that waits is in each of its queues, once, and nobody is    *)
(* about to wake it, or exactly one wakeup of it is under way; no sudog is *)
(* left in a queue when its call is over.  And nobody throws "spurious     *)
(* wakeup": a sender that is woken without having sent finds its channel   *)
(* closed.                                                                 *)
WakeupsFor(g) ==
  UNION {{<<h, n>> : n \in {m \in DOMAIN wake[h] : wake[h][m].sg.g = g}} : h \in G}

QueuedFor(g) == {i \in Cases(g) :
  LET c == ch[ChanOf(g, i)] IN
  Contains(IF Sends(g, i) THEN c.sendq ELSE c.recvq, [g |-> g, case |-> i])}

WokenOnce ==
  /\ \A g \in G :
       IF pc[g] = "parked"
       THEN \/ WakeupsFor(g) = {} /\ ~selectDone[g] /\ QueuedFor(g) = Cases(g)
            \/ /\ Cardinality(WakeupsFor(g)) = 1
               /\ op[g].kind = "select" => selectDone[g]
       ELSE WakeupsFor(g) = {}
  /\ \A q \in Queues : \A n \in DOMAIN q :
       /\ pc[q[n].g] \in {"parked", "relock"} /\ q[n].case \in Cases(q[n].g)
       /\ \A m \in DOMAIN q : q[m] = q[n] => m = n
  /\ \A g \in G :
       param[g] # None /\ ~param[g].success => ch[ChanOf(g, param[g].sg.case)].closed

-----------------------------------------------------------------------------
(* chan.go and select.go implement the channels of module Channel.  A call *)
(* whose goroutine somebody has dequeued has its result, although the      *)
(* goroutine still sleeps.                                                 *)

Contents(c) ==
  [n \in 1 .. ch[c].qcount |-> ch[c].buf[(ch[c].recvx + n - 1) % Cap[c]]]

Wakeups(g) ==
  {w \in (UNION {ToSet(wake[h]) : h \in G}) \cup {param[g]} :
     w # None /\ w.sg.g = g}

\* It waits, and nobody has completed its call.
Asleep(g) == pc[g] = "parked" /\ Wakeups(g) = {}

(* No goroutines wait for each other's channel locks: of any that are      *)
(* taking locks, one takes its last or waits for somebody else.            *)
NoLockCycle ==
  \A H \in (SUBSET G) \ {{}} : \E g \in H :
    toLock[g] = {} \/ \E c \in C : NextLock(g, c) /\ owner[c] \notin H

(* No deadlock: no cycle of locks; and when no goroutine can go on, those  *)
(* inside a call all sleep for want of a partner.                          *)
NoDeadlock ==
  /\ NoLockCycle
  /\ \/ \E g \in G : ENABLED Continue(g)
     \/ \A g \in G : op[g] = None \/ Asleep(g)

ResultOf(g) ==
  IF Wakeups(g) = {} THEN result[g]
  ELSE Outcome(CHOOSE w \in Wakeups(g) : TRUE)

Abstract == INSTANCE Channel WITH
  NoOp <- None, NoRes <- None,
  queue <- [c \in C |-> Contents(c)],
  closed <- [c \in C |-> ch[c].closed],
  call <- op,
  result <- [g \in G |-> ResultOf(g)]

Implements == Abstract!Spec
=============================================================================
