------------------------------ MODULE Channel ------------------------------
(***************************************************************************)
(* What a Go channel promises: a bounded queue of values, or a meeting     *)
(* point if its capacity is zero, that can be closed once.  A call offers  *)
(* one communication, or several of which exactly one takes place; a       *)
(* close is a call too.  A call is pending from its start until its result *)
(* is fixed.  runtime/chan.go and select.go implement this (module Chan).  *)
(***************************************************************************)
EXTENDS Integers, Sequences

CONSTANTS
  G,       \* goroutines
  C,       \* channels
  Cap,     \* the capacity of each channel
  Ops,     \* the calls: [kind, cases, block]
  NoOp,    \* no call
  NoRes,   \* no result yet
  Zero     \* the zero value of the element type

VARIABLES
  queue,   \* the values in the channel, oldest first
  closed,
  call,    \* the call of each goroutine
  result   \* and its result: [how, case, val]

channels == <<queue, closed>>

Init ==
  /\ queue = [c \in C |-> <<>>]
  /\ closed = [c \in C |-> FALSE]
  /\ call = [g \in G |-> NoOp]
  /\ result = [g \in G |-> NoRes]

Result(how, i, v) == [how |-> how, case |-> i, val |-> v]

Cases(g) == IF call[g] = NoOp THEN {} ELSE DOMAIN call[g].cases

\* g's call is pending and its i-th case is to send to, or receive from, c.
Offers(g, i, c, send) ==
  /\ i \in Cases(g) /\ call[g].kind # "close"
  /\ call[g].cases[i].chan = c
  /\ call[g].cases[i].send = send
  /\ result[g] = NoRes

Begin(g, o) ==
  /\ call[g] = NoOp
  /\ call' = [call EXCEPT ![g] = o]
  /\ UNCHANGED <<channels, result>>

Return(g) ==
  /\ call[g] # NoOp /\ result[g] # NoRes
  /\ call' = [call EXCEPT ![g] = NoOp]
  /\ result' = [result EXCEPT ![g] = NoRes]
  /\ UNCHANGED channels

Send(g, i, c) ==
  /\ Offers(g, i, c, TRUE)
  /\ ~closed[c] /\ Len(queue[c]) < Cap[c]
  /\ queue' = [queue EXCEPT ![c] = Append(@, call[g].cases[i].val)]
  /\ result' = [result EXCEPT ![g] = Result("ok", i, Zero)]
  /\ UNCHANGED <<closed, call>>

Receive(g, i, c) ==
  /\ Offers(g, i, c, FALSE)
  /\ queue[c] # <<>>
  /\ queue' = [queue EXCEPT ![c] = Tail(@)]
  /\ result' = [result EXCEPT ![g] = Result("ok", i, Head(queue[c]))]
  /\ UNCHANGED <<closed, call>>

(* A sender and a receiver meet: at an empty channel the value goes from   *)
(* one to the other, at a full one the receiver takes the oldest value and *)
(* the sender's takes the place that becomes free.                         *)
Meet(s, i, r, j, c) ==
  LET values == Append(queue[c], call[s].cases[i].val) IN
  /\ s # r
  /\ Offers(s, i, c, TRUE) /\ Offers(r, j, c, FALSE)
  /\ ~closed[c] /\ Len(queue[c]) \in {0, Cap[c]}
  /\ queue' = [queue EXCEPT ![c] = Tail(values)]
  /\ result' = [result EXCEPT ![s] = Result("ok", i, Zero),
                              ![r] = Result("ok", j, Head(values))]
  /\ UNCHANGED <<closed, call>>

ReceiveClosed(g, i, c) ==
  /\ Offers(g, i, c, FALSE)
  /\ closed[c] /\ queue[c] = <<>>
  /\ result' = [result EXCEPT ![g] = Result("closed", i, Zero)]
  /\ UNCHANGED <<channels, call>>

SendClosed(g, i, c) ==
  /\ Offers(g, i, c, TRUE)
  /\ closed[c]
  /\ result' = [result EXCEPT ![g] = Result("panic", i, Zero)]
  /\ UNCHANGED <<channels, call>>

Default(g) ==
  /\ call[g] # NoOp /\ ~call[g].block
  /\ result[g] = NoRes
  /\ result' = [result EXCEPT ![g] = Result("default", 0, Zero)]
  /\ UNCHANGED <<channels, call>>

Close(g, c) ==
  /\ call[g] # NoOp /\ call[g].kind = "close" /\ call[g].cases[1].chan = c
  /\ result[g] = NoRes
  /\ closed' = [closed EXCEPT ![c] = TRUE]
  /\ result' = [result EXCEPT
                 ![g] = Result(IF closed[c] THEN "panic" ELSE "ok", 1, Zero)]
  /\ UNCHANGED <<queue, call>>

Communicate(g, i, c) ==
  \/ Send(g, i, c) \/ Receive(g, i, c)
  \/ ReceiveClosed(g, i, c) \/ SendClosed(g, i, c)
  \/ \E r \in G \ {g} : \E j \in Cases(r) : Meet(g, i, r, j, c)

Next ==
  \E g \in G :
    \/ \E o \in Ops : Begin(g, o)
    \/ Return(g)
    \/ Default(g)
    \/ \E i \in Cases(g) :
         LET c == call[g].cases[i].chan IN Close(g, c) \/ Communicate(g, i, c)

Spec == Init /\ [][Next]_<<channels, call, result>>
=============================================================================
