----------------------------- MODULE MCSyncMap -----------------------------
(***************************************************************************)
(* SyncMap with a history variable: what one key of the map may contain,   *)
(* and what the pending calls for that key may have returned, if every     *)
(* call takes effect at one moment between its beginning and its return.   *)
(* Calls for other keys do not touch this key, so the map is linearizable  *)
(* if each of its keys is.                                                 *)
(***************************************************************************)
EXTENDS SyncMap

CONSTANTS
  g1, g2, g3, k1, k2, v1, v2,
  Pending   \* a call that has not taken effect

VARIABLE
  history   \* the possible [val, done]: contents, and effects of pending calls

-----------------------------------------------------------------------------
\* c takes effect on contents v.
Contents(c, v) == Loaded(Pointer(c, IF v = None THEN Nil ELSE v))

Effect(g, c, h) ==
  [val |-> Contents(c, h.val), done |-> [h.done EXCEPT ![g] = Result(c, h.val)]]

\* All that pending calls may have done, in any order.
Closed(H, calls) ==
  LET Some[n \in 0 .. Cardinality(G)] ==
        IF n = 0 THEN H
        ELSE Some[n - 1] \cup
             {Effect(x[1], calls[x[1]], x[2]) :
                x \in {y \in G \X Some[n - 1] : y[2].done[y[1]] = Pending}}
  IN  Some[Cardinality(G)]

Began(g, c) ==
  Closed({[h EXCEPT !.done[g] = Pending] : h \in history}, [call EXCEPT ![g] = c])

\* Those possibilities remain that agree with what the call of g returns.
Ended(g, H) ==
  IF At(g, "out")'
  THEN {[h EXCEPT !.done[g] = None] : h \in {i \in H : i.done[g] = res'[g]}}
  ELSE H

HistoryInit == Init /\ history = {[val |-> None, done |-> [g \in G |-> None]]}

HistoryNext ==
  \E g \in G :
    \/ \E c \in Call(g) :
         /\ Hit(g, c) \/ Miss(g, c) \/ RangeBegin(g, c)
         /\ history' = IF c.key = k1 THEN Ended(g, Began(g, c)) ELSE history
    \/ /\ Step(g)
       /\ history' = IF call[g].key = k1 THEN Ended(g, history) ELSE history

HistorySpec == HistoryInit /\ [][HistoryNext]_<<vars, history>>

\* What a call has returned does not matter any more.
View == <<mvars, p, pc, call, e, rest, history,
          [g \in G |-> IF At(g, "out") THEN None ELSE res[g]]>>

(* The map behaves as if every call took effect at one moment between its  *)
(* beginning and its return: for what the calls have returned there is     *)
(* always such an order.                                                   *)
Linearizable == history # {}

-----------------------------------------------------------------------------
Op(kind, k, old, v) == [kind |-> kind, key |-> k, old |-> old, val |-> v]

\* A goroutine that stores and replaces, one that stores and deletes, and one
\* that reads and compares: two stores meet at a key, and a store that makes
\* the dirty map (k2) expunges the entry that another one stores to (k1).
Calls(g) ==
  CASE g = g1 -> {Op("Swap", k1, None, v1), Op("CompareAndSwap", k1, v1, v2),
                  Op("Swap", k2, None, v1)}
    [] g = g2 -> {Op("LoadOrStore", k1, None, v2), Op("LoadAndDelete", k1, None, None),
                  Op("LoadAndDelete", k2, None, None)}
    [] g = g3 -> {Op("Load", k1, None, None), Op("Range", k1, None, None),
                  Op("CompareAndDelete", k1, v1, None)}
=============================================================================
