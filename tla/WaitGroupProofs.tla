-------------------------- MODULE WaitGroupProofs --------------------------
(***************************************************************************)
(* Theorems about sync.WaitGroup for any finite set of goroutines and any  *)
(* proper Adds: it does not panic, and everybody who sleeps in Wait is     *)
(* counted once and woken by one Add, at zero.                             *)
(***************************************************************************)
EXTENDS WaitGroup, FiniteSetTheorems, TLAPS

(* A condition, counted.                                                   *)
One(b) == IF b THEN 1 ELSE 0

(* Two sets that differ at most in g differ by at most one in size.        *)
LEMMA SetMove ==
  ASSUME NEW S, NEW T, NEW g, IsFiniteSet(S), S \ {g} = T \ {g}
  PROVE  /\ Cardinality(S) \in Nat /\ Cardinality(T) \in Nat
         /\ Cardinality(T) = Cardinality(S) + One(g \in T) - One(g \in S)
<1>1. IsFiniteSet((S \ {g}) \cup {g})
  BY FS_RemoveElement, FS_AddElement
<1>2. IsFiniteSet(T)
  <2>1. T \subseteq (S \ {g}) \cup {g}
    OBVIOUS
  <2> QED
    BY <1>1, <2>1, FS_Subset
<1>3. /\ Cardinality(S \ {g}) = Cardinality(S) - One(g \in S)
      /\ Cardinality(T \ {g}) = Cardinality(T) - One(g \in T)
  BY <1>2, FS_RemoveElement, FS_CardinalityType DEF One
<1>4. Cardinality(S) \in Nat /\ Cardinality(T) \in Nat
  BY <1>2, FS_CardinalityType
<1>5. Cardinality(S) - One(g \in S) = Cardinality(T) - One(g \in T)
  BY <1>3
<1> QED
  BY <1>4, <1>5 DEF One

WakerPC == {"check", "reset", "release"}

Asleep == Cardinality(In({"asleep"}))

Permits == permits[WgSema]

(* What goes with each control point.                                      *)
CallInv ==
  \A g \in G :
    /\ waitsFor[g] = WgSema <=> pc[g] = "asleep"
    /\ w[g] > 0 <=> pc[g] \in WakerPC
    /\ pc[g] # "panic"

(* The counter is zero while an Add wakes the waiters, and the word stays  *)
(* as that Add has left it.                                                *)
WakerInv ==
  \A g \in G :
    /\ pc[g] \in WakerPC => \A h \in G : pc[h] \in WakerPC => g = h
    /\ pc[g] \in {"check", "reset"} =>
         /\ counter = 0 /\ waiters = w[g] /\ Permits = 0
         /\ \A h \in G : pc[h] # "woken"
    /\ pc[g] = "release" => counter = 0 /\ waiters = 0

(* Without such an Add, nobody is counted at zero.                         *)
ZeroInv == counter = 0 /\ waiters > 0 => \E g \in G : pc[g] \in {"check", "reset"}

AwakeInv ==
  Permits > 0 \/ (\E g \in G : pc[g] = "woken") => counter = 0 /\ waiters = 0

(* WaitersMatched, by whether an Add is in its loop of releases.           *)
MatchInv ==
  /\ (\A g \in G : pc[g] # "release") => Asleep = waiters + Permits
  /\ \A g \in G : pc[g] = "release" => Asleep = waiters + Permits + w[g]

WgInv == TypeOK /\ CallInv /\ WakerInv /\ ZeroInv /\ AwakeInv /\ MatchInv

-----------------------------------------------------------------------------
LEMMA AsleepNat ==
  /\ IsFiniteSet(In({"asleep"})) /\ Asleep \in Nat
  /\ Asleep = 0 <=> \A g \in G : pc[g] # "asleep"
<1>1. IsFiniteSet(In({"asleep"})) /\ Asleep \in Nat
  BY WaitGroupAssumption, FS_Subset, FS_CardinalityType DEF In, Asleep
<1>2. Asleep = 0 <=> In({"asleep"}) = {}
  BY <1>1, FS_EmptySet DEF Asleep
<1> QED
  BY <1>1, <1>2 DEF In

LEMMA AsleepMove ==
  ASSUME TypeOK, NEW g \in G, NEW from, NEW to, Goto(g, from, to)
  PROVE  /\ Asleep' \in Nat
         /\ Asleep' = Asleep + One(to = "asleep") - One(from = "asleep")
<1>1. \A h \in G : pc'[h] = IF h = g THEN to ELSE pc[h]
  BY DEF TypeOK, Goto
<1>2. In({"asleep"}) \ {g} = In({"asleep"})' \ {g}
  BY <1>1 DEF In
<1>3. /\ g \in In({"asleep"}) <=> from = "asleep"
      /\ g \in In({"asleep"})' <=> to = "asleep"
  BY <1>1 DEF In, Goto
<1> QED
  BY <1>2, <1>3, AsleepNat, SetMove DEF Asleep, One

(* The goroutine that moves, and the others that do not.                   *)
LEMMA GotoIs ==
  ASSUME TypeOK, NEW g \in G, NEW from, NEW to, Goto(g, from, to)
  PROVE  pc[g] = from /\ \A h \in G : pc'[h] = IF h = g THEN to ELSE pc[h]
  BY DEF TypeOK, Goto

LEMMA InitInv == Init => WgInv
<1> SUFFICES ASSUME Init PROVE WgInv
  OBVIOUS
<1>1. TypeOK /\ CallInv
  BY WaitGroupAssumption DEF Init, TypeOK, CallInv, WakerPC
<1>2. WakerInv /\ ZeroInv /\ AwakeInv
  BY DEF Init, WakerInv, ZeroInv, AwakeInv, WakerPC, Permits
<1>3. MatchInv
  <2>1. In({"asleep"}) = {}
    BY DEF Init, In
  <2> QED
    BY <2>1, FS_EmptySet DEF Init, MatchInv, Permits, Asleep
<1> QED
  BY <1>1, <1>2, <1>3 DEF WgInv

(* Add finds its preconditions, so it does not panic; the one that brings  *)
(* the counter to zero beside waiters is alone.                            *)
LEMMA AddSomeInv ==
  ASSUME WgInv, NEW g \in G, NEW delta \in Deltas, Proper(delta), Add(g, delta),
         delta # 0
  PROVE  WgInv'
<1> DEFINE v == counter + delta
           to == AddBranch(delta, v)
<1>1. /\ TypeOK /\ delta \in Int /\ delta # 0 /\ v \in 0 .. MaxCounter
      /\ counter \in Nat /\ v \in Nat /\ waiters \in Nat /\ Permits \in Nat
  BY WaitGroupAssumption DEF WgInv, TypeOK, Proper, Permits
<1>2. /\ counter' = v /\ Goto(g, "out", to) /\ UNCHANGED <<waiters, sema>>
      /\ w' = [w EXCEPT ![g] = IF to = "check" THEN waiters ELSE 0]
  BY DEF Add
<1>3. counter = 0 =>
        /\ \A h \in G : pc[h] \notin {"asleep", "woken"}
        /\ waiters = 0 /\ Permits = 0
        /\ \A h \in G : pc[h] \notin WakerPC
  <2> SUFFICES ASSUME counter = 0
               PROVE  /\ \A h \in G : pc[h] \notin {"asleep", "woken"}
                      /\ waiters = 0 /\ Permits = 0
                      /\ \A h \in G : pc[h] \notin WakerPC
    OBVIOUS
  <2>1. \A h \in G : pc[h] \notin {"asleep", "woken"}
    BY <1>1 DEF Proper, In
  <2>2. Asleep = 0
    BY <2>1, AsleepNat
  <2>3. \A h \in G : w[h] \in Nat
    BY <1>1 DEF TypeOK
  <2>4. \A h \in G : pc[h] # "release"
    BY <1>1, <2>2, <2>3 DEF WgInv, MatchInv, CallInv, WakerPC
  <2>5. waiters = 0 /\ Permits = 0
    BY <1>1, <2>2, <2>4 DEF WgInv, MatchInv
  <2>6. \A h \in G : pc[h] \notin {"check", "reset"}
    BY <2>3, <2>5 DEF WgInv, WakerInv, CallInv, WakerPC
  <2> QED
    BY <2>1, <2>4, <2>5, <2>6 DEF WakerPC
<1>4. \A h \in G : pc[h] \notin WakerPC
  BY <1>3 DEF WgInv, WakerInv, WakerPC
<1>5. Permits = 0 /\ \A h \in G : pc[h] # "woken"
  BY <1>1, <1>3 DEF WgInv, AwakeInv
<1>6. to \in {"out", "check"} /\ (to = "check" <=> v = 0 /\ waiters > 0)
  BY <1>1, <1>3 DEF AddBranch
<1>7. pc[g] = "out" /\ \A h \in G : pc'[h] = IF h = g THEN to ELSE pc[h]
  BY <1>1, <1>2, GotoIs
<1>8. Asleep' = Asleep
  <2>1. Asleep' = Asleep + One(to = "asleep") - One("out" = "asleep")
    BY <1>1, <1>2, AsleepMove
  <2> QED
    BY <2>1, <1>6, AsleepNat DEF One
<1>9. \A h \in G : w'[h] = IF h = g /\ to = "check" THEN waiters ELSE IF h = g THEN 0 ELSE w[h]
  BY <1>1, <1>2 DEF TypeOK
<1>10. Permits' = Permits
  BY <1>2 DEF Permits, sema
<1> HIDE DEF v, to
<1>11. TypeOK'
  BY <1>1, <1>2, <1>6 DEF TypeOK, Goto, sema
<1>12. CallInv'
  BY <1>1, <1>2, <1>6, <1>7, <1>9 DEF WgInv, CallInv, WakerPC, sema
<1>13. WakerInv'
  BY <1>2, <1>4, <1>5, <1>6, <1>7, <1>9, <1>10 DEF WakerInv, WakerPC
<1>14. ZeroInv'
  BY <1>2, <1>6, <1>7 DEF ZeroInv
<1>15. AwakeInv'
  BY <1>5, <1>6, <1>7, <1>10 DEF AwakeInv
<1>16. MatchInv'
  BY <1>2, <1>4, <1>6, <1>7, <1>8, <1>10 DEF WgInv, MatchInv, WakerPC
<1> QED
  BY <1>11, <1>12, <1>13, <1>14, <1>15, <1>16 DEF WgInv

(* Add(0) changes nothing: where it is proper it finds no waiters at zero. *)
LEMMA AddNothingInv ==
  ASSUME WgInv, NEW g \in G, Proper(0), Add(g, 0)
  PROVE  WgInv'
<1>1. TypeOK /\ counter \in Nat /\ waiters \in Nat
  BY WaitGroupAssumption DEF WgInv, TypeOK
<1>2. AddBranch(0, counter + 0) = "out" /\ counter + 0 = counter
  BY <1>1 DEF AddBranch, Proper
<1>3. /\ counter' = counter /\ Goto(g, "out", "out") /\ UNCHANGED <<waiters, sema>>
      /\ w' = [w EXCEPT ![g] = 0]
  BY <1>2 DEF Add
<1>4. pc' = pc /\ pc[g] = "out"
  BY <1>1, <1>3 DEF TypeOK, Goto
<1>5. w' = w
  <2>1. w[g] = 0
    BY <1>1, <1>4 DEF WgInv, TypeOK, CallInv, WakerPC
  <2> QED
    BY <1>1, <1>3, <2>1 DEF TypeOK
<1> QED
  BY <1>3, <1>4, <1>5
  DEF WgInv, TypeOK, CallInv, WakerInv, ZeroInv, AwakeInv, MatchInv, Asleep, Permits, In,
      sema, WakerPC

LEMMA AddInv ==
  ASSUME WgInv, NEW g \in G, NEW delta \in Deltas, Proper(delta), Add(g, delta)
  PROVE  WgInv'
BY AddSomeInv, AddNothingInv

(* The steps of the Add that wakes the waiters.                            *)
LEMMA AddCheckInv ==
  ASSUME WgInv, NEW g \in G, AddCheck(g)
  PROVE  WgInv'
<1>1. TypeOK /\ Goto(g, "check", "reset") /\ UNCHANGED <<counter, waiters, sema, w>>
  BY DEF AddCheck, WgInv, WakerInv, Goto
<1>2. pc[g] = "check" /\ \A h \in G : pc'[h] = IF h = g THEN "reset" ELSE pc[h]
  BY <1>1, GotoIs
<1>3. Asleep' = Asleep
  BY <1>1, AsleepMove, AsleepNat DEF One
<1>4. TypeOK' /\ CallInv'
  BY <1>1, <1>2 DEF WgInv, TypeOK, CallInv, WakerPC, Goto, sema
<1>5. WakerInv' /\ ZeroInv' /\ AwakeInv'
  BY <1>1, <1>2 DEF WgInv, WakerInv, ZeroInv, AwakeInv, WakerPC, sema, Permits
<1>6. MatchInv'
  BY <1>1, <1>2, <1>3 DEF WgInv, MatchInv, sema, Permits
<1> QED
  BY <1>4, <1>5, <1>6 DEF WgInv

LEMMA AddResetInv ==
  ASSUME WgInv, NEW g \in G, AddReset(g)
  PROVE  WgInv'
<1>1. /\ TypeOK /\ Goto(g, "reset", "release") /\ UNCHANGED <<sema, w>>
      /\ counter' = 0 /\ waiters' = 0
  BY DEF AddReset, WgInv
<1>2. pc[g] = "reset" /\ \A h \in G : pc'[h] = IF h = g THEN "release" ELSE pc[h]
  BY <1>1, GotoIs
<1>3. /\ counter = 0 /\ waiters = w[g] /\ Permits = 0
      /\ \A h \in G : pc[h] # "woken"
      /\ \A h \in G : pc[h] \in WakerPC => g = h
  BY <1>2 DEF WgInv, WakerInv, WakerPC
<1>4. Asleep' = Asleep /\ Permits' = Permits
  BY <1>1, AsleepMove, AsleepNat DEF One, sema, Permits
<1>5. TypeOK'
  BY <1>1, WaitGroupAssumption DEF TypeOK, Goto, sema
<1>6. CallInv'
  BY <1>1, <1>2 DEF WgInv, CallInv, WakerPC, sema
<1>7. WakerInv' /\ ZeroInv' /\ AwakeInv'
  BY <1>1, <1>2, <1>3, <1>4 DEF WakerInv, ZeroInv, AwakeInv, WakerPC
<1>8. MatchInv'
  <2>1. Asleep = waiters
    BY <1>2, <1>3, <1>1 DEF WgInv, MatchInv, WakerPC, TypeOK
  <2>2. w[g] \in Nat /\ w'[g] = w[g]
    BY <1>1 DEF TypeOK
  <2>3. \A h \in G : pc'[h] = "release" => h = g
    BY <1>2, <1>3 DEF WakerPC
  <2> QED
    BY <1>1, <1>2, <1>3, <1>4, <2>1, <2>2, <2>3 DEF MatchInv
<1> QED
  BY <1>5, <1>6, <1>7, <1>8 DEF WgInv

LEMMA AddReleaseInv ==
  ASSUME WgInv, NEW g \in G, AddRelease(g)
  PROVE  WgInv'
<1> DEFINE to == IF w[g] = 1 THEN "out" ELSE "release"
<1>1. /\ TypeOK /\ Goto(g, "release", to) /\ UNCHANGED <<counter, waiters, waitsFor>>
      /\ w' = [w EXCEPT ![g] = @ - 1]
      /\ permits' = [permits EXCEPT ![WgSema] = @ + 1]
  BY DEF AddRelease, Sem!Give, WgInv
<1>2. pc[g] = "release" /\ \A h \in G : pc'[h] = IF h = g THEN to ELSE pc[h]
  BY <1>1, GotoIs
<1>3. /\ counter = 0 /\ waiters = 0
      /\ \A h \in G : pc[h] \in WakerPC => g = h
      /\ w[g] \in Nat /\ w[g] > 0 /\ Permits \in Nat
  BY <1>1, <1>2 DEF WgInv, WakerInv, WakerPC, CallInv, TypeOK, Permits
<1>4. Permits' = Permits + 1 /\ \A h \in G : w'[h] = IF h = g THEN w[g] - 1 ELSE w[h]
  BY <1>1 DEF TypeOK, Permits
<1>5. Asleep' = Asleep
  <2>1. Asleep' = Asleep + One(to = "asleep") - One("release" = "asleep")
    BY <1>1, AsleepMove
  <2> QED
    BY <2>1, AsleepNat DEF One
<1>6. Asleep = Permits + w[g]
  BY <1>2, <1>3, AsleepNat DEF WgInv, MatchInv
<1>7. TypeOK'
  <2>1. permits' \in [{WgSema} -> Nat]
    BY <1>1 DEF TypeOK
  <2>2. w' \in [G -> Nat]
    BY <1>1, <1>3 DEF TypeOK
  <2>3. pc' \in [G -> {"out", "check", "reset", "release", "asleep", "woken", "panic"}]
    BY <1>1 DEF TypeOK, Goto
  <2> QED
    BY <1>1, <2>1, <2>2, <2>3 DEF TypeOK
<1>8. CallInv'
  BY <1>1, <1>2, <1>3, <1>4 DEF WgInv, CallInv, WakerPC
<1>9. WakerInv' /\ ZeroInv' /\ AwakeInv'
  BY <1>1, <1>2, <1>3, <1>4 DEF WakerInv, ZeroInv, AwakeInv, WakerPC
<1>10. MatchInv'
  <2>1. \A h \in G : pc'[h] = "release" => h = g /\ w[g] # 1
    BY <1>2, <1>3 DEF WakerPC
  <2>2. CASE w[g] = 1
    BY <1>1, <1>3, <1>4, <1>5, <1>6, <2>1, <2>2, AsleepNat DEF MatchInv
  <2>3. CASE w[g] # 1
    <3>1. pc'[g] = "release"
      BY <1>2, <2>3
    <3> QED
      BY <1>1, <1>3, <1>4, <1>5, <1>6, <2>1, <3>1, AsleepNat DEF MatchInv
  <2> QED
    BY <2>2, <2>3
<1> QED
  BY <1>7, <1>8, <1>9, <1>10 DEF WgInv

(* Wait counts itself only beside a positive counter.                      *)
LEMMA WaitInv ==
  ASSUME WgInv, NEW g \in G, Wait(g), counter # 0
  PROVE  WgInv'
<1>1. /\ TypeOK /\ Goto(g, "out", "asleep") /\ UNCHANGED <<counter, permits, w>>
      /\ waiters' = waiters + 1
      /\ waitsFor' = [waitsFor EXCEPT ![g] = WgSema]
  BY DEF Wait, Sem!Want, WgInv
<1>2. pc[g] = "out" /\ \A h \in G : pc'[h] = IF h = g THEN "asleep" ELSE pc[h]
  BY <1>1, GotoIs
<1>3. \A h \in G : pc[h] \notin WakerPC /\ pc[h] # "woken"
  BY DEF WgInv, WakerInv, WakerPC, AwakeInv
<1>4. Permits \in Nat /\ waiters \in Nat /\ Permits = 0
  BY <1>1 DEF WgInv, AwakeInv, TypeOK, Permits
<1>5. Asleep' = Asleep + 1 /\ Asleep \in Nat /\ Permits' = Permits
  BY <1>1, AsleepMove, AsleepNat DEF One, Permits
<1>6. TypeOK'
  BY <1>1 DEF TypeOK, Goto
<1>7. CallInv'
  BY <1>1, <1>2, WaitGroupAssumption DEF WgInv, CallInv, WakerPC, TypeOK
<1>8. WakerInv' /\ ZeroInv' /\ AwakeInv'
  BY <1>1, <1>2, <1>3, <1>4, <1>5 DEF WakerInv, ZeroInv, AwakeInv, WakerPC
<1>9. MatchInv'
  BY <1>1, <1>2, <1>3, <1>4, <1>5 DEF WgInv, MatchInv, WakerPC
<1> QED
  BY <1>6, <1>7, <1>8, <1>9 DEF WgInv

LEMMA WaitWokenInv ==
  ASSUME WgInv, NEW g \in G, WaitWoken(g)
  PROVE  WgInv'
<1>1. /\ TypeOK /\ Goto(g, "asleep", "woken") /\ UNCHANGED <<counter, waiters, w>>
      /\ Permits > 0
      /\ permits' = [permits EXCEPT ![WgSema] = @ - 1]
      /\ waitsFor' = [waitsFor EXCEPT ![g] = NoAddr]
  BY DEF WaitWoken, Sem!Take, WgInv, Permits
<1>2. pc[g] = "asleep" /\ \A h \in G : pc'[h] = IF h = g THEN "woken" ELSE pc[h]
  BY <1>1, GotoIs
<1>3. counter = 0 /\ waiters = 0 /\ Permits \in Nat
  BY <1>1 DEF WgInv, AwakeInv, TypeOK, Permits
<1>4. \A h \in G : pc[h] \notin {"check", "reset"}
  BY <1>1, <1>3 DEF WgInv, WakerInv
<1>5. Asleep' = Asleep - 1 /\ Asleep \in Nat /\ Permits' = Permits - 1
  BY <1>1, AsleepMove, AsleepNat DEF One, Permits, TypeOK
<1>6. TypeOK'
  <2>1. permits' \in [{WgSema} -> Nat]
    BY <1>1, <1>3 DEF TypeOK, Permits
  <2> QED
    BY <1>1, <2>1 DEF TypeOK, Goto
<1>7. CallInv'
  BY <1>1, <1>2, WaitGroupAssumption DEF WgInv, CallInv, WakerPC, TypeOK
<1>8. WakerInv' /\ ZeroInv' /\ AwakeInv'
  BY <1>1, <1>2, <1>3, <1>4 DEF WgInv, WakerInv, ZeroInv, AwakeInv, WakerPC
<1>9. MatchInv'
  BY <1>1, <1>2, <1>3, <1>5 DEF WgInv, MatchInv, TypeOK
<1> QED
  BY <1>6, <1>7, <1>8, <1>9 DEF WgInv

LEMMA WaitReturnInv ==
  ASSUME WgInv, NEW g \in G, WaitReturn(g)
  PROVE  WgInv'
<1>1. pc[g] = "woken" /\ counter = 0 /\ waiters = 0
  BY DEF WaitReturn, Goto, WgInv, AwakeInv
<1>2. TypeOK /\ Goto(g, "woken", "out") /\ UNCHANGED <<counter, waiters, sema, w>>
  BY <1>1 DEF WaitReturn, WgInv
<1>3. \A h \in G : pc'[h] = IF h = g THEN "out" ELSE pc[h]
  BY <1>2, GotoIs
<1>4. Asleep' = Asleep /\ Permits' = Permits
  BY <1>2, AsleepMove, AsleepNat DEF One, sema, Permits
<1>5. TypeOK' /\ CallInv'
  BY <1>1, <1>2, <1>3 DEF WgInv, TypeOK, CallInv, WakerPC, Goto, sema
<1>6. WakerInv' /\ ZeroInv' /\ AwakeInv'
  BY <1>1, <1>2, <1>3, <1>4 DEF WgInv, WakerInv, ZeroInv, AwakeInv, WakerPC
<1>7. MatchInv'
  BY <1>1, <1>2, <1>3, <1>4 DEF WgInv, MatchInv
<1> QED
  BY <1>5, <1>6, <1>7 DEF WgInv

-----------------------------------------------------------------------------
(* The inductive invariant.                                                *)
THEOREM WaitGroupInvariant == Safety => []WgInv
<1>1. WgInv /\ [Next]_vars => WgInv'
  <2> SUFFICES ASSUME WgInv, [Next]_vars PROVE WgInv'
    OBVIOUS
  <2>1. CASE UNCHANGED vars
    <3>1. UNCHANGED <<Asleep, Permits>>
      BY <2>1 DEF vars, sema, Asleep, Permits, In
    <3> QED
      BY <2>1, <3>1 DEF vars, sema, WgInv, TypeOK, CallInv, WakerInv, ZeroInv,
                        AwakeInv, MatchInv
  <2>2. ASSUME NEW g \in G, Wait(g) PROVE WgInv'
    BY <2>1, <2>2, WaitInv DEF Wait
  <2>3. ASSUME NEW g \in G, Call(g) \/ Step(g) \/ WaitWoken(g) PROVE WgInv'
    BY <2>2, <2>3, AddInv, AddCheckInv, AddResetInv, AddReleaseInv, WaitWokenInv,
       WaitReturnInv DEF Call, Step
  <2> QED
    BY <2>1, <2>3 DEF Next
<1> QED
  BY <1>1, InitInv, PTL DEF Safety

(* Type correctness; the waiters in the word and the permits never go      *)
(* below zero.                                                             *)
THEOREM WaitGroupTypeCorrect == Safety => []TypeOK
  BY WaitGroupInvariant, PTL DEF WgInv

(* None of the three panics of waitgroup.go happens in proper use.         *)
THEOREM WaitGroupNoPanic == Safety => []NoPanic
<1>1. WgInv => NoPanic
  BY DEF WgInv, CallInv, NoPanic, In
<1> QED
  BY <1>1, WaitGroupInvariant, PTL

(* Whoever sleeps in Wait is counted once, and woken by one Add, at zero.  *)
THEOREM WaitGroupServesWaiters == Safety => []WaitersServed
<1>1. WgInv => WaitersMatched
  <2> SUFFICES ASSUME WgInv, NEW g \in G, \A h \in G : h # g => Releasing(h) = 0
               PROVE  Asleep = waiters + Permits + Releasing(g)
    BY DEF WaitersMatched, Asleep, Permits
  <2>1. \A h \in G : h # g => pc[h] # "release"
    BY DEF Releasing, WgInv, CallInv, WakerPC
  <2>2. waiters \in Nat /\ Permits \in Nat /\ w[g] \in Nat
    BY DEF WgInv, TypeOK, Permits
  <2>3. CASE pc[g] = "release"
    BY <2>3 DEF WgInv, MatchInv, Releasing
  <2>4. CASE pc[g] # "release"
    BY <2>1, <2>2, <2>4 DEF WgInv, MatchInv, Releasing
  <2> QED
    BY <2>3, <2>4
<1>2. WgInv => OneWaker
  BY DEF WgInv, WakerInv, WakerPC, ZeroInv, OneWaker, In
<1>3. WgInv => AwakeAtZero
  BY DEF WgInv, AwakeInv, AwakeAtZero, In, Permits
<1> QED
  BY <1>1, <1>2, <1>3, WaitGroupInvariant, PTL DEF WaitersServed
=============================================================================
