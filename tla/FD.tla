--------------------------------- MODULE FD ---------------------------------
(***************************************************************************)
(* poll.FD (internal/poll/fd_unix.go, fd_poll_runtime.go): the fdMutex and *)
(* the pollDesc of a descriptor in pollable mode, used by goroutines that  *)
(* read or write, set deadlines and close it.                              *)
(*                                                                         *)
(* Reopen is a new FD that gets the same pollDesc from the cache.  The     *)
(* goroutines have left the old one by then; timers and events have not.   *)
(***************************************************************************)
EXTENDS FdMutex

CONSTANTS
  NoG, TheTimer,
  Scenarios   \* who may do what and how often; one is chosen at the start

VARIABLES
  fdseq, closing, eventErr, rg, deadline, seq, timer, pdlock, fired, woken,
  events, delivering, registered, readable, now,
  pc,
  closer,     \* the goroutine whose Close has closed fd
  csema,
  destroyed,  \* Sysfd is closed
  left        \* what is left of the scenario

PD == INSTANCE PollDesc

Scenario ==
  [io : [G -> SUBSET Mode], setters : SUBSET G, closers : SUBSET G,
   deadlines : SUBSET ((SUBSET Mode) \X Int),
   arrivals : SUBSET ((SUBSET Mode) \X BOOLEAN),
   calls : Nat, opens : Nat, inputs : Nat]

\* A value of rg is one of three words or a goroutine, never both.
ASSUME FDAssumption ==
  /\ G \cap {NoG, TheTimer, "nil", "ready", "wait"} = {}
  /\ NoG # TheTimer
  /\ Scenarios \subseteq Scenario

pdvars == <<fdseq, closing, eventErr, rg, deadline, seq, timer, pdlock, fired, woken,
            events, delivering, registered, readable, now>>
vars == <<muvars, pdvars, pc, closer, csema, destroyed, left>>
fdvars == <<closer, csema, destroyed, left>>

InIO == {"prepare", "reset", "sys", "check", "block", "recheck", "commit",
         "parked", "swap", "unlock"}
Destroying == {"destroy", "free", "sysclose"}
FDPC == {"out", "lock", "set", "decref", "evict", "csema"} \cup InIO \cup Destroying

Init ==
  /\ MuInit /\ PD!PdInit
  /\ pc = [g \in G |-> "out"]
  /\ closer = NoG /\ csema = 0 /\ destroyed = FALSE
  /\ left \in Scenarios

In(here) == {g \in G : pc[g] \in here}

At(g, here) == pc[g] = here
Goto(g, there) == pc' = [pc EXCEPT ![g] = there]

-----------------------------------------------------------------------------
(* Read and Write.                                                         *)

Lock(g, m) ==
  /\ \/ RWLock(g, m) /\ Goto(g, "prepare")
     \/ RWLockWait(g, m) /\ Goto(g, "lock")
  /\ UNCHANGED <<pdvars, closer, csema, destroyed>>

LockWoken(g) == RWLockWoken(g) /\ UNCHANGED <<pdvars, pc, fdvars>>

LockFails(g) == RWLockFails(g) /\ Goto(g, "out") /\ UNCHANGED <<pdvars, fdvars>>

\* pollReset: look for errors first.
Prepare(g) ==
  /\ At(g, "prepare")
  /\ Goto(g, IF PD!CheckErr(mode[g]) = "none" THEN "reset" ELSE "unlock")
  /\ UNCHANGED <<muvars, pdvars, fdvars>>

PdUnchangedButRg ==
  UNCHANGED <<fdseq, closing, eventErr, deadline, seq, timer, pdlock, fired,
              events, delivering, registered, readable, now>>

Reset(g) ==
  /\ At(g, "reset")
  /\ PD!SetRg(mode[g], "nil")
  /\ Goto(g, "sys")
  /\ PdUnchangedButRg /\ UNCHANGED <<muvars, woken, fdvars>>

\* The system call; it takes all that has arrived, or a part.
Syscall(g) ==
  /\ At(g, "sys")
  /\ \/ /\ readable[mode[g]]
        /\ \E more \in BOOLEAN : readable' = [readable EXCEPT ![mode[g]] = more]
        /\ Goto(g, "unlock")
     \/ /\ ~readable[mode[g]]
        /\ Goto(g, "check")
        /\ UNCHANGED readable
  /\ UNCHANGED <<muvars, fdseq, closing, eventErr, rg, deadline, seq, timer,
                 pdlock, fired, woken, events, delivering, registered, now, fdvars>>

\* pollWait, before it tries to block and after each time it was woken.
Check(g) ==
  /\ At(g, "check")
  /\ Goto(g, IF PD!CheckErr(mode[g]) = "none" THEN "block" ELSE "unlock")
  /\ UNCHANGED <<muvars, pdvars, fdvars>>

\* netpollblock: consume a notification or announce that this one waits.
Block(g) ==
  /\ At(g, "block")
  /\ \/ /\ rg[mode[g]] = "ready"
        /\ PD!SetRg(mode[g], "nil")
        /\ Goto(g, "sys")
     \/ /\ rg[mode[g]] = "nil"
        /\ PD!SetRg(mode[g], "wait")
        /\ Goto(g, "recheck")
  /\ PdUnchangedButRg /\ UNCHANGED <<muvars, woken, fdvars>>

\* Slip: park without a second look at the errors.
RecheckNot(g) ==
  /\ At(g, "recheck")
  /\ Goto(g, "commit")
  /\ UNCHANGED <<muvars, pdvars, fdvars>>

Recheck(g) ==
  /\ At(g, "recheck")
  /\ Goto(g, IF PD!CheckErr(mode[g]) = "none" THEN "commit" ELSE "swap")
  /\ UNCHANGED <<muvars, pdvars, fdvars>>

\* netpollblockcommit, run on the way to sleep.
Commit(g) ==
  /\ At(g, "commit")
  /\ \/ /\ rg[mode[g]] = "wait"
        /\ PD!SetRg(mode[g], g)
        /\ Goto(g, "parked")
     \/ /\ rg[mode[g]] # "wait"
        /\ Goto(g, "swap")
        /\ UNCHANGED rg
  /\ PdUnchangedButRg /\ UNCHANGED <<muvars, woken, fdvars>>

\* goready, by whoever has taken g out of rg.
Ready(g) ==
  /\ At(g, "parked") /\ g \in woken
  /\ woken' = woken \ {g}
  /\ Goto(g, "swap")
  /\ PdUnchangedButRg /\ UNCHANGED <<muvars, rg, fdvars>>

Swap(g) ==
  /\ At(g, "swap")
  /\ PD!SetRg(mode[g], "nil")
  /\ Goto(g, IF rg[mode[g]] = "ready" THEN "sys" ELSE "check")
  /\ PdUnchangedButRg /\ UNCHANGED <<muvars, woken, fdvars>>

\* Who gives up the last reference destroys fd.
Leave(g) == Goto(g, IF Last THEN "destroy" ELSE IF g = closer THEN "csema" ELSE "out")

Unlock(g) ==
  /\ At(g, "unlock")
  /\ RWUnlock(g, mode[g])
  /\ Leave(g)
  /\ UNCHANGED <<pdvars, fdvars>>

Wake(g) == UnlockWake(g) /\ UNCHANGED <<pdvars, pc, fdvars>>

-----------------------------------------------------------------------------
(* SetDeadline.                                                            *)

SetDeadline(g) ==
  /\ At(g, "out")
  /\ Incref(g)
  /\ Goto(g, "set")
  /\ UNCHANGED <<pdvars, closer, csema, destroyed>>

Set(g, ms, t) ==
  /\ At(g, "set")
  /\ PD!PollSetDeadline(g, ms, t)
  /\ Goto(g, "decref")
  /\ UNCHANGED <<muvars, fdvars>>

DecrefFD(g) ==
  /\ At(g, "decref") /\ pdlock.by # g
  /\ Decref(g)
  /\ Leave(g)
  /\ UNCHANGED <<pdvars, fdvars>>

-----------------------------------------------------------------------------
(* Close.                                                                  *)

Close(g) ==
  /\ At(g, "out")
  /\ IncrefAndClose(g)
  /\ closer' = g
  /\ Goto(g, "evict")
  /\ UNCHANGED <<pdvars, csema, destroyed>>

CloseWakes(g) == (\E m \in Mode : CloseWake(g, m)) /\ UNCHANGED <<pdvars, pc, fdvars>>

Evict(g) ==
  /\ At(g, "evict") /\ toWake = Zeros
  /\ PD!PollUnblock(g)
  /\ Goto(g, "decref")
  /\ UNCHANGED <<muvars, fdvars>>

\* destroy: take the descriptor out of the poller, give the pollDesc back,
\* close the descriptor and tell the Close that waits.
Destroy(g) ==
  /\ At(g, "destroy") /\ use[g] = "none"
  /\ PD!PollClose
  /\ Goto(g, "free")
  /\ UNCHANGED <<muvars, fdvars>>

FreePd(g) ==
  /\ At(g, "free")
  /\ PD!Free
  /\ Goto(g, "sysclose")
  /\ UNCHANGED <<muvars, fdvars>>

SysClose(g) ==
  /\ At(g, "sysclose")
  /\ destroyed' = TRUE
  /\ csema' = csema + 1
  /\ Goto(g, IF g = closer THEN "csema" ELSE "out")
  /\ UNCHANGED <<muvars, pdvars, closer, left>>

Closed(g) ==
  /\ At(g, "csema") /\ csema > 0
  /\ csema' = csema - 1
  /\ closer' = NoG
  /\ Goto(g, "out")
  /\ UNCHANGED <<muvars, pdvars, destroyed, left>>

Reopen ==
  /\ left.opens > 0
  /\ destroyed
  /\ \A g \in G : pc[g] = "out" /\ use[g] = "none"
  /\ closed' = FALSE /\ destroyed' = FALSE
  /\ PD!PollOpen
  /\ left' = [left EXCEPT !.opens = @ - 1]
  /\ UNCHANGED <<locked, refs, waiters, sems, use, mode, toWake, pc, closer, csema>>

-----------------------------------------------------------------------------
Call(g) ==
  /\ At(g, "out") /\ left.calls > 0
  /\ \/ \E m \in left.io[g] : Lock(g, m)
     \/ g \in left.setters /\ SetDeadline(g)
     \/ g \in left.closers /\ Close(g)
  /\ left' = [left EXCEPT !.calls = @ - 1]

Relock(g, m) == At(g, "lock") /\ Lock(g, m) /\ UNCHANGED left

Continue(g) ==
  \/ \E m \in Mode : Relock(g, m)
  \/ LockFails(g)
  \/ Prepare(g) \/ Reset(g) \/ Syscall(g) \/ Check(g) \/ Block(g) \/ Recheck(g)
  \/ Commit(g) \/ Ready(g) \/ Swap(g) \/ Unlock(g) \/ Wake(g)
  \/ \E d \in left.deadlines : Set(g, d[1], d[2])
  \/ DecrefFD(g) \/ CloseWakes(g) \/ Evict(g)
  \/ Destroy(g) \/ FreePd(g) \/ SysClose(g) \/ Closed(g)

Quietly == UNCHANGED <<muvars, pc, fdvars>>

Unblocks == PD!UnblockNext /\ Quietly
TimePasses == PD!Tick /\ Quietly
TimerFires(m) == PD!FireTimer(m) /\ Quietly
TimerRuns == (\E x \in fired : PD!RunTimer(x)) /\ Quietly
Polls(m) == (\E ev \in events : m \in ev.modes /\ PD!Poll(ev)) /\ Quietly
Delivers(m) == (\E x \in delivering : PD!Deliver(x, m)) /\ Quietly
Arrives ==
  /\ left.inputs > 0
  /\ \E a \in left.arrivals : PD!Arrive(a[1], a[2])
  /\ left' = [left EXCEPT !.inputs = @ - 1]
  /\ UNCHANGED <<muvars, pc, closer, csema, destroyed>>

Progress ==
  \/ \E g \in G : Continue(g) \/ LockWoken(g)
  \/ \E m \in Mode : TimerFires(m) \/ Polls(m) \/ Delivers(m)
  \/ Unblocks \/ TimePasses \/ TimerRuns

Next == Progress \/ Arrives \/ Reopen \/ \E g \in G : Call(g)

Safety == Init /\ [][Next]_vars

(* Something that can go on does: a goroutine inside a call, a timer that  *)
(* is due, the clock, the poller.  This suffices because calls and input   *)
(* are bounded.                                                            *)
Spec == Safety /\ WF_vars(Progress)

-----------------------------------------------------------------------------
TimerRecord == [f : SUBSET Mode, armed : BOOLEAN, seq : Nat, when : Nat]

TypeOK ==
  /\ MuTypeOK
  /\ fdseq \in Nat /\ now \in Nat /\ csema \in Nat
  /\ {closing, eventErr, registered, destroyed} \subseteq BOOLEAN
  /\ rg \in [Mode -> {"nil", "ready", "wait"} \cup G]
  /\ deadline \in [Mode -> Int]
  /\ seq \in [Mode -> Nat]
  /\ timer \in [Mode -> TimerRecord]
  /\ pdlock \in [by : G \cup {NoG, TheTimer}, todo : SUBSET Mode]
  /\ fired \subseteq [f : SUBSET Mode, seq : Nat]
  /\ woken \subseteq G
  /\ events \subseteq [modes : SUBSET Mode, err : BOOLEAN, tag : Nat]
  /\ delivering \subseteq [modes : SUBSET Mode, tag : Nat]
  /\ readable \in [Mode -> BOOLEAN]
  /\ pc \in [G -> FDPC]
  /\ closer \in G \cup {NoG}
  /\ left \in Scenario

(* The throws of netpoll.go: two waiters in one mode, a corrupted pollDesc *)
(* after a wakeup, a deadline timer that fires for no deadline, a second   *)
(* unblock, and a pollDesc that is closed or reused with somebody in it.   *)
NoThrow ==
  /\ \A g \in In({"block"}) : rg[mode[g]] \in {"nil", "ready"}
  /\ \A g \in In({"swap"}) : rg[mode[g]] \notin G
  /\ \A x \in fired : pdlock = PD!Unlocked /\ ~PD!Stale(x) =>
       /\ \A m \in x.f : deadline[m] > 0
       /\ timer[PD!FirstOf(x.f)].f # {}
  /\ In({"evict"}) # {} => ~closing
  /\ In({"destroy"}) # {} => closing
  /\ In(Destroying) # {} \/ destroyed => \A m \in Mode : rg[m] \in {"nil", "ready"}

(* The descriptor is destroyed by one goroutine, once, when nobody is      *)
(* inside any more; nobody touches it or its pollDesc from then on.        *)
DestroyedLast ==
  /\ Cardinality(In(Destroying)) + (IF destroyed THEN 1 ELSE 0) <= 1
  /\ In(Destroying) # {} \/ destroyed =>
       In(InIO \cup {"set", "decref", "evict"}) = {}

(* A goroutine that sleeps in the poller is in rg, or somebody is about to *)
(* ready it.  If it is in rg there is neither input for it, without an     *)
(* event under way, nor a close or an expired deadline, without the holder *)
(* of pd.lock about to unblock it; and for a deadline that lies ahead      *)
(* there is a timer.                                                       *)
NoSleeperForgotten ==
  /\ PD!DeadlineArmed
  /\ \A g \in In({"parked"}) : g \notin woken =>
       LET m == mode[g] IN
       /\ rg[m] = g
       /\ readable[m] => \E e \in events \cup delivering : m \in e.modes /\ e.tag = fdseq
       /\ closing \/ deadline[m] < 0 => m \in pdlock.todo

(* Deadlines do not expire before their time, whatever timers of earlier   *)
(* deadlines, or of an earlier use of the pollDesc, are still running.     *)
OnTime ==
  [][\A m \in Mode : deadline[m] > 0 /\ deadline'[m] = -1 /\ pdlock'.by = TheTimer
                       => deadline[m] <= now]_vars

\* To wait for input without a deadline, or for who does, is no failure.
MayWait(g) ==
  /\ ~closed
  /\ \/ pc[g] = "parked" /\ deadline[mode[g]] = 0 /\ ~readable[mode[g]]
     \/ pc[g] = "lock" /\ locked[mode[g]]

(* All calls end but those: a Close ends every call on the descriptor, its *)
(* own included, whether it waits in the poller, for a lock or for the     *)
(* last reference; nobody sleeps past a deadline, beside input, or for a   *)
(* lock that is free.                                                      *)
CallsEnd == <>[](\A g \in G : pc[g] = "out" \/ MayWait(g))
=============================================================================
