------------------------------ MODULE PollDesc ------------------------------
(***************************************************************************)
(* A pollDesc (runtime/netpoll.go) between the goroutines that do I/O on a *)
(* descriptor, the kernel's readiness events, the deadline timers and      *)
(* Close.                                                                  *)
(*                                                                         *)
(* closing and the sign of rd and wd stand for atomicInfo as well: each is *)
(* published in the stretch under pd.lock that changes it, before the      *)
(* netpollunblock that follows.  Every netpollunblock is a step of its own, since       *)
(* goroutines look at atomicInfo and rg without the lock.  A goroutine     *)
(* taken out of rg is in woken until somebody has called goready for it.   *)
(***************************************************************************)
EXTENDS Integers

CONSTANTS
  G,
  NoG,        \* pd.lock is free
  TheTimer    \* a deadline timer that holds pd.lock

Mode == {"r", "w"}

VARIABLES
  fdseq,
  closing, eventErr,
  rg,          \* rg and wg
  deadline,    \* rd and wd: 0 for none, negative for one that is past
  seq,         \* rseq and wseq
  timer,       \* rt and wt
  pdlock,      \* who holds pd.lock and the modes it has still to unblock
  fired,       \* timer functions that have started and not got pd.lock
  woken,
  events,      \* what epoll has reported and netpoll not looked at yet
  delivering,  \* events that passed netpoll's look at fdseq
  registered, readable,  \* the kernel's side of the descriptor
  now

info == <<closing, eventErr>>
timers == <<deadline, seq, timer, fired>>
kernel == <<events, delivering, registered, readable>>
pdvars == <<fdseq, info, rg, timers, pdlock, woken, kernel, now>>

NoTimer == [f |-> {}, armed |-> FALSE, seq |-> 0, when |-> 0]
Unlocked == [by |-> NoG, todo |-> {}]

PdInit ==
  /\ fdseq = 1
  /\ closing = FALSE /\ eventErr = FALSE
  /\ rg = [m \in Mode |-> "nil"]
  /\ deadline = [m \in Mode |-> 0]
  /\ seq = [m \in Mode |-> 1]
  /\ timer = [m \in Mode |-> NoTimer]
  /\ pdlock = Unlocked
  /\ fired = {} /\ woken = {}
  /\ events = {} /\ delivering = {}
  /\ registered = TRUE
  /\ readable = [m \in Mode |-> FALSE]
  /\ now = 0

-----------------------------------------------------------------------------
(* Blocking.  Each definition is one access of rg.                         *)

\* netpollcheckerr
CheckErr(m) ==
  IF closing THEN "closing"
  ELSE IF deadline[m] < 0 THEN "timeout"
  ELSE IF m = "r" /\ eventErr THEN "notpollable"
  ELSE "none"

SetRg(m, x) == rg' = [rg EXCEPT ![m] = x]

\* netpollunblock
Unblock(m, ioready) ==
  /\ SetRg(m, IF ioready \/ rg[m] = "ready" THEN "ready" ELSE "nil")
  /\ woken' = woken \cup ({rg[m]} \cap G)

-----------------------------------------------------------------------------
(* pd.lock.  A stretch under it that has goroutines to unblock keeps it    *)
(* until it has done so.                                                   *)

LockPd(who, todo) ==
  /\ pdlock = Unlocked
  /\ pdlock' = IF todo = {} THEN Unlocked ELSE [by |-> who, todo |-> todo]

\* Readers are unblocked before writers.
FirstOf(ms) == IF "r" \in ms THEN "r" ELSE "w"

Expire(m) == deadline' = [deadline EXCEPT ![m] = -1]

\* The calls of netpollunblock, and the unlock after the last.  A timer that
\* serves both modes expires the second deadline only now.
UnblockNext ==
  /\ pdlock # Unlocked
  /\ LET m == FirstOf(pdlock.todo)
         rest == pdlock.todo \ {m}
     IN /\ Unblock(m, FALSE)
        /\ pdlock' = IF rest = {} THEN Unlocked ELSE [pdlock EXCEPT !.todo = rest]
        /\ \/ pdlock.by = TheTimer /\ rest # {} /\ Expire(FirstOf(rest))
           \/ (pdlock.by # TheTimer \/ rest = {}) /\ UNCHANGED deadline
  /\ UNCHANGED <<fdseq, info, seq, timer, fired, kernel, now>>

\* One timer serves both modes when their deadlines are the same.
Combo(d) == d["r"] > 0 /\ d["r"] = d["w"]

\* The modes that the function of each timer is to expire.
Covers(d, m) ==
  CASE d[m] <= 0 -> {}
    [] Combo(d)  -> IF m = "r" THEN Mode ELSE {}
    [] OTHER     -> {m}

Rearmed(d, m) ==
  timer[m].f # {} /\ (d[m] # deadline[m] \/ Combo(d) # Combo(deadline))

\* Slip: a stopped or moved timer keeps its sequence number.
NextSeqKept(d, m) == seq[m]

NextSeq(d, m) == IF Rearmed(d, m) THEN seq[m] + 1 ELSE seq[m]

NextTimer(d, m) ==
  IF timer[m].f = {} \/ Rearmed(d, m)
  THEN IF Covers(d, m) = {} THEN NoTimer
       ELSE [f |-> Covers(d, m), armed |-> TRUE, seq |-> NextSeq(d, m), when |-> d[m]]
  ELSE timer[m]

\* poll_runtime_pollSetDeadline for the modes ms; t = 0 clears the deadline.
PollSetDeadline(who, ms, t) ==
  /\ \/ /\ closing
        /\ LockPd(who, {})
        /\ UNCHANGED timers
     \/ /\ ~closing
        /\ LET d == [m \in Mode |-> IF m \notin ms THEN deadline[m]
                                    ELSE IF t > 0 THEN now + t ELSE t]
           IN /\ deadline' = d
              /\ seq' = [m \in Mode |-> NextSeq(d, m)]
              /\ timer' = [m \in Mode |-> NextTimer(d, m)]
              /\ LockPd(who, {m \in Mode : d[m] < 0})
        /\ UNCHANGED fired
  /\ UNCHANGED <<fdseq, info, rg, woken, kernel, now>>

\* poll_runtime_pollUnblock
PollUnblock(who) ==
  /\ LockPd(who, Mode)
  /\ closing' = TRUE
  /\ seq' = [m \in Mode |-> seq[m] + 1]
  /\ timer' = [m \in Mode |-> NoTimer]
  /\ UNCHANGED <<fdseq, eventErr, rg, deadline, fired, woken, kernel, now>>

-----------------------------------------------------------------------------
(* Timers.                                                                 *)

\* Time passes while a timer waits for it.
Tick ==
  /\ \E m \in Mode : timer[m].armed /\ timer[m].when > now
  /\ now' = now + 1
  /\ UNCHANGED <<fdseq, info, rg, timers, pdlock, woken, kernel>>

\* A timer is due: its function starts, with the seq it was armed with.
FireTimer(m) ==
  /\ timer[m].armed /\ timer[m].when <= now
  /\ timer' = [timer EXCEPT ![m].armed = FALSE]
  /\ fired' = fired \cup {[f |-> timer[m].f, seq |-> timer[m].seq]}
  /\ UNCHANGED <<fdseq, info, rg, deadline, seq, pdlock, woken, kernel, now>>

CurrentSeq(x) == seq[FirstOf(x.f)]

\* Slip: run the timer whatever has become of the deadline it was set for.
StaleNever(x) == FALSE

Stale(x) == x.seq # CurrentSeq(x)

\* netpolldeadlineimpl
RunTimer(x) ==
  /\ x \in fired
  /\ fired' = fired \ {x}
  /\ \/ Stale(x) /\ LockPd(TheTimer, {}) /\ UNCHANGED deadline
     \/ /\ ~Stale(x)
        /\ LockPd(TheTimer, x.f)
        /\ Expire(FirstOf(x.f))
  /\ UNCHANGED <<fdseq, info, rg, seq, timer, woken, kernel, now>>

-----------------------------------------------------------------------------
(* Readiness, edge triggered.                                              *)

\* The kernel: data or room arrives, or an error alone.
Arrive(ms, err) ==
  /\ registered
  /\ readable' = [m \in Mode |-> readable[m] \/ m \in ms]
  /\ events' = events \cup {[modes |-> ms, err |-> err, tag |-> fdseq]}
  /\ UNCHANGED <<fdseq, info, rg, timers, pdlock, woken, delivering, registered, now>>

\* netpoll: events of an earlier use of the pollDesc are dropped.
Poll(ev) ==
  /\ ev \in events
  /\ events' = events \ {ev}
  /\ \/ /\ ev.tag = fdseq
        /\ eventErr' = ev.err
        /\ delivering' = delivering \cup {[modes |-> ev.modes, tag |-> ev.tag]}
     \/ /\ ev.tag # fdseq
        /\ UNCHANGED <<eventErr, delivering>>
  /\ UNCHANGED <<fdseq, closing, rg, timers, pdlock, woken, registered, readable, now>>

\* netpollready; in the meantime the pollDesc may have been freed or reused.
Deliver(x, m) ==
  /\ x \in delivering
  /\ m \in x.modes
  /\ m = "w" => "r" \notin x.modes
  /\ Unblock(m, TRUE)
  /\ delivering' = (delivering \ {x}) \cup
       (IF x.modes = {m} THEN {} ELSE {[x EXCEPT !.modes = @ \ {m}]})
  /\ UNCHANGED <<fdseq, info, timers, pdlock, events, registered, readable, now>>

-----------------------------------------------------------------------------
(* The end of one use of the pollDesc and the beginning of the next.       *)

\* netpollclose
PollClose ==
  /\ registered' = FALSE
  /\ UNCHANGED <<fdseq, info, rg, timers, pdlock, woken, events, delivering, readable, now>>

\* pollCache.free
Free ==
  /\ LockPd(NoG, {})
  /\ fdseq' = fdseq + 1
  /\ UNCHANGED <<info, rg, timers, woken, kernel, now>>

\* poll_runtime_pollOpen, on a pollDesc taken from the cache.
PollOpen ==
  /\ LockPd(NoG, {})
  /\ closing' = FALSE /\ eventErr' = FALSE
  /\ seq' = [m \in Mode |-> seq[m] + 1]
  /\ rg' = [m \in Mode |-> "nil"]
  /\ deadline' = [m \in Mode |-> 0]
  /\ registered' = TRUE
  /\ readable' = [m \in Mode |-> FALSE]
  /\ UNCHANGED <<fdseq, timer, fired, woken, events, delivering, now>>

-----------------------------------------------------------------------------
(* Every deadline that lies ahead has a timer that will expire it: one     *)
(* that is set for that moment or whose function has started, and that     *)
(* carries the current sequence number, so that it will not be taken for a *)
(* stale one, or one whose function is at it.                              *)
DeadlineArmed ==
  \A m \in Mode : deadline[m] > 0 /\ ~closing =>
    \/ \E n \in Mode :
         /\ timer[n].armed /\ m \in timer[n].f
         /\ timer[n].seq = seq[n] /\ timer[n].when = deadline[m]
    \/ \E x \in fired : m \in x.f /\ ~Stale(x)
    \/ pdlock.by = TheTimer /\ m \in pdlock.todo
=============================================================================
