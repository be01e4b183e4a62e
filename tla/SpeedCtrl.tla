----------------------------- MODULE SpeedCtrl ------------------------------
(***************************************************************************)
(* network/jmp.go's SpeedCtrl (httpd.go holds a copy): a connection that   *)
(* makes its callers sleep in Read and in Write so that neither direction  *)
(* exceeds its limit.  Each direction has its own counter and its own      *)
(* baseline, a moment and the count at that moment; a call that finds the  *)
(* count above the line through the baseline sleeps until the line has     *)
(* caught up, any other call moves the baseline.                           *)
(*                                                                         *)
(* Time is counted in the time the limit grants one byte, so the line      *)
(* rises by one a tick.  One goroutine reads and one writes (the copiers   *)
(* of module Tunnel); any number may call Close.                           *)
(***************************************************************************)
EXTENDS Integers

CONSTANTS
  Dirs,      \* the directions, "rx" and "tx": they share only die and In
  Limited,   \* those that have a limit
  Closers,   \* the goroutines that may call Close
  MaxChunk,  \* the most bytes one call moves
  MaxTime,   \* bound of the clock
  MaxMoved,  \* bound of the bytes moved in each direction
  Nobody     \* nobody holds the lock

ASSUME SpeedAssumption ==
  /\ Limited \subseteq Dirs
  /\ MaxChunk \in Nat \ {0}
  /\ MaxTime \in Nat /\ MaxMoved \in Nat
  /\ Nobody \notin Closers

VARIABLES
  now,      \* the clock
  total,    \* Rx, Tx: bytes moved
  since,    \* rxt, txt: the baseline's moment
  from,     \* rx0, tx0: the baseline's count
  pc,       \* where each direction's goroutine is
  failed,   \* its call of In has failed
  until,    \* when its sleep ends
  die,      \* whether the channel die is closed
  lock,     \* who holds dieLock
  inOpen,   \* whether In is open
  cpc,      \* where each closer is
  excess    \* history: the most by which any period up to now exceeds its due

vars == <<now, total, since, from, pc, failed, until, die, lock, inOpen, cpc,
          excess>>
closeVars == <<die, lock, inOpen, cpc>>

MaxOf(a, b) == IF a < b THEN b ELSE a

Init ==
  /\ now = 0
  /\ total = [d \in Dirs |-> 0]
  /\ since = [d \in Dirs |-> 0] /\ from = [d \in Dirs |-> 0]
  /\ pc = [d \in Dirs |-> "call"]
  /\ failed = [d \in Dirs |-> FALSE]
  /\ until = [d \in Dirs |-> 0]
  /\ die = FALSE /\ lock = Nobody /\ inOpen = TRUE
  /\ cpc = [c \in Closers |-> "idle"]
  /\ excess = [d \in Dirs |-> 0]

-----------------------------------------------------------------------------
Tick ==
  /\ now < MaxTime
  /\ now' = now + 1
  /\ excess' = [d \in Dirs |-> MaxOf(excess[d] - 1, 0)]
  /\ UNCHANGED <<total, since, from, pc, failed, until, closeVars>>

(* In.Read or In.Write has moved n bytes; the counter is increased. *)
Moves(d) ==
  /\ pc[d] = "call"
  /\ inOpen
  /\ \E n \in 1 .. MaxChunk :
       /\ total[d] + n <= MaxMoved
       /\ total' = [total EXCEPT ![d] = @ + n]
       /\ excess' = [excess EXCEPT ![d] = @ + n]
  /\ pc' = [pc EXCEPT ![d] = IF d \in Limited THEN "account" ELSE "call"]
  /\ UNCHANGED <<now, since, from, failed, until, closeVars>>

(* In has failed, as it does once it is closed. *)
Fails(d) ==
  /\ pc[d] = "call"
  /\ failed' = [failed EXCEPT ![d] = TRUE]
  /\ pc' = [pc EXCEPT ![d] = IF d \in Limited THEN "account" ELSE "ended"]
  /\ UNCHANGED <<now, total, since, from, until, closeVars, excess>>

(* What the goroutine does when the call has returned. *)
Returns(d) ==
  pc' = [pc EXCEPT ![d] = IF failed[d] THEN "ended" ELSE "call"]

(* emsRx, emsTx: the line through the baseline, now. *)
Ems(d) == from[d] + (now - since[d])

Over(d) == total[d] - Ems(d)

Sleeps(d) ==
  /\ pc[d] = "account"
  /\ Over(d) > 0
  /\ until' = [until EXCEPT ![d] = now + Over(d)]
  /\ pc' = [pc EXCEPT ![d] = "sleep"]
  /\ UNCHANGED <<now, total, since, from, failed, closeVars, excess>>

M_KeepsCount(d) ==
  /\ pc[d] = "account"
  /\ Over(d) <= 0
  /\ UNCHANGED <<since, from>>
  /\ Returns(d)
  /\ UNCHANGED <<now, total, failed, until, closeVars, excess>>

M_Swapped(d) ==
  /\ pc[d] = "account"
  /\ Over(d) <= 0
  /\ since' = [since EXCEPT ![d] = total[d]]
  /\ from' = [from EXCEPT ![d] = now]
  /\ Returns(d)
  /\ UNCHANGED <<now, total, failed, until, closeVars, excess>>

Rebases(d) ==
  /\ pc[d] = "account"
  /\ Over(d) <= 0
  /\ since' = [since EXCEPT ![d] = now]
  /\ from' = [from EXCEPT ![d] = total[d]]
  /\ Returns(d)
  /\ UNCHANGED <<now, total, failed, until, closeVars, excess>>

M_OnlyTimer(d) == now >= until[d]

M_OnlyDie(d) == die

(* The select: <-c.die or <-time.After(sleepT) *)
Awake(d) == die \/ now >= until[d]

Wakes(d) ==
  /\ pc[d] = "sleep"
  /\ Awake(d)
  /\ Returns(d)
  /\ UNCHANGED <<now, total, since, from, failed, until, closeVars, excess>>

-----------------------------------------------------------------------------
(* Close.  The lock is given back only where the channel is closed already. *)

CallsClose(c) ==
  /\ cpc[c] = "idle"
  /\ cpc' = [cpc EXCEPT ![c] = "lock"]
  /\ UNCHANGED <<now, total, since, from, pc, failed, until, die, lock, inOpen,
                 excess>>

M_NoLock(c) == UNCHANGED lock

(* dieLock.Lock() *)
Acquire(c) == lock = Nobody /\ lock' = c

Locks(c) ==
  /\ cpc[c] = "lock"
  /\ Acquire(c)
  /\ cpc' = [cpc EXCEPT ![c] = "select"]
  /\ UNCHANGED <<now, total, since, from, pc, failed, until, die, inOpen, excess>>

(* case <-c.die: unlock and return; default: go on. *)
Selects(c) ==
  /\ cpc[c] = "select"
  /\ lock' = IF die THEN Nobody ELSE lock
  /\ cpc' = [cpc EXCEPT ![c] = IF die THEN "returned" ELSE "closeDie"]
  /\ UNCHANGED <<now, total, since, from, pc, failed, until, die, inOpen, excess>>

ClosesDie(c) ==
  /\ cpc[c] = "closeDie"
  /\ die' = TRUE
  /\ cpc' = [cpc EXCEPT ![c] = "closeIn"]
  /\ UNCHANGED <<now, total, since, from, pc, failed, until, lock, inOpen, excess>>

(* return c.In.Close() *)
ClosesIn(c) ==
  /\ cpc[c] = "closeIn"
  /\ inOpen' = FALSE
  /\ cpc' = [cpc EXCEPT ![c] = "returned"]
  /\ UNCHANGED <<now, total, since, from, pc, failed, until, die, lock, excess>>

(* proxyConn: its tunnel has ended, and what it closes then is In, not the *)
(* SpeedCtrl.                                                              *)
ProxyConnReturns ==
  /\ inOpen
  /\ inOpen' = FALSE
  /\ UNCHANGED <<now, total, since, from, pc, failed, until, die, lock, cpc, excess>>

-----------------------------------------------------------------------------
Call(d) == Moves(d) \/ Fails(d) \/ Sleeps(d) \/ Rebases(d) \/ Wakes(d)
Close(c) == Locks(c) \/ Selects(c) \/ ClosesDie(c) \/ ClosesIn(c)

Next ==
  \/ Tick
  \/ \E d \in Dirs : Call(d)
  \/ \E c \in Closers : CallsClose(c) \/ Close(c)
  \/ ProxyConnReturns

Spec == Init /\ [][Next]_vars

(* The Go scheduler; a call on an In that is closed fails.  Nothing is     *)
(* assumed of the clock.                                                   *)
FairSpec ==
  /\ Spec
  /\ \A d \in Dirs :
       /\ WF_vars(Sleeps(d) \/ Rebases(d) \/ Wakes(d))
       /\ WF_vars(~inOpen /\ Fails(d))
  /\ \A c \in Closers : WF_vars(Close(c))

-----------------------------------------------------------------------------
TypeOK ==
  /\ now \in 0 .. MaxTime
  /\ total \in [Dirs -> Nat]
  /\ since \in [Dirs -> 0 .. MaxTime]
  /\ from \in [Dirs -> Nat]
  /\ pc \in [Dirs -> {"call", "account", "sleep", "ended"}]
  /\ failed \in [Dirs -> BOOLEAN]
  /\ until \in [Dirs -> Nat]
  /\ die \in BOOLEAN /\ inOpen \in BOOLEAN
  /\ lock \in Closers \cup {Nobody}
  /\ cpc \in [Closers -> {"idle", "lock", "select", "closeDie", "closeIn", "returned"}]
  /\ excess \in [Dirs -> Nat]

(***************************************************************************)
(* In every period, whenever it begins and ends, a limited direction moves *)
(* no more than its limit grants for the period and two chunks: what a     *)
(* direction did not use while it was idle is not saved up for a burst.    *)
(***************************************************************************)
RateKept == ~die => \A d \in Limited : excess[d] <= 2 * MaxChunk

(***************************************************************************)
(* The channel die is closed once, however many goroutines call Close at   *)
(* the same time: a second close would panic.                              *)
(***************************************************************************)
DieClosedOnce == [][\A c \in Closers : ClosesDie(c) => ~die]_vars

AllEnded == \A d \in Dirs : pc[d] = "ended"
ClockSuffices == \A d \in Dirs : until[d] <= MaxTime

(***************************************************************************)
(* Close sets free whoever sleeps in Read or Write, without waiting for    *)
(* the end of the sleep, and both goroutines then come to their end.  When *)
(* proxyConn closes the connection below instead, as jmp.go does, they end *)
(* as well, once their sleeps are over (if that is within the clock).      *)
(***************************************************************************)
CloseEndsCalls ==
  /\ die ~> AllEnded
  /\ WF_vars(Tick) => (~inOpen ~> AllEnded \/ ~ClockSuffices)

=============================================================================
