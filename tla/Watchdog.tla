------------------------------ MODULE Watchdog ------------------------------
(***************************************************************************)
(* rpi-upswdt/upswdt.go: every pingIntv seconds the program pings a list   *)
(* of hosts and, if none answers, fetches a list of URLs.  A cycle in      *)
(* which everything failed arms a timer that powers the machine off; a     *)
(* cycle in which anything answered stops the timer pwdTmr refers to.      *)
(*                                                                         *)
(* Time is counted in ticks and passes only while the program waits: in an *)
(* attempt, in its sleep.  A timer is kept as the time it has left to run. *)
(* Each failed cycle makes pwdTmr refer to a new timer and leaves the old  *)
(* one running: those are the orphans.                                     *)
(***************************************************************************)
EXTENDS Integers

CONSTANTS
  PingHosts,  \* len(pinglist)
  HttpHosts,  \* len(httplist)
  PingMax,    \* the most ticks one ping takes; the program sets no limit
  HttpMax,    \* the most ticks one GET takes: pingTimeout
  PingIntv,   \* pingIntv, in ticks
  Pdr,        \* powerDownTimeout, in ticks; negative: never
  MayFail     \* whether the commands ping and sudo may fail to run

Attempts == PingHosts * PingMax + HttpHosts * HttpMax
Cycle == Attempts + PingIntv

ASSUME WatchdogAssumption ==
  /\ PingHosts \in Nat \ {0} /\ HttpHosts \in Nat \ {0}
  /\ PingMax \in Nat /\ HttpMax \in Nat
  /\ PingIntv \in Nat \ {0}
  /\ Pdr \in Int
  /\ MayFail \in BOOLEAN

VARIABLES
  net,      \* whether the network works
  pc,       \* in which statement of the loop main is
  host,     \* the element of the list being tried
  elapsed,  \* ticks spent in this attempt, or in this sleep
  ok,       \* the loop's variable
  pwdTmr,   \* what the timer pwdTmr refers to has left; none if it is not running
  orphans,  \* what the other running timers have left
  proc,     \* whether the program still runs
  power,    \* whether the machine does
  \* history
  down,     \* ticks since the network went down, up to DownCap
  streak,   \* failed cycles since the last good one, up to 2
  worst     \* the longest streak there has been, up to 2

vars == <<net, pc, host, elapsed, ok, pwdTmr, orphans, proc, power,
          down, streak, worst>>

None == -1
DownCap == Cycle + (IF Pdr < 0 THEN 0 ELSE Pdr) + 1
Running == proc = "run" /\ power = "on"
Left == 0 .. Pdr
MinOf(a, b) == IF a < b THEN a ELSE b
MaxOf(a, b) == IF a < b THEN b ELSE a

Init ==
  /\ net \in BOOLEAN
  /\ pc = "ping" /\ host = 1 /\ elapsed = 0 /\ ok = FALSE
  /\ pwdTmr = None /\ orphans = {}
  /\ proc = "run" /\ power = "on"
  /\ down = 0 /\ streak = 0 /\ worst = 0

history == <<down, streak, worst>>
timers == <<pwdTmr, orphans>>

-----------------------------------------------------------------------------
(* The network goes down or comes back.                                    *)
NetDown ==
  /\ Running /\ net
  /\ net' = FALSE /\ down' = 0
  /\ UNCHANGED <<pc, host, elapsed, ok, timers, proc, power, streak, worst>>

NetUp ==
  /\ Running /\ ~net
  /\ net' = TRUE /\ down' = 0
  /\ UNCHANGED <<pc, host, elapsed, ok, timers, proc, power, streak, worst>>

-----------------------------------------------------------------------------
(* How long the statement main is in may last. *)
Span ==
  CASE pc = "ping" -> PingMax
    [] pc = "http" -> HttpMax
    [] pc = "sleep" -> PingIntv
    [] OTHER -> 0

(* One tick; a timer that has run out fires first. *)
Tick ==
  /\ Running
  /\ elapsed < Span
  /\ pwdTmr # 0 /\ 0 \notin orphans
  /\ elapsed' = elapsed + 1
  /\ pwdTmr' = IF pwdTmr = None THEN None ELSE pwdTmr - 1
  /\ orphans' = {t - 1 : t \in orphans}
  /\ down' = IF net THEN 0 ELSE MinOf(down + 1, DownCap)
  /\ UNCHANGED <<net, pc, host, ok, proc, power, streak, worst>>

(* fn(addr, timeout) says yes: tryPing returns true. *)
TrySucceeds ==
  /\ Running /\ pc \in {"ping", "http"}
  /\ net
  /\ ok' = TRUE /\ pc' = "wait" /\ host' = 1 /\ elapsed' = 0
  /\ UNCHANGED <<net, timers, proc, power, history>>

(* fn(addr, timeout) says no: the next address, the next list, or WAIT. *)
TryFails ==
  /\ Running /\ pc \in {"ping", "http"}
  /\ elapsed' = 0 /\ ok' = FALSE
  /\ IF host < (IF pc = "ping" THEN PingHosts ELSE HttpHosts)
       THEN host' = host + 1 /\ pc' = pc
       ELSE host' = 1 /\ pc' = IF pc = "ping" THEN "http" ELSE "wait"
  /\ UNCHANGED <<net, timers, proc, power, history>>

(* The command ping does not start: ProcessState is nil, Success panics. *)
PingPanics ==
  /\ MayFail
  /\ Running /\ pc = "ping" /\ elapsed = 0
  /\ proc' = "panic"
  /\ UNCHANGED <<net, pc, host, elapsed, ok, timers, power, history>>

M_RearmSame ==
  /\ pwdTmr' = IF Pdr >= 0 THEN Pdr ELSE pwdTmr
  /\ UNCHANGED orphans

M_ArmOnce ==
  /\ pwdTmr' = IF Pdr >= 0 /\ pwdTmr = None THEN Pdr + 1 ELSE pwdTmr
  /\ UNCHANGED orphans

(* pwdTmr = time.AfterFunc(...), if there is a limit at all. *)
Arm ==
  IF Pdr >= 0
    THEN /\ pwdTmr' = Pdr
         /\ orphans' = orphans \cup ({pwdTmr} \ {None})
    ELSE UNCHANGED timers

(* WAIT after a cycle without any answer. *)
WaitFailed ==
  /\ Running /\ pc = "wait" /\ ~ok
  /\ Arm
  /\ streak' = MinOf(streak + 1, 2)
  /\ worst' = MaxOf(worst, streak')
  /\ pc' = "sleep" /\ elapsed' = 0
  /\ UNCHANGED <<net, host, ok, proc, power, down>>

M_NoStop == UNCHANGED timers

(* pwdTmr.Stop(), unless it is nil. *)
Stop ==
  /\ pwdTmr' = None
  /\ UNCHANGED orphans

(* WAIT after a cycle with an answer. *)
WaitOk ==
  /\ Running /\ pc = "wait" /\ ok
  /\ Stop
  /\ streak' = 0
  /\ pc' = "sleep" /\ elapsed' = 0
  /\ UNCHANGED <<net, host, ok, proc, power, down, worst>>

(* time.Sleep returns: the loop starts again with its own new ok. *)
Wake ==
  /\ Running /\ pc = "sleep" /\ elapsed = PingIntv
  /\ pc' = "ping" /\ elapsed' = 0 /\ ok' = FALSE
  /\ UNCHANGED <<net, host, timers, proc, power, history>>

(* A timer has run out: its goroutine runs poweroff. *)
Expire ==
  \/ pwdTmr = 0 /\ pwdTmr' = None /\ UNCHANGED orphans
  \/ 0 \in orphans /\ orphans' = orphans \ {0} /\ UNCHANGED pwdTmr

PowerOff ==
  /\ Running /\ Expire
  /\ power' = "off"
  /\ UNCHANGED <<net, pc, host, elapsed, ok, proc, history>>

(* sudo poweroff fails: log.Fatal ends the program. *)
PowerOffFails ==
  /\ MayFail
  /\ Running /\ Expire
  /\ proc' = "fatal"
  /\ UNCHANGED <<net, pc, host, elapsed, ok, power, history>>

-----------------------------------------------------------------------------
Main == TrySucceeds \/ TryFails \/ PingPanics \/ WaitFailed \/ WaitOk \/ Wake
TimerFires == PowerOff \/ PowerOffFails

Next == NetDown \/ NetUp \/ Tick \/ Main \/ TimerFires

Spec == Init /\ [][Next]_vars

(* Time passes, main runs and an expired timer's goroutine is started.     *)
FairSpec == Spec /\ WF_vars(Tick) /\ WF_vars(Main) /\ WF_vars(TimerFires)

-----------------------------------------------------------------------------
TypeOK ==
  /\ net \in BOOLEAN /\ ok \in BOOLEAN
  /\ pc \in {"ping", "http", "wait", "sleep"}
  /\ host \in 1 .. MaxOf(PingHosts, HttpHosts)
  /\ elapsed \in 0 .. Span
  /\ pwdTmr \in {None} \cup Left
  /\ orphans \subseteq Left
  /\ proc \in {"run", "panic", "fatal"}
  /\ power \in {"on", "off"}
  /\ down \in 0 .. DownCap
  /\ streak \in 0 .. 2 /\ worst \in streak .. 2

(***************************************************************************)
(* With a limit longer than a cycle a single bad cycle never costs the     *)
(* machine its power: only if two cycles in a row found nothing can it be  *)
(* off, whatever came before and after them.                               *)
(***************************************************************************)
IsolatedFailureSpared ==
  Pdr > Cycle /\ power = "off" => worst = 2

(***************************************************************************)
(* An outage never lasts longer than a cycle and the limit before the      *)
(* machine is off, unless poweroff or ping could not be run at all: the    *)
(* cycles that follow do not put off the timer of the first failure.       *)
(***************************************************************************)
PowersOffInTime ==
  Pdr >= 0 /\ Running => down <= Cycle + Pdr

(***************************************************************************)
(* The README's "auto poweroff rpi2 when no network": a network that stays *)
(* down powers the machine off, unless a command it needs cannot be run.   *)
(***************************************************************************)
NoNetworkPowersOff == <>[](~net) => <>(power = "off" \/ proc # "run")

(***************************************************************************)
(* The README's "when no network": the machine is not powered off right    *)
(* after a cycle that reached the network.                                 *)
(***************************************************************************)
OnlyWithoutNetwork ==
  [][power = "on" /\ power' = "off" => streak > 0 \/ ~net]_vars

=============================================================================
