--------------------------- MODULE WatchdogProofs ---------------------------
(***************************************************************************)
(* Theorems about Watchdog, for every list of hosts, every duration of the *)
(* attempts, every interval and every limit.                               *)
(***************************************************************************)
EXTENDS Watchdog, TLAPS

(* The most ticks there can be before main reaches WAIT.                   *)
Remaining ==
  CASE pc = "ping" -> (PingHosts - host) * PingMax + PingMax - elapsed
                        + HttpHosts * HttpMax
    [] pc = "http" -> (HttpHosts - host) * HttpMax + HttpMax - elapsed
    [] pc = "sleep" -> PingIntv - elapsed + Attempts
    [] OTHER -> 0

(* host stays within the list being tried. *)
InList ==
  /\ pc = "ping" => host <= PingHosts
  /\ pc = "http" => host <= HttpHosts
  /\ pc \in {"wait", "sleep"} => host = 1

(* Types of the products, and what the next address leaves of a list.      *)
LEMMA Products ==
  /\ \A a, b \in Nat : a * b \in Nat
  /\ \A a, b \in Int : a * b \in Int
  /\ \A a, b, c \in Int : (a - (b + 1)) * c = (a - b) * c - c
  /\ \A a, c \in Int : (a - 1) * c = a * c - c
  /\ \A c \in Int : 0 * c = 0
OBVIOUS

LEMMA Durations ==
  /\ Attempts \in Nat /\ Cycle \in Nat
  /\ Pdr >= 0 => DownCap = Cycle + Pdr + 1
  /\ DownCap \in Nat \ {0}
BY WatchdogAssumption, Products DEF Attempts, Cycle, DownCap

TypeInv == TypeOK /\ InList

LEMMA TypeStep == TypeInv /\ [Next]_vars => TypeInv'
<1> USE WatchdogAssumption, Durations
<1> SUFFICES ASSUME TypeOK, InList, [Next]_vars
             PROVE  TypeOK' /\ InList'
  BY DEF TypeInv
<1>1. CASE NetDown \/ NetUp
  <2>1. /\ net' \in BOOLEAN /\ down' = 0
        /\ UNCHANGED <<pc, host, elapsed, ok, pwdTmr, orphans, proc, power,
                       streak, worst>>
    BY <1>1 DEF NetDown, NetUp, timers
  <2>2. Span' = Span /\ down' \in 0 .. DownCap
    BY <2>1 DEF Span
  <2> QED
    BY <2>1, <2>2 DEF TypeOK, InList
<1>2. CASE Tick
  <2>1. Span' = Span /\ Span \in Nat
    BY <1>2 DEF Tick, Span
  <2>2. elapsed' \in 0 .. Span'
    BY <1>2, <2>1 DEF Tick, TypeOK
  <2>3. pwdTmr' \in {None} \cup Left
    BY <1>2 DEF Tick, TypeOK, None, Left
  <2>4. orphans' \subseteq Left
    BY <1>2 DEF Tick, TypeOK, Left
  <2>5. down' \in 0 .. DownCap
    BY <1>2 DEF Tick, TypeOK, MinOf
  <2>6. UNCHANGED <<net, pc, host, ok, proc, power, streak, worst>>
    BY <1>2 DEF Tick
  <2> QED
    BY <2>2, <2>3, <2>4, <2>5, <2>6 DEF TypeOK, InList
<1>3. CASE TrySucceeds
  BY <1>3 DEF TrySucceeds, TypeOK, InList, timers, history, Span, MaxOf
<1>4. CASE TryFails
  <2>1. /\ elapsed' = 0 /\ ok' = FALSE
        /\ UNCHANGED <<net, pwdTmr, orphans, proc, power, down, streak, worst>>
    BY <1>4 DEF TryFails, timers, history
  <2>2. pc' \in {"ping", "http", "wait"} /\ elapsed' \in 0 .. Span'
    BY <1>4 DEF TryFails, Span
  <2>3. host' \in 1 .. MaxOf(PingHosts, HttpHosts) /\ InList'
    BY <1>4 DEF TryFails, TypeOK, InList, MaxOf
  <2> QED
    BY <2>1, <2>2, <2>3 DEF TypeOK
<1>5. CASE PingPanics \/ PowerOff \/ PowerOffFails
  <2>1. /\ UNCHANGED <<net, pc, host, elapsed, ok, down, streak, worst>>
        /\ proc' \in {"run", "panic", "fatal"}
        /\ power' \in {"on", "off"}
    BY <1>5 DEF PingPanics, PowerOff, PowerOffFails, TypeOK, history
  <2>2. pwdTmr' \in {None} \cup Left /\ orphans' \subseteq Left
    BY <1>5 DEF PingPanics, PowerOff, PowerOffFails, Expire, TypeOK, timers
  <2>3. Span' = Span
    BY <2>1 DEF Span
  <2> QED
    BY <2>1, <2>2, <2>3 DEF TypeOK, InList
<1>6. CASE WaitFailed
  BY <1>6 DEF WaitFailed, Arm, TypeOK, InList, timers, MinOf, MaxOf, Span,
              None, Left
<1>7. CASE WaitOk
  BY <1>7 DEF WaitOk, Stop, TypeOK, InList, Span
<1>8. CASE Wake
  <2>1. /\ pc' = "ping" /\ elapsed' = 0 /\ ok' = FALSE /\ host = 1
        /\ UNCHANGED <<net, host, pwdTmr, orphans, proc, power, down, streak,
                       worst>>
    BY <1>8 DEF Wake, InList, timers, history
  <2>2. elapsed' \in 0 .. Span'
    BY <2>1 DEF Span
  <2>3. InList'
    BY <2>1 DEF InList
  <2> QED
    BY <2>1, <2>2, <2>3 DEF TypeOK
<1>9. CASE UNCHANGED vars
  <2>1. Span' = Span
    BY <1>9 DEF vars, Span
  <2>2. InList'
    BY <1>9 DEF vars, InList
  <2>3. TypeOK'
    BY <1>9, <2>1 DEF vars, TypeOK
  <2> QED
    BY <2>2, <2>3
<1> QED
  BY <1>1, <1>2, <1>3, <1>4, <1>5, <1>6, <1>7, <1>8, <1>9
  DEF Next, Main, TimerFires

LEMMA Types == Spec => []TypeInv
<1>1. Init => TypeInv
  <2> SUFFICES ASSUME Init PROVE TypeInv
    OBVIOUS
  <2>1. Span \in Nat /\ elapsed \in 0 .. Span
    BY WatchdogAssumption DEF Init, Span
  <2>2. host \in 1 .. MaxOf(PingHosts, HttpHosts)
    BY WatchdogAssumption DEF Init, MaxOf
  <2>3. down \in 0 .. DownCap
    BY Durations DEF Init
  <2>4. InList
    BY WatchdogAssumption DEF Init, InList
  <2>5. net \in BOOLEAN /\ ok \in BOOLEAN
    BY DEF Init
  <2>6. /\ pc \in {"ping", "http", "wait", "sleep"}
        /\ pwdTmr \in {None} \cup Left /\ orphans \subseteq Left
        /\ proc \in {"run", "panic", "fatal"} /\ power \in {"on", "off"}
        /\ streak \in 0 .. 2 /\ worst \in streak .. 2
    BY DEF Init
  <2> QED
    BY <2>1, <2>2, <2>3, <2>4, <2>5, <2>6 DEF TypeInv, TypeOK
<1> QED
  BY <1>1, TypeStep, PTL DEF Spec

(***************************************************************************)
(* Every variable keeps its type: no timer is armed beyond the limit and   *)
(* no attempt or sleep lasts longer than it may.                           *)
(***************************************************************************)
THEOREM WatchdogTypes == Spec => []TypeOK
<1>1. TypeInv => TypeOK
  BY DEF TypeInv
<1> QED
  BY <1>1, Types, PTL

-----------------------------------------------------------------------------
LEMMA RemainingType == TypeInv => Remaining \in Nat
<1> SUFFICES ASSUME TypeOK, InList PROVE Remaining \in Nat
  BY DEF TypeInv
<1> USE WatchdogAssumption, Durations
<1>1. CASE pc = "ping"
  <2>1. PingHosts - host \in Nat /\ PingMax - elapsed \in Nat
    BY <1>1 DEF TypeOK, InList, Span
  <2>2. (PingHosts - host) * PingMax \in Nat /\ HttpHosts * HttpMax \in Nat
    BY <2>1, Products
  <2>3. Remaining = (PingHosts - host) * PingMax + PingMax - elapsed
                      + HttpHosts * HttpMax
    BY <1>1 DEF Remaining
  <2> QED
    BY <2>1, <2>2, <2>3 DEF TypeOK
<1>2. CASE pc = "http"
  <2>1. HttpHosts - host \in Nat /\ HttpMax - elapsed \in Nat
    BY <1>2 DEF TypeOK, InList, Span
  <2>2. (HttpHosts - host) * HttpMax \in Nat
    BY <2>1, Products
  <2>3. Remaining = (HttpHosts - host) * HttpMax + HttpMax - elapsed
    BY <1>2 DEF Remaining
  <2> QED
    BY <2>1, <2>2, <2>3 DEF TypeOK
<1>3. CASE pc = "sleep"
  BY <1>3 DEF Remaining, TypeOK, Span
<1>4. CASE pc = "wait"
  BY <1>4 DEF Remaining
<1> QED
  BY <1>1, <1>2, <1>3, <1>4 DEF TypeOK

RemainingOK == Remaining \in Nat

LEMMA RemainingTypeNext == TypeInv' => Remaining' \in Nat
<1>1. TypeInv => RemainingOK
  BY RemainingType DEF RemainingOK
<1>2. TypeInv' => RemainingOK'
  BY <1>1, PTL
<1> QED
  BY <1>2 DEF RemainingOK

(* How the steps of the program shorten the way to WAIT. *)
LEMMA RemainingStep ==
  ASSUME TypeInv
  PROVE  /\ Tick => Remaining' = Remaining - 1
         /\ TryFails => Remaining' <= Remaining
         /\ Wake => Remaining' = Remaining
<1> USE WatchdogAssumption, Durations DEF TypeInv
<1>1. ASSUME Tick PROVE Remaining' = Remaining - 1
  <2>1. pc' = pc /\ host' = host /\ elapsed' = elapsed + 1 /\ pc # "wait"
    BY <1>1 DEF Tick, Span, TypeOK
  <2>2. (PingHosts - host) * PingMax \in Int /\ (HttpHosts - host) * HttpMax \in Int
        /\ HttpHosts * HttpMax \in Int
    BY Products DEF TypeOK
  <2> QED
    BY <2>1, <2>2 DEF Remaining, TypeOK
<1>2. ASSUME TryFails PROVE Remaining' <= Remaining
  <2>1. CASE pc = "ping" /\ host < PingHosts
    <3>1. pc' = "ping" /\ host' = host + 1 /\ elapsed' = 0
      BY <1>2, <2>1 DEF TryFails
    <3>2. (PingHosts - (host + 1)) * PingMax = (PingHosts - host) * PingMax - PingMax
      BY Products DEF TypeOK
    <3>3. elapsed \in 0 .. PingMax
      BY <2>1 DEF TypeOK, Span
    <3>4. (PingHosts - host) * PingMax \in Int /\ HttpHosts * HttpMax \in Int
      BY Products DEF TypeOK
    <3> QED
      BY <2>1, <3>1, <3>2, <3>3, <3>4 DEF Remaining
  <2>2. CASE pc = "ping" /\ ~(host < PingHosts)
    <3>1. pc' = "http" /\ host' = 1 /\ elapsed' = 0 /\ host = PingHosts
      BY <1>2, <2>2 DEF TryFails, TypeOK, InList
    <3>2. /\ (HttpHosts - 1) * HttpMax = HttpHosts * HttpMax - HttpMax
          /\ (PingHosts - host) * PingMax = 0
      BY <3>1, Products
    <3>3. elapsed \in 0 .. PingMax
      BY <2>2 DEF TypeOK, Span
    <3>4. HttpHosts * HttpMax \in Int
      BY Products
    <3> QED
      BY <2>2, <3>1, <3>2, <3>3, <3>4 DEF Remaining
  <2>3. CASE pc = "http" /\ host < HttpHosts
    <3>1. pc' = "http" /\ host' = host + 1 /\ elapsed' = 0
      BY <1>2, <2>3 DEF TryFails
    <3>2. (HttpHosts - (host + 1)) * HttpMax = (HttpHosts - host) * HttpMax - HttpMax
      BY Products DEF TypeOK
    <3>3. elapsed \in 0 .. HttpMax
      BY <2>3 DEF TypeOK, Span
    <3>4. (HttpHosts - host) * HttpMax \in Int
      BY Products DEF TypeOK
    <3> QED
      BY <2>3, <3>1, <3>2, <3>3, <3>4 DEF Remaining
  <2>4. CASE pc = "http" /\ ~(host < HttpHosts)
    <3>1. pc' = "wait"
      BY <1>2, <2>4 DEF TryFails
    <3>2. Remaining' = 0 /\ Remaining \in Nat
      BY <3>1, RemainingType DEF Remaining
    <3> QED
      BY <3>2
  <2> QED
    BY <1>2, <2>1, <2>2, <2>3, <2>4 DEF TryFails
<1>3. ASSUME Wake PROVE Remaining' = Remaining
  <2>1. /\ pc = "sleep" /\ elapsed = PingIntv /\ host = 1
        /\ pc' = "ping" /\ host' = 1 /\ elapsed' = 0
    BY <1>3 DEF Wake, InList
  <2>2. (PingHosts - 1) * PingMax = PingHosts * PingMax - PingMax
    BY Products
  <2>3. PingHosts * PingMax \in Int /\ HttpHosts * HttpMax \in Int
    BY Products
  <2> QED
    BY <2>1, <2>2, <2>3 DEF Remaining, Attempts
<1> QED
  BY <1>1, <1>2, <1>3

-----------------------------------------------------------------------------
(* While no two cycles in a row have failed the only timer there can be is *)
(* that of the last cycle, and it outlasts the way to the next WAIT.       *)
Spared ==
  Pdr > Cycle /\ worst < 2 =>
    /\ power = "on" /\ orphans = {} /\ streak <= worst
    /\ pwdTmr # None => streak = 1 /\ pwdTmr > Remaining

LEMMA SparedStep == TypeInv /\ Spared /\ [Next]_vars => Spared'
<1> USE WatchdogAssumption, Durations
<1> SUFFICES ASSUME TypeInv, Spared, [Next]_vars, Pdr > Cycle, worst' < 2
             PROVE  /\ power' = "on" /\ orphans' = {} /\ streak' <= worst'
                    /\ pwdTmr' # None => streak' = 1 /\ pwdTmr' > Remaining'
  BY DEF Spared
<1> DEFINE Goal == /\ power' = "on" /\ orphans' = {} /\ streak' <= worst'
                   /\ pwdTmr' # None => streak' = 1 /\ pwdTmr' > Remaining'
<1>0. TypeOK /\ Remaining \in Nat
  BY RemainingType DEF TypeInv
<1>1. CASE NetDown \/ NetUp
  <2>1. UNCHANGED <<pc, host, elapsed, pwdTmr, orphans, power, streak, worst>>
    BY <1>1 DEF NetDown, NetUp, timers
  <2>2. Remaining' = Remaining
    BY <2>1 DEF Remaining
  <2> QED
    BY <2>1, <2>2 DEF Spared
<1>2. CASE Tick
  <2>1. Remaining' = Remaining - 1
    BY <1>2, RemainingStep
  <2>2. /\ orphans = {} /\ orphans' = {}
        /\ UNCHANGED <<power, streak, worst>>
    BY <1>2 DEF Tick, Spared
  <2>3. pwdTmr' # None => pwdTmr # None /\ pwdTmr' = pwdTmr - 1
    BY <1>2 DEF Tick
  <2> QED
    BY <1>0, <2>1, <2>2, <2>3 DEF Spared, TypeOK, None, Left
<1>3. CASE TrySucceeds
  <2>1. /\ pc' = "wait"
        /\ UNCHANGED <<pwdTmr, orphans, power, streak, worst>>
    BY <1>3 DEF TrySucceeds, timers, history
  <2>2. Remaining' = 0
    BY <2>1 DEF Remaining
  <2> QED
    BY <1>0, <2>1, <2>2 DEF Spared, TypeOK, None, Left
<1>4. CASE TryFails
  <2>1. Remaining' <= Remaining /\ Remaining' \in Nat
    BY <1>4, RemainingStep, TypeStep, RemainingTypeNext
  <2>2. UNCHANGED <<pwdTmr, orphans, power, streak, worst>>
    BY <1>4 DEF TryFails, timers, history
  <2> QED
    BY <1>0, <2>1, <2>2 DEF Spared, TypeOK, None, Left
<1>5. CASE PingPanics
  <2>1. UNCHANGED <<pc, host, elapsed, pwdTmr, orphans, power, streak, worst>>
    BY <1>5 DEF PingPanics, timers, history
  <2>2. Remaining' = Remaining
    BY <2>1 DEF Remaining
  <2> QED
    BY <2>1, <2>2 DEF Spared
<1>6. CASE TimerFires
  <2>1. worst' = worst
    BY <1>6 DEF TimerFires, PowerOff, PowerOffFails, history
  <2>2. pwdTmr # 0 /\ 0 \notin orphans
    BY <1>0, <2>1 DEF Spared, None
  <2> QED
    BY <1>6, <2>2 DEF TimerFires, PowerOff, PowerOffFails, Expire
<1>7. CASE WaitFailed
  <2>1. streak = 0 /\ streak' = 1
    BY <1>0, <1>7 DEF WaitFailed, TypeOK, MinOf, MaxOf
  <2>2. worst' \in {1, worst} /\ worst <= worst' /\ 1 <= worst'
    BY <1>0, <1>7, <2>1 DEF WaitFailed, TypeOK, MaxOf
  <2>3. pwdTmr = None /\ orphans = {}
    BY <1>0, <2>1, <2>2 DEF Spared, TypeOK
  <2>4. pwdTmr' = Pdr /\ orphans' = {} /\ power' = "on"
    BY <1>7, <2>3 DEF WaitFailed, Arm, Running
  <2>5. Remaining' = Cycle
    BY <1>7 DEF WaitFailed, Remaining, Cycle
  <2> QED
    BY <2>1, <2>2, <2>4, <2>5
<1>8. CASE WaitOk
  BY <1>8 DEF WaitOk, Stop, Spared, TypeInv, TypeOK
<1>9. CASE Wake
  <2>1. Remaining' = Remaining
    BY <1>9, RemainingStep
  <2>2. UNCHANGED <<pwdTmr, orphans, power, streak, worst>>
    BY <1>9 DEF Wake, timers, history
  <2> QED
    BY <2>1, <2>2 DEF Spared
<1>10. CASE UNCHANGED vars
  <2>1. UNCHANGED <<pc, host, elapsed, pwdTmr, orphans, power, streak, worst>>
    BY <1>10 DEF vars
  <2>2. Remaining' = Remaining
    BY <2>1 DEF Remaining
  <2> QED
    BY <2>1, <2>2 DEF Spared
<1> QED
  BY <1>1, <1>2, <1>3, <1>4, <1>5, <1>6, <1>7, <1>8, <1>9, <1>10
  DEF Next, Main

(***************************************************************************)
(* With a limit longer than a cycle isolated failures are harmless, for    *)
(* all lists of hosts and all durations.                                   *)
(***************************************************************************)
THEOREM IsolatedFailuresAreSpared == Spec => []IsolatedFailureSpared
<1>1. Init => Spared
  BY WatchdogAssumption DEF Init, Spared
<1>2. TypeInv /\ Spared => IsolatedFailureSpared
  BY DEF TypeInv, TypeOK, Spared, IsolatedFailureSpared
<1> QED
  BY <1>1, <1>2, SparedStep, Types, PTL DEF Spec

-----------------------------------------------------------------------------
(* In an outage, either main will reach its first failed WAIT in time or   *)
(* some timer that nothing can stop any more will run out in time.         *)
Timely ==
  /\ Remaining <= Cycle
  /\ net => down = 0
  /\ pc = "wait" /\ ok => down = 0
  /\ Pdr >= 0 /\ Running =>
       \/ down + Remaining <= Cycle
       \/ \E t \in ({pwdTmr} \cup orphans) \ {None} : down + t <= Cycle + Pdr

(* A tick moves the outage's age and what is left in opposite directions.  *)
LEMMA TickSums ==
  /\ \A a, b, t, c \in Int : a <= b + 1 /\ b + t <= c => a + (t - 1) <= c
  /\ \A a, b, c, d \in Int : a <= b /\ d + b <= c => d + a <= c
OBVIOUS

LEMMA TimelyStep == TypeInv /\ Timely /\ [Next]_vars => Timely'
<1> USE WatchdogAssumption, Durations
<1> SUFFICES ASSUME TypeInv, Timely, [Next]_vars
             PROVE  Timely'
  OBVIOUS
<1>0. /\ TypeOK /\ down \in Nat
      /\ Remaining \in Nat /\ Remaining' \in Nat
      /\ Cycle \in Nat /\ Pdr \in Int
  <2>1. Remaining \in Nat /\ Remaining' \in Nat
    BY RemainingType, RemainingTypeNext, TypeStep
  <2>2. TypeOK
    BY DEF TypeInv
  <2>3. down \in Nat
    BY <2>2 DEF TypeOK
  <2> QED
    BY <2>1, <2>2, <2>3
<1>1. CASE NetDown \/ NetUp
  <2>1. UNCHANGED <<pc, host, elapsed>> /\ down' = 0
    BY <1>1 DEF NetDown, NetUp
  <2>2. Remaining' = Remaining
    BY <2>1 DEF Remaining
  <2> QED
    BY <1>0, <2>1, <2>2 DEF Timely
<1>2. CASE Tick
  <2>1. Remaining' = Remaining - 1 /\ UNCHANGED <<net, pc, ok, proc, power>>
    BY <1>2, RemainingStep DEF Tick
  <2>2. down' = IF net THEN 0 ELSE MinOf(down + 1, DownCap)
    BY <1>2 DEF Tick
  <2>3. down' <= down + 1 /\ down' \in Nat
    BY <1>0, <2>2 DEF TypeOK, MinOf
  <2>4. pc # "wait"
    BY <1>2 DEF Tick, Span, TypeOK, TypeInv
  <2>5. ASSUME NEW t \in ({pwdTmr} \cup orphans) \ {None},
               down + t <= Cycle + Pdr
        PROVE  \E u \in ({pwdTmr'} \cup orphans') \ {None} : down' + u <= Cycle + Pdr
    <3>1. t \in Nat \ {0}
      BY <1>0, <1>2, <2>5 DEF Tick, TypeOK, Left, None
    <3>2. t - 1 \in ({pwdTmr'} \cup orphans') \ {None}
      BY <1>2, <3>1, <2>5 DEF Tick, None
    <3>3. down' + (t - 1) <= Cycle + Pdr
      <4>1. down' \in Int /\ down \in Int /\ t \in Int /\ Cycle + Pdr \in Int
        BY <1>0, <2>3, <3>1
      <4> QED
        BY <2>3, <2>5, <4>1, TickSums
    <3> QED
      BY <3>2, <3>3
  <2>6. Remaining' <= Cycle /\ (net' => down' = 0)
    BY <1>0, <2>1, <2>2 DEF Timely
  <2>7. ASSUME down + Remaining <= Cycle
        PROVE  down' + (Remaining - 1) <= Cycle
    <3>1. down' \in Int /\ down \in Int /\ Remaining \in Int /\ Cycle \in Int
      BY <1>0, <2>3
    <3> QED
      BY <2>3, <2>7, <3>1, TickSums
  <2> QED
    BY <2>1, <2>4, <2>5, <2>6, <2>7 DEF Timely, Running
<1>3. CASE TrySucceeds
  <2>1. /\ pc' = "wait" /\ net /\ down = 0
        /\ UNCHANGED <<net, down>>
    BY <1>3 DEF TrySucceeds, history, Timely
  <2>2. Remaining' = 0
    BY <2>1 DEF Remaining
  <2> QED
    BY <2>1, <2>2 DEF Timely
<1>4. CASE TryFails
  <2>1. Remaining' <= Remaining
    BY <1>4, RemainingStep
  <2>2. /\ ~ok'
        /\ UNCHANGED <<net, pwdTmr, orphans, proc, power, down>>
    BY <1>4 DEF TryFails, timers, history
  <2>3. ASSUME down + Remaining <= Cycle
        PROVE  down + Remaining' <= Cycle
    <3>1. /\ Remaining' \in Int /\ Remaining \in Int
          /\ down \in Int /\ Cycle \in Int
      BY <1>0
    <3> QED
      BY <2>1, <2>3, <3>1, TickSums
  <2>4. Remaining' <= Cycle
    BY <1>0, <2>1 DEF Timely
  <2> QED
    BY <2>2, <2>3, <2>4 DEF Timely, Running
<1>5. CASE PingPanics \/ TimerFires
  <2>1. UNCHANGED <<net, pc, host, elapsed, ok, down>> /\ ~Running'
    BY <1>5 DEF PingPanics, TimerFires, PowerOff, PowerOffFails, history, Running
  <2>2. Remaining' = Remaining
    BY <2>1 DEF Remaining
  <2> QED
    BY <2>1, <2>2 DEF Timely
<1>6. CASE WaitFailed
  <2>1. /\ pc = "wait" /\ pc' = "sleep" /\ elapsed' = 0
        /\ UNCHANGED <<net, ok, down, proc, power>>
    BY <1>6 DEF WaitFailed
  <2>2. Remaining = 0 /\ Remaining' = Cycle
    BY <2>1 DEF Remaining, Cycle
  <2>3. CASE Pdr >= 0
    <3>1. pwdTmr' = Pdr /\ orphans' = orphans \cup ({pwdTmr} \ {None})
      BY <1>6, <2>3 DEF WaitFailed, Arm
    <3>2. ASSUME Running
          PROVE  \E t \in ({pwdTmr'} \cup orphans') \ {None} :
                   down' + t <= Cycle + Pdr
      <4>1. CASE down + Remaining <= Cycle
        <5>1. down' + pwdTmr' <= Cycle + Pdr /\ pwdTmr' # None
          BY <1>0, <2>1, <2>2, <2>3, <3>1, <4>1 DEF None
        <5> QED
          BY <5>1
      <4>2. ASSUME NEW t \in ({pwdTmr} \cup orphans) \ {None},
                   down + t <= Cycle + Pdr
            PROVE  t \in ({pwdTmr'} \cup orphans') \ {None} /\ down' + t <= Cycle + Pdr
        BY <2>1, <3>1, <4>2
      <4> QED
        BY <2>3, <3>2, <4>1, <4>2 DEF Timely
    <3>3. Running' => Running
      BY <2>1 DEF Running
    <3>4. Remaining' <= Cycle
      BY <1>0, <2>2
    <3> QED
      BY <2>1, <3>2, <3>3, <3>4 DEF Timely
  <2> QED
    BY <2>1, <2>2, <2>3 DEF Timely
<1>7. CASE WaitOk
  <2>1. /\ pc' = "sleep" /\ elapsed' = 0 /\ down' = 0
    BY <1>7 DEF WaitOk, Timely
  <2>2. Remaining' = Cycle
    BY <2>1 DEF Remaining, Cycle
  <2> QED
    BY <2>1, <2>2 DEF Timely
<1>8. CASE Wake
  <2>1. Remaining' = Remaining
    BY <1>8, RemainingStep
  <2>2. pc' = "ping" /\ UNCHANGED <<net, pwdTmr, orphans, proc, power, down>>
    BY <1>8 DEF Wake, timers, history
  <2> QED
    BY <2>1, <2>2 DEF Timely, Running
<1>9. CASE UNCHANGED vars
  <2>1. UNCHANGED <<net, pc, host, elapsed, ok, pwdTmr, orphans, proc, power, down>>
    BY <1>9 DEF vars
  <2>2. Remaining' = Remaining
    BY <2>1 DEF Remaining
  <2> QED
    BY <2>1, <2>2 DEF Timely, Running
<1> QED
  BY <1>1, <1>2, <1>3, <1>4, <1>5, <1>6, <1>7, <1>8, <1>9 DEF Next, Main

(***************************************************************************)
(* The bound on an outage holds for all lists of hosts and all durations.  *)
(***************************************************************************)
THEOREM OutagesAreBounded == Spec => []PowersOffInTime
<1>1. Init => Timely
  <2> SUFFICES ASSUME Init PROVE Timely
    OBVIOUS
  <2>1. pc = "ping" /\ host = 1 /\ elapsed = 0 /\ ok = FALSE /\ down = 0
    BY DEF Init
  <2>2. (PingHosts - 1) * PingMax = PingHosts * PingMax - PingMax
    BY WatchdogAssumption, Products
  <2>3. PingHosts * PingMax \in Int /\ HttpHosts * HttpMax \in Int
    BY WatchdogAssumption, Products
  <2>4. Remaining = Attempts
    BY <2>1, <2>2, <2>3, WatchdogAssumption DEF Remaining, Attempts
  <2>5. Remaining <= Cycle /\ down + Remaining <= Cycle
    BY <2>1, <2>4, Durations, WatchdogAssumption DEF Cycle
  <2> QED
    BY <2>1, <2>5 DEF Timely
<1>2. TypeInv /\ Timely => PowersOffInTime
  <2> SUFFICES ASSUME TypeInv, Timely, Pdr >= 0, Running
               PROVE  down <= Cycle + Pdr
    BY DEF PowersOffInTime
  <2>1. TypeOK /\ Remaining \in Nat
    BY RemainingType DEF TypeInv
  <2>2. CASE down + Remaining <= Cycle
    BY <2>1, <2>2, Durations, WatchdogAssumption DEF TypeOK
  <2>3. ASSUME NEW t \in ({pwdTmr} \cup orphans) \ {None}, down + t <= Cycle + Pdr
        PROVE  down <= Cycle + Pdr
    <3>1. t \in Nat
      BY <2>1, <2>3, WatchdogAssumption DEF TypeOK, Left, None
    <3> QED
      BY <2>1, <2>3, <3>1, Durations, WatchdogAssumption DEF TypeOK
  <2> QED
    BY <2>2, <2>3 DEF Timely
<1> QED
  BY <1>1, <1>2, TimelyStep, Types, PTL DEF Spec

=============================================================================
