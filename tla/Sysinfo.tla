------------------------------ MODULE Sysinfo ------------------------------
(***************************************************************************)
(* sysinfo.go: every round samples the counters of the CPUs and of the     *)
(* network devices, subtracts the sample of the round before, and prints   *)
(* the differences from maps that live as long as the program.  Meanwhile  *)
(* the kernel counts on, and takes CPUs and devices away and brings them   *)
(* back.                                                                   *)
(*                                                                         *)
(* A CPU's ten counters are abstracted to the two sums the program prints  *)
(* from, NonIdleC and Total, a device's two counters to one.  The maps of  *)
(* the program are functions, their keys the domain.  A counter of a CPU   *)
(* that ParseInt refuses, from 2^63 on, does not occur.                    *)
(***************************************************************************)
EXTENDS Integers, FiniteSets

CONSTANTS
  Cpus,     \* the numbers of the CPUs, and -1 for the line of all of them
  Devs,     \* the names of the network devices
  W,        \* the program's counters are modulo W (2^64)
  MaxStep   \* the most a CPU or a device counts in a round

ASSUME SysinfoAssumption ==
  /\ -1 \in Cpus /\ Cpus \subseteq Int
  /\ W \in Nat /\ MaxStep \in Nat \ {0}
  /\ MaxStep < W

VARIABLES
  cpu,       \* the kernel's counters of every CPU
  online,    \* the CPUs of /proc/stat
  dev,       \* the kernel's counter of every device
  present,   \* the devices of /proc/net/dev
  i,         \* main's i: the rounds left
  pc,        \* what main does next
  cpuLast,   \* cputop.last
  cpuDelta,  \* cputop.delta
  devLast,   \* nettop.last
  devDelta,  \* nettop.delta
  off,       \* history: the CPUs that were offline since they were last sampled
  spans,     \* history: the CPUs whose difference spans a time offline
  moved,     \* history: each device's traffic since it was last sampled
  replaced,  \* history: the devices that are not those of the last sample
  traffic    \* history: the traffic of the last interval, of the devices
             \* that were there at both its ends and all the time between

kernel == <<cpu, online, dev, present>>
maps == <<cpuLast, cpuDelta, devLast, devDelta>>
cpuHistory == <<off, spans>>
devHistory == <<moved, replaced, traffic>>
history == <<cpuHistory, devHistory>>
vars == <<kernel, i, pc, maps, history>>

Counter == 0 .. W - 1
Nothing == [k \in {} |-> 0]

Init ==
  /\ cpu = [c \in Cpus |-> [idle |-> 0, busy |-> 0]] /\ online = Cpus
  /\ dev = [d \in Devs |-> 0] /\ present = Devs
  /\ \E count \in Counter : i = IF count > 0 THEN (count + 1) % W ELSE count
  /\ pc = "count"
  /\ cpuLast = Nothing /\ cpuDelta = Nothing
  /\ devLast = Nothing /\ devDelta = Nothing
  /\ off = {} /\ spans = {}
  /\ moved = [d \in Devs |-> 0] /\ replaced = Devs /\ traffic = Nothing

-----------------------------------------------------------------------------
(* The kernel. *)

(* What the CPUs online have counted while main sleeps: something.  This   *)
(* assumes that -t is well above its least, 10 ms (sysinfo.go:66), which   *)
(* is no more than one unit of /proc/stat: two samples can show the same.  *)
CpusCount ==
  \E step \in [online -> {s \in [idle : 0 .. MaxStep, busy : 0 .. MaxStep] :
                            s.idle + s.busy \in 1 .. MaxStep}] :
    cpu' = [c \in Cpus |->
              IF c \in online
              THEN [idle |-> (cpu[c].idle + step[c].idle) % W,
                    busy |-> (cpu[c].busy + step[c].busy) % W]
              ELSE cpu[c]]

CpuSwitches(c) ==
  /\ c # -1
  /\ online' = IF c \in online THEN online \ {c} ELSE online \cup {c}
  /\ off' = off \cup {c}
  /\ UNCHANGED <<cpu, dev, present, i, pc, maps, spans, devHistory>>

DevCounts(d) ==
  /\ d \in present /\ moved[d] < MaxStep
  /\ dev' = [dev EXCEPT ![d] = (@ + 1) % W]
  /\ moved' = [moved EXCEPT ![d] = @ + 1]
  /\ UNCHANGED <<cpu, online, present, i, pc, maps, cpuHistory, replaced, traffic>>

(* A device goes away, or one of that name comes back and counts from 0. *)
DevSwitches(d) ==
  /\ present' = IF d \in present THEN present \ {d} ELSE present \cup {d}
  /\ dev' = [dev EXCEPT ![d] = 0]
  /\ replaced' = replaced \cup {d}
  /\ UNCHANGED <<cpu, online, i, pc, maps, cpuHistory, moved, traffic>>

Kernel == \/ \E c \in Cpus : CpuSwitches(c)
          \/ \E d \in Devs : DevCounts(d) \/ DevSwitches(d)

-----------------------------------------------------------------------------
(* i -= 1; if i == 0 { break } *)
Counts ==
  /\ pc = "count"
  /\ i' = (i - 1) % W
  /\ pc' = IF i' = 0 THEN "done" ELSE "cpu"
  /\ UNCHANGED <<kernel, maps, history>>

M_SignedMinus(a, b) == a - b

Minus(a, b) == (a - b) % W

Both(sample, last) == DOMAIN sample \cap DOMAIN last

(* The loop of Update overwrites the differences of the keys in both       *)
(* samples; the map keeps the others.                                      *)
Updated(delta, changes) ==
  [k \in DOMAIN delta \cup DOMAIN changes |->
     IF k \in DOMAIN changes THEN changes[k] ELSE delta[k]]

M_IdleOnly ==
  {Nothing, [c \in online |-> [busy |-> cpu[c].busy, total |-> cpu[c].idle]]}

(* The lines of /proc/stat; none if it cannot be opened. *)
CpuInfo ==
  {Nothing,
   [c \in online |-> [busy |-> cpu[c].busy, total |-> (cpu[c].idle + cpu[c].busy) % W]]}

CpuUpdate ==
  /\ pc = "cpu"
  /\ \E stat1 \in CpuInfo :
       /\ cpuDelta' = Updated(cpuDelta,
            [c \in Both(stat1, cpuLast) |->
               [busy  |-> Minus(stat1[c].busy, cpuLast[c].busy),
                total |-> Minus(stat1[c].total, cpuLast[c].total)]])
       /\ cpuLast' = stat1
       /\ spans' = (spans \ Both(stat1, cpuLast)) \cup (off \cap Both(stat1, cpuLast))
       /\ off' = off \ DOMAIN stat1
  /\ pc' = "printCPU"
  /\ UNCHANGED <<kernel, i, devLast, devDelta, devHistory>>

(* The CPUs printCPU gets to: its loop counts up to the size of the map. *)
Shown == {c \in DOMAIN cpuDelta : c < Cardinality(DOMAIN cpuDelta)}

PrintCPU ==
  /\ pc = "printCPU"
  /\ \A c \in Shown : cpuDelta[c].total # 0
  /\ pc' = "net"
  /\ UNCHANGED <<kernel, i, maps, history>>

(* An integer divided by zero. *)
PrintCPUPanics ==
  /\ pc = "printCPU"
  /\ \E c \in Shown : cpuDelta[c].total = 0
  /\ pc' = "panicked"
  /\ UNCHANGED <<kernel, i, maps, history>>

(* The lines of /proc/net/dev; none if it cannot be opened.  A value that  *)
(* ParseInt refuses, from 2^63 on, ends the loop: any lines may be missing. *)
NetInfo == {[d \in D |-> dev[d]] : D \in SUBSET present}

Steady(sample) == Both(sample, devLast) \ replaced

M_NetUpdateOnce ==
  /\ pc = "net"
  /\ \E stat1 \in NetInfo :
       /\ devDelta' = Updated(devDelta,
            [d \in Both(stat1, devLast) |-> Minus(stat1[d], devLast[d])])
       /\ devLast' = IF devLast = Nothing THEN stat1 ELSE devLast
       /\ traffic' = [d \in Steady(stat1) |-> moved[d]]
       /\ moved' = [d \in Devs |-> 0]
       /\ replaced' = Devs \ DOMAIN stat1
  /\ pc' = "sleep"
  /\ UNCHANGED <<kernel, i, cpuLast, cpuDelta, cpuHistory>>

NetUpdate ==
  /\ pc = "net"
  /\ \E stat1 \in NetInfo :
       /\ devDelta' = Updated(devDelta,
            [d \in Both(stat1, devLast) |-> Minus(stat1[d], devLast[d])])
       /\ devLast' = stat1
       /\ traffic' = [d \in Steady(stat1) |-> moved[d]]
       /\ moved' = [d \in Devs |-> 0]
       /\ replaced' = Devs \ DOMAIN stat1
  /\ pc' = "sleep"
  /\ UNCHANGED <<kernel, i, cpuLast, cpuDelta, cpuHistory>>

Sleeps ==
  /\ pc = "sleep"
  /\ pc' = "count"
  /\ CpusCount
  /\ UNCHANGED <<online, dev, present, i, maps, history>>

-----------------------------------------------------------------------------
Main == Counts \/ CpuUpdate \/ PrintCPU \/ PrintCPUPanics \/ NetUpdate \/ Sleeps

Next == Kernel \/ Main

Spec == Init /\ [][Next]_vars

-----------------------------------------------------------------------------
MapOf(K, S) == UNION {[D -> S] : D \in SUBSET K}

TypeOK ==
  /\ cpu \in [Cpus -> [idle : Counter, busy : Counter]] /\ online \subseteq Cpus
  /\ dev \in [Devs -> Counter] /\ present \subseteq Devs
  /\ i \in Counter
  /\ pc \in {"count", "cpu", "printCPU", "net", "sleep", "done", "panicked"}
  /\ cpuLast \in MapOf(Cpus, [busy : Counter, total : Counter])
  /\ cpuDelta \in MapOf(Cpus, [busy : Counter, total : Counter])
  /\ devLast \in MapOf(Devs, Counter) /\ devDelta \in MapOf(Devs, Counter)
  /\ off \subseteq Cpus /\ spans \subseteq Cpus
  /\ moved \in [Devs -> 0 .. MaxStep] /\ replaced \subseteq Devs
  /\ traffic \in MapOf(Devs, 0 .. MaxStep)

(***************************************************************************)
(* What is printed for a device that was there throughout the interval is  *)
(* the traffic of that interval, also after devices, this one among them,  *)
(* have come and gone and files could not be read.  (A device that has     *)
(* gone is printed with its old difference; one that was replaced between  *)
(* two samples with the difference of two unrelated counters.)             *)
(***************************************************************************)
DeltaIsTraffic ==
  \A d \in DOMAIN traffic : d \in DOMAIN devDelta /\ devDelta[d] = traffic[d]

(***************************************************************************)
(* No CPU is ever printed with more than 100 %, and printCPU divides by    *)
(* zero only for a CPU that was offline between two samples but not at     *)
(* either of them: a CPU that has gone or has just come back is never      *)
(* judged by a half-made difference.  (It is assumed that every CPU online *)
(* counts in every round, see CpusCount, and that no counter falls.)       *)
(***************************************************************************)
RatesSane ==
  \A c \in Shown : /\ cpuDelta[c].busy <= cpuDelta[c].total
                   /\ cpuDelta[c].total = 0 => c \in spans

=============================================================================
