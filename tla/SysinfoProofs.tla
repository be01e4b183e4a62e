--------------------------- MODULE SysinfoProofs ----------------------------
(***************************************************************************)
(* Proofs about module Sysinfo, for every set of CPUs and of devices, and  *)
(* every width of the counters that a round cannot go all the way around.  *)
(*                                                                         *)
(* What the program prints is a difference of two samples modulo W.  The   *)
(* invariants say how far a kernel counter is ahead of the last sample of  *)
(* it: a device's by what it has moved, a CPU's by what it has counted in  *)
(* the one sleep between two samples, which is something unless it was     *)
(* offline.                                                                *)
(***************************************************************************)
EXTENDS Sysinfo, TLAPS

USE SysinfoAssumption DEF SysinfoAssumption

(* A device that is the one of the last sample is ahead of it by its traffic. *)
DevAhead ==
  \A d \in DOMAIN devLast \ replaced : dev[d] = (devLast[d] + moved[d]) % W

DevInv == TypeOK /\ DevAhead /\ DeltaIsTraffic

TotalOf(c) == (cpu[c].idle + cpu[c].busy) % W

(* A CPU has counted busy and idle ticks since the sample in cpuLast. *)
CpuAhead(c, busy, idle) ==
  /\ busy + idle <= MaxStep
  /\ cpu[c].busy = (cpuLast[c].busy + busy) % W
  /\ TotalOf(c) = (cpuLast[c].total + (busy + idle)) % W
  /\ busy + idle = 0 => c \in off

(* Before the sleep no CPU has counted since it was sampled; after it,     *)
(* every CPU that has been online has.                                     *)
SinceSample(c) ==
  /\ pc \in {"printCPU", "net", "sleep"} =>
       cpuLast[c].busy = cpu[c].busy /\ cpuLast[c].total = TotalOf(c)
  /\ pc \in {"count", "cpu"} => \E busy, idle \in 0 .. MaxStep : CpuAhead(c, busy, idle)

(* The entry that c has in the map of differences is sane. *)
Sane(c) ==
  /\ cpuDelta[c].busy <= cpuDelta[c].total
  /\ cpuDelta[c].total = 0 => c \in spans

CpuInv ==
  /\ TypeOK
  /\ DOMAIN cpuLast \ off \subseteq online
  /\ \A c \in DOMAIN cpuLast : SinceSample(c)
  /\ \A c \in DOMAIN cpuDelta : Sane(c)

-----------------------------------------------------------------------------
(* Counters modulo W. *)

LEMMA InCounter ==
  ASSUME NEW n \in Int
  PROVE  n % W \in Counter
BY DEF Counter

(* Subtracting the old count from the new one gives what has been counted, *)
(* whether or not the counter has gone round meanwhile.                    *)
LEMMA MinusGivesStep ==
  ASSUME NEW a \in Counter, NEW m \in 0 .. MaxStep, NEW s, s = (a + m) % W
  PROVE  Minus(s, a) = m
<1> m \in 0 .. W - 1
  OBVIOUS
<1>1. CASE a + m < W
  <2>1. s = a + m
    BY <1>1 DEF Counter
  <2>2. s - a = m
    BY <2>1 DEF Counter
  <2>3. m % W = m
    BY DEF Counter
  <2> QED
    BY <2>2, <2>3 DEF Minus
<1>2. CASE a + m >= W
  <2>1. s = a + m - W
    BY <1>2 DEF Counter
  <2>2. s - a = m - W
    BY <2>1 DEF Counter
  <2>3. (m - W) % W = m
    BY DEF Counter
  <2> QED
    BY <2>2, <2>3 DEF Minus
<1> QED
  BY <1>1, <1>2 DEF Counter

(* A sum of two counters moves by the sum of their steps. *)
LEMMA SumMoves ==
  ASSUME NEW a \in Counter, NEW b \in Counter,
         NEW m \in 0 .. MaxStep, NEW n \in 0 .. MaxStep
  PROVE  (((a + m) % W) + ((b + n) % W)) % W = (((a + b) % W) + (m + n)) % W
<1> m \in 0 .. W - 1 /\ n \in 0 .. W - 1
  OBVIOUS
<1> QED
  BY DEF Counter

LEMMA OneMore ==
  ASSUME NEW a \in Counter, NEW m \in 0 .. MaxStep
  PROVE  (((a + m) % W) + 1) % W = (a + (m + 1)) % W
<1> m \in 0 .. W - 1
  OBVIOUS
<1> QED
  BY DEF Counter

LEMMA Unmoved ==
  ASSUME NEW a \in Counter
  PROVE  a = (a + 0) % W
BY DEF Counter

-----------------------------------------------------------------------------
(* The maps of the program. *)

LEMMA MapEntries ==
  ASSUME NEW K, NEW S, NEW f \in MapOf(K, S)
  PROVE  DOMAIN f \subseteq K /\ \A k \in DOMAIN f : f[k] \in S
BY DEF MapOf

LEMMA MapIntro ==
  ASSUME NEW K, NEW S, NEW D \in SUBSET K, NEW f \in [D -> S]
  PROVE  f \in MapOf(K, S)
BY DEF MapOf

LEMMA NothingIsMap ==
  ASSUME NEW K, NEW S
  PROVE  Nothing \in MapOf(K, S) /\ DOMAIN Nothing = {}
<1>1. Nothing \in [{} -> S] /\ {} \in SUBSET K
  BY DEF Nothing
<1> QED
  BY <1>1, MapIntro DEF Nothing

LEMMA UpdatedMap ==
  ASSUME NEW K, NEW S, NEW f \in MapOf(K, S), NEW g \in MapOf(K, S)
  PROVE  Updated(f, g) \in MapOf(K, S)
<1>1. PICK D \in SUBSET K : f \in [D -> S]
  BY DEF MapOf
<1>2. PICK E \in SUBSET K : g \in [E -> S]
  BY DEF MapOf
<1>3. Updated(f, g) \in [D \cup E -> S]
  BY <1>1, <1>2 DEF Updated
<1>4. D \cup E \in SUBSET K
  OBVIOUS
<1> QED
  BY <1>3, <1>4, MapIntro

Sample == [busy : Counter, total : Counter]

LEMMA CpuInfoTypes ==
  ASSUME TypeOK, NEW stat1 \in CpuInfo
  PROVE  /\ stat1 \in MapOf(Cpus, Sample)
         /\ DOMAIN stat1 \subseteq online
         /\ \A c \in DOMAIN stat1 : stat1[c] = [busy |-> cpu[c].busy, total |-> TotalOf(c)]
<1>1. CASE stat1 = Nothing
  BY <1>1, NothingIsMap
<1>2. CASE stat1 = [c \in online |->
                      [busy |-> cpu[c].busy, total |-> (cpu[c].idle + cpu[c].busy) % W]]
  <2>1. \A c \in online : /\ cpu[c].busy \in Counter
                          /\ (cpu[c].idle + cpu[c].busy) % W \in Counter
    BY DEF TypeOK, Counter
  <2>2. stat1 \in [online -> Sample]
    BY <1>2, <2>1 DEF Sample
  <2>3. online \in SUBSET Cpus
    BY DEF TypeOK
  <2> QED
    BY <1>2, <2>2, <2>3, MapIntro DEF TotalOf
<1> QED
  BY <1>1, <1>2 DEF CpuInfo

LEMMA NetInfoTypes ==
  ASSUME TypeOK, NEW stat1 \in NetInfo
  PROVE  /\ stat1 \in MapOf(Devs, Counter)
         /\ DOMAIN stat1 \subseteq present
         /\ \A d \in DOMAIN stat1 : stat1[d] = dev[d]
<1>1. PICK D \in SUBSET present : stat1 = [d \in D |-> dev[d]]
  BY DEF NetInfo
<1>2. stat1 \in [D -> Counter] /\ D \in SUBSET Devs
  BY <1>1 DEF TypeOK
<1> QED
  BY <1>1, <1>2, MapIntro

-----------------------------------------------------------------------------
(* What a sleep does to one CPU. *)
LEMMA CpuCounts ==
  ASSUME TypeOK, CpusCount, NEW c \in Cpus
  PROVE  \E busy, idle \in 0 .. MaxStep :
           /\ busy + idle <= MaxStep
           /\ cpu'[c] = [idle |-> (cpu[c].idle + idle) % W, busy |-> (cpu[c].busy + busy) % W]
           /\ busy + idle = 0 => c \notin online
<1>1. PICK step \in [online -> {s \in [idle : 0 .. MaxStep, busy : 0 .. MaxStep] :
                                  s.idle + s.busy \in 1 .. MaxStep}] :
        cpu' = [x \in Cpus |->
                  IF x \in online
                  THEN [idle |-> (cpu[x].idle + step[x].idle) % W,
                        busy |-> (cpu[x].busy + step[x].busy) % W]
                  ELSE cpu[x]]
  BY DEF CpusCount
<1>2. CASE c \in online
  <2>1. /\ step[c].idle \in 0 .. MaxStep /\ step[c].busy \in 0 .. MaxStep
        /\ step[c].idle + step[c].busy \in 1 .. MaxStep
    BY <1>1, <1>2
  <2>2. cpu'[c] = [idle |-> (cpu[c].idle + step[c].idle) % W,
                   busy |-> (cpu[c].busy + step[c].busy) % W]
    BY <1>1, <1>2
  <2>3. /\ step[c].busy + step[c].idle <= MaxStep
        /\ step[c].busy + step[c].idle # 0
    BY <2>1
  <2> QED
    BY <2>1, <2>2, <2>3
<1>3. CASE c \notin online
  <2>1. cpu'[c] = cpu[c]
    BY <1>1, <1>3
  <2>2. cpu[c].idle \in Counter /\ cpu[c].busy \in Counter
    BY DEF TypeOK
  <2>3. cpu[c] = [idle |-> cpu[c].idle, busy |-> cpu[c].busy]
    BY DEF TypeOK
  <2>4. cpu'[c] = [idle |-> (cpu[c].idle + 0) % W, busy |-> (cpu[c].busy + 0) % W]
    BY <2>1, <2>2, <2>3, Unmoved
  <2>5. 0 \in 0 .. MaxStep /\ 0 + 0 <= MaxStep
    OBVIOUS
  <2> QED
    BY <1>3, <2>4, <2>5
<1> QED
  BY <1>2, <1>3

LEMMA CpusCountTypes ==
  ASSUME TypeOK, CpusCount
  PROVE  cpu' \in [Cpus -> [idle : Counter, busy : Counter]]
<1>1. ASSUME NEW c \in Cpus
      PROVE  cpu'[c] \in [idle : Counter, busy : Counter]
  <2>1. PICK busy, idle \in 0 .. MaxStep :
          cpu'[c] = [idle |-> (cpu[c].idle + idle) % W, busy |-> (cpu[c].busy + busy) % W]
    BY <1>1, CpuCounts
  <2>2. cpu[c].idle \in Int /\ cpu[c].busy \in Int
    BY <1>1 DEF TypeOK, Counter
  <2>3. (cpu[c].idle + idle) % W \in Counter /\ (cpu[c].busy + busy) % W \in Counter
    BY <2>2, InCounter
  <2> QED
    BY <2>1, <2>3
<1>2. cpu' = [x \in Cpus |-> cpu'[x]]
  <2>1. PICK step :
          cpu' = [x \in Cpus |->
                    IF x \in online
                    THEN [idle |-> (cpu[x].idle + step[x].idle) % W,
                          busy |-> (cpu[x].busy + step[x].busy) % W]
                    ELSE cpu[x]]
    BY DEF CpusCount
  <2> QED
    BY <2>1
<1> QED
  BY <1>1, <1>2

(* The differences that Update computes. *)
CpuChanges(stat1) ==
  [c \in Both(stat1, cpuLast) |->
     [busy  |-> Minus(stat1[c].busy, cpuLast[c].busy),
      total |-> Minus(stat1[c].total, cpuLast[c].total)]]

DevChanges(stat1) == [d \in Both(stat1, devLast) |-> Minus(stat1[d], devLast[d])]

LEMMA CpuChangesTypes ==
  ASSUME TypeOK, NEW stat1 \in CpuInfo
  PROVE  CpuChanges(stat1) \in MapOf(Cpus, Sample)
<1>1. /\ DOMAIN stat1 \subseteq Cpus
      /\ \A c \in DOMAIN stat1 : stat1[c] \in Sample
  BY CpuInfoTypes, MapEntries
<1>2. \A c \in DOMAIN cpuLast : cpuLast[c] \in Sample
  <2>1. cpuLast \in MapOf(Cpus, Sample)
    BY DEF TypeOK, Sample
  <2> QED
    BY <2>1, MapEntries
<1>3. ASSUME NEW c \in Both(stat1, cpuLast)
      PROVE  [busy  |-> Minus(stat1[c].busy, cpuLast[c].busy),
              total |-> Minus(stat1[c].total, cpuLast[c].total)] \in Sample
  <2>1. /\ stat1[c].busy \in Counter /\ cpuLast[c].busy \in Counter
        /\ stat1[c].total \in Counter /\ cpuLast[c].total \in Counter
    BY <1>1, <1>2, <1>3 DEF Both, Sample
  <2>2. /\ stat1[c].busy - cpuLast[c].busy \in Int
        /\ stat1[c].total - cpuLast[c].total \in Int
    BY <2>1 DEF Counter
  <2>3. /\ Minus(stat1[c].busy, cpuLast[c].busy) \in Counter
        /\ Minus(stat1[c].total, cpuLast[c].total) \in Counter
    BY <2>2, InCounter DEF Minus
  <2> QED
    BY <2>3 DEF Sample
<1>4. CpuChanges(stat1) \in [Both(stat1, cpuLast) -> Sample]
  BY <1>3 DEF CpuChanges
<1>5. Both(stat1, cpuLast) \in SUBSET Cpus
  BY <1>1 DEF Both
<1> QED
  BY <1>4, <1>5, MapIntro

LEMMA DevChangesTypes ==
  ASSUME TypeOK, NEW stat1 \in NetInfo
  PROVE  DevChanges(stat1) \in MapOf(Devs, Counter)
<1>1. /\ DOMAIN stat1 \subseteq Devs
      /\ \A d \in DOMAIN stat1 : stat1[d] \in Counter
  BY NetInfoTypes, MapEntries
<1>2. \A d \in DOMAIN devLast : devLast[d] \in Counter
  BY MapEntries DEF TypeOK
<1>3. ASSUME NEW d \in Both(stat1, devLast)
      PROVE  Minus(stat1[d], devLast[d]) \in Counter
  <2>1. stat1[d] - devLast[d] \in Int
    BY <1>1, <1>2, <1>3 DEF Both, Counter
  <2> QED
    BY <2>1, InCounter DEF Minus
<1>4. DevChanges(stat1) \in [Both(stat1, devLast) -> Counter]
  BY <1>3 DEF DevChanges
<1>5. Both(stat1, devLast) \in SUBSET Devs
  BY <1>1 DEF Both
<1> QED
  BY <1>4, <1>5, MapIntro

-----------------------------------------------------------------------------
LEMMA InitTypes == Init => TypeOK
<1> SUFFICES ASSUME Init PROVE TypeOK
  OBVIOUS
<1>1. 0 \in Counter /\ 0 \in 0 .. MaxStep
  BY DEF Counter
<1>2. PICK count \in Counter : i = IF count > 0 THEN (count + 1) % W ELSE count
  BY DEF Init
<1>3. i \in Counter
  BY <1>2 DEF Counter
<1>4. /\ Nothing \in MapOf(Cpus, [busy : Counter, total : Counter])
      /\ Nothing \in MapOf(Devs, Counter)
      /\ Nothing \in MapOf(Devs, 0 .. MaxStep)
  BY NothingIsMap
<1>5. /\ cpu \in [Cpus -> [idle : Counter, busy : Counter]]
      /\ dev \in [Devs -> Counter] /\ moved \in [Devs -> 0 .. MaxStep]
  BY <1>1 DEF Init
<1> QED
  BY <1>3, <1>4, <1>5 DEF Init, TypeOK

LEMMA CpuUpdateTypes ==
  ASSUME TypeOK, CpuUpdate
  PROVE  TypeOK'
<1>1. PICK stat1 \in CpuInfo :
        /\ cpuDelta' = Updated(cpuDelta, CpuChanges(stat1))
        /\ cpuLast' = stat1
        /\ spans' = (spans \ Both(stat1, cpuLast)) \cup (off \cap Both(stat1, cpuLast))
        /\ off' = off \ DOMAIN stat1
  BY DEF CpuUpdate, CpuChanges
<1>2. /\ cpuDelta \in MapOf(Cpus, Sample)
      /\ CpuChanges(stat1) \in MapOf(Cpus, Sample)
  BY CpuChangesTypes DEF TypeOK, Sample
<1>3. cpuDelta' \in MapOf(Cpus, Sample)
  BY <1>1, <1>2, UpdatedMap
<1>4. cpuLast' \in MapOf(Cpus, Sample)
  BY <1>1, CpuInfoTypes
<1>5. off' \subseteq Cpus /\ spans' \subseteq Cpus
  BY <1>1 DEF TypeOK
<1> QED
  BY <1>3, <1>4, <1>5 DEF CpuUpdate, TypeOK, kernel, devHistory, Sample

LEMMA NetUpdateTypes ==
  ASSUME TypeOK, NetUpdate
  PROVE  TypeOK'
<1>1. PICK stat1 \in NetInfo :
        /\ devDelta' = Updated(devDelta, DevChanges(stat1))
        /\ devLast' = stat1
        /\ traffic' = [d \in Steady(stat1) |-> moved[d]]
        /\ moved' = [d \in Devs |-> 0]
        /\ replaced' = Devs \ DOMAIN stat1
  BY DEF NetUpdate, DevChanges
<1>2. devDelta' \in MapOf(Devs, Counter)
  BY <1>1, DevChangesTypes, UpdatedMap DEF TypeOK
<1>3. devLast' \in MapOf(Devs, Counter)
  BY <1>1, NetInfoTypes
<1>4. Steady(stat1) \in SUBSET Devs
  BY NetInfoTypes, MapEntries DEF Steady, Both
<1>5. traffic' \in [Steady(stat1) -> 0 .. MaxStep]
  BY <1>1, <1>4 DEF TypeOK
<1>6. traffic' \in MapOf(Devs, 0 .. MaxStep)
  BY <1>4, <1>5, MapIntro
<1>7. moved' \in [Devs -> 0 .. MaxStep] /\ replaced' \subseteq Devs
  BY <1>1
<1> QED
  BY <1>2, <1>3, <1>6, <1>7 DEF NetUpdate, TypeOK, kernel, cpuHistory

(* TypeOK holds in every state of Sysinfo (sysinfo.go:54-401). *)
THEOREM SysinfoTypes == Spec => []TypeOK
<1>1. Init => TypeOK
  BY InitTypes
<1>2. TypeOK /\ [Next]_vars => TypeOK'
  <2> SUFFICES ASSUME TypeOK, [Next]_vars PROVE TypeOK'
    OBVIOUS
  <2>1. ASSUME NEW c \in Cpus, CpuSwitches(c) PROVE TypeOK'
    BY <2>1 DEF CpuSwitches, TypeOK, maps, devHistory
  <2>2. ASSUME NEW d \in Devs, DevCounts(d) PROVE TypeOK'
    <3>1. dev[d] + 1 \in Int
      BY DEF TypeOK, Counter
    <3>2. dev' \in [Devs -> Counter]
      BY <2>2, <3>1, InCounter DEF DevCounts, TypeOK
    <3>3. moved' \in [Devs -> 0 .. MaxStep]
      BY <2>2 DEF DevCounts, TypeOK
    <3> QED
      BY <2>2, <3>2, <3>3 DEF DevCounts, TypeOK, maps, cpuHistory
  <2>3. ASSUME NEW d \in Devs, DevSwitches(d) PROVE TypeOK'
    <3>1. dev' \in [Devs -> Counter]
      BY <2>3 DEF DevSwitches, TypeOK, Counter
    <3>2. present' \subseteq Devs /\ replaced' \subseteq Devs
      BY <2>3 DEF DevSwitches, TypeOK
    <3> QED
      BY <2>3, <3>1, <3>2 DEF DevSwitches, TypeOK, maps, cpuHistory
  <2>4. CASE Counts
    <3>1. i' \in Counter
      BY <2>4 DEF Counts, TypeOK, Counter
    <3> QED
      BY <2>4, <3>1 DEF Counts, TypeOK, kernel, maps, history, cpuHistory, devHistory
  <2>5. CASE CpuUpdate
    BY <2>5, CpuUpdateTypes
  <2>6. CASE PrintCPU \/ PrintCPUPanics
    BY <2>6 DEF PrintCPU, PrintCPUPanics, TypeOK, kernel, maps, history, cpuHistory, devHistory
  <2>7. CASE NetUpdate
    BY <2>7, NetUpdateTypes
  <2>8. CASE Sleeps
    BY <2>8, CpusCountTypes DEF Sleeps, TypeOK, maps, history, cpuHistory, devHistory
  <2>9. CASE UNCHANGED vars
    BY <2>9 DEF vars, TypeOK, kernel, maps, history, cpuHistory, devHistory
  <2> QED
    BY <2>1, <2>2, <2>3, <2>4, <2>5, <2>6, <2>7, <2>8, <2>9 DEF Next, Kernel, Main
<1> QED
  BY <1>1, <1>2, PTL DEF Spec

-----------------------------------------------------------------------------
LEMMA DevCountsAhead ==
  ASSUME DevInv, NEW d \in Devs, DevCounts(d)
  PROVE  DevAhead'
<1>1. /\ devLast' = devLast /\ replaced' = replaced
      /\ dev' = [dev EXCEPT ![d] = (dev[d] + 1) % W]
      /\ moved' = [moved EXCEPT ![d] = moved[d] + 1]
      /\ moved[d] < MaxStep
  BY DEF DevCounts, maps
<1>2. /\ dev \in [Devs -> Counter] /\ moved \in [Devs -> 0 .. MaxStep]
      /\ DOMAIN devLast \subseteq Devs /\ \A x \in DOMAIN devLast : devLast[x] \in Counter
  BY MapEntries DEF DevInv, TypeOK
<1>3. ASSUME NEW x \in DOMAIN devLast \ replaced
      PROVE  dev'[x] = (devLast[x] + moved'[x]) % W
  <2>1. dev[x] = (devLast[x] + moved[x]) % W /\ x \in Devs
    BY <1>2, <1>3 DEF DevInv, DevAhead
  <2>2. CASE x = d
    <3>1. dev'[x] = (dev[x] + 1) % W /\ moved'[x] = moved[x] + 1
      BY <1>1, <1>2, <2>2
    <3>2. devLast[x] \in Counter /\ moved[x] \in 0 .. MaxStep
      BY <1>2, <1>3, <2>1
    <3>3. (((devLast[x] + moved[x]) % W) + 1) % W = (devLast[x] + (moved[x] + 1)) % W
      BY <3>2, OneMore
    <3> QED
      BY <2>1, <3>1, <3>3
  <2>3. CASE x # d
    BY <1>1, <1>2, <2>1, <2>3
  <2> QED
    BY <2>2, <2>3
<1> QED
  BY <1>1, <1>3 DEF DevAhead

LEMMA NetUpdateInv ==
  ASSUME DevInv, NetUpdate
  PROVE  DevAhead' /\ DeltaIsTraffic'
<1>1. PICK stat1 \in NetInfo :
        /\ devDelta' = Updated(devDelta, DevChanges(stat1))
        /\ devLast' = stat1
        /\ traffic' = [d \in Steady(stat1) |-> moved[d]]
        /\ moved' = [d \in Devs |-> 0]
        /\ replaced' = Devs \ DOMAIN stat1
  BY DEF NetUpdate, DevChanges
<1>2. /\ dev' = dev
      /\ DOMAIN stat1 \subseteq Devs
      /\ \A d \in DOMAIN stat1 : stat1[d] = dev[d] /\ stat1[d] \in Counter
      /\ \A d \in DOMAIN devLast : devLast[d] \in Counter
      /\ moved \in [Devs -> 0 .. MaxStep]
  BY NetInfoTypes, MapEntries DEF NetUpdate, kernel, DevInv, TypeOK
<1>3. DevAhead'
  <2>1. ASSUME NEW d \in DOMAIN stat1
        PROVE  dev[d] = (stat1[d] + 0) % W /\ moved'[d] = 0
    BY <1>1, <1>2, <2>1, Unmoved
  <2> QED
    BY <1>1, <1>2, <2>1 DEF DevAhead
<1>4. ASSUME NEW d \in Steady(stat1)
      PROVE  d \in DOMAIN devDelta' /\ devDelta'[d] = moved[d]
  <2>1. d \in DOMAIN DevChanges(stat1)
    BY <1>4 DEF Steady, DevChanges
  <2>2. d \in DOMAIN devDelta' /\ devDelta'[d] = DevChanges(stat1)[d]
    BY <1>1, <2>1 DEF Updated
  <2>3. DevChanges(stat1)[d] = Minus(stat1[d], devLast[d])
    BY <1>4 DEF Steady, DevChanges
  <2>4. /\ stat1[d] = (devLast[d] + moved[d]) % W
        /\ devLast[d] \in Counter /\ moved[d] \in 0 .. MaxStep
    BY <1>2, <1>4 DEF Steady, Both, DevInv, DevAhead
  <2> QED
    BY <2>2, <2>3, <2>4, MinusGivesStep
<1>5. DOMAIN traffic' = Steady(stat1) /\ \A d \in Steady(stat1) : traffic'[d] = moved[d]
  BY <1>1
<1> QED
  BY <1>3, <1>4, <1>5 DEF DeltaIsTraffic

(***************************************************************************)
(* DeltaIsTraffic holds in every state: what nettop.Update (sysinfo.go:330) *)
(* keeps for a device that was there throughout an interval is the traffic *)
(* of that interval, also when the counter has wrapped.                    *)
(***************************************************************************)
THEOREM TrafficIsShown == Spec => []DeltaIsTraffic
<1>1. Init => DevInv
  <2> SUFFICES ASSUME Init PROVE DevInv
    OBVIOUS
  <2>1. DOMAIN devLast = {} /\ DOMAIN traffic = {}
    BY NothingIsMap DEF Init
  <2> QED
    BY <2>1, InitTypes DEF DevInv, DevAhead, DeltaIsTraffic
<1>2. TypeOK' /\ DevInv /\ [Next]_vars => DevInv'
  <2> SUFFICES ASSUME TypeOK', DevInv, [Next]_vars PROVE DevAhead' /\ DeltaIsTraffic'
    BY DEF DevInv
  <2>1. ASSUME NEW d \in Devs, DevCounts(d) PROVE DevAhead' /\ DeltaIsTraffic'
    BY <2>1, DevCountsAhead DEF DevCounts, DevInv, DeltaIsTraffic, maps
  <2>2. ASSUME NEW d \in Devs, DevSwitches(d) PROVE DevAhead' /\ DeltaIsTraffic'
    <3>1. /\ devLast' = devLast /\ replaced' = replaced \cup {d} /\ moved' = moved
          /\ \A x \in Devs \ {d} : dev'[x] = dev[x]
      BY <2>2 DEF DevSwitches, maps, DevInv, TypeOK
    <3>2. DOMAIN devLast \subseteq Devs
      BY MapEntries DEF DevInv, TypeOK
    <3>3. DevAhead'
      BY <3>1, <3>2 DEF DevInv, DevAhead
    <3> QED
      BY <2>2, <3>3 DEF DevSwitches, maps, DevInv, DeltaIsTraffic
  <2>3. CASE NetUpdate
    BY <2>3, NetUpdateInv
  <2>4. CASE UNCHANGED <<dev, devLast, replaced, moved, traffic, devDelta>>
    BY <2>4 DEF DevInv, DevAhead, DeltaIsTraffic
  <2>5. ASSUME NEW c \in Cpus, CpuSwitches(c)
        PROVE  UNCHANGED <<dev, devLast, replaced, moved, traffic, devDelta>>
    BY <2>5 DEF CpuSwitches, maps, devHistory
  <2>6. Counts \/ PrintCPU \/ PrintCPUPanics \/ Sleeps \/ CpuUpdate \/ UNCHANGED vars
          => UNCHANGED <<dev, devLast, replaced, moved, traffic, devDelta>>
    BY DEF Counts, PrintCPU, PrintCPUPanics, Sleeps, CpuUpdate, vars,
           kernel, maps, history, devHistory
  <2> QED
    BY <2>1, <2>2, <2>3, <2>4, <2>5, <2>6 DEF Next, Kernel, Main
<1>3. DevInv => DeltaIsTraffic
  BY DEF DevInv
<1> QED
  BY <1>1, <1>2, <1>3, SysinfoTypes, PTL DEF Spec

-----------------------------------------------------------------------------
LEMMA SleepsAhead ==
  ASSUME CpuInv, Sleeps, NEW c \in DOMAIN cpuLast
  PROVE  SinceSample(c)'
<1>1. /\ pc = "sleep" /\ pc' = "count" /\ CpusCount
      /\ cpuLast' = cpuLast /\ off' = off
  BY DEF Sleeps, maps, history, cpuHistory
<1>2. c \in Cpus /\ cpu[c].busy \in Counter /\ cpu[c].idle \in Counter
  BY MapEntries DEF CpuInv, TypeOK
<1>3. PICK busy, idle \in 0 .. MaxStep :
        /\ busy + idle <= MaxStep
        /\ cpu'[c] = [idle |-> (cpu[c].idle + idle) % W, busy |-> (cpu[c].busy + busy) % W]
        /\ busy + idle = 0 => c \notin online
  BY <1>1, <1>2, CpuCounts DEF CpuInv
<1>4. cpuLast[c].busy = cpu[c].busy /\ cpuLast[c].total = TotalOf(c)
  BY <1>1 DEF CpuInv, SinceSample
<1>5. cpu'[c].busy = (cpuLast[c].busy + busy) % W
  BY <1>3, <1>4
<1>6. TotalOf(c)' = (cpuLast[c].total + (busy + idle)) % W
  <2>1. TotalOf(c)' = (((cpu[c].idle + idle) % W) + ((cpu[c].busy + busy) % W)) % W
    <3>1. TotalOf(c)' = (cpu'[c].idle + cpu'[c].busy) % W
      BY DEF TotalOf
    <3>2. /\ cpu'[c].idle = (cpu[c].idle + idle) % W
          /\ cpu'[c].busy = (cpu[c].busy + busy) % W
      BY <1>3
    <3> QED
      BY <3>1, <3>2
  <2>2. @ = (((cpu[c].idle + cpu[c].busy) % W) + (idle + busy)) % W
    BY <1>2, SumMoves
  <2>3. idle + busy = busy + idle
    OBVIOUS
  <2> QED
    BY <1>4, <2>1, <2>2, <2>3 DEF TotalOf
<1>7. busy + idle = 0 => c \in off
  BY <1>3 DEF CpuInv
<1>8. CpuAhead(c, busy, idle)'
  BY <1>1, <1>3, <1>5, <1>6, <1>7 DEF CpuAhead
<1> QED
  BY <1>1, <1>8 DEF SinceSample

LEMMA CpuUpdateInv ==
  ASSUME CpuInv, CpuUpdate
  PROVE  /\ DOMAIN cpuLast' \ off' \subseteq online'
         /\ \A c \in DOMAIN cpuLast' : SinceSample(c)'
         /\ \A c \in DOMAIN cpuDelta' : Sane(c)'
<1>1. PICK stat1 \in CpuInfo :
        /\ cpuDelta' = Updated(cpuDelta, CpuChanges(stat1))
        /\ cpuLast' = stat1
        /\ spans' = (spans \ Both(stat1, cpuLast)) \cup (off \cap Both(stat1, cpuLast))
        /\ off' = off \ DOMAIN stat1
  BY DEF CpuUpdate, CpuChanges
<1>2. pc = "cpu" /\ pc' = "printCPU" /\ cpu' = cpu /\ online' = online
  BY DEF CpuUpdate, kernel
<1>3. /\ DOMAIN stat1 \subseteq online
      /\ \A c \in DOMAIN stat1 : stat1[c] = [busy |-> cpu[c].busy, total |-> TotalOf(c)]
  BY CpuInfoTypes DEF CpuInv
<1>4. \A c \in DOMAIN cpuLast' : SinceSample(c)'
  BY <1>1, <1>2, <1>3 DEF SinceSample, TotalOf
<1>5. ASSUME NEW c \in Both(stat1, cpuLast)
      PROVE  Sane(c)'
  <2>1. PICK busy, idle \in 0 .. MaxStep : CpuAhead(c, busy, idle)
    BY <1>2, <1>5 DEF CpuInv, SinceSample, Both
  <2>2. cpuLast[c].busy \in Counter /\ cpuLast[c].total \in Counter
    <3>1. cpuLast \in MapOf(Cpus, Sample)
      BY DEF CpuInv, TypeOK, Sample
    <3>2. cpuLast[c] \in Sample
      BY <1>5, <3>1, MapEntries DEF Both
    <3> QED
      BY <3>2 DEF Sample
  <2>3. busy + idle \in 0 .. MaxStep
    BY <2>1 DEF CpuAhead
  <2>4. stat1[c].busy = (cpuLast[c].busy + busy) % W
    BY <1>3, <1>5, <2>1 DEF CpuAhead, Both
  <2>5. stat1[c].total = (cpuLast[c].total + (busy + idle)) % W
    BY <1>3, <1>5, <2>1 DEF CpuAhead, Both
  <2>6. CpuChanges(stat1)[c] = [busy |-> busy, total |-> busy + idle]
    <3>1. Minus(stat1[c].busy, cpuLast[c].busy) = busy
      BY <2>2, <2>4, MinusGivesStep
    <3>2. Minus(stat1[c].total, cpuLast[c].total) = busy + idle
      BY <2>2, <2>3, <2>5, MinusGivesStep
    <3> QED
      BY <1>5, <3>1, <3>2 DEF CpuChanges
  <2>7. c \in DOMAIN CpuChanges(stat1)
    BY <1>5 DEF CpuChanges
  <2>8. cpuDelta'[c] = [busy |-> busy, total |-> busy + idle]
    BY <1>1, <2>6, <2>7 DEF Updated
  <2>9. busy + idle = 0 => c \in spans'
    BY <1>1, <1>5, <2>1 DEF CpuAhead
  <2>10. busy <= busy + idle
    OBVIOUS
  <2> QED
    BY <2>8, <2>9, <2>10 DEF Sane
<1>6. ASSUME NEW c \in DOMAIN cpuDelta, c \notin Both(stat1, cpuLast)
      PROVE  Sane(c)'
  <2>1. cpuDelta'[c] = cpuDelta[c]
    <3>1. c \notin DOMAIN CpuChanges(stat1)
      BY <1>6 DEF CpuChanges
    <3> QED
      BY <1>1, <1>6, <3>1 DEF Updated
  <2>2. c \in spans => c \in spans'
    BY <1>1, <1>6
  <2> QED
    BY <1>6, <2>1, <2>2 DEF CpuInv, Sane
<1>7. DOMAIN cpuDelta' = DOMAIN cpuDelta \cup Both(stat1, cpuLast)
  <2>1. DOMAIN CpuChanges(stat1) = Both(stat1, cpuLast)
    BY DEF CpuChanges
  <2> QED
    BY <1>1, <2>1 DEF Updated
<1>8. \A c \in DOMAIN cpuDelta' : Sane(c)'
  BY <1>5, <1>6, <1>7
<1> QED
  BY <1>1, <1>2, <1>3, <1>4, <1>8

(***************************************************************************)
(* RatesSane holds in every state: printCPU (sysinfo.go:138-161) shows no  *)
(* CPU above 100 %, and the division by zero of sysinfo.go:149 needs a CPU *)
(* that was offline between two samples but at neither.                    *)
(***************************************************************************)
THEOREM RatesAreSane == Spec => []RatesSane
<1>1. Init => CpuInv
  <2> SUFFICES ASSUME Init PROVE CpuInv
    OBVIOUS
  <2>1. DOMAIN cpuLast = {} /\ DOMAIN cpuDelta = {}
    BY NothingIsMap DEF Init
  <2> QED
    BY <2>1, InitTypes DEF CpuInv
<1>2. TypeOK' /\ CpuInv /\ [Next]_vars => CpuInv'
  <2> SUFFICES ASSUME TypeOK', CpuInv, [Next]_vars PROVE CpuInv'
    OBVIOUS
  <2>1. ASSUME NEW c \in Cpus, CpuSwitches(c) PROVE CpuInv'
    <3>1. /\ cpu' = cpu /\ pc' = pc /\ cpuLast' = cpuLast /\ cpuDelta' = cpuDelta
          /\ spans' = spans /\ off' = off \cup {c}
          /\ online \ {c} \subseteq online'
      BY <2>1 DEF CpuSwitches, maps
    <3>2. ASSUME NEW x \in DOMAIN cpuLast PROVE SinceSample(x)'
      <4>1. SinceSample(x)
        BY <3>2 DEF CpuInv
      <4>2. ASSUME NEW busy \in 0 .. MaxStep, NEW idle \in 0 .. MaxStep, CpuAhead(x, busy, idle)
            PROVE  CpuAhead(x, busy, idle)'
        BY <3>1, <4>2 DEF CpuAhead, TotalOf
      <4> QED
        BY <3>1, <4>1, <4>2 DEF SinceSample, TotalOf
    <3> QED
      BY <3>1, <3>2 DEF CpuInv, Sane
  <2>2. CASE CpuUpdate
    BY <2>2, CpuUpdateInv DEF CpuInv
  <2>3. CASE Sleeps
    <3>1. /\ cpuLast' = cpuLast /\ cpuDelta' = cpuDelta
          /\ spans' = spans /\ off' = off /\ online' = online
      BY <2>3 DEF Sleeps, maps, history, cpuHistory
    <3>2. \A x \in DOMAIN cpuLast : SinceSample(x)'
      BY <2>3, SleepsAhead
    <3> QED
      BY <3>1, <3>2 DEF CpuInv, Sane
  <2>4. CASE /\ UNCHANGED <<cpu, online, cpuLast, cpuDelta, off, spans>>
             /\ \/ pc' = pc
                \/ pc' \in {"done", "panicked"}
                \/ pc = "count" /\ pc' = "cpu"
                \/ pc = "printCPU" /\ pc' = "net"
                \/ pc = "net" /\ pc' = "sleep"
    <3>1. ASSUME NEW x \in DOMAIN cpuLast PROVE SinceSample(x)'
      <4>1. SinceSample(x)
        BY <3>1 DEF CpuInv
      <4>2. ASSUME NEW busy \in 0 .. MaxStep, NEW idle \in 0 .. MaxStep, CpuAhead(x, busy, idle)
            PROVE  CpuAhead(x, busy, idle)'
        BY <2>4, <4>2 DEF CpuAhead, TotalOf
      <4> QED
        BY <2>4, <4>1, <4>2 DEF SinceSample, TotalOf
    <3> QED
      BY <2>4, <3>1 DEF CpuInv, Sane
  <2>5. ASSUME NEW d \in Devs, DevCounts(d) \/ DevSwitches(d) PROVE CpuInv'
    BY <2>4, <2>5 DEF DevCounts, DevSwitches, maps, cpuHistory
  <2>6. CASE Counts \/ PrintCPU \/ PrintCPUPanics \/ NetUpdate \/ UNCHANGED vars
    BY <2>4, <2>6 DEF Counts, PrintCPU, PrintCPUPanics, NetUpdate, vars,
           kernel, maps, history, cpuHistory
  <2> QED
    BY <2>1, <2>2, <2>3, <2>5, <2>6 DEF Next, Kernel, Main
<1>3. CpuInv => RatesSane
  BY DEF CpuInv, Sane, RatesSane, Shown
<1> QED
  BY <1>1, <1>2, <1>3, SysinfoTypes, PTL DEF Spec

=============================================================================
