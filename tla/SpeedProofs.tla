---------------------------- MODULE SpeedProofs -----------------------------
(***************************************************************************)
(* Proofs about module SpeedCtrl, for every set of directions, of closers, *)
(* every size of a chunk and every bound.                                  *)
(*                                                                         *)
(* RateKept is not inductive.  What makes it so is the relation between    *)
(* the excess, a quantity over all periods, and Over, which the code       *)
(* computes from one baseline: while the count is below the line through   *)
(* the baseline, the excess is at most a chunk and shrinks with the        *)
(* distance; a chunk may raise both by its own size, and a sleep lasts     *)
(* until the line has caught up with the count.                            *)
(***************************************************************************)
EXTENDS SpeedCtrl, TLAPS

USE SpeedAssumption DEF SpeedAssumption

Due(d) == excess[d] = 0 \/ excess[d] <= MaxChunk + Over(d)

RateInv(d) ==
  /\ pc[d] = "call" => Over(d) <= 0 /\ Due(d)
  /\ pc[d] = "account" => /\ Over(d) <= MaxChunk
                          /\ excess[d] <= MaxChunk \/ excess[d] <= MaxChunk + Over(d)
  /\ pc[d] = "sleep" => /\ Over(d) <= MaxChunk /\ Due(d)
                        /\ until[d] = now + Over(d)
  /\ excess[d] <= 2 * MaxChunk

IInv == TypeOK /\ (~die => \A d \in Limited : RateInv(d))

(* Who has passed Lock and not yet closed die holds the lock, and whoever  *)
(* is about to close die has found it open.                                *)
LockInv ==
  \A c \in Closers :
    /\ cpc[c] \in {"select", "closeDie"} => lock = c
    /\ cpc[c] = "closeDie" => ~die

-----------------------------------------------------------------------------
LEMMA InitTypes == Init => TypeOK
<1> SUFFICES ASSUME Init PROVE TypeOK
  OBVIOUS
<1>1. failed \in [Dirs -> BOOLEAN] /\ die \in BOOLEAN /\ inOpen \in BOOLEAN
  BY Zenon DEF Init
<1>2. /\ now \in 0 .. MaxTime /\ total \in [Dirs -> Nat]
      /\ since \in [Dirs -> 0 .. MaxTime] /\ from \in [Dirs -> Nat]
      /\ until \in [Dirs -> Nat] /\ excess \in [Dirs -> Nat]
  BY DEF Init
<1>3. /\ pc \in [Dirs -> {"call", "account", "sleep", "ended"}]
      /\ lock \in Closers \cup {Nobody}
      /\ cpc \in [Closers -> {"idle", "lock", "select", "closeDie", "closeIn", "returned"}]
  BY DEF Init
<1> QED
  BY <1>1, <1>2, <1>3 DEF TypeOK

(* TypeOK holds in every state of SpeedCtrl (network/jmp.go:125-275). *)
THEOREM SpeedTypes == Spec => []TypeOK
<1>1. Init => TypeOK
  BY InitTypes
<1>2. TypeOK /\ [Next]_vars => TypeOK'
  <2> SUFFICES ASSUME TypeOK, [Next]_vars PROVE TypeOK'
    OBVIOUS
  <2>1. CASE Tick
    BY <2>1 DEF Tick, TypeOK, closeVars, MaxOf
  <2>2. ASSUME NEW d \in Dirs, Moves(d) PROVE TypeOK'
    BY <2>2 DEF Moves, TypeOK, closeVars
  <2>3. ASSUME NEW d \in Dirs, Fails(d) PROVE TypeOK'
    BY <2>3 DEF Fails, TypeOK, closeVars
  <2>4. ASSUME NEW d \in Dirs, Sleeps(d) PROVE TypeOK'
    <3>1. until' \in [Dirs -> Nat]
      BY <2>4 DEF Sleeps, TypeOK, Over, Ems
    <3> QED
      BY <2>4, <3>1 DEF Sleeps, TypeOK, closeVars
  <2>5. ASSUME NEW d \in Dirs, Rebases(d) PROVE TypeOK'
    BY <2>5 DEF Rebases, Returns, TypeOK, closeVars
  <2>6. ASSUME NEW d \in Dirs, Wakes(d) PROVE TypeOK'
    BY <2>6 DEF Wakes, Returns, TypeOK, closeVars
  <2>7. ASSUME NEW c \in Closers, CallsClose(c) \/ Close(c) PROVE TypeOK'
    BY <2>7 DEF CallsClose, Close, Locks, Acquire, Selects, ClosesDie, ClosesIn, TypeOK
  <2>8. CASE UNCHANGED vars
    BY <2>8 DEF vars, TypeOK
  <2>9. CASE ProxyConnReturns
    BY <2>9 DEF ProxyConnReturns, TypeOK
  <2> QED
    BY <2>1, <2>2, <2>3, <2>4, <2>5, <2>6, <2>7, <2>8, <2>9 DEF Next, Call
<1> QED
  BY <1>1, <1>2, PTL DEF Spec

-----------------------------------------------------------------------------
(* A step of one direction leaves what RateInv says of the others alone. *)
LEMMA OtherDirection ==
  ASSUME TypeOK, NEW d \in Limited, RateInv(d),
         now' = now, total'[d] = total[d], since'[d] = since[d], from'[d] = from[d],
         pc'[d] = pc[d], until'[d] = until[d], excess'[d] = excess[d]
  PROVE  RateInv(d)'
BY DEF RateInv, Due, Over, Ems, TypeOK

(* The clock takes the line and the excess along. *)
LEMMA TickKeepsRate ==
  ASSUME TypeOK, NEW d \in Limited, RateInv(d), Tick
  PROVE  RateInv(d)'
<1>1. /\ now' = now + 1 /\ pc' = pc /\ until' = until /\ total' = total
      /\ since' = since /\ from' = from
      /\ excess'[d] = IF excess[d] - 1 < 0 THEN 0 ELSE excess[d] - 1
  BY DEF Tick, MaxOf, TypeOK
<1>2. Over(d)' = Over(d) - 1 /\ Over(d) \in Int
  BY <1>1 DEF Over, Ems, TypeOK
<1>3. excess[d] \in Nat /\ now \in Nat /\ until[d] \in Nat
  BY DEF TypeOK
<1> QED
  BY <1>1, <1>2, <1>3 DEF RateInv, Due

(***************************************************************************)
(* RateKept holds in every state: the limiter of network/jmp.go:156-210    *)
(* grants no period more than its due and two chunks.                      *)
(***************************************************************************)
THEOREM RateIsKept == Spec => []RateKept
<1>1. Init => IInv
  <2>1. ASSUME Init, NEW d \in Limited PROVE RateInv(d)
    <3>1. Over(d) = 0
      BY <2>1 DEF Init, Over, Ems
    <3> QED
      BY <2>1, <3>1 DEF Init, RateInv, Due
  <2> QED
    BY <2>1, InitTypes DEF IInv
<1>2. IInv /\ TypeOK' /\ [Next]_vars => IInv'
  <2> SUFFICES ASSUME IInv, TypeOK', [Next]_vars, ~die', NEW e \in Limited
               PROVE  RateInv(e)'
    BY DEF IInv
  <2>0. ~die
    <3>1. die => die'
      BY DEF IInv, TypeOK, Next, Call, Tick, Moves, Fails, Sleeps, Rebases, Wakes, CallsClose,
             Close, Locks, Selects, ClosesDie, ClosesIn, ProxyConnReturns, vars, closeVars
    <3> QED
      BY <3>1
  <2>t. TypeOK /\ RateInv(e) /\ e \in Dirs
    BY <2>0 DEF IInv
  <2>a. /\ total[e] \in Nat /\ now \in Nat /\ from[e] \in Nat /\ since[e] \in Nat
        /\ excess[e] \in Nat /\ until[e] \in Nat
        /\ Over(e) \in Int /\ Over(e) = total[e] - (from[e] + (now - since[e]))
    BY <2>t DEF TypeOK, Over, Ems
  <2>1. CASE Tick
    BY <2>1, <2>t, TickKeepsRate
  <2>2. ASSUME NEW d \in Dirs, Moves(d) PROVE RateInv(e)'
    <3>1. CASE d = e
      <4>1. PICK n \in 1 .. MaxChunk :
              total'[e] = total[e] + n /\ excess'[e] = excess[e] + n
        BY <2>2, <2>t, <3>1 DEF Moves, TypeOK
      <4>2. Over(e)' = Over(e) + n
        BY <2>2, <2>a, <4>1 DEF Moves, Over, Ems
      <4>3. pc[e] = "call" /\ pc'[e] = "account"
        BY <2>2, <2>t, <3>1 DEF Moves, TypeOK
      <4> QED
        BY <2>a, <2>t, <4>1, <4>2, <4>3 DEF RateInv, Due
    <3>2. CASE d # e
      BY <2>2, <2>t, <3>2, OtherDirection DEF Moves, TypeOK
    <3> QED
      BY <3>1, <3>2
  <2>3. ASSUME NEW d \in Dirs, Fails(d) PROVE RateInv(e)'
    <3>1. CASE d = e
      <4>1. pc[e] = "call" /\ pc'[e] = "account"
        BY <2>3, <2>t, <3>1 DEF Fails, TypeOK
      <4>2. Over(e)' = Over(e) /\ excess' = excess
        BY <2>3 DEF Fails, Over, Ems
      <4> QED
        BY <2>a, <2>t, <4>1, <4>2 DEF RateInv, Due
    <3>2. CASE d # e
      BY <2>3, <2>t, <3>2, OtherDirection DEF Fails, TypeOK
    <3> QED
      BY <3>1, <3>2
  <2>4. ASSUME NEW d \in Dirs, Sleeps(d) PROVE RateInv(e)'
    <3>1. CASE d = e
      <4>1. /\ pc[e] = "account" /\ pc'[e] = "sleep" /\ Over(e) > 0
            /\ until'[e] = now + Over(e) /\ now' = now /\ excess' = excess
        BY <2>4, <2>t, <3>1 DEF Sleeps, TypeOK
      <4>2. Over(e)' = Over(e)
        BY <2>4 DEF Sleeps, Over, Ems
      <4> QED
        BY <2>a, <2>t, <4>1, <4>2 DEF RateInv, Due
    <3>2. CASE d # e
      BY <2>4, <2>t, <3>2, OtherDirection DEF Sleeps, TypeOK
    <3> QED
      BY <3>1, <3>2
  <2>5. ASSUME NEW d \in Dirs, Rebases(d) PROVE RateInv(e)'
    <3>1. CASE d = e
      <4>1. /\ pc[e] = "account" /\ pc'[e] \in {"call", "ended"} /\ Over(e) <= 0
            /\ since'[e] = now /\ from'[e] = total[e] /\ now' = now
            /\ total' = total /\ excess' = excess
        BY <2>5, <2>t, <3>1 DEF Rebases, Returns, TypeOK
      <4>2. Over(e)' = 0
        BY <2>a, <4>1 DEF Over, Ems
      <4> QED
        BY <2>a, <2>t, <4>1, <4>2 DEF RateInv, Due
    <3>2. CASE d # e
      BY <2>5, <2>t, <3>2, OtherDirection DEF Rebases, Returns, TypeOK
    <3> QED
      BY <3>1, <3>2
  <2>6. ASSUME NEW d \in Dirs, Wakes(d) PROVE RateInv(e)'
    <3>1. CASE d = e
      <4>1. /\ pc[e] = "sleep" /\ pc'[e] \in {"call", "ended"} /\ now >= until[e]
            /\ excess' = excess
        BY <2>0, <2>6, <2>t, <3>1 DEF Wakes, Awake, Returns, TypeOK
      <4>2. Over(e)' = Over(e)
        BY <2>6 DEF Wakes, Over, Ems
      <4> QED
        BY <2>a, <2>t, <4>1, <4>2 DEF RateInv, Due
    <3>2. CASE d # e
      BY <2>6, <2>t, <3>2, OtherDirection DEF Wakes, Returns, TypeOK
    <3> QED
      BY <3>1, <3>2
  <2>7. ASSUME NEW c \in Closers, CallsClose(c) \/ Close(c) PROVE RateInv(e)'
    BY <2>7, <2>t, OtherDirection DEF CallsClose, Close, Locks, Selects, ClosesDie, ClosesIn
  <2>8. CASE UNCHANGED vars
    BY <2>8, <2>t, OtherDirection DEF vars
  <2>9. CASE ProxyConnReturns
    BY <2>9, <2>t, OtherDirection DEF ProxyConnReturns
  <2> QED
    BY <2>1, <2>2, <2>3, <2>4, <2>5, <2>6, <2>7, <2>8, <2>9 DEF Next, Call
<1>3. IInv => RateKept
  BY DEF IInv, RateInv, RateKept
<1> QED
  BY <1>1, <1>2, <1>3, SpeedTypes, PTL DEF Spec

-----------------------------------------------------------------------------
(***************************************************************************)
(* Close never closes a closed die (network/jmp.go:152), however many      *)
(* goroutines call it.                                                     *)
(***************************************************************************)
THEOREM DieIsClosedOnce == Spec => DieClosedOnce
<1>1. Init => LockInv
  BY DEF Init, LockInv
<1>2. TypeOK /\ LockInv /\ [Next]_vars => LockInv'
  <2> SUFFICES ASSUME TypeOK, LockInv, [Next]_vars PROVE LockInv'
    OBVIOUS
  <2>1. CASE Tick \/ (\E d \in Dirs : Call(d)) \/ ProxyConnReturns \/ UNCHANGED vars
    <3>1. UNCHANGED <<die, lock, cpc>>
      BY <2>1 DEF ProxyConnReturns, Tick, Call, Moves, Fails, Sleeps, Rebases, Wakes, vars, closeVars
    <3> QED
      BY <3>1 DEF LockInv
  <2>2. ASSUME NEW c \in Closers, CallsClose(c) PROVE LockInv'
    BY <2>2 DEF CallsClose, LockInv, TypeOK
  <2>3. ASSUME NEW c \in Closers, Locks(c) PROVE LockInv'
    BY <2>3 DEF Locks, Acquire, LockInv, TypeOK
  <2>4. ASSUME NEW c \in Closers, Selects(c) PROVE LockInv'
    BY <2>4 DEF Selects, LockInv, TypeOK
  <2>5. ASSUME NEW c \in Closers, ClosesDie(c) PROVE LockInv'
    BY <2>5 DEF ClosesDie, LockInv, TypeOK
  <2>6. ASSUME NEW c \in Closers, ClosesIn(c) PROVE LockInv'
    BY <2>6 DEF ClosesIn, LockInv, TypeOK
  <2> QED
    BY <2>1, <2>2, <2>3, <2>4, <2>5, <2>6 DEF Next, Close
<1>3. LockInv => \A c \in Closers : ClosesDie(c) => ~die
  BY DEF LockInv, ClosesDie
<1> QED
  BY <1>1, <1>2, <1>3, SpeedTypes, PTL DEF Spec, DieClosedOnce

=============================================================================
