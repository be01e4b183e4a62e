-------------------------- MODULE BruteForceProofs --------------------------
(***************************************************************************)
(* Proofs about module BruteForce, for every number of workers, every base *)
(* and every range of lengths.                                             *)
(*                                                                         *)
(* The argument rests on one fact about increment: NextKey gives the very  *)
(* next key of the enumeration (Successor).  So the keys that have left    *)
(* main are always those before the one it is at.  As each of them is in   *)
(* one place only, at most one worker ever finds the key, and the channel  *)
(* end is closed by that one, by main after the last key, or by both.      *)
(***************************************************************************)
EXTENDS BruteForce, FiniteSetTheorems, SequenceTheorems, TLAPS

USE BruteForceAssumption DEF BruteForceAssumption

(* What main and the workers are about to do with a key or without one. *)
Types ==
  /\ TypeOK
  /\ ch \in Seq(Keys)
  /\ Bs <= Len(input)
  /\ \A w \in Calculating : job[w] \in Keys

(* The channel holds the keys in the order of enumeration, and those that  *)
(* have been taken out come before those that have not.                    *)
InOrder ==
  /\ \A i, k \in DOMAIN ch : i < k => Before(ch[i], ch[k])
  /\ \A k \in tested \cup InHand, m \in Range(ch) : Before(k, m)

KeysInv == Types /\ EachKeyOnce /\ InOrder

(* A worker that has found the key and has not closed end. *)
Finders == {w \in Worker : wpc[w] \in {"endCh", "close"}}

EndInv ==
  /\ found => hit \in tested
  /\ Finders # {} => found
  /\ \A v, w \in Finders : v = w
  /\ main # "loop" => end \/ Len(input) > Be
  /\ main = "close" => Len(input) > Be
  /\ main = "done" => \A w \in Worker : wpc[w] = "done"
  /\ end => found \/ (main \in {"wait", "done"} /\ Len(input) > Be)
  /\ end => Len(input) > Be \/ Finders = {}
  /\ PanicOnlyAtTheEnd

IInv == KeysInv /\ EndInv

-----------------------------------------------------------------------------
(* Every set of numbers that is not empty has a least element: a family of *)
(* finite sets has a minimal one.                                          *)
LEMMA Least ==
  ASSUME NEW T \in SUBSET Nat, T # {}
  PROVE  \E m \in T : \A k \in T : m <= k
<1> DEFINE F == {0 .. m : m \in T}
<1>1. F \subseteq FiniteSubsetsOf(Nat)
  <2>1. ASSUME NEW m \in T PROVE 0 .. m \in FiniteSubsetsOf(Nat)
    <3>1. 0 \in Int /\ m \in Int /\ 0 .. m \in SUBSET Nat
      OBVIOUS
    <3>2. IsFiniteSet(0 .. m)
      BY <3>1, FS_Interval
    <3> QED
      BY <3>1, <3>2 DEF FiniteSubsetsOf
  <2> QED
    BY <2>1
<1>2. F # {}
  OBVIOUS
<1>3. IsWellFoundedOn(StrictSubsetOrdering(Nat), FiniteSubsetsOf(Nat))
  BY FS_StrictSubsetOrderingWellFounded
<1> HIDE DEF F
<1>4. PICK I \in F : \A J \in F : ~ (<<J, I>> \in StrictSubsetOrdering(Nat))
  BY <1>1, <1>2, <1>3, WFMin
<1>5. PICK m \in T : I = 0 .. m
  BY <1>4 DEF F
<1>6. ASSUME NEW k \in T, k < m
      PROVE  FALSE
  <2>1. 0 .. k \in F
    BY DEF F
  <2>2. (0 .. k) \subseteq (0 .. m) /\ m \notin 0 .. k /\ m \in 0 .. m
    BY <1>6
  <2>3. <<0 .. k, 0 .. m>> \in StrictSubsetOrdering(Nat)
    BY <2>2 DEF StrictSubsetOrdering
  <2> QED
    BY <1>4, <1>5, <2>1, <2>3
<1> QED
  BY <1>6

LEMMA Greatest ==
  ASSUME NEW n \in Nat, NEW T \in SUBSET (1 .. n), T # {}
  PROVE  \E m \in T : \A k \in T : k <= m
<1> DEFINE U == {n - t : t \in T}
<1>1. U \in SUBSET Nat /\ U # {}
  <2>1. \A t \in T : t \in 1 .. n /\ n - t \in Nat
    OBVIOUS
  <2> QED
    BY <2>1
<1>2. PICK u \in U : \A k \in U : u <= k
  BY <1>1, Least
<1>3. PICK m \in T : u = n - m
  BY <1>2
<1>4. ASSUME NEW k \in T PROVE k <= m
  <2>1. n - k \in U
    OBVIOUS
  <2>2. n - m <= n - k
    BY <1>2, <1>3, <2>1
  <2>3. m \in 1 .. n /\ k \in 1 .. n
    OBVIOUS
  <2> QED
    BY <2>2, <2>3
<1> QED
  BY <1>4

(* Min of module FiniteSetsExt is that element. *)
LEMMA MinIs ==
  ASSUME NEW T \in SUBSET Nat, T # {}
  PROVE  Min(T) \in T /\ \A k \in T : Min(T) <= k
BY Least DEF Min

-----------------------------------------------------------------------------
(* Keys as sequences of digits. *)
LEMMA KeyLen ==
  ASSUME NEW n \in Nat, NEW a \in [1 .. n -> Digit]
  PROVE  Len(a) = n /\ DOMAIN a = 1 .. n /\ a \in Seq(Digit)
<1>1. a \in Seq(Digit)
  BY SeqDef
<1> QED
  BY <1>1, LenProperties
LEMMA ZerosIs ==
  ASSUME NEW n \in Nat
  PROVE  Zeros(n) \in [1 .. n -> Digit] /\ \A i \in 1 .. n : Zeros(n)[i] = 0
<1>1. 0 \in Digit
  BY DEF Digit
<1> QED
  BY <1>1 DEF Zeros

(* Two keys of a length that are not the same have a most significant byte *)
(* in which they differ.                                                   *)
Differ(n, a, b) ==
  \E i \in 1 .. n : a[i] # b[i] /\ \A k \in 1 .. n : k > i => a[k] = b[k]

LEMMA LastDifference ==
  ASSUME NEW n \in Nat, NEW a \in [1 .. n -> Digit], NEW b \in [1 .. n -> Digit], a # b
  PROVE  Differ(n, a, b)
<1> DEFINE D == {i \in 1 .. n : a[i] # b[i]}
<1>1. D # {}
  OBVIOUS
<1>2. PICK i \in D : \A k \in D : k <= i
  <2>1. D \in SUBSET (1 .. n)
    OBVIOUS
  <2> HIDE DEF D
  <2> QED
    BY <1>1, <2>1, Greatest
<1>3. \A k \in 1 .. n : k > i => a[k] = b[k]
  BY <1>2
<1> QED
  BY <1>3 DEF Differ

(* Before, with the lengths at hand. *)
LEMMA BeforeIs ==
  ASSUME NEW m \in Nat, NEW a \in [1 .. m -> Digit],
         NEW n \in Nat, NEW b \in [1 .. n -> Digit]
  PROVE  Before(a, b) <=>
           \/ m < n
           \/ m = n /\ \E i \in 1 .. n : a[i] < b[i] /\ \A k \in 1 .. n : k > i => a[k] = b[k]
<1>1. Len(a) = m /\ DOMAIN a = 1 .. m /\ Len(b) = n
  BY KeyLen
<1> QED
  BY <1>1 DEF Before

(* Keys of one length. *)
LEMMA SameLength ==
  ASSUME NEW n \in Nat, NEW a \in [1 .. n -> Digit], NEW b \in [1 .. n -> Digit]
  PROVE  Before(a, b) <=> \E i \in 1 .. n : a[i] < b[i] /\ \A k \in 1 .. n : k > i => a[k] = b[k]
BY BeforeIs, SMTT(40)

(* increment (bruteforce/base.go:130): up to a byte that does not wrap, all *)
(* bytes wrap to 0, that one is one more, and the others stay.             *)
LEMMA IncrementIs ==
  ASSUME NEW n \in Nat, NEW b \in [1 .. n -> Digit], ~Wraps(b)
  PROVE  /\ increment(b) \in [1 .. n -> Digit]
         /\ \E j \in 1 .. n :
              /\ b[j] < Base - 1 /\ increment(b)[j] = b[j] + 1
              /\ \A i \in 1 .. n : i < j => b[i] = Base - 1 /\ increment(b)[i] = 0
              /\ \A i \in 1 .. n : i > j => increment(b)[i] = b[i]
<1> DEFINE T == {i \in DOMAIN b : b[i] # Base - 1}
           j == Min(T)
<1>1. T \in SUBSET Nat /\ T # {}
  BY DEF Wraps
<1> HIDE DEF T
<1>2. j \in T /\ \A k \in T : j <= k
  BY <1>1, MinIs
<1>3. increment(b) = [i \in 1 .. n |-> IF i < j THEN 0 ELSE IF i = j THEN b[i] + 1 ELSE b[i]]
  BY DEF increment, T
<1> HIDE DEF j
<1>4. j \in 1 .. n /\ b[j] # Base - 1 /\ \A i \in 1 .. n : i < j => b[i] = Base - 1
  BY <1>2 DEF T
<1>5. \A i \in 1 .. n : b[i] \in 0 .. Base - 1
  BY DEF Digit
<1>6. b[j] < Base - 1 /\ b[j] + 1 \in Digit /\ 0 \in Digit
  BY <1>4, <1>5 DEF Digit
<1>7. increment(b) \in [1 .. n -> Digit]
  BY <1>3, <1>4, <1>6
<1>8. /\ increment(b)[j] = b[j] + 1
      /\ \A i \in 1 .. n : i < j => increment(b)[i] = 0
      /\ \A i \in 1 .. n : i > j => increment(b)[i] = b[i]
  BY <1>3, <1>4
<1> QED
  BY <1>4, <1>6, <1>7, <1>8

(* NextKey(b) is the next key: only b and those before b come before it. *)
LEMMA Successor ==
  ASSUME NEW n \in Nat, NEW b \in [1 .. n -> Digit],
         NEW m \in Nat, NEW k \in [1 .. m -> Digit]
  PROVE  Before(k, NextKey(b)) <=> (k = b \/ Before(k, b))
<1>1. \A i \in 1 .. n : b[i] \in 0 .. Base - 1
  BY DEF Digit
<1>2. \A i \in 1 .. m : k[i] \in 0 .. Base - 1
  BY DEF Digit
<1>3. k = b => m = n
  BY KeyLen
<1>4. CASE Wraps(b)
  <2>1. \A i \in 1 .. n : b[i] = Base - 1
    BY <1>4 DEF Wraps
  <2>2. NextKey(b) = Zeros(n + 1)
    BY <1>4, KeyLen DEF NextKey
  <2>3. Before(k, NextKey(b)) <=> m < n + 1
    <3> DEFINE z == Zeros(n + 1)
    <3>1. z \in [1 .. n + 1 -> Digit] /\ \A i \in 1 .. n + 1 : z[i] = 0
      BY ZerosIs
    <3>2. Len(z) = n + 1
      BY <3>1, KeyLen
    <3>3. Len(k) = m /\ DOMAIN k = 1 .. m
      BY KeyLen
    <3> HIDE DEF z
    <3>4. ASSUME m = n + 1, NEW i \in 1 .. m, k[i] < z[i]
          PROVE  FALSE
      BY <1>2, <3>1, <3>4
    <3>5. Before(k, z) <=> m < n + 1
      BY <3>2, <3>3, <3>4 DEF Before
    <3> QED
      BY <2>2, <3>5 DEF z
  <2>4. ASSUME m = n, k # b PROVE Before(k, b)
    <3>1. PICK i \in 1 .. n : k[i] # b[i] /\ \A x \in 1 .. n : x > i => k[x] = b[x]
      <4>1. k \in [1 .. n -> Digit] /\ k # b
        BY <2>4
      <4>2. Differ(n, k, b)
        BY <4>1, LastDifference
      <4> QED
        BY <4>2 DEF Differ
    <3>2. k[i] < b[i]
      BY <1>2, <2>1, <2>4, <3>1
    <3> QED
      BY <2>4, <3>1, <3>2, BeforeIs, SMTT(40)
  <2>5. Before(k, b) => m <= n
    BY BeforeIs
  <2>6. m < n => Before(k, b)
    BY BeforeIs
  <2> QED
    BY <1>3, <2>3, <2>4, <2>5, <2>6
<1>5. CASE ~Wraps(b)
  <2> DEFINE c == increment(b)
  <2>1. c \in [1 .. n -> Digit]
    BY <1>5, IncrementIs
  <2>2. PICK j \in 1 .. n :
          /\ b[j] < Base - 1 /\ c[j] = b[j] + 1
          /\ \A i \in 1 .. n : i < j => b[i] = Base - 1 /\ c[i] = 0
          /\ \A i \in 1 .. n : i > j => c[i] = b[i]
    BY <1>5, IncrementIs
  <2>3. NextKey(b) = c
    BY <1>5 DEF NextKey
  <2> HIDE DEF c
  <2>4. CASE m # n
    BY <1>3, <2>1, <2>3, <2>4, BeforeIs
  <2>5. CASE m = n
    <3>1. k \in [1 .. n -> Digit] /\ c \in [1 .. n -> Digit] /\ b \in [1 .. n -> Digit] /\ n \in Nat
      BY <2>1, <2>5
    <3>2. Before(k, c) <=> \E i \in 1 .. n : k[i] < c[i] /\ \A x \in 1 .. n : x > i => k[x] = c[x]
      BY <3>1, SameLength
    <3>3. Before(k, b) <=> \E i \in 1 .. n : k[i] < b[i] /\ \A x \in 1 .. n : x > i => k[x] = b[x]
      BY <3>1, SameLength
    <3>4. ASSUME NEW i \in 1 .. n, k[i] < c[i],
                 \A x \in 1 .. n : x > i => k[x] = c[x]
          PROVE  k = b \/ Before(k, b)
      <4>1. i >= j
        BY <1>2, <2>2, <2>5, <3>4
      <4>2. \A x \in 1 .. n : x > i => k[x] = b[x]
        BY <2>2, <3>4, <4>1
      <4>3. CASE k[i] < b[i]
        BY <3>3, <4>2, <4>3
      <4>4. CASE i = j /\ k[i] = b[i]
        <5>1. SUFFICES ASSUME k # b PROVE Before(k, b)
          OBVIOUS
        <5>2. PICK y \in 1 .. n : k[y] # b[y] /\ \A x \in 1 .. n : x > y => k[x] = b[x]
          <6>1. k \in [1 .. n -> Digit]
            BY <2>5
          <6>2. Differ(n, k, b)
            BY <5>1, <6>1, LastDifference
          <6> QED
            BY <6>2 DEF Differ
        <5>3. y < j
          BY <4>2, <4>4, <5>2
        <5>4. k[y] < b[y]
          BY <1>2, <2>2, <2>5, <5>2, <5>3
        <5> QED
          BY <3>3, <5>2, <5>4
      <4>5. i > j => k[i] < b[i]
        BY <2>2, <3>4
      <4>6. i = j => k[i] <= b[i]
        BY <1>1, <1>2, <2>2, <2>5, <3>4
      <4>7. k[i] \in Int /\ b[i] \in Int
        BY <1>1, <1>2, <2>5
      <4> QED
        BY <4>1, <4>3, <4>4, <4>5, <4>6, <4>7
    <3>5. ASSUME NEW i \in 1 .. n, k[i] < b[i],
                 \A x \in 1 .. n : x > i => k[x] = b[x]
          PROVE  Before(k, c)
      <4>1. CASE i > j
        <5>1. k[i] < c[i] /\ \A x \in 1 .. n : x > i => k[x] = c[x]
          BY <2>2, <3>5, <4>1
        <5> QED
          BY <3>2, <5>1
      <4>2. CASE i <= j
        <5>1. k[j] <= b[j]
          BY <1>1, <1>2, <2>5, <3>5, <4>2
        <5>2. k[j] < c[j]
          BY <1>1, <1>2, <2>2, <2>5, <5>1
        <5>3. \A x \in 1 .. n : x > j => k[x] = c[x]
          BY <2>2, <3>5, <4>2
        <5> QED
          BY <3>2, <5>2, <5>3
      <4> QED
        BY <4>1, <4>2
    <3>6. k = b => Before(k, c)
      <4>1. b[j] < c[j] /\ \A x \in 1 .. n : x > j => b[x] = c[x]
        BY <1>1, <2>2
      <4> QED
        BY <3>2, <4>1
    <3> QED
      BY <2>3, <3>2, <3>3, <3>4, <3>5, <3>6
  <2> QED
    BY <2>4, <2>5
<1> QED
  BY <1>4, <1>5

LEMMA NotBeforeItself ==
  ASSUME NEW n \in Nat, NEW b \in [1 .. n -> Digit]
  PROVE  ~Before(b, b)
<1>1. \A i \in 1 .. n : ~ (b[i] < b[i])
  BY DEF Digit
<1> QED
  BY <1>1, BeforeIs

-----------------------------------------------------------------------------
LEMMA KeyIs ==
  ASSUME NEW k \in Keys
  PROVE  /\ Len(k) \in Bs .. Be /\ k \in [1 .. Len(k) -> Digit]
         /\ k # NoKey
<1>1. PICK n \in Bs .. Be : k \in [1 .. n -> Digit]
  BY DEF Keys
<1>2. n \in Nat
  OBVIOUS
<1>3. Len(k) = n /\ k \in Seq(Digit)
  BY <1>1, <1>2, KeyLen
<1> QED
  BY <1>1, <1>3 DEF Digit

LEMMA InputIsKey ==
  ASSUME Types, Len(input) <= Be
  PROVE  input \in Keys
<1>1. Len(input) \in Bs .. Be /\ input \in [1 .. Len(input) -> Digit]
  BY DEF Types, TypeOK
<1> QED
  BY <1>1 DEF Keys

LEMMA NextInput ==
  ASSUME Types
  PROVE  /\ Len(NextKey(input)) \in Nat /\ Len(NextKey(input)) >= Len(input)
         /\ NextKey(input) \in [1 .. Len(NextKey(input)) -> Digit]
<1>1. Len(input) \in Nat /\ input \in [1 .. Len(input) -> Digit]
  BY DEF Types, TypeOK
<1>2. PICK n \in Nat : n = Len(input)
  BY <1>1
<1>3. CASE Wraps(input)
  <2>1. NextKey(input) \in [1 .. n + 1 -> Digit]
    BY <1>2, <1>3, ZerosIs DEF NextKey
  <2>2. Len(NextKey(input)) = n + 1
    BY <2>1, KeyLen
  <2> QED
    BY <1>2, <2>1, <2>2
<1>4. CASE ~Wraps(input)
  <2>1. increment(input) \in [1 .. n -> Digit]
    BY <1>1, <1>2, <1>4, IncrementIs
  <2>2. NextKey(input) \in [1 .. n -> Digit]
    BY <1>4, <2>1 DEF NextKey
  <2>3. Len(NextKey(input)) = n
    BY <2>2, KeyLen
  <2> QED
    BY <1>2, <2>2, <2>3
<1> QED
  BY <1>3, <1>4

(* The channel after a send and after a receive. *)
LEMMA SentOn ==
  ASSUME NEW c \in Seq(Keys), NEW k \in Keys
  PROVE  /\ Append(c, k) \in Seq(Keys)
         /\ Len(Append(c, k)) = Len(c) + 1 /\ Len(c) \in Nat
         /\ DOMAIN c = 1 .. Len(c) /\ DOMAIN Append(c, k) = 1 .. Len(c) + 1
         /\ \A i \in 1 .. Len(c) : Append(c, k)[i] = c[i]
         /\ Append(c, k)[Len(c) + 1] = k
         /\ Range(Append(c, k)) = Range(c) \cup {k}
<1>1. /\ Append(c, k) \in Seq(Keys)
      /\ Len(Append(c, k)) = Len(c) + 1 /\ Len(c) \in Nat
      /\ \A i \in 1 .. Len(c) : Append(c, k)[i] = c[i]
      /\ Append(c, k)[Len(c) + 1] = k
  BY AppendProperties, LenProperties
<1>2. DOMAIN c = 1 .. Len(c) /\ DOMAIN Append(c, k) = 1 .. Len(c) + 1
  BY <1>1, LenProperties
<1>3. Range(Append(c, k)) = Range(c) \cup {k}
  BY <1>1, <1>2 DEF Range
<1> QED
  BY <1>1, <1>2, <1>3

LEMMA ReceivedFrom ==
  ASSUME NEW c \in Seq(Keys), c # <<>>
  PROVE  /\ Head(c) \in Keys /\ Tail(c) \in Seq(Keys)
         /\ Len(c) \in Nat \ {0} /\ Len(Tail(c)) = Len(c) - 1
         /\ DOMAIN c = 1 .. Len(c) /\ DOMAIN Tail(c) = 1 .. Len(c) - 1
         /\ Head(c) = c[1]
         /\ \A i \in 1 .. Len(c) - 1 : Tail(c)[i] = c[i + 1]
         /\ Range(c) = {Head(c)} \cup Range(Tail(c))
<1>1. /\ Head(c) \in Keys /\ Tail(c) \in Seq(Keys)
      /\ Len(Tail(c)) = Len(c) - 1
      /\ Len(c) \in Nat \ {0}
  BY HeadTailProperties, EmptySeq
<1>2. \A i \in 1 .. Len(c) - 1 : Tail(c)[i] = c[i + 1]
  BY <1>1, HeadTailProperties
<1>3. DOMAIN c = 1 .. Len(c) /\ DOMAIN Tail(c) = 1 .. Len(c) - 1
  BY <1>1, LenProperties
<1>4. Head(c) = c[1]
  OBVIOUS
<1>5. Range(c) = {Head(c)} \cup Range(Tail(c))
  <2>1. ASSUME NEW i \in 1 .. Len(c), i # 1
        PROVE  c[i] \in Range(Tail(c))
    <3>1. i - 1 \in 1 .. Len(c) - 1 /\ c[i] = Tail(c)[i - 1]
      BY <1>1, <1>2, <2>1
    <3> QED
      BY <1>3, <3>1 DEF Range
  <2>2. ASSUME NEW i \in 1 .. Len(c) - 1
        PROVE  Tail(c)[i] \in Range(c)
    <3>1. i + 1 \in 1 .. Len(c)
      BY <1>1
    <3> QED
      BY <1>2, <1>3, <3>1 DEF Range
  <2>3. c[1] \in Range(c)
    BY <1>1, <1>3 DEF Range
  <2> QED
    BY <1>3, <1>4, <2>1, <2>2, <2>3 DEF Range
<1> QED
  BY <1>1, <1>2, <1>3, <1>4, <1>5

-----------------------------------------------------------------------------
LEMMA InitKeys ==
  ASSUME Init
  PROVE  KeysInv
<1>1. input \in [1 .. Bs -> Digit] /\ \A i \in 1 .. Bs : input[i] = 0
  BY ZerosIs DEF Init
<1>2. Len(input) = Bs
  BY <1>1, KeyLen
<1>3. ch = <<>> /\ Len(ch) = 0 /\ ch \in Seq(Keys) /\ Range(ch) = {} /\ DOMAIN ch = {}
  <2>1. ch = <<>> /\ Len(ch) = 0 /\ ch \in Seq(Keys)
    BY EmptySeq DEF Init
  <2>2. DOMAIN ch = {}
    BY <2>1, LenProperties
  <2> QED
    BY <2>1, <2>2 DEF Range
<1>4. Calculating = {} /\ InHand = {} /\ tested = {}
  BY DEF Init, Calculating, InHand
<1>5. Cardinality(Worker) \in Nat
  BY FS_CardinalityType
<1>6. TypeOK
  <2>1. /\ hit \in Keys \cup {NoKey} /\ main \in {"loop", "endCh", "close", "wait", "done"}
        /\ wpc \in [Worker -> {"select", "calc", "endCh", "close", "done"}]
        /\ job \in [Worker -> Keys \cup {NoKey}]
    BY DEF Init
  <2>2. end \in BOOLEAN /\ panic \in BOOLEAN /\ found \in BOOLEAN
    BY DEF Init
  <2> QED
    BY <1>1, <1>2, <1>3, <1>4, <1>5, <2>1, <2>2 DEF TypeOK
<1>7. ASSUME NEW k \in Keys PROVE ~Before(k, input)
  <2>1. Len(k) \in Bs .. Be /\ k \in [1 .. Len(k) -> Digit]
    BY KeyIs
  <2>2. \A i \in 1 .. Len(k) : ~ (k[i] < 0)
    BY <2>1 DEF Digit
  <2>3. DOMAIN k = 1 .. Len(k) /\ Len(k) \in Nat /\ Len(k) >= Bs
    <3>1. DOMAIN k = 1 .. Len(k)
      BY <2>1
    <3>2. \A n \in Bs .. Be : n \in Nat /\ n >= Bs
      OBVIOUS
    <3> QED
      BY <2>1, <3>1, <3>2, Zenon
  <2>4. ~ (Len(k) < Len(input))
    BY <1>2, <2>3
  <2>5. ASSUME Len(k) = Len(input), NEW i \in DOMAIN k
        PROVE  ~ (k[i] < input[i])
    <3>1. i \in 1 .. Bs /\ i \in 1 .. Len(k)
      BY <1>2, <2>3, <2>5
    <3>2. input[i] = 0
      BY <1>1, <3>1
    <3> QED
      BY <2>2, <3>1, <3>2
  <2> QED
    BY <2>4, <2>5, Zenon DEF Before
<1> QED
  BY <1>2, <1>3, <1>4, <1>6, <1>7 DEF KeysInv, Types, EachKeyOnce, InOrder

LEMMA SendKeepsKeys ==
  ASSUME KeysInv, MainSend
  PROVE  KeysInv'
<1>1. /\ Len(input) <= Be /\ Len(ch) < Cap
      /\ ch' = Append(ch, input) /\ input' = NextKey(input)
      /\ UNCHANGED <<hit, main, end, panic, wpc, job, tested, found>>
  BY DEF MainSend
<1>2. Types /\ EachKeyOnce /\ InOrder /\ TypeOK
  BY DEF KeysInv, Types
<1>3. input \in Keys /\ ch \in Seq(Keys)
  BY <1>1, <1>2, InputIsKey DEF Types
<1>4. /\ ch' \in Seq(Keys) /\ Len(ch') = Len(ch) + 1 /\ Len(ch) \in Nat
      /\ DOMAIN ch = 1 .. Len(ch) /\ DOMAIN ch' = 1 .. Len(ch) + 1
      /\ \A i \in 1 .. Len(ch) : ch'[i] = ch[i]
      /\ ch'[Len(ch) + 1] = input
      /\ Range(ch') = Range(ch) \cup {input}
  BY <1>1, <1>3, SentOn
<1>5. Calculating' = Calculating /\ InHand' = InHand /\ tested' = tested
  BY <1>1 DEF Calculating, InHand
<1>6. Types'
  <2>1. /\ Len(input') \in Nat /\ Len(input') >= Bs
        /\ input' \in [1 .. Len(input') -> Digit]
    BY <1>1, <1>2, NextInput DEF Types, TypeOK
  <2>2. Len(ch') <= Cardinality(Worker) /\ Range(ch') \subseteq Keys
    <3>1. Cardinality(Worker) \in Nat
      BY FS_CardinalityType
    <3> QED
      BY <1>1, <1>2, <1>3, <1>4, <3>1 DEF Cap, TypeOK
  <2>3. TypeOK'
    BY <1>1, <1>2, <2>1, <2>2 DEF TypeOK
  <2> QED
    BY <1>1, <1>2, <1>4, <1>5, <2>1, <2>3 DEF Types
<1>7. ASSUME NEW k \in Keys
      PROVE  Before(k, input') <=> (k = input \/ Before(k, input))
  <2>1. PICK m, n \in Nat : k \in [1 .. m -> Digit] /\ input \in [1 .. n -> Digit]
    <3>1. Len(k) \in Nat /\ k \in [1 .. Len(k) -> Digit]
      BY KeyIs
    <3>2. Len(input) \in Nat /\ input \in [1 .. Len(input) -> Digit]
      BY <1>2 DEF TypeOK
    <3> QED
      BY <3>1, <3>2
  <2>2. Before(k, NextKey(input)) <=> (k = input \/ Before(k, input))
    BY <2>1, Successor
  <2> QED
    BY <1>1, <2>2
<1>8. ~Before(input, input)
  BY <1>3, KeyIs, NotBeforeItself
<1>9. input \notin tested \cup Range(ch) \cup InHand
  BY <1>2, <1>8 DEF EachKeyOnce
<1>10. EachKeyOnce'
  <2>1. tested' \cup Range(ch') \cup InHand' = {k \in Keys : Before(k, input')}
    BY <1>2, <1>3, <1>4, <1>5, <1>7 DEF EachKeyOnce
  <2>2. tested' \cap (Range(ch') \cup InHand') = {} /\ Range(ch') \cap InHand' = {}
    BY <1>2, <1>4, <1>5, <1>9 DEF EachKeyOnce
  <2>3. \A i, k \in DOMAIN ch' : ch'[i] = ch'[k] => i = k
    <3>1. \A i \in 1 .. Len(ch) : ch[i] # input
      BY <1>4, <1>9 DEF Range
    <3>2. \A i, k \in 1 .. Len(ch) : ch[i] = ch[k] => i = k
      BY <1>2, <1>4 DEF EachKeyOnce
    <3> QED
      BY <1>4, <3>1, <3>2
  <2>4. \A v, w \in Calculating' : job'[v] = job'[w] => v = w
    BY <1>1, <1>2, <1>5 DEF EachKeyOnce
  <2> QED
    BY <2>1, <2>2, <2>3, <2>4 DEF EachKeyOnce
<1>11. InOrder'
  <2>1. \A k \in tested \cup InHand \cup Range(ch) : Before(k, input)
    BY <1>2 DEF EachKeyOnce
  <2>2. \A i, k \in DOMAIN ch' : i < k => Before(ch'[i], ch'[k])
    <3>1. \A i \in 1 .. Len(ch) : Before(ch[i], input)
      BY <1>4, <2>1 DEF Range
    <3>2. \A i, k \in 1 .. Len(ch) : i < k => Before(ch[i], ch[k])
      BY <1>2, <1>4 DEF InOrder
    <3> QED
      BY <1>4, <3>1, <3>2
  <2>3. \A k \in tested' \cup InHand', m \in Range(ch') : Before(k, m)
    BY <1>2, <1>4, <1>5, <2>1 DEF InOrder
  <2> QED
    BY <2>2, <2>3 DEF InOrder
<1> QED
  BY <1>6, <1>10, <1>11 DEF KeysInv

LEMMA TakeKeepsKeys ==
  ASSUME KeysInv, NEW w \in Worker, TakeJob(w)
  PROVE  KeysInv'
<1>1. /\ wpc[w] = "select" /\ ch # <<>>
      /\ job' = [job EXCEPT ![w] = Head(ch)] /\ ch' = Tail(ch)
      /\ wpc' = [wpc EXCEPT ![w] = "calc"]
      /\ UNCHANGED <<hit, main, input, end, panic, tested, found>>
  BY DEF TakeJob, At
<1>2. Types /\ EachKeyOnce /\ InOrder /\ TypeOK
  BY DEF KeysInv, Types
<1>3. ch \in Seq(Keys)
  BY <1>2 DEF Types
<1>4. PICK h : h = Head(ch)
  OBVIOUS
<1>5. /\ h \in Keys /\ ch' \in Seq(Keys)
      /\ Len(ch) \in Nat \ {0} /\ Len(ch') = Len(ch) - 1
      /\ DOMAIN ch = 1 .. Len(ch) /\ DOMAIN ch' = 1 .. Len(ch) - 1
      /\ h = ch[1] /\ \A i \in 1 .. Len(ch) - 1 : ch'[i] = ch[i + 1]
      /\ Range(ch) = {h} \cup Range(ch')
  BY <1>1, <1>3, <1>4, ReceivedFrom
<1>6. Calculating' = Calculating \cup {w} /\ w \notin Calculating
  BY <1>1, <1>2 DEF Calculating, TypeOK
<1>7. job'[w] = h /\ \A v \in Worker \ {w} : job'[v] = job[v]
  BY <1>1, <1>2, <1>4 DEF TypeOK
<1>8. InHand' = InHand \cup {h}
  BY <1>6, <1>7 DEF InHand, Calculating
<1>9. h \notin Range(ch')
  <2>1. ASSUME NEW i \in 1 .. Len(ch) - 1 PROVE ch'[i] # h
    <3>1. i + 1 \in DOMAIN ch /\ 1 \in DOMAIN ch /\ i + 1 # 1
      BY <1>5
    <3>2. ch[i + 1] # ch[1]
      BY <1>2, <3>1 DEF EachKeyOnce
    <3> QED
      BY <1>5, <3>2
  <2> QED
    BY <1>5, <2>1 DEF Range
<1>10. Types'
  <2>1. TypeOK'
    <3>1. /\ wpc' \in [Worker -> {"select", "calc", "endCh", "close", "done"}]
          /\ job' \in [Worker -> Keys \cup {NoKey}]
      BY <1>1, <1>2, <1>4, <1>5 DEF TypeOK
    <3>2. Len(ch') <= Cardinality(Worker) /\ Range(ch') \subseteq Keys
      <4>1. Cardinality(Worker) \in Nat
        BY FS_CardinalityType
      <4> QED
        BY <1>2, <1>5, <4>1 DEF TypeOK
    <3> QED
      BY <1>1, <1>2, <3>1, <3>2 DEF TypeOK
  <2>2. \A v \in Calculating' : job'[v] \in Keys
    BY <1>2, <1>5, <1>6, <1>7 DEF Types, Calculating
  <2> QED
    BY <1>1, <1>2, <1>5, <2>1, <2>2 DEF Types
<1>11. EachKeyOnce'
  <2>1. tested' \cup Range(ch') \cup InHand' = {k \in Keys : Before(k, input')}
    BY <1>1, <1>2, <1>5, <1>8 DEF EachKeyOnce
  <2>2. tested' \cap (Range(ch') \cup InHand') = {} /\ Range(ch') \cap InHand' = {}
    BY <1>1, <1>2, <1>5, <1>8, <1>9 DEF EachKeyOnce
  <2>3. \A i, k \in DOMAIN ch' : ch'[i] = ch'[k] => i = k
    <3>1. ASSUME NEW i \in DOMAIN ch', NEW k \in DOMAIN ch', ch'[i] = ch'[k]
          PROVE  i = k
      <4>1. i + 1 \in DOMAIN ch /\ k + 1 \in DOMAIN ch /\ ch[i + 1] = ch[k + 1]
        BY <1>5, <3>1
      <4>2. i + 1 = k + 1
        BY <1>2, <4>1 DEF EachKeyOnce
      <4> QED
        BY <1>5, <4>2
    <3> QED
      BY <3>1
  <2>4. \A u, v \in Calculating' : job'[u] = job'[v] => u = v
    <3>1. \A v \in Calculating : job[v] # h
      BY <1>2, <1>5, SMTT(40) DEF EachKeyOnce, InHand
    <3>2. \A v \in Calculating : job'[v] = job[v]
      BY <1>6, <1>7 DEF Calculating
    <3>3. \A u, v \in Calculating : job[u] = job[v] => u = v
      BY <1>2 DEF EachKeyOnce
    <3> QED
      BY <1>6, <1>7, <3>1, <3>2, <3>3
  <2> QED
    BY <2>1, <2>2, <2>3, <2>4 DEF EachKeyOnce
<1>12. InOrder'
  <2>1. \A i, k \in DOMAIN ch' : i < k => Before(ch'[i], ch'[k])
    <3>1. ASSUME NEW i \in DOMAIN ch', NEW k \in DOMAIN ch', i < k
          PROVE  Before(ch'[i], ch'[k])
      <4>1. i + 1 \in DOMAIN ch /\ k + 1 \in DOMAIN ch /\ i + 1 < k + 1
        BY <1>5, <3>1
      <4>2. Before(ch[i + 1], ch[k + 1])
        BY <1>2, <4>1 DEF InOrder
      <4>3. ch'[i] = ch[i + 1] /\ ch'[k] = ch[k + 1]
        BY <1>5, <3>1
      <4> QED
        BY <4>2, <4>3
    <3> QED
      BY <3>1
  <2>2. ASSUME NEW m \in Range(ch') PROVE Before(h, m)
    <3>1. PICK i \in 1 .. Len(ch) - 1 : m = ch'[i]
      BY <1>5, <2>2 DEF Range
    <3>2. i + 1 \in DOMAIN ch /\ 1 \in DOMAIN ch /\ 1 < i + 1 /\ m = ch[i + 1]
      BY <1>5, <3>1
    <3>3. Before(ch[1], ch[i + 1])
      BY <1>2, <3>2 DEF InOrder
    <3> QED
      BY <1>5, <3>2, <3>3
  <2>3. \A k \in tested \cup InHand, m \in Range(ch') : Before(k, m)
    BY <1>2, <1>5 DEF InOrder
  <2>4. \A k \in tested' \cup InHand', m \in Range(ch') : Before(k, m)
    BY <1>1, <1>8, <2>2, <2>3
  <2> QED
    BY <2>1, <2>4 DEF InOrder
<1> QED
  BY <1>10, <1>11, <1>12 DEF KeysInv

LEMMA CalcKeepsKeys ==
  ASSUME KeysInv, NEW w \in Worker, Calc(w)
  PROVE  KeysInv'
<1>1. /\ wpc[w] = "calc"
      /\ tested' = tested \cup {job[w]} /\ found' = (found \/ job[w] = hit)
      /\ wpc' = [wpc EXCEPT ![w] = IF job[w] = hit THEN "endCh" ELSE "select"]
      /\ UNCHANGED <<hit, main, input, ch, end, panic, job>>
  BY DEF Calc, At
<1>2. Types /\ EachKeyOnce /\ InOrder /\ TypeOK
  BY DEF KeysInv, Types
<1>3. w \in Calculating /\ Calculating' = Calculating \ {w}
  BY <1>1, <1>2 DEF Calculating, TypeOK
<1>4. job[w] \in Keys /\ job[w] \in InHand
  BY <1>2, <1>3 DEF Types, InHand
<1>5. InHand' = InHand \ {job[w]}
  <2>1. \A v \in Calculating : job[v] = job[w] => v = w
    BY <1>2, <1>3 DEF EachKeyOnce
  <2> QED
    BY <1>1, <1>3, <2>1 DEF InHand
<1>6. Types'
  <2>1. wpc' \in [Worker -> {"select", "calc", "endCh", "close", "done"}]
    BY <1>1, <1>2 DEF TypeOK
  <2>2. found' \in BOOLEAN
    BY <1>1, Zenon
  <2>3. TypeOK'
    BY <1>1, <1>2, <1>4, <2>1, <2>2 DEF TypeOK
  <2> QED
    BY <1>1, <1>2, <1>3, <2>3 DEF Types
<1>7. EachKeyOnce'
  <2>1. tested' \cup Range(ch') \cup InHand' = {k \in Keys : Before(k, input')}
    <3>1. tested \cup Range(ch) \cup InHand = {k \in Keys : Before(k, input)}
      BY <1>2 DEF EachKeyOnce
    <3> QED
      BY <1>1, <1>4, <1>5, <3>1
  <2>2. tested' \cap (Range(ch') \cup InHand') = {} /\ Range(ch') \cap InHand' = {}
    BY <1>1, <1>2, <1>4, <1>5 DEF EachKeyOnce
  <2>3. \A i, k \in DOMAIN ch' : ch'[i] = ch'[k] => i = k
    BY <1>1, <1>2 DEF EachKeyOnce
  <2>4. \A u, v \in Calculating' : job'[u] = job'[v] => u = v
    BY <1>1, <1>2, <1>3 DEF EachKeyOnce
  <2> QED
    BY <2>1, <2>2, <2>3, <2>4 DEF EachKeyOnce
<1>8. InOrder'
  <2>1. tested' \cup InHand' = tested \cup InHand
    BY <1>1, <1>4, <1>5
  <2> QED
    BY <1>1, <1>2, <2>1 DEF InOrder
<1> QED
  BY <1>6, <1>7, <1>8 DEF KeysInv

(* The other steps move no key. *)
LEMMA KeysStayPut ==
  ASSUME KeysInv, TypeOK', Calculating' = Calculating,
         input' = input, ch' = ch, job' = job, tested' = tested
  PROVE  KeysInv'
<1>1. InHand' = InHand
  BY DEF InHand
<1> QED
  BY <1>1 DEF KeysInv, Types, EachKeyOnce, InOrder

LEMMA KeysKept ==
  ASSUME KeysInv, [Next]_vars
  PROVE  KeysInv'
<1>1. TypeOK
  BY DEF KeysInv, Types
<1>2. CASE MainSend
  BY <1>2, SendKeepsKeys
<1>3. ASSUME NEW w \in Worker, TakeJob(w) PROVE KeysInv'
  BY <1>3, TakeKeepsKeys
<1>4. ASSUME NEW w \in Worker, Calc(w) PROVE KeysInv'
  BY <1>4, CalcKeepsKeys
<1>5. CASE MainLeaves \/ MainChecksEnd \/ MainDone \/ UNCHANGED vars
  <2>1. UNCHANGED <<hit, input, ch, end, panic, wpc, job, tested, found>>
    BY <1>5 DEF MainLeaves, MainChecksEnd, MainDone, vars
  <2>2. main' \in {"loop", "endCh", "close", "wait", "done"}
    BY <1>1, <1>5 DEF MainLeaves, MainChecksEnd, MainDone, EndCh, vars, TypeOK
  <2>3. TypeOK' /\ Calculating' = Calculating
    BY <1>1, <2>1, <2>2 DEF TypeOK, Calculating
  <2> QED
    BY <2>1, <2>3, KeysStayPut
<1>6. CASE MainClosesEnd
  <2>1. /\ UNCHANGED <<hit, input, ch, wpc, job, tested, found>>
        /\ main' = "wait" /\ end' = TRUE /\ panic' = end
    BY <1>6 DEF MainClosesEnd, CloseEnd
  <2>2. TypeOK' /\ Calculating' = Calculating
    BY <1>1, <2>1 DEF TypeOK, Calculating
  <2> QED
    BY <2>1, <2>2, KeysStayPut
<1>7. ASSUME NEW w \in Worker, SeeEnd(w) \/ WorkerChecksEnd(w) PROVE KeysInv'
  <2>1. PICK s \in {"done", "close"} : wpc' = [wpc EXCEPT ![w] = s]
    BY <1>7 DEF SeeEnd, WorkerChecksEnd, EndCh
  <2>2. /\ UNCHANGED <<hit, main, input, ch, end, panic, job, tested, found>>
        /\ wpc[w] # "calc"
    BY <1>7 DEF SeeEnd, WorkerChecksEnd, At
  <2>3. TypeOK' /\ Calculating' = Calculating
    BY <1>1, <2>1, <2>2 DEF TypeOK, Calculating
  <2> QED
    BY <2>2, <2>3, KeysStayPut
<1>8. ASSUME NEW w \in Worker, WorkerClosesEnd(w) PROVE KeysInv'
  <2>1. /\ wpc' = [wpc EXCEPT ![w] = "done"] /\ wpc[w] # "calc"
        /\ UNCHANGED <<hit, main, input, ch, job, tested, found>>
        /\ end' = TRUE /\ panic' = end
    BY <1>8 DEF WorkerClosesEnd, At, CloseEnd
  <2>2. TypeOK' /\ Calculating' = Calculating
    BY <1>1, <2>1 DEF TypeOK, Calculating
  <2> QED
    BY <2>1, <2>2, KeysStayPut
<1> QED
  BY <1>2, <1>3, <1>4, <1>5, <1>6, <1>7, <1>8 DEF Next, Main, Work

LEMMA KeysInvariant == Spec => []KeysInv
<1>1. Init => KeysInv
  BY InitKeys
<1>2. KeysInv /\ [Next]_vars => KeysInv'
  BY KeysKept
<1> QED
  BY <1>1, <1>2, PTL DEF Spec

(* TypeOK holds in every state of BruteForce (bruteforce/base.go). *)
THEOREM BruteTypes == Spec => []TypeOK
<1>1. KeysInv => TypeOK
  BY DEF KeysInv, Types
<1> QED
  BY <1>1, KeysInvariant, PTL

-----------------------------------------------------------------------------
(* Who finds the key has been the only one to hash it. *)
LEMMA CalcKeepsEnd ==
  ASSUME KeysInv, EndInv, NEW w \in Worker, Calc(w)
  PROVE  EndInv'
<1>1. /\ wpc[w] = "calc"
      /\ tested' = tested \cup {job[w]}
      /\ UNCHANGED <<hit, main, input, ch, end, panic, job>>
  BY DEF Calc, At
<1>2. /\ found' <=> (found \/ job[w] = hit)
      /\ wpc' = [wpc EXCEPT ![w] = IF job[w] = hit THEN "endCh" ELSE "select"]
  BY DEF Calc
<1>3. wpc \in [Worker -> {"select", "calc", "endCh", "close", "done"}]
  BY DEF KeysInv, Types, TypeOK
<1>4. job[w] \notin tested
  <2>1. job[w] \in InHand
    BY <1>1 DEF InHand, Calculating
  <2> QED
    BY <2>1 DEF KeysInv, EachKeyOnce
<1>5. main # "done"
  BY <1>1 DEF EndInv
<1>6. CASE job[w] = hit
  <2>1. ~found
    BY <1>4, <1>6 DEF EndInv
  <2>2. Finders = {}
    BY <2>1 DEF EndInv
  <2>3. Finders' = {w}
    BY <1>2, <1>3, <1>6, <2>2 DEF Finders
  <2>4. found' /\ hit' \in tested'
    BY <1>1, <1>2, <1>6
  <2>5. end => main \in {"wait", "done"} /\ Len(input) > Be
    BY <2>1 DEF EndInv
  <2>6. ~panic
    BY <2>1 DEF EndInv, PanicOnlyAtTheEnd
  <2> QED
    BY <1>1, <1>5, <2>3, <2>4, <2>5, <2>6 DEF EndInv, PanicOnlyAtTheEnd
<1>7. CASE job[w] # hit
  <2>1. Finders' = Finders
    BY <1>1, <1>2, <1>3, <1>7 DEF Finders
  <2>2. found' <=> found
    BY <1>2, <1>7
  <2>3. hit \in tested => hit' \in tested'
    BY <1>1
  <2> QED
    BY <1>1, <1>5, <2>1, <2>2, <2>3 DEF EndInv, PanicOnlyAtTheEnd
<1> QED
  BY <1>6, <1>7

LEMMA WorkerCloseKeepsEnd ==
  ASSUME KeysInv, EndInv, NEW w \in Worker, WorkerClosesEnd(w)
  PROVE  EndInv'
<1>1. /\ wpc[w] = "close" /\ wpc' = [wpc EXCEPT ![w] = "done"]
      /\ UNCHANGED <<hit, main, input, ch, job, tested, found>>
      /\ end' /\ (panic' <=> end)
  BY DEF WorkerClosesEnd, At, CloseEnd
<1>2. wpc \in [Worker -> {"select", "calc", "endCh", "close", "done"}]
  BY DEF KeysInv, Types, TypeOK
<1>3. w \in Finders
  BY <1>1 DEF Finders
<1>4. found /\ (end => Len(input) > Be) /\ \A v \in Finders : v = w
  BY <1>3 DEF EndInv
<1>5. Finders' = {}
  <2>1. \A v \in Worker : v # w => v \notin Finders
    BY <1>4
  <2>2. \A v \in Worker : v # w => wpc'[v] = wpc[v]
    BY <1>1, <1>2
  <2>3. wpc'[w] = "done"
    BY <1>1, <1>2
  <2> QED
    BY <2>1, <2>2, <2>3 DEF Finders
<1>6. main # "done"
  BY <1>1 DEF EndInv
<1> QED
  BY <1>1, <1>4, <1>5, <1>6 DEF EndInv, PanicOnlyAtTheEnd

LEMMA EndKept ==
  ASSUME KeysInv, EndInv, [Next]_vars
  PROVE  EndInv'
<1>1. wpc \in [Worker -> {"select", "calc", "endCh", "close", "done"}]
  BY DEF KeysInv, Types, TypeOK
<1>2. CASE MainSend
  <2>1. /\ main = "loop" /\ ~ (Len(input) > Be)
        /\ UNCHANGED <<hit, main, end, panic, wpc, job, tested, found>>
    BY <1>2 DEF MainSend, MainAt, KeysInv, Types, TypeOK
  <2>2. Finders' = Finders
    BY <2>1 DEF Finders
  <2>3. ~panic
    BY <1>2 DEF MainSend, MainAt
  <2> QED
    BY <2>1, <2>2, <2>3 DEF EndInv, PanicOnlyAtTheEnd
<1>3. CASE MainLeaves \/ MainChecksEnd \/ MainDone
  <2>1. /\ UNCHANGED <<hit, input, ch, end, panic, wpc, job, tested, found>>
        /\ Finders' = Finders
    BY <1>3 DEF MainLeaves, MainChecksEnd, MainDone, Finders
  <2>2. \/ main = "loop" /\ main' = "endCh" /\ (Len(input) > Be \/ end)
        \/ main = "endCh" /\ main' = "wait" /\ end
        \/ main = "endCh" /\ main' = "close" /\ ~end
        \/ main = "wait" /\ main' = "done" /\ \A w \in Worker : wpc[w] = "done"
    BY <1>3 DEF MainLeaves, MainChecksEnd, MainDone, MainAt, EndCh
  <2> QED
    BY <2>1, <2>2 DEF EndInv, PanicOnlyAtTheEnd
<1>4. CASE MainClosesEnd
  <2>1. /\ main = "close" /\ main' = "wait"
        /\ UNCHANGED <<hit, input, ch, wpc, job, tested, found>>
        /\ end' /\ (panic' <=> end)
    BY <1>4 DEF MainClosesEnd, MainAt, CloseEnd
  <2>2. Finders' = Finders
    BY <2>1 DEF Finders
  <2>3. Len(input) > Be /\ (end => found)
    BY <2>1 DEF EndInv
  <2> QED
    BY <2>1, <2>2, <2>3 DEF EndInv, PanicOnlyAtTheEnd
<1>5. ASSUME NEW w \in Worker, TakeJob(w) \/ SeeEnd(w) PROVE EndInv'
  <2>1. PICK s \in {"calc", "done"} : wpc' = [wpc EXCEPT ![w] = s]
    BY <1>5 DEF TakeJob, SeeEnd
  <2>2. /\ wpc[w] = "select"
        /\ UNCHANGED <<hit, main, input, end, panic, tested, found>>
    BY <1>5 DEF TakeJob, SeeEnd, At
  <2>3. Finders' = Finders
    BY <1>1, <2>1, <2>2 DEF Finders
  <2>4. main # "done"
    BY <2>2 DEF EndInv
  <2> QED
    BY <2>2, <2>3, <2>4 DEF EndInv, PanicOnlyAtTheEnd
<1>6. ASSUME NEW w \in Worker, Calc(w) PROVE EndInv'
  BY <1>6, CalcKeepsEnd
<1>7. ASSUME NEW w \in Worker, WorkerChecksEnd(w) PROVE EndInv'
  <2>1. PICK s \in {"close", "done"} : wpc' = [wpc EXCEPT ![w] = s]
    BY <1>7 DEF WorkerChecksEnd, EndCh
  <2>2. /\ wpc[w] = "endCh"
        /\ UNCHANGED <<hit, main, input, end, panic, tested, found>>
    BY <1>7 DEF WorkerChecksEnd, At
  <2>3. Finders' \subseteq Finders
    BY <1>1, <2>1, <2>2 DEF Finders
  <2>4. main # "done"
    BY <2>2 DEF EndInv
  <2> QED
    BY <2>2, <2>3, <2>4 DEF EndInv, PanicOnlyAtTheEnd
<1>8. ASSUME NEW w \in Worker, WorkerClosesEnd(w) PROVE EndInv'
  BY <1>8, WorkerCloseKeepsEnd
<1>9. CASE UNCHANGED vars
  BY <1>9 DEF vars, EndInv, Finders, PanicOnlyAtTheEnd
<1> QED
  BY <1>2, <1>3, <1>4, <1>5, <1>6, <1>7, <1>8, <1>9 DEF Next, Main, Work

LEMMA EndInvariant == Spec => []EndInv
<1>1. Init => EndInv
  BY DEF Init, EndInv, Finders, PanicOnlyAtTheEnd
<1>2. KeysInv /\ EndInv /\ [Next]_vars => EndInv'
  BY EndKept
<1> QED
  BY <1>1, <1>2, KeysInvariant, PTL DEF Spec

(***************************************************************************)
(* PanicOnlyAtTheEnd holds in every state: close(end) (bruteforce/base.go: *)
(* 105-116) panics only if a worker has found the key and main has         *)
(* enumerated them all.                                                    *)
(***************************************************************************)
THEOREM PanicsOnlyAtTheEnd == Spec => []PanicOnlyAtTheEnd
<1>1. EndInv => PanicOnlyAtTheEnd
  BY DEF EndInv
<1> QED
  BY <1>1, EndInvariant, PTL

-----------------------------------------------------------------------------
(* A channel that holds no more keys than there are workers. *)
LEMMA FewInChannel ==
  ASSUME TypeOK, ch \in Seq(Keys)
  PROVE  /\ IsFiniteSet(Range(ch))
         /\ Cardinality(Range(ch)) <= Cardinality(Worker)
<1>1. Len(ch) \in Nat /\ DOMAIN ch = 1 .. Len(ch)
  BY LenProperties
<1>2. IsFiniteSet(1 .. Len(ch)) /\ Cardinality(1 .. Len(ch)) = Len(ch)
  <2>1. 1 \in Int /\ Len(ch) \in Int
    BY <1>1
  <2>2. /\ IsFiniteSet(1 .. Len(ch))
        /\ Cardinality(1 .. Len(ch)) = IF 1 > Len(ch) THEN 0 ELSE Len(ch) - 1 + 1
    BY <2>1, FS_Interval
  <2> QED
    BY <1>1, <2>2
<1>3. ch \in Surjection(1 .. Len(ch), Range(ch))
  <2>1. ch \in [1 .. Len(ch) -> Range(ch)]
    BY <1>1, LenProperties DEF Range
  <2> QED
    BY <1>1, <2>1 DEF Surjection, Range
<1>4. /\ IsFiniteSet(Range(ch))
      /\ Cardinality(Range(ch)) <= Cardinality(1 .. Len(ch))
  BY <1>2, <1>3, FS_Surjection
<1>5. Cardinality(Range(ch)) \in Nat /\ Cardinality(Worker) \in Nat
  BY <1>4, FS_CardinalityType
<1> QED
  BY <1>1, <1>2, <1>4, <1>5 DEF TypeOK

LEMMA LastOnesMissed ==
  ASSUME KeysInv, EndInv
  PROVE  MissesOnlyTheLast
<1> SUFFICES ASSUME main = "done", ~found
             PROVE  /\ Cardinality(Keys \ tested) <= Cardinality(Worker)
                    /\ \A k \in tested, m \in Keys \ tested : Before(k, m)
  BY DEF MissesOnlyTheLast
<1>1. Len(input) > Be
  BY DEF EndInv
<1>2. \A k \in Keys : Before(k, input)
  <2>1. ASSUME NEW k \in Keys PROVE Len(k) < Len(input)
    <3>1. Len(k) \in Bs .. Be
      BY KeyIs
    <3>2. Len(input) \in Nat
      BY DEF KeysInv, Types, TypeOK
    <3> QED
      BY <1>1, <3>1, <3>2
  <2> QED
    BY <2>1 DEF Before
<1>3. InHand = {}
  BY DEF EndInv, InHand, Calculating
<1>4. tested \cup Range(ch) = Keys /\ tested \cap Range(ch) = {}
  BY <1>2, <1>3 DEF KeysInv, EachKeyOnce
<1>5. Keys \ tested = Range(ch)
  BY <1>4
<1>6. Cardinality(Keys \ tested) <= Cardinality(Worker)
  BY <1>5, FewInChannel DEF KeysInv, Types
<1>7. \A k \in tested, m \in Keys \ tested : Before(k, m)
  BY <1>5 DEF KeysInv, InOrder
<1> QED
  BY <1>6, <1>7

(***************************************************************************)
(* KeysTried holds in every state: whatever the interleaving of main and   *)
(* the workers of bruteforce/base.go, each key that main is past is hashed,*)
(* being hashed or in the channel, once; and a search without a result has *)
(* missed no more than what is left in the channel, the last keys.         *)
(***************************************************************************)
THEOREM KeysAreTried == Spec => []KeysTried
<1>1. KeysInv /\ EndInv => KeysTried
  BY LastOnesMissed DEF KeysTried, KeysInv
<1> QED
  BY <1>1, KeysInvariant, EndInvariant, PTL

=============================================================================
