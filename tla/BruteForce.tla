----------------------------- MODULE BruteForce -----------------------------
(***************************************************************************)
(* bruteforce/base.go: main enumerates the keys of start .. end bytes into *)
(* the channel ch; the workers take them out and hash them.  Whoever is    *)
(* done first, a worker with the key or main with the enumeration, closes  *)
(* the channel end, which stops everybody else.                            *)
(*                                                                         *)
(* A key is a sequence of bytes, the least significant first.  The hash is *)
(* taken to be collision-free: at most one key has the wanted one.         *)
(***************************************************************************)
EXTENDS Integers, Sequences, FiniteSets, FiniteSetsExt, Functions

CONSTANTS
  Worker,  \* the goroutines started, num of them
  Base,    \* the values of a byte: 256
  Bs, Be,  \* the flags s and e: shortest and longest key
  NoKey    \* no key at all

ASSUME BruteForceAssumption ==
  /\ IsFiniteSet(Worker) /\ Worker # {}
  /\ Base \in Nat \ {0, 1}
  /\ Bs \in Nat /\ Be \in Nat
  /\ NoKey \notin Seq(0 .. Base - 1)

VARIABLES
  hit,     \* the key with the wanted hash, NoKey if none of the range has it
  main,    \* where main is
  input,   \* main's slice: the next key; its length is the variable start
  ch,      \* the keys in the channel
  end,     \* whether the channel end is closed
  panic,   \* close of a closed channel: the program is dead
  wpc,     \* where each worker is
  job,     \* the key each has taken
  tested,  \* the keys that have been hashed
  found    \* whether a worker has logged the key

vars == <<hit, main, input, ch, end, panic, wpc, job, tested, found>>

Digit == 0 .. Base - 1
Zeros(n) == [i \in 1 .. n |-> 0]
Keys == UNION {[1 .. n -> Digit] : n \in Bs .. Be}

M_Cap == Cardinality(Worker) + 1

(* make(chan []byte, num) *)
Cap == Cardinality(Worker)

Init ==
  /\ hit \in Keys \cup {NoKey}
  /\ main = "loop"
  /\ input = Zeros(Bs)
  /\ ch = <<>>
  /\ end = FALSE /\ panic = FALSE
  /\ wpc = [w \in Worker |-> "select"]
  /\ job = [w \in Worker |-> NoKey]
  /\ tested = {} /\ found = FALSE

-----------------------------------------------------------------------------
(* A goroutine is at a statement; a panic has ended them all. *)
MainAt(s) == ~panic /\ main = s
At(w, s) == ~panic /\ wpc[w] = s

Wraps(b) == \A i \in DOMAIN b : b[i] = Base - 1

M_incrementNoWrap(b) == [b EXCEPT ![1] = @ + 1]
M_incrementNoReset(b) ==
  IF Wraps(b) THEN Zeros(Len(b))
  ELSE LET j == Min({i \in DOMAIN b : b[i] # Base - 1})
       IN  [b EXCEPT ![j] = @ + 1]

(* b[i]++ from the first byte on, as long as the result is 0. *)
increment(b) ==
  IF Wraps(b) THEN Zeros(Len(b))
  ELSE LET j == Min({i \in DOMAIN b : b[i] # Base - 1})
       IN  [i \in DOMAIN b |-> IF i < j THEN 0 ELSE IF i = j THEN b[i] + 1 ELSE b[i]]

(* The key after b: a longer one once increment has wrapped. *)
NextKey(b) == IF Wraps(b) THEN Zeros(Len(b) + 1) ELSE increment(b)

(* case ch <- tmp *)
MainSend ==
  /\ MainAt("loop") /\ Len(input) <= Be
  /\ Len(ch) < Cap
  /\ ch' = Append(ch, input)
  /\ input' = NextKey(input)
  /\ UNCHANGED <<hit, main, end, panic, wpc, job, tested, found>>

M_MainLeavesOpen ==
  /\ MainAt("loop") /\ (Len(input) > Be \/ end)
  /\ main' = "wait"
  /\ UNCHANGED <<hit, input, ch, end, panic, wpc, job, tested, found>>

(* case <-end, or the loop is over *)
MainLeaves ==
  /\ MainAt("loop") /\ (Len(input) > Be \/ end)
  /\ main' = "endCh"
  /\ UNCHANGED <<hit, input, ch, end, panic, wpc, job, tested, found>>

M_AlwaysClose(past) == "close"

(* The select of endCh: what it does next depends on end as it is now. *)
EndCh(past) == IF end THEN past ELSE "close"

(* close(end), which panics if somebody has done it since the select. *)
CloseEnd ==
  /\ end' = TRUE
  /\ panic' = end

MainChecksEnd ==
  /\ MainAt("endCh")
  /\ main' = EndCh("wait")
  /\ UNCHANGED <<hit, input, ch, end, panic, wpc, job, tested, found>>

MainClosesEnd ==
  /\ MainAt("close")
  /\ CloseEnd
  /\ main' = "wait"
  /\ UNCHANGED <<hit, input, ch, wpc, job, tested, found>>

(* wg.Wait returns *)
MainDone ==
  /\ MainAt("wait")
  /\ \A w \in Worker : wpc[w] = "done"
  /\ main' = "done"
  /\ UNCHANGED <<hit, input, ch, end, panic, wpc, job, tested, found>>

-----------------------------------------------------------------------------
(* case job = <-in *)
TakeJob(w) ==
  /\ At(w, "select") /\ ch # <<>>
  /\ job' = [job EXCEPT ![w] = Head(ch)]
  /\ ch' = Tail(ch)
  /\ wpc' = [wpc EXCEPT ![w] = "calc"]
  /\ UNCHANGED <<hit, main, input, end, panic, tested, found>>

(* case <-end *)
SeeEnd(w) ==
  /\ At(w, "select") /\ end
  /\ wpc' = [wpc EXCEPT ![w] = "done"]
  /\ UNCHANGED <<hit, main, input, ch, end, panic, job, tested, found>>

(* calcOk(job) *)
Calc(w) ==
  /\ At(w, "calc")
  /\ tested' = tested \cup {job[w]}
  /\ found' = (found \/ job[w] = hit)
  /\ wpc' = [wpc EXCEPT ![w] = IF job[w] = hit THEN "endCh" ELSE "select"]
  /\ UNCHANGED <<hit, main, input, ch, end, panic, job>>

WorkerChecksEnd(w) ==
  /\ At(w, "endCh")
  /\ wpc' = [wpc EXCEPT ![w] = EndCh("done")]
  /\ UNCHANGED <<hit, main, input, ch, end, panic, job, tested, found>>

WorkerClosesEnd(w) ==
  /\ At(w, "close")
  /\ CloseEnd
  /\ wpc' = [wpc EXCEPT ![w] = "done"]
  /\ UNCHANGED <<hit, main, input, ch, job, tested, found>>

-----------------------------------------------------------------------------
Main == MainSend \/ MainLeaves \/ MainChecksEnd \/ MainClosesEnd \/ MainDone

Work(w) ==
  TakeJob(w) \/ SeeEnd(w) \/ Calc(w) \/ WorkerChecksEnd(w) \/ WorkerClosesEnd(w)

Next == Main \/ \E w \in Worker : Work(w)

Spec == Init /\ [][Next]_vars

(* The Go scheduler runs every goroutine that can go on. *)
FairSpec == Spec /\ WF_vars(Main) /\ \A w \in Worker : WF_vars(Work(w))

-----------------------------------------------------------------------------
TypeOK ==
  /\ hit \in Keys \cup {NoKey}
  /\ main \in {"loop", "endCh", "close", "wait", "done"}
  /\ Len(input) \in Nat /\ input \in [1 .. Len(input) -> Digit]
  /\ Len(ch) <= Cardinality(Worker) /\ Range(ch) \subseteq Keys
  /\ end \in BOOLEAN /\ panic \in BOOLEAN
  /\ wpc \in [Worker -> {"select", "calc", "endCh", "close", "done"}]
  /\ job \in [Worker -> Keys \cup {NoKey}]
  /\ tested \subseteq Keys
  /\ found \in BOOLEAN

(* The order of enumeration: by length, then as numbers. *)
Before(a, b) ==
  \/ Len(a) < Len(b)
  \/ /\ Len(a) = Len(b)
     /\ \E i \in DOMAIN a : a[i] < b[i] /\ \A k \in DOMAIN a : k > i => a[k] = b[k]

Calculating == {w \in Worker : wpc[w] = "calc"}
InHand == {job[w] : w \in Calculating}

(* The keys before the one main is at are those hashed, those in the       *)
(* channel and those being hashed, and each is in one place only.          *)
EachKeyOnce ==
  /\ tested \cup Range(ch) \cup InHand = {k \in Keys : Before(k, input)}
  /\ tested \cap (Range(ch) \cup InHand) = {} /\ Range(ch) \cap InHand = {}
  /\ \A i, k \in DOMAIN ch : ch[i] = ch[k] => i = k
  /\ \A v, w \in Calculating : job[v] = job[w] => v = w

(* A search that ends without a result has missed at most as many keys as  *)
(* there are workers, and those are the last ones of the enumeration.      *)
MissesOnlyTheLast ==
  main = "done" /\ ~found =>
    /\ Cardinality(Keys \ tested) <= Cardinality(Worker)
    /\ \A k \in tested, m \in Keys \ tested : Before(k, m)

(***************************************************************************)
(* Whatever the goroutines' interleaving, increment skips no key, no       *)
(* handover loses one and none is hashed twice; what the end of the search *)
(* drops is no more than the keys still in the channel, the last ones.     *)
(***************************************************************************)
KeysTried == EachKeyOnce /\ MissesOnlyTheLast

(***************************************************************************)
(* The channel end is closed twice only if a worker finds the key while    *)
(* main, having enumerated everything, closes it too.                      *)
(***************************************************************************)
PanicOnlyAtTheEnd == panic => found /\ Len(input) > Be

(***************************************************************************)
(* The program always ends: nobody waits forever, neither main for room in *)
(* the channel nor a worker for a key.                                     *)
(***************************************************************************)
Ends == <>(main = "done" \/ panic)

(***************************************************************************)
(* The flags s and e give the range to try: a search that ends without a   *)
(* result has tried it.                                                    *)
(***************************************************************************)
TriesAll == main = "done" /\ ~found => tested = Keys

=============================================================================
