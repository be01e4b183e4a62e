---------------------------- MODULE TraceProofs -----------------------------
(***************************************************************************)
(* Proofs about module TraceHttp, for every set of racers, number of hops  *)
(* and timeout.                                                            *)
(*                                                                         *)
(* TimesHonest becomes inductive with two facts.  th.connect is never      *)
(* older than any dial under way, this hop's or one lost earlier, be it of *)
(* this URL or of one before: every ConnectStart makes it younger and time *)
(* ages them alike.  And from the first byte to the report th.start is at  *)
(* least TTFB, because no callback starts the clock again: a dial of the   *)
(* request is over by then.                                                *)
(***************************************************************************)
EXTENDS TraceHttp, TLAPS

USE TraceAssumption DEF TraceAssumption

ConnectYoung == \A r \in Racers : UnderWay(r) => connect <= age[r]

ConnectInv == TypeOK /\ ConnectYoung /\ ConnectHonest

-----------------------------------------------------------------------------
LEMMA OlderAge == \A a \in Age : Older(a) \in Age
BY DEF Older, Age

(* TypeOK holds in every state of TraceHttp (collectd-exec/main.go:172-303). *)
THEOREM TraceTypes == Spec => []TypeOK
<1>1. Init => TypeOK
  <2> SUFFICES ASSUME Init PROVE TypeOK
    OBVIOUS
  <2>1. failed \in BOOLEAN
    BY Zenon DEF Init
  <2> QED
    BY <2>1 DEF Init, TypeOK, Age, U
<1>2. TypeOK /\ [Next]_vars => TypeOK'
  <2> SUFFICES ASSUME TypeOK, [Next]_vars PROVE TypeOK'
    OBVIOUS
  <2>1. CASE Main
    <3>1. failed' \in BOOLEAN
      BY <2>1, Zenon DEF Main, Get, GetFails, GetDone, PutVal, TypeOK
    <3>2. CASE Get
      BY <3>1, <3>2 DEF Get, zero, TypeOK, Age, U
    <3>3. CASE GetFails \/ GetDone \/ PutVal
      BY <3>1, <3>3 DEF GetFails, GetDone, PutVal, TypeOK, fields, history
    <3> QED
      BY <2>1, <3>2, <3>3 DEF Main
  <2>2. CASE GetConn \/ DNSDone \/ DialFails
    BY <2>2 DEF GetConn, DNSDone, DialFails, TypeOK, Age, U, fields, history
  <2>3. ASSUME NEW r \in Racers, Dial(r) PROVE TypeOK'
    BY <2>3 DEF Dial, ConnectStart, ConnectDone, LateConnectDone, ConnectFails, UnderWay,
                Overtaken, Measures, Recorded, MaxOf, TypeOK, Age, U, fields, history
  <2>4. CASE Server
    BY <2>4 DEF Server, GotFirstResponseByte, ServerEnds, TypeOK, Age, U, fields, history
  <2>5. CASE Tick
    <3>1. age' \in [Racers -> Age]
      BY <2>5, OlderAge DEF Tick, TypeOK, Age
    <3> QED
      BY <2>5, <3>1, OlderAge DEF Tick, TypeOK, history
  <2>6. CASE UNCHANGED vars
    BY <2>6 DEF vars, fields, history, TypeOK
  <2> QED
    BY <2>1, <2>2, <2>3, <2>4, <2>5, <2>6 DEF Next, Transport
<1> QED
  BY <1>1, <1>2, PTL DEF Spec

-----------------------------------------------------------------------------
(***************************************************************************)
(* Whatever the callbacks of main.go:195-219 write over, Connect is at     *)
(* most what some dial took that has called back since zero(): one of this *)
(* URL, or a loser of an earlier one if its callback is the last.          *)
(***************************************************************************)
THEOREM ConnectIsNotOverstated == Spec => []ConnectHonest
<1>1. Init => ConnectInv
  <2> SUFFICES ASSUME Init PROVE ConnectInv
    OBVIOUS
  <2>1. TypeOK
    <3>1. failed \in BOOLEAN
      BY Zenon DEF Init
    <3> QED
      BY <3>1 DEF Init, TypeOK, Age, U
  <2> QED
    BY <2>1 DEF Init, ConnectInv, ConnectYoung, UnderWay, ConnectHonest, MaxOf, U
<1>2. ConnectInv /\ TypeOK' /\ [Next]_vars => ConnectInv'
  <2> SUFFICES ASSUME ConnectInv, TypeOK', [Next]_vars
               PROVE  ConnectYoung' /\ ConnectHonest'
    BY DEF ConnectInv
  <2> USE DEF ConnectInv
  <2>1. CASE Main
    <3>1. CASE Get
      BY <2>1, <3>1 DEF Get, zero, ConnectYoung, UnderWay, ConnectHonest, MaxOf, TypeOK, U
    <3>2. CASE GetFails \/ GetDone \/ PutVal
      BY <3>2 DEF GetFails, GetDone, PutVal, ConnectYoung, UnderWay, ConnectHonest, fields,
                  history
    <3> QED
      BY <2>1, <3>1, <3>2 DEF Main
  <2>2. CASE GetConn \/ DNSDone \/ DialFails
    BY <2>2 DEF GetConn, DNSDone, DialFails, ConnectYoung, UnderWay, ConnectHonest,
                TypeOK, fields, history
  <2>3. ASSUME NEW r \in Racers, ConnectStart(r) PROVE ConnectYoung' /\ ConnectHonest'
    BY <2>3 DEF ConnectStart, ConnectYoung, UnderWay, ConnectHonest, TypeOK, Age, history
  <2>4. ASSUME NEW r \in Racers, ConnectDone(r) \/ LateConnectDone(r)
        PROVE  ConnectYoung' /\ ConnectHonest'
    <3>1. UnderWay(r) /\ connDt' = connect /\ Recorded(r) /\ UNCHANGED <<connect, age>>
      BY <2>4 DEF ConnectDone, LateConnectDone, UnderWay, Measures
    <3>2. \A q \in Racers : UnderWay(q)' => UnderWay(q)
      BY <2>4 DEF ConnectDone, LateConnectDone, UnderWay, Overtaken, TypeOK
    <3>3. connect <= age[r] /\ connect \in Age /\ age[r] \in Age
      BY <3>1 DEF ConnectYoung, TypeOK
    <3>4. connDt' <= MaxOf(longest', stray')
      BY <3>1, <3>3 DEF Recorded, MaxOf, TypeOK, Age, U
    <3> QED
      BY <3>1, <3>2, <3>4 DEF ConnectYoung, ConnectHonest
  <2>5. ASSUME NEW r \in Racers, ConnectFails(r) PROVE ConnectYoung' /\ ConnectHonest'
    BY <2>5 DEF ConnectFails, ConnectYoung, UnderWay, ConnectHonest, TypeOK, fields,
                history
  <2>6. CASE Server
    BY <2>6 DEF Server, GotFirstResponseByte, ServerEnds, ConnectYoung, UnderWay,
                ConnectHonest, fields, history
  <2>7. CASE Tick
    <3>1. ASSUME NEW q \in Racers, UnderWay(q)' PROVE connect' <= age'[q]
      <4>1. UnderWay(q) /\ age'[q] = Older(age[q]) /\ connect' = Older(connect)
        BY <2>7, <3>1 DEF Tick, UnderWay
      <4>2. connect <= age[q] /\ connect \in Age /\ age[q] \in Age
        BY <4>1 DEF ConnectYoung, TypeOK
      <4> QED
        BY <4>1, <4>2 DEF Older, Age
    <3> QED
      BY <2>7, <3>1 DEF Tick, ConnectYoung, ConnectHonest, history
  <2>8. CASE UNCHANGED vars
    BY <2>8 DEF vars, fields, history, ConnectYoung, UnderWay, ConnectHonest
  <2> QED
    BY <2>1, <2>2, <2>3, <2>4, <2>5, <2>6, <2>7, <2>8 DEF Next, Transport, Dial
<1>3. ConnectInv => ConnectHonest
  BY DEF ConnectInv
<1> QED
  BY <1>1, <1>2, <1>3, TraceTypes, PTL DEF Spec, ConnectInv

-----------------------------------------------------------------------------
(* A goroutine dials for the request only while the request waits for it.  *)
DialsInTime == \A r \in Racers : racer[r] = "dialing" => pc = "dial"

(* The error of a request is not forgotten, nor one of an earlier kept.    *)
FailedIsReported == failed => pc \in {"report", "next"}

FirstByteInTime ==
  pc \in {"body", "bodyRead"} => ttfb # U /\ ttfb <= start

TotalInv == TypeOK /\ DialsInTime /\ FailedIsReported /\ FirstByteInTime /\ TotalHonest

(* The strengthening of TotalHonest that every callback and main preserve. *)
LEMMA TotalStep == TotalInv /\ TypeOK' /\ [Next]_vars => TotalInv'
<1> SUFFICES ASSUME TotalInv, TypeOK', [Next]_vars
             PROVE  DialsInTime' /\ FailedIsReported' /\ FirstByteInTime' /\ TotalHonest'
  BY DEF TotalInv
<1> USE DEF TotalInv, FirstByteInTime, TotalHonest
<1>1. CASE Get
  BY <1>1 DEF Get, zero, DialsInTime, FailedIsReported
<1>2. CASE GetFails \/ GetDone \/ PutVal
  BY <1>2 DEF GetFails, GetDone, PutVal, DialsInTime, FailedIsReported, fields
<1>3. CASE GetConn \/ DNSDone \/ DialFails
  BY <1>3 DEF GetConn, DNSDone, DialFails, DialsInTime, FailedIsReported, TypeOK, fields
<1>4. ASSUME NEW r \in Racers, Dial(r)
      PROVE  DialsInTime' /\ FailedIsReported' /\ FirstByteInTime' /\ TotalHonest'
  BY <1>4 DEF Dial, ConnectStart, ConnectDone, LateConnectDone, ConnectFails, Measures,
              UnderWay, Overtaken, DialsInTime, FailedIsReported, TypeOK, fields
<1>5. CASE Server
  BY <1>5 DEF Server, GotFirstResponseByte, ServerEnds, DialsInTime, FailedIsReported,
              TypeOK, Age, U, fields
<1>6. CASE Tick
  BY <1>6 DEF Tick, Older, DialsInTime, FailedIsReported, TypeOK, Age
<1>7. CASE UNCHANGED vars
  BY <1>7 DEF vars, fields, DialsInTime, FailedIsReported
<1> QED
  BY <1>1, <1>2, <1>3, <1>4, <1>5, <1>6, <1>7 DEF Next, Main, Transport

(***************************************************************************)
(* TimesHonest holds in every state of the tracer: Connect is no more than *)
(* a dial took that has called back since zero(), be it of this URL or a   *)
(* loser of an earlier one; and the total that main.go:254-303 computes is *)
(* unknown of a request that failed, and not less than TTFB of any other.  *)
(***************************************************************************)
THEOREM TimesAreHonest == Spec => []TimesHonest
<1>1. Init => DialsInTime /\ FailedIsReported /\ FirstByteInTime /\ TotalHonest
  BY DEF Init, DialsInTime, FailedIsReported, FirstByteInTime, TotalHonest
<1>2. TotalInv => TotalHonest
  BY DEF TotalInv
<1>3. TimesHonest <=> ConnectHonest /\ TotalHonest
  BY DEF TimesHonest
<1> QED
  BY <1>1, <1>2, <1>3, TotalStep, TraceTypes, ConnectIsNotOverstated, PTL DEF Spec, TotalInv

=============================================================================
