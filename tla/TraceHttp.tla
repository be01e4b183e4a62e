----------------------------- MODULE TraceHttp ------------------------------
(***************************************************************************)
(* collectd-exec/main.go: one TraceHttp measures one URL after the other.  *)
(* Its fields are written by callbacks of net/http, also from the          *)
(* goroutines that dial: two at a time when a name has addresses of both   *)
(* families.  Get and PutVal run in main.                                  *)
(*                                                                         *)
(* net/http is modelled from its documented behaviour: for every hop of a  *)
(* request (a redirect is one more) GetConn, then a connection kept from   *)
(* an earlier hop or a look-up and a dial; the first racer that connects   *)
(* is used, the other one cancelled but not waited for: its callback may   *)
(* come at any later time, also when Get is at another URL.  The accesses of *)
(* two goroutines to one field are taken to be atomic.  A field that       *)
(* holds a moment is kept as its age, which is what time.Since reads off.  *)
(* The fields of the TLS handshake are never printed and are left out.     *)
(***************************************************************************)
EXTENDS Integers

CONSTANTS
  Racers,       \* the dialling goroutines, one for each address family
  MaxHops,      \* the most hops net/http follows
  DialTimeout,  \* Timeout of the Dialer
  Aged          \* bound: the age at which moments stop ageing

ASSUME TraceAssumption ==
  /\ MaxHops \in Nat \ {0} /\ DialTimeout \in Nat \ {0} /\ Aged \in Nat
  /\ DialTimeout <= Aged

U == -1         \* printed as "U", unknown

VARIABLES
  pc,       \* where main and its request are
  hop,      \* the hop the request is at
  start, connect, dns,           \* the ages of the moments
  connDt, dnsDt, ttfb, totalDt,  \* the durations, or U
  racer,    \* each racer: "none", "dialing", "failed", "loser" of a dial that is
            \* over, "stale" if that dial was for an earlier URL
  age,      \* the age of its dial
  failed,   \* whether Get has returned an error
  longest,  \* history: the longest dial of this URL that has connected, or U
  stray     \* history: a dial of an earlier URL whose ConnectDone came after
            \* zero() and no other one since: how long it took; else U

fields == <<start, connect, dns, connDt, dnsDt, ttfb, totalDt>>
history == <<longest, stray>>
vars == <<pc, hop, fields, racer, age, failed, history>>

MaxOf(a, b) == IF a < b THEN b ELSE a

Init ==
  /\ pc = "next" /\ hop = 0
  /\ start = Aged /\ connect = Aged /\ dns = Aged
  /\ connDt = 0 /\ dnsDt = 0 /\ ttfb = 0 /\ totalDt = 0
  /\ racer = [r \in Racers |-> "none"] /\ age = [r \in Racers |-> 0]
  /\ failed = FALSE
  /\ longest = 0 /\ stray = U

-----------------------------------------------------------------------------
(* main *)

M_zeroKeepsConn == dnsDt' = 0 /\ connDt' = connDt /\ ttfb' = U /\ totalDt' = 0

zero == dnsDt' = 0 /\ connDt' = U /\ ttfb' = U /\ totalDt' = 0

(* Get: zero(), then client.Do.  For a URL that does not parse NewRequest  *)
(* returns nil, its error is dropped, and the use of nil ends the program. *)
Get ==
  /\ pc = "next"
  /\ zero
  /\ \/ /\ pc' = "hop" /\ hop' = 1
        /\ racer' = [r \in Racers |-> IF racer[r] = "loser" THEN "stale" ELSE racer[r]]
     \/ /\ pc' = "panic" /\ hop' = hop
        /\ racer' = [r \in Racers |-> "none"]
  /\ failed' = FALSE
  /\ longest' = U /\ stray' = U
  /\ UNCHANGED <<start, connect, dns, age>>

M_ErrorOfDoOnly ==
  /\ pc \in {"doFailed", "bodyFailed"}
  /\ totalDt' = IF pc = "doFailed" THEN U ELSE start
  /\ failed' = TRUE
  /\ pc' = "report"
  /\ UNCHANGED <<hop, start, connect, dns, connDt, dnsDt, ttfb, racer, age, history>>

(* client.Do or the copy of the body has failed. *)
GetFails ==
  /\ pc \in {"doFailed", "bodyFailed"}
  /\ totalDt' = U
  /\ failed' = TRUE
  /\ pc' = "report"
  /\ UNCHANGED <<hop, start, connect, dns, connDt, dnsDt, ttfb, racer, age, history>>

GetDone ==
  /\ pc = "bodyRead"
  /\ totalDt' = start
  /\ pc' = "report"
  /\ UNCHANGED <<hop, start, connect, dns, connDt, dnsDt, ttfb, racer, age, failed, history>>

(* The durations are printed; after the last URL main sleeps. *)
PutVal ==
  /\ pc = "report"
  /\ pc' = "next"
  /\ UNCHANGED <<hop, fields, racer, age, failed, history>>

Main == Get \/ GetFails \/ GetDone \/ PutVal

-----------------------------------------------------------------------------
(* The callbacks, as net/http calls them. *)

(* Nothing else: the moment of an earlier hop is written over. *)
GetConn ==
  /\ pc = "hop"
  /\ start' = 0
  /\ \E next \in {"lookup", "dial"} \cup (IF hop > 1 THEN {"response"} ELSE {}) :
       /\ pc' = next
       /\ dns' = IF next = "lookup" THEN 0 ELSE dns     \* DNSStart
  /\ UNCHANGED <<hop, connect, connDt, dnsDt, ttfb, totalDt, racer, age, failed, history>>

DNSDone ==
  /\ pc = "lookup"
  /\ \/ dnsDt' = dns /\ pc' = "dial"
     \/ dnsDt' = U /\ pc' = "doFailed"
  /\ UNCHANGED <<hop, start, connect, dns, connDt, ttfb, totalDt, racer, age, failed, history>>

UnderWay(r) == racer[r] \in {"dialing", "loser", "stale"}

ConnectStart(r) ==
  /\ pc = "dial" /\ racer[r] = "none"
  /\ connect' = 0
  /\ racer' = [racer EXCEPT ![r] = "dialing"]
  /\ age' = [age EXCEPT ![r] = 0]
  /\ UNCHANGED <<pc, hop, start, dns, connDt, dnsDt, ttfb, totalDt, failed, history>>

(* Which dial it is that has called back. *)
Recorded(r) ==
  IF racer[r] = "stale"
  THEN stray' = age[r] /\ longest' = longest
  ELSE stray' = U /\ longest' = MaxOf(longest, age[r])

M_Backwards(r) == connDt' = -connect /\ Recorded(r)

(* ConnectDone with err == nil *)
Measures(r) == connDt' = connect /\ Recorded(r)

Overtaken(q) == IF racer[q] = "dialing" THEN "loser" ELSE racer[q]

ConnectDone(r) ==
  /\ racer[r] = "dialing"
  /\ Measures(r)
  /\ pc' = "response"
  /\ racer' = [q \in Racers |-> IF q # r /\ UnderWay(q) THEN Overtaken(q) ELSE "none"]
  /\ UNCHANGED <<hop, start, connect, dns, dnsDt, ttfb, totalDt, age, failed>>

(* The loser had its connection when it was cancelled. *)
LateConnectDone(r) ==
  /\ racer[r] \in {"loser", "stale"}
  /\ Measures(r)
  /\ racer' = [racer EXCEPT ![r] = "none"]
  /\ UNCHANGED <<pc, hop, start, connect, dns, dnsDt, ttfb, totalDt, age, failed>>

(* ConnectDone with an error writes nothing. *)
ConnectFails(r) ==
  /\ UnderWay(r)
  /\ racer' = [racer EXCEPT ![r] = IF racer[r] = "dialing" THEN "failed" ELSE "none"]
  /\ UNCHANGED <<pc, hop, fields, age, failed, history>>

(* Every address there is has failed. *)
DialFails ==
  /\ pc = "dial"
  /\ \E r \in Racers : racer[r] = "failed"
  /\ \A r \in Racers : racer[r] # "dialing"
  /\ pc' = "doFailed"
  /\ racer' = [r \in Racers |-> IF racer[r] = "failed" THEN "none" ELSE racer[r]]
  /\ UNCHANGED <<hop, fields, age, failed, history>>

GotFirstResponseByte ==
  /\ pc = "response"
  /\ ttfb' = start
  /\ \/ pc' = "body" /\ hop' = hop
     \/ pc' = "hop" /\ hop < MaxHops /\ hop' = hop + 1      \* a redirect
     \/ pc' = "doFailed" /\ hop = MaxHops /\ hop' = hop     \* one too many
  /\ UNCHANGED <<start, connect, dns, connDt, dnsDt, totalDt, racer, age, failed, history>>

(* The body ends, or the server or the connection fails. *)
ServerEnds ==
  /\ \/ pc = "body" /\ pc' \in {"bodyRead", "bodyFailed"}
     \/ pc = "response" /\ pc' = "doFailed"
  /\ UNCHANGED <<hop, fields, racer, age, failed, history>>

M_NoDeadline(r) == FALSE

(* The Dialer's timeout. *)
Overdue(r) == UnderWay(r) /\ age[r] >= DialTimeout

Older(a) == IF a < Aged THEN a + 1 ELSE a

Tick ==
  /\ \A r \in Racers : ~Overdue(r)
  /\ start' = Older(start) /\ connect' = Older(connect) /\ dns' = Older(dns)
  /\ age' = [r \in Racers |-> IF UnderWay(r) THEN Older(age[r]) ELSE 0]
  /\ UNCHANGED <<pc, hop, connDt, dnsDt, ttfb, totalDt, racer, failed, history>>

Dial(r) == ConnectStart(r) \/ ConnectDone(r) \/ LateConnectDone(r) \/ ConnectFails(r)

Transport == GetConn \/ DNSDone \/ DialFails \/ \E r \in Racers : Dial(r)

Server == GotFirstResponseByte \/ ServerEnds

-----------------------------------------------------------------------------
Next == Main \/ Transport \/ Server \/ Tick

Spec == Init /\ [][Next]_vars

(***************************************************************************)
(* main and net/http are scheduled, the resolver answers or gives up, time *)
(* passes and a dial ends at its deadline.  Nothing is assumed of a server *)
(* that has accepted a connection: neither the client nor the transport    *)
(* has a timeout for it (main.go:245-255).                                 *)
(***************************************************************************)
FairSpec ==
  /\ Spec
  /\ WF_vars(Main) /\ WF_vars(GetConn) /\ WF_vars(DNSDone) /\ WF_vars(DialFails)
  /\ WF_vars(Tick)
  /\ \A r \in Racers : WF_vars(ConnectStart(r)) /\ WF_vars(Overdue(r) /\ ConnectFails(r))

-----------------------------------------------------------------------------
Age == 0 .. Aged

TypeOK ==
  /\ pc \in {"next", "hop", "lookup", "dial", "response", "body", "bodyRead", "bodyFailed",
             "doFailed", "report", "panic"}
  /\ hop \in 0 .. MaxHops
  /\ start \in Age /\ connect \in Age /\ dns \in Age
  /\ connDt \in Age \cup {U} /\ dnsDt \in Age \cup {U}
  /\ ttfb \in Age \cup {U} /\ totalDt \in Age \cup {U}
  /\ racer \in [Racers -> {"none", "dialing", "failed", "loser", "stale"}]
  /\ age \in [Racers -> Age]
  /\ failed \in BOOLEAN
  /\ longest \in Age \cup {U} /\ stray \in Age \cup {U}

(* Connect is unknown if no dial has come to a connection since zero(); it *)
(* is no longer than some dial of this URL took, or, if the last callback  *)
(* is the late one of a dial of an earlier URL, than that one took.        *)
ConnectHonest == connDt <= MaxOf(longest, stray)

(* A request that failed has an unknown total, one that did not the time   *)
(* to the first byte within the total.                                     *)
TotalHonest ==
  pc = "report" => IF failed THEN totalDt = U ELSE ttfb # U /\ ttfb <= totalDt

(***************************************************************************)
(* Whatever dials overlap, redirect and fail, no time is made up: Connect  *)
(* is no more than a dial took that has called back since zero(), although *)
(* racing dials share its field, and the total of a request that failed at *)
(* any point, in a hop, a dial or the body, is unknown.  The dial may be   *)
(* one of an earlier URL that was not waited for (main.go:205-209): then a *)
(* Connect left over from that URL is printed for this one.                *)
(***************************************************************************)
TimesHonest == ConnectHonest /\ TotalHonest

(***************************************************************************)
(* main reports again and again, whatever names and addresses fail; what   *)
(* alone can hold it up is a server that accepts and then stays silent, or *)
(* a URL that does not parse (main.go:257), which ends the program.        *)
(***************************************************************************)
KeepsReporting ==
  []<>(pc = "report") \/ <>[](pc \in {"response", "body", "panic"})

=============================================================================
