--------------------------- MODULE NetworkProofs ----------------------------
(***************************************************************************)
(* What is proved of the proxies, the echo server and the SOCKS5 clients   *)
(* of src/network, in two parts on the same lemmas.                        *)
(*                                                                         *)
(* Any client: the safety properties of module AnyClient, for every size   *)
(* of the servers' arrays and every set of greetings, requests, heads and  *)
(* bytes that ClientAssumption admits.  The invariant IInv has one part    *)
(* for each phase of a connection: Opening says what holds of it in every  *)
(* phase and on every port, SocksInv and HttpInv what a proxy has before   *)
(* it comes to its tunnel, TunnelInv - which both share, as they share     *)
(* handleClient - what it has from there on, EchoInv where the bytes of a  *)
(* client of echo.go are.                                                  *)
(*                                                                         *)
(* The chain: those of module SocksChain, for every set of addresses that  *)
(* SocksClientAssumption and ChainAssumption admit.  ChainInv says which   *)
(* bytes of the handshake are on their way, to the client (Handshaking)    *)
(* and to the server (Asking), in each pair of phases of the two, and that *)
(* what follows them is the traffic of the raw client and of the target.   *)
(***************************************************************************)
EXTENDS AnyClient, SocksChain, FiniteSetTheorems, SequenceTheorems, TLAPS

Types ==
  /\ WireOK
  /\ port \in {"socks", "http", "echo"}
  /\ greeting \in Greetings /\ request \in Requests /\ httpHead \in Heads
  /\ apc \in {"start", "greeted", "requested", "left"}
  /\ said \in Seq(Byte) /\ answer \in Seq(Byte) /\ patient \in BOOLEAN
  /\ spc \in {"accept", "greeting", "request", "first", "dialing", "tunnel",
              "closed", "done", "panic"}
  /\ tgtSent \in Seq(Byte) /\ tgtGot \in Seq(Byte) /\ head \in Seq(Byte)
  /\ handler \in {"accept", "select", "done"}
  /\ epc \in [Copiers -> {"read", "write", "ended"}]
  /\ chunk \in [Copiers -> Seq(Byte)]

(* Nothing has happened yet, nothing is left of what has been lost, and a  *)
(* server that has not given up has its end open.                          *)
Opening ==
  /\ apc = "start" =>
       /\ ~cliOpen /\ ~srvOpen /\ ~fin /\ ~broken
       /\ spc = "accept" /\ handler = "accept" /\ said = <<>> /\ answer = <<>>
  /\ apc \in {"greeted", "requested"} => cliOpen
  /\ apc = "left" => ~cliOpen
  /\ ~cliOpen \/ broken => down = <<>>
  /\ ~srvOpen \/ broken => up = <<>>
  /\ port # "echo" /\ apc # "start" /\ spc \notin {"closed", "done", "panic"} => srvOpen
  /\ port = "echo" => spc = "accept"
  /\ apc = "greeted" => port = "socks"

(* The phases of socks.go.  The Read that finds nothing leaves the         *)
(* greeting in the array: one that offers a single method, a 1 in the      *)
(* place of the command, ends before the place of the address type.        *)
AtGreeting ==
  /\ up \in {<<>>, greeting} /\ down = <<>> /\ apc # "requested"
  /\ b = [i \in 0 .. BufLen - 1 |-> 0]
  /\ said = <<>> /\ answer = <<>>

AtRequest ==
  /\ b[1] = 1 => b[3] = 0
  /\ up \in {<<>>, Encoded(request)}
  /\ apc = "greeted" => up = <<>> /\ down \in {<<>>, <<5, 0>>}
  /\ apc = "requested" => down = <<>> /\ (~broken => up = Encoded(request))
  /\ said = <<>> /\ answer = <<>>

AtDial ==
  /\ up = <<>> /\ (apc = "requested" => down = <<>>)
  /\ said = <<>> /\ answer = <<>>

(* What has been dialled is what was asked for. *)
Asked ==
  /\ request.cmd = 1 /\ request.atyp \in Atyps /\ dialed = Wanted
  /\ apc \in {"requested", "left"}

Refusal == {Reply(c) : c \in Fitting \ {0}}

(* A client that is to read a refusal reads one that fits: one that does   *)
(* not is for a client that has gone.                                      *)
Refused ==
  /\ said = <<>>
  /\ apc = "greeted" => fin \/ down = <<>>
  /\ answer \in {<<>>} \cup Refusal
  /\ apc = "requested" => answer \o down \in {<<>>} \cup Refusal

(* If a Read may cut a message up nothing is claimed. *)
SocksInv ==
  port = "socks" /\ whole =>
    /\ spc \in {"accept", "greeting", "request", "dialing", "tunnel", "closed", "done"}
    /\ spc \in {"accept", "greeting"} => AtGreeting
    /\ spc = "request" => AtRequest
    /\ spc = "dialing" => AtDial
    /\ spc \in {"dialing", "tunnel", "done"} => Asked
    /\ spc = "closed" => Refused

(* The phases of httpproxy.go. *)
Unanswered ==
  /\ answer = <<>> /\ down = <<>>
  /\ Method(httpHead) = CONNECT => said = <<>>

AtHead ==
  /\ up \in {<<>>, httpHead \o said}
  /\ apc = "requested" /\ ~broken => up = httpHead \o said

(* What is dialled, and what is passed on, is what the head says, though   *)
(* only a part of it has been read.                                        *)
HeadTaken ==
  /\ Method(head) = Method(httpHead)
  /\ dialed.port # NoPort => dialed = Wanted
  /\ Method(head) = CONNECT /\ HeadFits => up = <<>>
  /\ Method(head) # CONNECT =>
       /\ IsPrefixOf(head \o up, httpHead \o said)
       /\ apc = "requested" /\ ~broken => head \o up = httpHead \o said

HttpInv ==
  port = "http" =>
    /\ spc \in {"accept", "first", "dialing", "tunnel", "closed", "done", "panic"}
    /\ spc \notin {"tunnel", "done"} => Unanswered
    /\ spc \in {"accept", "first"} => AtHead
    /\ spc = "dialing" => HeadTaken
    /\ spc \in {"tunnel", "done"} => dialed = Wanted
    /\ spc = "panic" => ~(whole /\ LineFits)

(* Where the target gets everything that is for it. *)
Covered == HeadFits \/ port = "socks" \/ Method(httpHead) # CONNECT

Success ==
  IF port = "socks" THEN Reply(0)
  ELSE IF Method(httpHead) = CONNECT THEN Established ELSE <<>>

(* What a client that has been answered may have read. *)
Told == {Success \o SubSeq(TargetSays, 1, n) : n \in 0 .. Len(tgtSent)}

(* The tunnel, on the side of the target and on that of the client. *)
TargetGets ==
  Covered =>
    /\ IsPrefixOf(tgtGot \o up, ForTarget)
    /\ apc = "requested" /\ ~broken /\ srvOpen => tgtGot \o up = ForTarget

ClientGets ==
  /\ answer \in {<<>>} \cup Told
  /\ apc = "requested" => answer \o down \in {<<>>} \cup Told
  /\ apc = "requested" /\ ~broken /\ spc = "tunnel" => answer \o down = Success \o tgtSent

TargetSaid ==
  tgtSent = SubSeq(TargetSays, 1, Len(tgtSent)) /\ Len(tgtSent) <= Len(TargetSays)

TunnelInv ==
  /\ TargetSaid
  /\ spc \notin {"tunnel", "done"} => tgtSent = <<>> /\ tgtGot = <<>>
  /\ spc \in {"tunnel", "done"} /\ ~CutUp => TargetGets /\ ClientGets

InFlight == Len(up) + Len(chunk["p1die"]) + Len(chunk["p2die"])

(* The copiers of echo.go: one that is to read holds nothing. *)
Copying ==
  /\ handler = "accept" => epc = [c \in Copiers |-> "read"] /\ chunk = [c \in Copiers |-> <<>>]
  /\ handler = "done" => ~srvOpen
  /\ handler # "done" /\ apc # "start" => srvOpen
  /\ \A c \in Copiers : epc[c] = "read" => chunk[c] = <<>>

(* While the server is there, every byte is back, in the connection or     *)
(* with a copier, of which one that has ended holds none; one at most is   *)
(* on its way for a client that waits.                                     *)
Conserved ==
  /\ \A c \in Copiers : epc[c] = "ended" => fin /\ up = <<>> /\ chunk[c] = <<>>
  /\ Elements(said) =
       Elements(Echoed) \cup Elements(up) \cup Elements(chunk["p1die"]) \cup Elements(chunk["p2die"])
  /\ Len(said) = Len(Echoed) + InFlight
  /\ patient => InFlight <= 1 /\ ((Echoed \o chunk["p1die"]) \o chunk["p2die"]) \o up = said

(* What has come back, also when the server has gone. *)
Returned ==
  /\ patient => IsPrefixOf(Echoed, said)
  /\ handler = "done" =>
       fin /\ \E c \in Copiers : Elements(said) = Elements(Echoed) \cup Elements(chunk[c])

EchoInv ==
  port = "echo" =>
    /\ Copying
    /\ cliOpen /\ ~broken => (srvOpen => Conserved) /\ Returned

IInv == Types /\ Opening /\ SocksInv /\ HttpInv /\ TunnelInv /\ EchoInv

-----------------------------------------------------------------------------
(* Sequences of bytes. *)
LEMMA Joined ==
  ASSUME NEW s \in Seq(Byte), NEW t \in Seq(Byte)
  PROVE  /\ s \o t \in Seq(Byte)
         /\ Len(s \o t) = Len(s) + Len(t) /\ Len(s) \in Nat /\ Len(t) \in Nat
         /\ s \o <<>> = s /\ <<>> \o t = t
         /\ \A i \in 1 .. Len(s) : (s \o t)[i] = s[i]
         /\ \A i \in 1 .. Len(t) : (s \o t)[Len(s) + i] = t[i]
<1>1. Len(s) \in Nat /\ Len(t) \in Nat
  BY LenProperties
<1>2. s \o <<>> = s /\ <<>> \o t = t
  BY ConcatEmptySeq
<1>3. /\ s \o t \in Seq(Byte) /\ Len(s \o t) = Len(s) + Len(t)
      /\ \A i \in 1 .. Len(s) + Len(t) : (s \o t)[i] = IF i <= Len(s) THEN s[i] ELSE t[i - Len(s)]
  BY ConcatProperties
<1>4. \A i \in 1 .. Len(s) : (s \o t)[i] = s[i]
  BY <1>1, <1>3
<1>5. ASSUME NEW i \in 1 .. Len(t) PROVE (s \o t)[Len(s) + i] = t[i]
  <2>1. Len(s) + i \in 1 .. Len(s) + Len(t) /\ ~(Len(s) + i <= Len(s)) /\ (Len(s) + i) - Len(s) = i
    BY <1>1
  <2> QED
    BY <1>3, <2>1
<1> QED
  BY <1>1, <1>2, <1>3, <1>4, <1>5

LEMMA Regrouped ==
  ASSUME NEW s \in Seq(Byte), NEW t \in Seq(Byte), NEW u \in Seq(Byte)
  PROVE  (s \o t) \o u = s \o (t \o u)
BY ConcatAssociative

LEMMA Empty == <<>> \in Seq(Byte) /\ Len(<<>>) = 0 /\ Elements(<<>>) = {}
BY EmptySeq DEF Elements

LEMMA NotEmpty ==
  ASSUME NEW s \in Seq(Byte)
  PROVE  /\ Len(s) \in Nat /\ DOMAIN s = 1 .. Len(s)
         /\ s = <<>> <=> Len(s) = 0
         /\ \A i \in 1 .. Len(s) : s[i] \in Byte
BY LenProperties, EmptySeq

LEMMA One ==
  ASSUME NEW x \in Byte
  PROVE  <<x>> \in Seq(Byte) /\ Len(<<x>>) = 1 /\ <<x>>[1] = x /\ Elements(<<x>>) = {x}
<1>1. <<x>> \in Seq(Byte) /\ Len(<<x>>) = 1 /\ <<x>>[1] = x /\ DOMAIN <<x>> = {1}
  OBVIOUS
<1> QED
  BY <1>1 DEF Elements

LEMMA ElementsJoined ==
  ASSUME NEW s \in Seq(Byte), NEW t \in Seq(Byte)
  PROVE  Elements(s \o t) = Elements(s) \cup Elements(t)
<1>1. Elements(s) = Range(s) /\ Elements(t) = Range(t) /\ Elements(s \o t) = Range(s \o t)
  BY DEF Elements, Range
<1> QED
  BY <1>1, RangeConcatenation

(* A Read divides what is there. *)
LEMMA Divided ==
  ASSUME NEW s \in Seq(Byte), NEW k \in 0 .. Len(s)
  PROVE  /\ SubSeq(s, 1, k) \in Seq(Byte) /\ Len(SubSeq(s, 1, k)) = k
         /\ Drop(s, k) \in Seq(Byte) /\ Len(Drop(s, k)) = Len(s) - k
         /\ SubSeq(s, 1, k) \o Drop(s, k) = s
         /\ \A i \in 1 .. k : SubSeq(s, 1, k)[i] = s[i]
         /\ Elements(s) = Elements(SubSeq(s, 1, k)) \cup Elements(Drop(s, k))
<1>1. Len(s) \in Nat /\ \A i \in 1 .. Len(s) : s[i] \in Byte
  BY NotEmpty
<1>2. /\ SubSeq(s, 1, k) \in Seq(Byte) /\ Len(SubSeq(s, 1, k)) = k
      /\ \A i \in 1 .. k : SubSeq(s, 1, k)[i] = s[i]
  <2>1. \A i \in 1 .. k : s[i] \in Byte
    BY <1>1
  <2>2. /\ SubSeq(s, 1, k) \in Seq(Byte)
        /\ Len(SubSeq(s, 1, k)) = IF 1 <= k THEN k - 1 + 1 ELSE 0
        /\ \A i \in 1 .. k - 1 + 1 : SubSeq(s, 1, k)[i] = s[1 + i - 1]
    BY <2>1, SubSeqProperties
  <2> QED
    BY <2>2
<1>3. Drop(s, k) \in Seq(Byte) /\ Len(Drop(s, k)) = Len(s) - k
  <2>1. \A i \in k + 1 .. Len(s) : s[i] \in Byte
    BY <1>1
  <2>2. /\ SubSeq(s, k + 1, Len(s)) \in Seq(Byte)
        /\ Len(SubSeq(s, k + 1, Len(s))) = IF k + 1 <= Len(s) THEN Len(s) - (k + 1) + 1 ELSE 0
    BY <1>1, <2>1, SubSeqProperties, SMTT(30)
  <2> QED
    BY <1>1, <2>2 DEF Drop
<1>4. SubSeq(s, 1, k) \o Drop(s, k) = s
  <2>1. SubSeq(s, 1, Len(s)) = s
    BY SubSeqFull
  <2>2. /\ 1 \in 1 .. Len(s) + 1 /\ k \in 1 - 1 .. Len(s) /\ Len(s) \in k .. Len(s)
    BY <1>1
  <2>3. SubSeq(s, 1, k) \o SubSeq(s, k + 1, Len(s)) = SubSeq(s, 1, Len(s))
    BY <2>2, ConcatAdjacentSubSeq
  <2> QED
    BY <2>1, <2>3 DEF Drop
<1>5. Elements(s) = Elements(SubSeq(s, 1, k)) \cup Elements(Drop(s, k))
  BY <1>2, <1>3, <1>4, ElementsJoined
<1> QED
  BY <1>2, <1>3, <1>4, <1>5

LEMMA DropAll ==
  ASSUME NEW s \in Seq(Byte)
  PROVE  Drop(s, Len(s)) = <<>>
<1>1. Len(s) \in 0 .. Len(s)
  BY NotEmpty
<1>2. Drop(s, Len(s)) \in Seq(Byte) /\ Len(Drop(s, Len(s))) = 0
  BY <1>1, Divided
<1> QED
  BY <1>2, NotEmpty

(* Prefixes. *)
LEMMA PrefixOfItself ==
  ASSUME NEW s \in Seq(Byte), NEW t \in Seq(Byte)
  PROVE  IsPrefixOf(s, s \o t) /\ IsPrefixOf(s, s) /\ IsPrefixOf(<<>>, s)
<1>1. /\ s \o t \in Seq(Byte) /\ Len(s \o t) = Len(s) + Len(t) /\ Len(s) \in Nat /\ Len(t) \in Nat
      /\ \A i \in 1 .. Len(s) : (s \o t)[i] = s[i]
  BY Joined
<1>2. DOMAIN s = 1 .. Len(s) /\ DOMAIN <<>> = {} /\ Len(<<>>) = 0
  BY NotEmpty
<1> QED
  BY <1>1, <1>2 DEF IsPrefixOf

LEMMA PrefixGrows ==
  ASSUME NEW p \in Seq(Byte), NEW s \in Seq(Byte), NEW t \in Seq(Byte), IsPrefixOf(p, s)
  PROVE  IsPrefixOf(p, s \o t)
<1>1. /\ Len(s \o t) = Len(s) + Len(t) /\ Len(s) \in Nat /\ Len(t) \in Nat
      /\ \A i \in 1 .. Len(s) : (s \o t)[i] = s[i]
  BY Joined
<1>2. DOMAIN p = 1 .. Len(p) /\ Len(p) \in Nat
  BY NotEmpty
<1>3. Len(p) <= Len(s) /\ \A i \in DOMAIN p : p[i] = s[i]
  BY DEF IsPrefixOf
<1>4. \A i \in DOMAIN p : p[i] = (s \o t)[i]
  BY <1>1, <1>2, <1>3
<1> QED
  BY <1>1, <1>2, <1>3, <1>4 DEF IsPrefixOf

LEMMA PrefixOfPrefix ==
  ASSUME NEW p \in Seq(Byte), NEW q \in Seq(Byte), NEW s \in Seq(Byte), IsPrefixOf(p \o q, s)
  PROVE  IsPrefixOf(p, s)
<1>1. /\ p \o q \in Seq(Byte) /\ Len(p \o q) = Len(p) + Len(q) /\ Len(p) \in Nat /\ Len(q) \in Nat
      /\ \A i \in 1 .. Len(p) : (p \o q)[i] = p[i]
  BY Joined
<1>2. DOMAIN p = 1 .. Len(p) /\ DOMAIN (p \o q) = 1 .. Len(p \o q) /\ Len(s) \in Nat
  BY <1>1, NotEmpty
<1>3. Len(p \o q) <= Len(s) /\ \A i \in DOMAIN (p \o q) : (p \o q)[i] = s[i]
  BY DEF IsPrefixOf
<1> QED
  BY <1>1, <1>2, <1>3 DEF IsPrefixOf

(* The messages of socks.go and of httpproxy.go. *)
LEMMA Replies ==
  ASSUME NEW c \in Byte
  PROVE  Reply(c) \in Seq(Byte) /\ Len(Reply(c)) = 10 /\ Reply(c)[2] = c
BY DEF Reply, Byte

LEMMA Refusals ==
  ASSUME NEW c \in Byte \ {0}
  PROVE  /\ ~ IsPrefixOf(Reply(0), Reply(c))
         /\ ~ IsPrefixOf(Reply(0), <<>>) /\ ~ IsPrefixOf(Established, <<>>)
<1>0. 0 \in Byte /\ c \in Byte
  BY DEF Byte
<1>1. /\ Reply(0) \in Seq(Byte) /\ Len(Reply(0)) = 10 /\ Reply(0)[2] = 0
      /\ Reply(c)[2] = c
  BY <1>0, Replies
<1>2. DOMAIN Reply(0) = 1 .. 10
  BY <1>1, NotEmpty
<1>3. Len(Established) = 1 /\ Len(<<>>) = 0
  BY DEF Established
<1>4. 2 \in DOMAIN Reply(0) /\ Reply(0)[2] # Reply(c)[2]
  BY <1>1, <1>2
<1> QED
  BY <1>1, <1>3, <1>4 DEF IsPrefixOf

LEMMA ShortMessages ==
  Established \in Seq(Byte) /\ Len(Established) = 1 /\ <<5, 0>> \in Seq(Byte)
BY DEF Established, Byte

-----------------------------------------------------------------------------
(* What the calls leave of the connection. *)
LEMMA SentIs ==
  ASSUME NEW q \in Seq(Byte), NEW m \in Seq(Byte), NEW open
  PROVE  Sent(q, m, open) \in Seq(Byte) /\ (m = <<>> => Sent(q, m, open) = q)
BY Joined DEF Sent

LEMMA Closing ==
  ASSUME WireOK, NEW m \in Seq(Byte), NEW rest \in Seq(Byte), CloseSrv(m, rest)
  PROVE  /\ srvOpen' = FALSE /\ up' = <<>>
         /\ down' \in {<<>>, Sent(down, m, cliOpen)}
         /\ rest = <<>> => down' = Sent(down, m, cliOpen)
         /\ m = <<>> => down' \in {<<>>, down} /\ (rest = <<>> => down' = down)
         /\ ~cliOpen \/ broken => down' \in {<<>>, down}
         /\ up' \in Seq(Byte) /\ down' \in Seq(Byte) /\ srvOpen' \in BOOLEAN
<1>1. down \in Seq(Byte) /\ <<>> \in Seq(Byte)
  BY Empty DEF WireOK
<1>2. Sent(down, m, cliOpen) \in Seq(Byte) /\ (m = <<>> => Sent(down, m, cliOpen) = down)
  BY <1>1, SentIs
<1>3. ~cliOpen \/ broken => Sent(down, m, cliOpen) = down
  BY DEF Sent
<1>4. /\ srvOpen' = FALSE /\ up' = <<>>
      /\ down' \in {<<>>, Sent(down, m, cliOpen)}
      /\ rest = <<>> => down' = Sent(down, m, cliOpen)
  BY DEF CloseSrv, AfterClose
<1> QED
  BY <1>1, <1>2, <1>3, <1>4

LEMMA Taken ==
  ASSUME WireOK, NEW max \in Nat, NEW k \in Pieces(up, max)
  PROVE  /\ k \in 1 .. Len(up) /\ k <= max /\ up # <<>>
         /\ whole /\ Len(up) <= max => k = Len(up)
         /\ whole /\ max < Len(up) => k = max
<1>1. Len(up) \in Nat /\ up \in Seq(Byte) /\ (up = <<>> <=> Len(up) = 0) /\ whole \in BOOLEAN
  BY NotEmpty DEF WireOK
<1>2. CASE Len(up) < max
  BY <1>1, <1>2 DEF Pieces
<1>3. CASE ~(Len(up) < max)
  BY <1>1, <1>3 DEF Pieces
<1> QED
  BY <1>2, <1>3

(* What is chosen stays, whoever takes the step; who reads whose bytes.    *)
LEMMA Constant ==
  ASSUME [Next]_vars
  PROVE  UNCHANGED <<chosen, whole>>
BY DEF Next, vars, AnyClientStep, Connects, AsksFor, Speaks, Listens, ShutsDown, Leaves,
       ServerStep, Target, RelayToClient, TargetEnds, CloseTunnel, WireBreaks, clientVars,
       wireVars, link, Server, Accept, ReadGreeting, GreetingErr, ReadRequest, DialOk, DialFails,
       Relay, RelayToTarget, ServerTunnelEnds, HttpServer, HttpAccept, HttpReadErr, ReadHead,
       HttpDialOk, HttpDialFails, EchoServer, EchoAccept, EchoClose, EchoCopy, EchoRead,
       EchoReadEnds, EchoWrite, EchoWriteErr

LEMMA Chosen ==
  ASSUME Types
  PROVE  /\ greeting \in Seq(Byte) /\ greeting # <<>>
         /\ httpHead \in Seq(Byte)
         /\ request.host \in Seq(Byte) /\ Encoded(request) \in Seq(Byte)
         /\ Len(request.host) \in Nat
         /\ Says \in Seq(Byte) /\ TargetSays \in Seq(Byte)
<1>1. /\ greeting \in Seq(Byte) /\ greeting # <<>> /\ httpHead \in Seq(Byte)
      /\ Says \in Seq(Byte) /\ TargetSays \in Seq(Byte)
  <2>1. greeting \in Greetings /\ httpHead \in Heads
    BY DEF Types
  <2> QED
    BY <2>1, ClientAssumption, TargetAssumption
<1>2. /\ request.cmd \in Byte /\ request.atyp \in Byte /\ request.host \in Seq(Byte)
      /\ request.port \in Nat /\ request.port < 65536
      /\ request.atyp = Domain => Len(request.host) \in Byte
  <2>1. request \in Requests
    BY DEF Types
  <2> QED
    BY <2>1, ClientAssumption
<1>3. <<5, request.cmd, 0, request.atyp>> \in Seq(Byte)
  <2>1. 5 \in Byte /\ 0 \in Byte
    BY DEF Byte
  <2> QED
    BY <1>2, <2>1
<1>4. <<request.port \div 256, request.port % 256>> \in Seq(Byte)
  <2>1. ASSUME NEW p \in Nat, p < 65536 PROVE p \div 256 \in Byte /\ p % 256 \in Byte
    <3>1. p \div 256 \in Nat /\ p \div 256 <= 255 /\ p % 256 \in Nat /\ p % 256 <= 255
      BY <2>1
    <3> QED
      BY <3>1 DEF Byte
  <2>2. request.port \div 256 \in Byte /\ request.port % 256 \in Byte
    BY <1>2, <2>1
  <2> QED
    BY <2>2
<1>5. (IF request.atyp = Domain THEN <<Len(request.host)>> ELSE <<>>) \in Seq(Byte)
  BY <1>2, One, Empty
<1>6. <<5, request.cmd, 0, request.atyp>>
        \o (IF request.atyp = Domain THEN <<Len(request.host)>> ELSE <<>>) \in Seq(Byte)
  BY <1>3, <1>5, Joined
<1>7. (<<5, request.cmd, 0, request.atyp>>
        \o (IF request.atyp = Domain THEN <<Len(request.host)>> ELSE <<>>)) \o request.host \in Seq(Byte)
  BY <1>2, <1>6, Joined
<1>8. Encoded(request) \in Seq(Byte)
  BY <1>4, <1>7, Joined DEF Encoded
<1> QED
  BY <1>1, <1>2, <1>8, LenProperties

LEMMA TypesOfClient ==
  ASSUME Types, AnyClientStep
  PROVE  Types'
<1> USE DEF Types, WireOK, clientVars, chosen, link, servers, serverVars, proxyVars, echoVars
<1>0. <<>> \in Seq(Byte)
  BY Empty
<1>1. CASE Connects
  <2>1. FirstMessage \in Seq(Byte)
    BY <1>0, Chosen DEF FirstMessage
  <2> QED
    BY <1>1, <2>1 DEF Connects
<1>2. CASE AsksFor
  <2>1. Sent(up, Encoded(request), srvOpen) \in Seq(Byte)
    BY Chosen, SentIs
  <2>2. Drop(down, 2) \in Seq(Byte)
    <3>1. 2 \in 0 .. Len(down)
      BY <1>2, NotEmpty DEF AsksFor
    <3> QED
      BY <3>1, Divided
  <2> QED
    BY <1>0, <1>2, <2>1, <2>2 DEF AsksFor
<1>3. CASE Speaks
  <2>1. Len(said) \in Nat /\ Len(said) < Len(Says) /\ Says \in Seq(Byte) /\ Len(Says) \in Nat
    BY <1>3, NotEmpty, Chosen DEF Speaks
  <2>2. Says[Len(said) + 1] \in Byte
    BY <2>1, NotEmpty
  <2>3. /\ Append(said, Says[Len(said) + 1]) \in Seq(Byte)
        /\ Sent(up, <<Says[Len(said) + 1]>>, srvOpen) \in Seq(Byte)
    BY <2>2, AppendProperties, One, SentIs
  <2>4. patient' \in BOOLEAN
    BY <1>3, Zenon DEF Speaks
  <2> QED
    BY <1>3, <2>3, <2>4 DEF Speaks
<1>4. CASE Listens
  <2>1. answer \o down \in Seq(Byte)
    BY Joined
  <2> QED
    BY <1>0, <1>4, <2>1 DEF Listens
<1>5. CASE ShutsDown
  BY <1>5 DEF ShutsDown
<1>6. CASE Leaves
  <2>1. down' = <<>> /\ up' \in {<<>>, up}
    BY <1>6 DEF Leaves, CloseCli, AfterClose
  <2>2. cliOpen' \in BOOLEAN
    BY <1>6, Zenon DEF Leaves, CloseCli
  <2>3. up' \in Seq(Byte) /\ down' \in Seq(Byte)
    BY <1>0, <2>1
  <2>4. apc' = "left" /\ UNCHANGED <<srvOpen, link, servers, chosen, said, answer, patient>>
    BY <1>6 DEF Leaves
  <2> QED
    BY <2>2, <2>3, <2>4
<1> QED
  BY <1>1, <1>2, <1>3, <1>4, <1>5, <1>6 DEF AnyClientStep

(* The next byte that the target sends. *)
LEMMA TargetSpeaks ==
  ASSUME tgtSent \in Seq(Byte), RelayToClient
  PROVE  \E x \in Byte : tgtSent' = Append(tgtSent, x) /\ down' = Sent(down, <<x>>, cliOpen)
<1>1. /\ Len(tgtSent) \in Nat /\ Len(tgtSent) < Len(TargetSays)
      /\ TargetSays \in Seq(Byte) /\ Len(TargetSays) \in Nat
  BY NotEmpty, TargetAssumption DEF RelayToClient
<1>2. TargetSays[Len(tgtSent) + 1] \in Byte
  BY <1>1, NotEmpty
<1> QED
  BY <1>2 DEF RelayToClient

LEMMA TypesOfRelay ==
  ASSUME WireOK, tgtSent \in Seq(Byte), tgtGot \in Seq(Byte), Relay \/ Target
  PROVE  /\ WireOK' /\ tgtSent' \in Seq(Byte) /\ tgtGot' \in Seq(Byte)
         /\ spc' \in {"tunnel", "done"} /\ UNCHANGED dialed
<1> USE DEF WireOK, link
<1>1. CASE RelayToTarget
  <2>1. PICK k \in 1 .. Len(up) : tgtGot' = tgtGot \o SubSeq(up, 1, k) /\ up' = Drop(up, k)
    BY <1>1 DEF RelayToTarget
  <2>2. k \in 0 .. Len(up)
    BY <2>1
  <2>3. tgtGot' \in Seq(Byte) /\ up' \in Seq(Byte)
    BY <2>1, <2>2, Divided, Joined
  <2> QED
    BY <1>1, <2>3 DEF RelayToTarget
<1>2. CASE RelayToClient
  <2>1. PICK x \in Byte : tgtSent' = Append(tgtSent, x) /\ down' = Sent(down, <<x>>, cliOpen)
    BY <1>2, TargetSpeaks
  <2>2. Append(tgtSent, x) \in Seq(Byte) /\ Sent(down, <<x>>, cliOpen) \in Seq(Byte)
    BY AppendProperties, One, SentIs
  <2> QED
    BY <1>2, <2>1, <2>2 DEF RelayToClient
<1>3. CASE CloseTunnel
  BY <1>3, Empty, Closing DEF CloseTunnel
<1> QED
  BY <1>1, <1>2, <1>3 DEF Relay, Target, ServerTunnelEnds, TargetEnds

LEMMA TypesOfServer ==
  ASSUME WireOK, tgtSent \in Seq(Byte), tgtGot \in Seq(Byte), Server
  PROVE  /\ WireOK' /\ tgtSent' \in Seq(Byte) /\ tgtGot' \in Seq(Byte)
         /\ spc' \in {"greeting", "request", "dialing", "tunnel", "closed", "done", "panic"}
<1> USE DEF WireOK, link
<1>0. /\ <<>> \in Seq(Byte) /\ <<5, 0>> \in Seq(Byte) /\ BufLen \in Nat
      /\ \A c \in {0, 5, 7, 8} : Reply(c) \in Seq(Byte)
  BY Empty, ShortMessages, Replies, ServerAssumption DEF Byte
<1>1. ASSUME NEW k \in Pieces(up, BufLen) \cup {0}
      PROVE  Drop(up, k) \in Seq(Byte)
  <2>1. Len(up) \in Nat
    BY NotEmpty
  <2>2. k \in 0 .. Len(up)
    BY <1>0, <1>1, <2>1, Taken
  <2> QED
    BY <2>2, Divided
<1>2. CASE Accept
  BY <1>2 DEF Accept, wireVars
<1>3. CASE ReadGreeting
  <2>1. PICK k \in Pieces(up, BufLen) :
          \/ CloseSrv(<<>>, Drop(up, k)) /\ spc' = "closed"
          \/ /\ up' = Drop(up, k) /\ down' = Sent(down, <<5, 0>>, cliOpen)
             /\ spc' = "request" /\ UNCHANGED srvOpen
    BY <1>3 DEF ReadGreeting, ReadMax
  <2>2. Drop(up, k) \in Seq(Byte) /\ Sent(down, <<5, 0>>, cliOpen) \in Seq(Byte)
    BY <1>0, <1>1, SentIs
  <2>3. up' \in Seq(Byte) /\ down' \in Seq(Byte) /\ srvOpen' \in BOOLEAN
    BY <1>0, <2>1, <2>2, Closing
  <2> QED
    BY <1>3, <2>1, <2>3 DEF ReadGreeting
<1>4. CASE GreetingErr
  BY <1>0, <1>4, Closing DEF GreetingErr
<1>5. ASSUME NEW k \in Pieces(up, BufLen) \cup {0}, Judge(b', k)
      PROVE  /\ up' \in Seq(Byte) /\ down' \in Seq(Byte) /\ srvOpen' \in BOOLEAN
             /\ spc' \in {"closed", "panic", "dialing"}
  <2>1. Drop(up, k) \in Seq(Byte)
    BY <1>1
  <2>2. ASSUME NEW c \in {7, 8}, Refuse(c, Drop(up, k))
        PROVE  /\ up' \in Seq(Byte) /\ down' \in Seq(Byte) /\ srvOpen' \in BOOLEAN
               /\ spc' = "closed"
    <3>1. Reply(c) \in Seq(Byte) /\ CloseSrv(Reply(c), Drop(up, k))
      BY <1>0, <2>2 DEF Refuse
    <3> QED
      BY <2>1, <2>2, <3>1, Closing DEF Refuse
  <2>3. CASE Die(k)
    BY <1>0, <2>1, <2>3, Closing DEF Die
  <2>4. CASE StartDial(b', k)
    BY <2>1, <2>4 DEF StartDial
  <2> QED
    BY <1>5, <2>2, <2>3, <2>4 DEF Judge
<1>6. CASE ReadRequest
  <2>1. PICK k \in Pieces(up, BufLen) \cup {0} : Judge(b', k)
    BY <1>6 DEF ReadRequest, ReadMax
  <2> QED
    BY <1>5, <1>6, <2>1 DEF ReadRequest
<1>7. CASE DialOk
  <2>1. Sent(down, Reply(0), cliOpen) \in Seq(Byte)
    BY <1>0, SentIs
  <2> QED
    BY <1>7, <2>1 DEF DialOk
<1>8. CASE DialFails
  BY <1>0, <1>8, Closing DEF DialFails, Refuse
<1> QED
  BY <1>2, <1>3, <1>4, <1>6, <1>7, <1>8, TypesOfRelay DEF Server

LEMMA TypesOfTunnel ==
  ASSUME Types, Relay \/ Target, UNCHANGED <<head, echoVars, clientVars>>
  PROVE  Types'
BY TypesOfRelay DEF Types, clientVars, chosen, echoVars

LEMMA TypesOfSocks ==
  ASSUME Types, Server, UNCHANGED <<head, echoVars, clientVars>>
  PROVE  Types'
BY TypesOfServer DEF Types, clientVars, chosen, echoVars

LEMMA TypesOfHttp ==
  ASSUME Types, HttpServer, UNCHANGED <<echoVars, clientVars>>
  PROVE  Types'
<1> USE DEF Types, WireOK, clientVars, chosen, link, echoVars
<1>0. <<>> \in Seq(Byte) /\ Established \in Seq(Byte) /\ HeadMax \in Nat
  BY Empty, ShortMessages, HttpAssumption
<1>1. CASE HttpAccept
  BY <1>1 DEF HttpAccept, wireVars
<1>2. CASE HttpReadErr
  BY <1>0, <1>2, Closing, ZenonT(40) DEF HttpReadErr
<1>3. CASE ReadHead
  <2>1. PICK k \in Pieces(up, HeadMax) :
          head' = SubSeq(up, 1, k) /\ (NoNewline(k) \/ DoesNotParse(k) \/ HttpDials(k))
    BY <1>3 DEF ReadHead
  <2>2. k \in 0 .. Len(up)
    <3>1. k \in 1 .. Len(up) /\ Len(up) \in Nat
      BY <1>0, Taken, NotEmpty
    <3> QED
      BY <3>1
  <2>3. head' \in Seq(Byte) /\ Drop(up, k) \in Seq(Byte)
    BY <2>1, <2>2, Divided
  <2>4. CASE NoNewline(k) \/ DoesNotParse(k)
    <3>1. CloseSrv(<<>>, Drop(up, k)) /\ spc' \in {"panic", "closed"}
      BY <2>4 DEF NoNewline, DoesNotParse
    <3>2. up' \in Seq(Byte) /\ down' \in Seq(Byte) /\ srvOpen' \in BOOLEAN
      BY <1>0, <2>3, <3>1, Closing
    <3> QED
      BY <1>3, <2>3, <3>1, <3>2 DEF ReadHead
  <2>5. CASE HttpDials(k)
    BY <1>3, <2>3, <2>5 DEF ReadHead, HttpDials
  <2> QED
    BY <2>1, <2>4, <2>5
<1>4. CASE HttpDialOk
  <2>1. Sent(down, Established, cliOpen) \in Seq(Byte)
    BY <1>0, SentIs
  <2> QED
    BY <1>4, <2>1 DEF HttpDialOk, AnswerOrForward
<1>5. CASE HttpDialFails
  BY <1>0, <1>5, Closing, ZenonT(40) DEF HttpDialFails
<1> QED
  BY <1>1, <1>2, <1>3, <1>4, <1>5, TypesOfTunnel DEF HttpServer

LEMMA TypesOfEcho ==
  ASSUME Types, EchoServer, UNCHANGED <<serverVars, head, clientVars>>
  PROVE  Types'
<1> USE DEF Types, WireOK, clientVars, chosen, link, serverVars, proxyVars
<1>0. <<>> \in Seq(Byte) /\ EchoMax \in Nat
  BY Empty, EchoAssumption
<1>1. CASE EchoAccept
  BY <1>1 DEF EchoAccept, wireVars
<1>2. CASE EchoClose
  <2>1. srvOpen' \in BOOLEAN /\ up' \in Seq(Byte) /\ down' \in Seq(Byte)
    BY <1>0, <1>2, Closing DEF EchoClose
  <2> QED
    BY <1>2, <2>1 DEF EchoClose
<1>3. ASSUME NEW c \in Copiers, EchoCopy(c)
      PROVE  Types'
  <2>0. epc' \in [Copiers -> {"read", "write", "ended"}]
    BY <1>3 DEF EchoCopy, EchoRead, EchoReadEnds, EchoWrite, EchoWriteErr
  <2>1. CASE EchoRead(c)
    <3>1. PICK k \in Pieces(up, EchoMax) :
            chunk' = [chunk EXCEPT ![c] = SubSeq(up, 1, k)] /\ up' = Drop(up, k)
      BY <2>1 DEF EchoRead
    <3>2. k \in 0 .. Len(up)
      <4>1. k \in 1 .. Len(up) /\ Len(up) \in Nat
        BY <1>0, Taken, NotEmpty
      <4> QED
        BY <4>1
    <3>3. SubSeq(up, 1, k) \in Seq(Byte) /\ up' \in Seq(Byte)
      BY <3>1, <3>2, Divided
    <3>4. chunk' \in [Copiers -> Seq(Byte)]
      BY <3>1, <3>3
    <3> QED
      BY <2>0, <2>1, <3>3, <3>4 DEF EchoRead
  <2>2. CASE EchoReadEnds(c)
    BY <2>0, <2>2 DEF EchoReadEnds, wireVars
  <2>3. CASE EchoWrite(c)
    <3>1. Sent(down, chunk[c], cliOpen) \in Seq(Byte)
      BY SentIs
    <3>2. chunk' \in [Copiers -> Seq(Byte)]
      BY <1>0, <2>3 DEF EchoWrite
    <3> QED
      BY <2>0, <2>3, <3>1, <3>2 DEF EchoWrite
  <2>4. CASE EchoWriteErr(c)
    BY <2>0, <2>4 DEF EchoWriteErr, wireVars
  <2> QED
    BY <1>3, <2>1, <2>2, <2>3, <2>4 DEF EchoCopy
<1> QED
  BY <1>1, <1>2, <1>3 DEF EchoServer

LEMMA TypesNext ==
  ASSUME Types, [Next]_vars
  PROVE  Types'
<1>1. CASE WireBreaks /\ UNCHANGED <<servers, clientVars>>
  BY <1>1, Empty DEF WireBreaks, Types, WireOK, servers, serverVars, proxyVars, echoVars, clientVars, chosen
<1>2. CASE UNCHANGED vars
  BY <1>2 DEF vars, wireVars, Types, WireOK, servers, serverVars, proxyVars, echoVars, clientVars, chosen
<1>3. CASE Target /\ UNCHANGED <<b, head, echoVars, clientVars>>
  BY <1>3, TypesOfTunnel
<1>4. CASE ServerStep
  BY <1>4, TypesOfSocks, TypesOfHttp, TypesOfEcho DEF ServerStep
<1> QED
  BY <1>1, <1>2, <1>3, <1>4, TypesOfClient DEF Next

-----------------------------------------------------------------------------
(* Nothing has begun while the client has not connected. *)
LEMMA Begun ==
  ASSUME Types, Opening, ServerStep \/ Target
  PROVE  apc # "start"
BY DEF Opening, ServerStep, Target, RelayToClient, TargetEnds, CloseTunnel, Server, Accept,
       ReadGreeting, GreetingErr, ReadRequest, DialOk, DialFails, Relay, RelayToTarget,
       ServerTunnelEnds, HttpServer, HttpAccept, HttpReadErr, ReadHead, HttpDialOk,
       HttpDialFails, EchoServer, EchoAccept, EchoClose, EchoCopy, EchoRead, EchoReadEnds,
       EchoWrite, EchoWriteErr, Copies

(* Nothing comes back of what is lost: a part of nothing is nothing, and   *)
(* nothing is sent to an end that is not there.                            *)
LEMMA NothingLeft ==
  ASSUME Types, NEW max \in Nat, NEW k \in Pieces(up, max)
  PROVE  up # <<>> /\ k \in 0 .. Len(up) /\ Drop(up, k) \in Seq(Byte)
<1>1. k \in 1 .. Len(up) /\ up # <<>> /\ up \in Seq(Byte)
  BY Taken DEF Types, WireOK
<1>2. k \in 0 .. Len(up)
  BY <1>1, NotEmpty
<1> QED
  BY <1>1, <1>2, Divided

LEMMA NothingSent ==
  ASSUME NEW q, NEW m, NEW open
  PROVE  ~open \/ broken => Sent(q, m, open) = q
BY DEF Sent

(* What every server leaves of the connection, in the terms of Opening. *)
Leaving ==
  /\ ~cliOpen \/ broken => down' = <<>>
  /\ ~srvOpen' \/ broken => up' = <<>>

LEMMA LeavingByClosing ==
  ASSUME Types, Opening, NEW m \in Seq(Byte), NEW rest \in Seq(Byte), CloseSrv(m, rest)
  PROVE  Leaving
<1>1. up' = <<>> /\ (~cliOpen \/ broken => down' \in {<<>>, down})
  BY Closing DEF Types
<1> QED
  BY <1>1 DEF Leaving, Opening

LEMMA LeavingByTaking ==
  ASSUME Types, Opening, up # <<>>, srvOpen' = srvOpen,
         down' = down \/ \E m \in Seq(Byte) : down' = Sent(down, m, cliOpen)
  PROVE  Leaving
BY NothingSent DEF Opening, Leaving

LEMMA LeavingBySending ==
  ASSUME Types, Opening, up' = up, srvOpen' = srvOpen,
         down' = down \/ \E m \in Seq(Byte) : down' = Sent(down, m, cliOpen)
  PROVE  Leaving
BY NothingSent DEF Opening, Leaving

LEMMA OpeningOfServer ==
  ASSUME Types, Opening, UNCHANGED <<clientVars, cliOpen, fin, broken>>, apc # "start", Leaving,
         port # "echo" /\ spc' \notin {"closed", "done", "panic"} => srvOpen',
         port = "echo" => spc' = "accept"
  PROVE  Opening'
BY DEF Opening, Leaving, clientVars, chosen

LEMMA OpeningOfTunnel ==
  ASSUME Types, Opening, Relay \/ Target, UNCHANGED <<head, echoVars, clientVars>>
  PROVE  Opening'
<1>0. /\ spc = "tunnel" /\ port # "echo" /\ apc # "start" /\ srvOpen
      /\ UNCHANGED <<cliOpen, fin, broken>>
  BY DEF Opening, Relay, Target, RelayToTarget, RelayToClient, ServerTunnelEnds, TargetEnds, CloseTunnel, link
<1>1. CASE RelayToTarget
  <2>1. up # <<>> /\ down' = down /\ srvOpen' = srvOpen /\ spc' = spc
    BY <1>1 DEF RelayToTarget
  <2>2. Leaving
    BY <2>1, LeavingByTaking
  <2> QED
    BY <1>0, <2>1, <2>2, OpeningOfServer
<1>2. CASE RelayToClient
  <2>1. PICK x \in Byte : down' = Sent(down, <<x>>, cliOpen)
    BY <1>2, TargetSpeaks DEF Types
  <2>2. PICK m \in Seq(Byte) : down' = Sent(down, m, cliOpen)
    BY <2>1, One
  <2>3. up' = up /\ srvOpen' = srvOpen /\ spc' = spc
    BY <1>2 DEF RelayToClient
  <2>4. Leaving
    BY <2>2, <2>3, LeavingBySending
  <2> QED
    BY <1>0, <2>3, <2>4, OpeningOfServer
<1>3. CASE CloseTunnel
  <2>1. CloseSrv(<<>>, up) /\ spc' = "done" /\ up \in Seq(Byte) /\ <<>> \in Seq(Byte)
    BY <1>3, Empty DEF CloseTunnel, Types, WireOK
  <2>2. Leaving
    BY <2>1, LeavingByClosing
  <2> QED
    BY <1>0, <2>1, <2>2, OpeningOfServer
<1> QED
  BY <1>1, <1>2, <1>3 DEF Relay, Target, ServerTunnelEnds, TargetEnds

LEMMA OpeningOfSocks ==
  ASSUME Types, Opening, port = "socks", apc # "start", Server, UNCHANGED <<head, echoVars, clientVars>>
  PROVE  Opening'
<1>0. /\ <<>> \in Seq(Byte) /\ <<5, 0>> \in Seq(Byte) /\ BufLen \in Nat
      /\ \A c \in {0, 5, 7, 8} : Reply(c) \in Seq(Byte)
      /\ up \in Seq(Byte)
  BY Empty, ShortMessages, Replies, ServerAssumption DEF Byte, Types, WireOK
<1>1. CASE Relay
  BY <1>1, OpeningOfTunnel
<1>2. CASE ~Relay
  <2>0. UNCHANGED <<cliOpen, fin, broken>>
    BY <1>2 DEF Server, Accept, ReadGreeting, GreetingErr, ReadRequest, DialOk, DialFails, link, wireVars
  <2> SUFFICES Leaving /\ (spc' \notin {"closed", "done", "panic"} => srvOpen')
    BY <2>0, OpeningOfServer
  <2>1. CASE Accept
    BY <2>1, LeavingBySending DEF Accept, wireVars, Opening
  <2>2. CASE ReadGreeting
    <3>1. PICK k \in Pieces(up, BufLen) :
            \/ CloseSrv(<<>>, Drop(up, k)) /\ spc' = "closed"
            \/ /\ down' = Sent(down, <<5, 0>>, cliOpen)
               /\ spc' = "request" /\ UNCHANGED srvOpen
      BY <2>2 DEF ReadGreeting, ReadMax
    <3>2. up # <<>> /\ Drop(up, k) \in Seq(Byte) /\ spc = "greeting"
      BY <1>0, <2>2, NothingLeft DEF ReadGreeting
    <3> QED
      BY <1>0, <3>1, <3>2, LeavingByClosing, LeavingByTaking DEF Opening
  <2>3. CASE GreetingErr
    BY <1>0, <2>3, LeavingByClosing DEF GreetingErr
  <2>4. CASE ReadRequest
    <3>1. PICK k \in Pieces(up, BufLen) \cup {0} : Judge(b', k) /\ (k = 0 => UpFails)
      <4>1. CASE \E k \in Pieces(up, BufLen) : b' = Fill(k) /\ Judge(b', k)
        <5>1. PICK k \in Pieces(up, BufLen) : Judge(b', k)
          BY <4>1
        <5>2. k # 0
          BY <1>0, Taken DEF Types
        <5> QED
          BY <5>1, <5>2
      <4>2. CASE UpFails /\ Judge(b', 0)
        BY <4>2
      <4> QED
        BY <2>4, <4>1, <4>2 DEF ReadRequest, ReadMax
    <3>2. Drop(up, k) \in Seq(Byte) /\ (up = <<>> => Drop(up, k) = <<>>)
      <4>1. CASE k = 0
        BY <1>0, <4>1, Divided, DropAll, NotEmpty, Empty
      <4>2. CASE k \in Pieces(up, BufLen)
        BY <1>0, <4>2, NothingLeft
      <4> QED
        BY <4>1, <4>2
    <3>3. ASSUME NEW c \in {7, 8}, Refuse(c, Drop(up, k))
          PROVE  Leaving /\ spc' = "closed"
      BY <1>0, <3>2, <3>3, LeavingByClosing DEF Refuse
    <3>4. CASE Die(k)
      BY <1>0, <3>2, <3>4, LeavingByClosing DEF Die
    <3>5. CASE StartDial(b', k)
      <4>1. /\ spc = "request" /\ up' = Drop(up, k) /\ down' = down /\ srvOpen' = srvOpen
        BY <2>4, <3>5 DEF StartDial, ReadRequest
      <4> QED
        BY <3>2, <4>1 DEF Opening, Leaving
    <3> QED
      BY <3>1, <3>3, <3>4, <3>5 DEF Judge
  <2>5. CASE DialOk
    <3>1. /\ spc = "dialing" /\ down' = Sent(down, Reply(0), cliOpen)
          /\ up' = up /\ srvOpen' = srvOpen
      BY <2>5 DEF DialOk
    <3>2. Leaving
      BY <1>0, <3>1, LeavingBySending
    <3> QED
      BY <3>1, <3>2 DEF Opening
  <2>6. CASE DialFails
    BY <1>0, <2>6, LeavingByClosing DEF DialFails, Refuse
  <2> QED
    BY <1>2, <2>1, <2>2, <2>3, <2>4, <2>5, <2>6 DEF Server
<1> QED
  BY <1>1, <1>2

LEMMA OpeningOfHttp ==
  ASSUME Types, Opening, port = "http", apc # "start", HttpServer, UNCHANGED <<echoVars, clientVars>>
  PROVE  Opening'
<1>0. /\ <<>> \in Seq(Byte) /\ Established \in Seq(Byte) /\ HeadMax \in Nat
      /\ up \in Seq(Byte)
  BY Empty, ShortMessages, HttpAssumption DEF Types, WireOK
<1>1. CASE Relay /\ UNCHANGED head
  BY <1>1, OpeningOfTunnel
<1>2. CASE ~(Relay /\ UNCHANGED head)
  <2>0. UNCHANGED <<cliOpen, fin, broken>>
    BY <1>2 DEF HttpServer, HttpAccept, HttpReadErr, ReadHead, HttpDialOk, HttpDialFails, link, wireVars
  <2> SUFFICES Leaving /\ (spc' \notin {"closed", "done", "panic"} => srvOpen')
    BY <2>0, OpeningOfServer
  <2>1. CASE HttpAccept
    BY <2>1, LeavingBySending DEF HttpAccept, wireVars, Opening
  <2>2. CASE HttpReadErr
    BY <1>0, <2>2, LeavingByClosing DEF HttpReadErr
  <2>3. CASE ReadHead
    <3>1. PICK k \in Pieces(up, HeadMax) : NoNewline(k) \/ DoesNotParse(k) \/ HttpDials(k)
      BY <2>3 DEF ReadHead
    <3>2. up # <<>> /\ Drop(up, k) \in Seq(Byte) /\ spc = "first"
      BY <1>0, <2>3, NothingLeft DEF ReadHead
    <3>3. CASE NoNewline(k) \/ DoesNotParse(k)
      BY <1>0, <3>2, <3>3, LeavingByClosing DEF NoNewline, DoesNotParse
    <3>4. CASE HttpDials(k)
      BY <3>2, <3>4, LeavingByTaking DEF HttpDials, Opening
    <3> QED
      BY <3>1, <3>3, <3>4
  <2>4. CASE HttpDialOk
    <3>1. /\ spc = "dialing" /\ up' = up /\ srvOpen' = srvOpen
          /\ down' = down \/ down' = Sent(down, Established, cliOpen)
      BY <2>4 DEF HttpDialOk, AnswerOrForward
    <3>2. Leaving
      BY <1>0, <3>1, LeavingBySending
    <3> QED
      BY <3>1, <3>2 DEF Opening
  <2>5. CASE HttpDialFails
    BY <1>0, <2>5, LeavingByClosing DEF HttpDialFails
  <2> QED
    BY <1>2, <2>1, <2>2, <2>3, <2>4, <2>5 DEF HttpServer
<1> QED
  BY <1>1, <1>2

LEMMA OpeningOfEcho ==
  ASSUME Types, Opening, port = "echo", apc # "start", EchoServer, UNCHANGED <<serverVars, head, clientVars>>
  PROVE  Opening'
<1>0. <<>> \in Seq(Byte) /\ EchoMax \in Nat /\ up \in Seq(Byte) /\ chunk \in [Copiers -> Seq(Byte)]
  BY Empty, EchoAssumption DEF Types, WireOK
<1>1. UNCHANGED <<cliOpen, fin, broken>> /\ spc' = "accept"
  BY DEF EchoServer, EchoAccept, EchoClose, EchoCopy, EchoRead, EchoReadEnds, EchoWrite,
         EchoWriteErr, link, wireVars, serverVars, proxyVars, Opening
<1> SUFFICES Leaving
  BY <1>1, OpeningOfServer
<1>2. CASE EchoClose
  BY <1>0, <1>2, LeavingByClosing DEF EchoClose
<1>3. ASSUME NEW c \in Copiers, EchoRead(c)
      PROVE  Leaving
  <2>1. PICK k \in Pieces(up, EchoMax) : TRUE
    BY <1>3 DEF EchoRead
  <2>2. up # <<>>
    BY <1>0, <2>1, NothingLeft
  <2> QED
    BY <1>3, <2>2, LeavingByTaking DEF EchoRead
<1>4. ASSUME NEW c \in Copiers, EchoWrite(c)
      PROVE  Leaving
  BY <1>0, <1>4, LeavingBySending DEF EchoWrite
<1>5. CASE UNCHANGED wireVars
  BY <1>5, LeavingBySending DEF wireVars
<1> QED
  BY <1>2, <1>3, <1>4, <1>5 DEF EchoServer, EchoAccept, EchoCopy, EchoReadEnds, EchoWriteErr

LEMMA OpeningOfClient ==
  ASSUME Types, Opening, AnyClientStep
  PROVE  Opening'
<1> USE DEF Opening, clientVars, chosen, link, servers, serverVars, proxyVars, echoVars
<1>0. /\ spc' = spc /\ handler' = handler /\ port' = port
      /\ UNCHANGED broken
  BY DEF AnyClientStep, Connects, AsksFor, Speaks, Listens, ShutsDown, Leaves
<1>1. CASE Connects
  BY <1>0, <1>1 DEF Connects, Types
<1>2. CASE AsksFor
  <2>1. cliOpen /\ ~broken
    BY <1>2, Empty DEF AsksFor
  <2> QED
    BY <1>0, <1>2, <2>1, NothingSent DEF AsksFor
<1>3. CASE Speaks
  BY <1>0, <1>3, NothingSent DEF Speaks
<1>4. CASE Listens
  BY <1>0, <1>4 DEF Listens
<1>5. CASE ShutsDown
  BY <1>0, <1>5 DEF ShutsDown
<1>6. CASE Leaves
  BY <1>0, <1>6 DEF Leaves, CloseCli, AfterClose
<1> QED
  BY <1>1, <1>2, <1>3, <1>4, <1>5, <1>6 DEF AnyClientStep

LEMMA OpeningNext ==
  ASSUME Types, Opening, [Next]_vars
  PROVE  Opening'
<1>1. CASE WireBreaks /\ UNCHANGED <<servers, clientVars>>
  BY <1>1 DEF WireBreaks, Opening, servers, serverVars, proxyVars, echoVars, clientVars, chosen
<1>2. CASE UNCHANGED vars
  BY <1>2 DEF vars, wireVars, Opening, servers, serverVars, proxyVars, echoVars, clientVars, chosen
<1>3. CASE Target /\ UNCHANGED <<b, head, echoVars, clientVars>>
  BY <1>3, OpeningOfTunnel
<1>4. CASE ServerStep
  BY <1>4, Begun, OpeningOfSocks, OpeningOfHttp, OpeningOfEcho DEF ServerStep
<1> QED
  BY <1>1, <1>2, <1>3, <1>4, OpeningOfClient DEF Next

-----------------------------------------------------------------------------
LEMMA FourParts ==
  ASSUME NEW m \in Seq(Byte), NEW l \in Seq(Byte), NEW h \in Seq(Byte), NEW p \in Seq(Byte),
         NEW s, s = ((m \o l) \o h) \o p
  PROVE  /\ s \in Seq(Byte) /\ Len(s) = Len(m) + Len(l) + Len(h) + Len(p)
         /\ \A i \in 1 .. Len(m) : s[i] = m[i]
         /\ \A i \in 1 .. Len(h) : s[Len(m) + Len(l) + i] = h[i]
         /\ \A i \in 1 .. Len(p) : s[Len(m) + Len(l) + Len(h) + i] = p[i]
<1>1. Len(m) \in Nat /\ Len(l) \in Nat /\ Len(h) \in Nat /\ Len(p) \in Nat
  BY LenProperties
<1>2. PICK u \in Seq(Byte) : u = m \o l
  BY Joined
<1>3. Len(u) = Len(m) + Len(l) /\ \A i \in 1 .. Len(m) : u[i] = m[i]
  BY <1>2, Joined
<1>4. PICK v \in Seq(Byte) : v = u \o h
  BY Joined
<1>5. /\ Len(v) = Len(u) + Len(h) /\ \A i \in 1 .. Len(u) : v[i] = u[i]
      /\ \A i \in 1 .. Len(h) : v[Len(u) + i] = h[i]
  BY <1>4, Joined
<1>6. s = v \o p
  BY <1>2, <1>4
<1>7. /\ s \in Seq(Byte) /\ Len(s) = Len(v) + Len(p) /\ \A i \in 1 .. Len(v) : s[i] = v[i]
      /\ \A i \in 1 .. Len(p) : s[Len(v) + i] = p[i]
  BY <1>6, Joined
<1>8. ASSUME NEW i \in 1 .. Len(m) PROVE s[i] = m[i]
  <2>1. i \in 1 .. Len(u) /\ i \in 1 .. Len(v)
    BY <1>1, <1>3, <1>5
  <2> QED
    BY <1>3, <1>5, <1>7, <2>1
<1>9. ASSUME NEW i \in 1 .. Len(h) PROVE s[Len(m) + Len(l) + i] = h[i]
  <2>1. Len(u) + i \in 1 .. Len(v)
    BY <1>1, <1>3, <1>5
  <2> QED
    BY <1>3, <1>5, <1>7, <2>1
<1> QED
  BY <1>1, <1>3, <1>5, <1>7, <1>8, <1>9

(* Where the parts of a request are: the first four bytes, the length of a *)
(* name, the host, the port.                                               *)
LEMMA ByteOf ==
  ASSUME NEW q \in Nat
  PROVE  q % 256 \in Byte
<1>1. q % 256 \in Nat /\ q % 256 <= 255
  OBVIOUS
<1> QED
  BY <1>1 DEF Byte

LEMMA PortBytes ==
  ASSUME NEW q \in Nat, q < 65536
  PROVE  /\ q \div 256 \in Byte /\ q % 256 \in Byte
         /\ 256 * (q \div 256) + (q % 256) = q
<1>1. q \div 256 \in Nat /\ q \div 256 <= 255
  OBVIOUS
<1>2. 256 * (q \div 256) + (q % 256) = q
  OBVIOUS
<1> QED
  BY <1>1, <1>2, ByteOf DEF Byte

Message(c, t, l, h, x, y) == ((<<5, c, 0, t>> \o l) \o h) \o <<x, y>>

LaidOut(E, c, t, n, h, x, y) ==
  /\ E \in Seq(Byte) /\ Len(h) \in Nat /\ Len(E) = 4 + n + Len(h) + 2
  /\ E[1] = 5 /\ E[2] = c /\ E[4] = t
  /\ \A i \in 1 .. Len(h) : E[4 + n + i] = h[i]
  /\ E[Len(E) - 1] = x /\ E[Len(E)] = y

LEMMA Layout ==
  ASSUME NEW c \in Byte, NEW t \in Byte, NEW l \in Seq(Byte), Len(l) \in {0, 1},
         NEW h \in Seq(Byte), NEW x \in Byte, NEW y \in Byte,
         NEW E, E = Message(c, t, l, h, x, y)
  PROVE  LaidOut(E, c, t, Len(l), h, x, y)
<1> DEFINE m == <<5, c, 0, t>>
           p == <<x, y>>
<1>1. m \in Seq(Byte) /\ Len(m) = 4 /\ m[1] = 5 /\ m[2] = c /\ m[4] = t
  <2>1. 5 \in Byte /\ 0 \in Byte
    BY DEF Byte
  <2> QED
    BY <2>1
<1>2. p \in Seq(Byte) /\ Len(p) = 2 /\ p[1] = x /\ p[2] = y
  OBVIOUS
<1>3. E = ((m \o l) \o h) \o p
  BY DEF Message
<1> HIDE DEF m, p
<1>4. /\ E \in Seq(Byte) /\ Len(E) = Len(m) + Len(l) + Len(h) + Len(p)
      /\ \A i \in 1 .. Len(m) : E[i] = m[i]
      /\ \A i \in 1 .. Len(h) : E[Len(m) + Len(l) + i] = h[i]
      /\ \A i \in 1 .. Len(p) : E[Len(m) + Len(l) + Len(h) + i] = p[i]
  <2>1. m \in Seq(Byte) /\ l \in Seq(Byte) /\ h \in Seq(Byte) /\ p \in Seq(Byte)
    BY <1>1, <1>2
  <2> QED
    BY <1>3, <2>1, FourParts, SMT
<1>5. Len(h) \in Nat /\ Len(l) \in Nat
  BY LenProperties
<1>6. E[1] = 5 /\ E[2] = c /\ E[4] = t
  <2>1. 1 \in 1 .. Len(m) /\ 2 \in 1 .. Len(m) /\ 4 \in 1 .. Len(m)
    BY <1>1
  <2> QED
    BY <1>1, <1>4, <2>1
<1>7. \A i \in 1 .. Len(h) : E[4 + Len(l) + i] = h[i]
  BY <1>1, <1>4
<1>8. Len(E) = 4 + Len(l) + Len(h) + 2
  BY <1>1, <1>2, <1>4
<1>9. E[Len(E) - 1] = x /\ E[Len(E)] = y
  <2>1. 1 \in 1 .. Len(p) /\ 2 \in 1 .. Len(p)
    BY <1>2
  <2>2. /\ E[Len(m) + Len(l) + Len(h) + 1] = p[1]
        /\ E[Len(m) + Len(l) + Len(h) + 2] = p[2]
    BY <1>4, <2>1
  <2>3. /\ Len(E) - 1 = Len(m) + Len(l) + Len(h) + 1
        /\ Len(E) = Len(m) + Len(l) + Len(h) + 2
    BY <1>1, <1>5, <1>8
  <2> QED
    BY <1>2, <2>2, <2>3
<1> QED
  BY <1>4, <1>5, <1>6, <1>7, <1>8, <1>9 DEF LaidOut

(* E is a request with command c for the address that r says. *)
Carries(E, c, r) ==
  \E x \in Byte, y \in Byte :
     /\ 256 * x + y = r.port
     /\ LaidOut(E, c, r.atyp, IF r.atyp = Domain THEN 1 ELSE 0, r.host, x, y)

LEMMA Carried ==
  ASSUME NEW c \in Byte, NEW l \in Seq(Byte), NEW r, r.atyp \in Byte, r.host \in Seq(Byte),
         Len(l) = IF r.atyp = Domain THEN 1 ELSE 0,
         NEW x \in Byte, NEW y \in Byte, 256 * x + y = r.port,
         NEW E, E = Message(c, r.atyp, l, r.host, x, y)
  PROVE  Carries(E, c, r) /\ E \in Seq(Byte) /\ E # <<>>
<1>1. PICK t \in Byte, h \in Seq(Byte) : t = r.atyp /\ h = r.host
  OBVIOUS
<1>2. E = Message(c, t, l, h, x, y) /\ Len(l) \in {0, 1}
  BY <1>1
<1>3. LaidOut(E, c, t, Len(l), h, x, y)
  BY <1>2, Layout
<1>4. Carries(E, c, r)
  BY <1>1, <1>3 DEF Carries
<1>5. E \in Seq(Byte) /\ E # <<>>
  BY <1>2, <1>3, Empty DEF LaidOut
<1> QED
  BY <1>4, <1>5

(* handleConnection reads from its array what such a request says.         *)
Reads(a, k, c, t, h, q) ==
  /\ k # 0 /\ a[1] = c /\ a[3] = t
  /\ t \in Atyps => ~Panics(a, k) /\ Address(a, k) = [atyp |-> t, host |-> h, port |-> q]

LEMMA PartsRead ==
  ASSUME NEW c, NEW t, NEW n \in {0, 1}, (t = Domain) <=> (n = 1), NEW h \in Seq(Byte),
         t = IPv4 => Len(h) = 4, t = IPv6 => Len(h) = 16,
         NEW x \in Byte, NEW y \in Byte, NEW q, q = 256 * x + y,
         LaidOut(up, c, t, n, h, x, y), NEW k, k = Len(up), k <= BufLen, b' = Fill(k)
  PROVE  Reads(b', k, c, t, h, q)
<1>1. /\ Len(h) \in Nat /\ k = 4 + n + Len(h) + 2 /\ up[2] = c /\ up[4] = t
      /\ up[k - 1] = x /\ up[k] = y
      /\ \A i \in 1 .. Len(h) : up[4 + n + i] = h[i]
  BY DEF LaidOut
<1>2. ASSUME NEW i \in 0 .. k - 1 PROVE b'[i] = up[i + 1]
  <2>1. i \in 0 .. BufLen - 1 /\ i < k
    BY <1>1, ServerAssumption
  <2> QED
    BY <2>1 DEF Fill
<1>3. b'[1] = c /\ b'[3] = t /\ k # 0
  <2>1. 1 \in 0 .. k - 1 /\ 3 \in 0 .. k - 1 /\ k # 0
    BY <1>1
  <2>2. b'[1] = up[1 + 1] /\ b'[3] = up[3 + 1]
    BY <1>2, <2>1
  <2> QED
    BY <1>1, <2>1, <2>2
<1>4. ~Panics(b', k)
  BY <1>1, <1>3 DEF Panics
<1>5. Port(b', k) = q
  <2>1. k - 2 \in 0 .. k - 1 /\ k - 1 \in 0 .. k - 1 /\ k - 2 + 1 = k - 1 /\ k - 1 + 1 = k
    BY <1>1
  <2>2. b'[k - 2] = up[k - 1] /\ b'[k - 1] = up[k]
    BY <1>2, <2>1
  <2> QED
    BY <1>1, <2>2 DEF Port
<1>6. ASSUME NEW i \in 1 .. Len(h) PROVE b'[4 + n + i - 1] = h[i]
  <2>1. 4 + n + i - 1 \in 0 .. k - 1 /\ 4 + n + i - 1 + 1 = 4 + n + i
    BY <1>1
  <2> QED
    BY <1>1, <1>2, <2>1
<1>7. h = [i \in 1 .. Len(h) |-> h[i]]
  BY LenProperties
<1>8. CASE t = IPv4
  <2>1. Len(h) = 4 /\ n = 0
    BY <1>8 DEF IPv4, Domain
  <2>2. Take(b', 4, 8) = h
    <3>1. Take(b', 4, 8) = [i \in 1 .. Len(h) |-> b'[4 + n + i - 1]]
      BY <2>1 DEF Take
    <3> QED
      BY <1>6, <1>7, <3>1
  <2> QED
    BY <1>3, <1>4, <1>5, <1>8, <2>2 DEF Reads, Address, IPv4, IPv6, Domain
<1>9. CASE t = IPv6
  <2>1. Len(h) = 16 /\ n = 0
    BY <1>9 DEF IPv6, Domain
  <2>2. Take(b', 4, 20) = h
    <3>1. Take(b', 4, 20) = [i \in 1 .. Len(h) |-> b'[4 + n + i - 1]]
      BY <2>1 DEF Take
    <3> QED
      BY <1>6, <1>7, <3>1
  <2> QED
    BY <1>3, <1>4, <1>5, <1>9, <2>2 DEF Reads, Address, IPv4, IPv6, Domain
<1>10. CASE t = Domain
  <2>1. k - 2 - 5 = Len(h) /\ n = 1
    BY <1>1, <1>10
  <2>2. Take(b', 5, k - 2) = h
    <3>1. Take(b', 5, k - 2) = [i \in 1 .. Len(h) |-> b'[4 + n + i - 1]]
      BY <2>1 DEF Take
    <3> QED
      BY <1>6, <1>7, <3>1
  <2> QED
    BY <1>3, <1>4, <1>5, <1>10, <2>2 DEF Reads, Address, IPv4, IPv6, Domain
<1> QED
  BY <1>3, <1>8, <1>9, <1>10 DEF Reads, Atyps

LEMMA Understood ==
  ASSUME NEW r, r.host \in Seq(Byte), r.atyp = IPv4 => Len(r.host) = 4,
         r.atyp = IPv6 => Len(r.host) = 16,
         NEW c, Carries(up, c, r), NEW k, k = Len(up), k <= BufLen, b' = Fill(k)
  PROVE  Reads(b', k, c, r.atyp, r.host, r.port)
<1> DEFINE n == IF r.atyp = Domain THEN 1 ELSE 0
<1>1. PICK x \in Byte, y \in Byte :
        256 * x + y = r.port /\ LaidOut(up, c, r.atyp, n, r.host, x, y)
  BY DEF Carries
<1>2. n \in {0, 1} /\ ((r.atyp = Domain) <=> (n = 1))
  OBVIOUS
<1> HIDE DEF n
<1>3. PICK h \in Seq(Byte) : h = r.host
  OBVIOUS
<1>4. /\ LaidOut(up, c, r.atyp, n, h, x, y)
      /\ (r.atyp = IPv4 => Len(h) = 4) /\ (r.atyp = IPv6 => Len(h) = 16)
  BY <1>1, <1>3
<1>5. Reads(b', k, c, r.atyp, h, r.port)
  BY <1>1, <1>2, <1>4, PartsRead, ZenonT(40)
<1> QED
  BY <1>3, <1>5

(* What the client of AnyClient asks for. *)
LEMMA Encoding ==
  ASSUME Types
  PROVE  /\ Carries(Encoded(request), request.cmd, request)
         /\ Encoded(request) \in Seq(Byte) /\ Encoded(request) # <<>>
<1> DEFINE len == IF request.atyp = Domain THEN <<Len(request.host)>> ELSE <<>>
<1>1. /\ request.cmd \in Byte /\ request.atyp \in Byte /\ request.host \in Seq(Byte)
      /\ request.port \in Nat /\ request.port < 65536
      /\ request.atyp = Domain => Len(request.host) \in Byte
  <2>1. request \in Requests
    BY DEF Types
  <2> QED
    BY <2>1, ClientAssumption
<1>2. len \in Seq(Byte) /\ Len(len) = IF request.atyp = Domain THEN 1 ELSE 0
  <2>1. CASE request.atyp = Domain
    BY <1>1, <2>1, One
  <2>2. CASE request.atyp # Domain
    BY <2>2, Empty
  <2> QED
    BY <2>1, <2>2
<1>3. PICK x \in Byte, y \in Byte : x = request.port \div 256 /\ y = request.port % 256
  BY <1>1, PortBytes
<1>4. Encoded(request) = Message(request.cmd, request.atyp, len, request.host, x, y)
  BY <1>3 DEF Encoded, Message
<1>5. 256 * x + y = request.port
  BY <1>1, <1>3, PortBytes
<1> HIDE DEF len
<1> QED
  BY <1>1, <1>2, <1>4, <1>5, Carried

(* It is understood. *)
LEMMA Decoding ==
  ASSUME Types, port = "socks", NEW k, k = Len(up), up = Encoded(request), b' = Fill(k)
  PROVE  /\ k # 0 /\ b'[1] = request.cmd /\ b'[3] = request.atyp
         /\ request.atyp \in Atyps => ~Panics(b', k) /\ Address(b', k) = Wanted
<1>1. /\ request.host \in Seq(Byte) /\ k <= BufLen
      /\ request.atyp = IPv4 => Len(request.host) = 4
      /\ request.atyp = IPv6 => Len(request.host) = 16
  <2>1. request \in Requests
    BY DEF Types
  <2> QED
    BY <2>1, ClientAssumption
<1>2. Carries(up, request.cmd, request)
  BY Encoding
<1>3. Reads(b', k, request.cmd, request.atyp, request.host, request.port)
  BY <1>1, <1>2, Understood
<1> QED
  BY <1>3 DEF Reads, Wanted
-----------------------------------------------------------------------------
(* Before the tunnel of socks.go. *)
LEMMA SocksOfClient ==
  ASSUME Types, Opening, SocksInv, port = "socks", whole, AnyClientStep
  PROVE  SocksInv'
<1> USE DEF clientVars, chosen, servers, serverVars, proxyVars, link
<1>0. /\ UNCHANGED <<spc, b, dialed, broken, whole, port, greeting, request>>
      /\ up \in Seq(Byte) /\ down \in Seq(Byte) /\ answer \in Seq(Byte)
  BY DEF AnyClientStep, Connects, AsksFor, Speaks, Listens, ShutsDown, Leaves, Types, WireOK
<1>1. /\ ~ IsPrefixOf(Reply(0), <<>>)
      /\ \A a \in Refusal : ~ IsPrefixOf(Reply(0), a)
  <2>1. \A c \in Fitting \ {0} : c \in Byte \ {0}
    BY DEF Fitting, Byte
  <2>2. 5 \in Byte \ {0}
    BY DEF Byte
  <2> QED
    BY <2>1, <2>2, Refusals DEF Refusal
<1>2. Encoded(request) \in Seq(Byte)
  BY Chosen
<1>3. Refusal' = Refusal /\ Wanted' = Wanted /\ Encoded(request)' = Encoded(request)
  BY <1>0 DEF Refusal, Fitting, Wanted, Encoded, Reply
<1>4. ASSUME AtGreeting, spc \in {"accept", "greeting"}
      PROVE  AtGreeting'
  <2>1. CASE Connects
    BY <1>0, <1>4, <2>1 DEF Connects, AtGreeting, FirstMessage
  <2>2. CASE AsksFor \/ Speaks \/ Listens
    BY <1>4, <2>2, Empty DEF AsksFor, Speaks, Listens, AtGreeting
  <2>3. CASE ShutsDown
    BY <1>0, <1>4, <2>3 DEF ShutsDown, AtGreeting
  <2>4. CASE Leaves
    BY <1>0, <1>4, <2>4 DEF Leaves, CloseCli, AfterClose, AtGreeting
  <2> QED
    BY <2>1, <2>2, <2>3, <2>4 DEF AnyClientStep
<1>5. ASSUME AtRequest, spc = "request"
      PROVE  AtRequest'
  <2>1. CASE Connects \/ Speaks \/ Listens
    BY <1>1, <1>5, <2>1 DEF Connects, Speaks, Listens, MaySpeak, AtRequest, Opening
  <2>2. CASE AsksFor
    <3>1. srvOpen /\ up = <<>> /\ UNCHANGED <<said, answer>> /\ apc' = "requested"
      BY <1>5, <2>2 DEF AsksFor, Opening, AtRequest
    <3>2. down' = <<>>
      <4>1. down = <<5, 0>> /\ down' = Drop(down, 2)
        BY <1>5, <2>2, Empty DEF AsksFor, AtRequest
      <4> QED
        BY <1>0, <4>1, DropAll
    <3>3. up' = IF ~broken THEN Encoded(request) ELSE <<>>
      BY <1>2, <2>2, <3>1, Joined, Empty DEF AsksFor, Sent
    <3> QED
      BY <1>0, <1>3, <1>5, <3>1, <3>3, <3>2 DEF AtRequest
  <2>3. CASE ShutsDown
    BY <1>0, <1>3, <1>5, <2>3 DEF ShutsDown, AtRequest
  <2>4. CASE Leaves
    BY <1>0, <1>3, <1>5, <2>4 DEF Leaves, CloseCli, AfterClose, AtRequest
  <2> QED
    BY <2>1, <2>2, <2>3, <2>4 DEF AnyClientStep
<1>6. ASSUME AtDial, Asked, spc = "dialing"
      PROVE  AtDial'
  <2>1. CASE Connects \/ AsksFor \/ Speaks \/ Listens
    BY <1>1, <1>6, <2>1 DEF Connects, AsksFor, Speaks, Listens, MaySpeak, AtDial, Asked
  <2>2. CASE ShutsDown
    BY <1>6, <2>2 DEF ShutsDown, AtDial
  <2>3. CASE Leaves
    BY <1>6, <2>3 DEF Leaves, CloseCli, AfterClose, AtDial
  <2> QED
    BY <2>1, <2>2, <2>3 DEF AnyClientStep
<1>7. ASSUME Asked
      PROVE  Asked'
  <2>1. apc \in {"requested", "left"}
    BY <1>7 DEF Asked
  <2>2. apc' \in {apc, "left"}
    <3>1. CASE Connects \/ AsksFor
      BY <2>1, <3>1 DEF Connects, AsksFor
    <3>2. CASE Speaks \/ Listens \/ ShutsDown
      BY <3>2 DEF Speaks, Listens, ShutsDown
    <3>3. CASE Leaves
      BY <3>3 DEF Leaves
    <3> QED
      BY <3>1, <3>2, <3>3 DEF AnyClientStep
  <2>3. apc' \in {"requested", "left"}
    BY <2>1, <2>2
  <2>4. request' = request /\ dialed' = dialed
    BY <1>0
  <2>5. dialed' = Wanted'
    BY <1>3, <1>7, <2>4 DEF Asked
  <2>6. request'.cmd = 1 /\ request'.atyp \in Atyps
    BY <1>7, <2>4 DEF Asked
  <2> QED
    BY <2>3, <2>5, <2>6 DEF Asked
<1>8. ASSUME Refused, spc = "closed"
      PROVE  Refused'
  <2>1. CASE Connects \/ AsksFor \/ Speaks
    <3>1. ~AsksFor
      <4>1. AsksFor => ~fin /\ apc = "greeted" /\ Len(down) >= 2
        BY DEF AsksFor
      <4> QED
        BY <1>8, <4>1, Empty DEF Refused
    <3> QED
      BY <1>1, <1>8, <2>1, <3>1 DEF Connects, Speaks, MaySpeak, Refused, Opening
  <2>2. CASE Listens
    <3>1. /\ apc = "requested" /\ apc' = apc /\ said' = said
          /\ answer' = answer \o down /\ down' = <<>>
      BY <2>2 DEF Listens
    <3>2. answer' \o down' = answer'
      BY <1>0, <3>1, Joined
    <3> QED
      BY <1>3, <1>8, <3>1, <3>2 DEF Refused
  <2>3. CASE ShutsDown
    BY <1>3, <1>8, <2>3 DEF ShutsDown, Refused
  <2>4. CASE Leaves
    BY <1>3, <1>8, <2>4 DEF Leaves, Refused
  <2> QED
    BY <2>1, <2>2, <2>3, <2>4 DEF AnyClientStep
<1> QED
  BY <1>0, <1>4, <1>5, <1>6, <1>7, <1>8 DEF SocksInv

(* A refusal that the client is there to read fits what it has asked for.  *)
LEMMA RefusedBy ==
  ASSUME Types, Opening, port = "socks", NEW c \in Fitting \ {0}, NEW rest,
         rest = <<>>, Refuse(c, rest),
         said = <<>>, answer = <<>>, apc # "greeted", apc = "requested" => down = <<>>,
         UNCHANGED <<clientVars, cliOpen, fin, broken>>
  PROVE  Refused'
<1>1. c \in Byte /\ Reply(c) \in Seq(Byte)
  <2>1. c \in Byte
    BY DEF Fitting, Byte
  <2> QED
    BY <2>1, Replies
<1>2. UNCHANGED <<apc, said, answer>> /\ Refusal' = Refusal
  BY DEF clientVars, chosen, Refusal, Fitting, Reply
<1>3. ASSUME apc = "requested"
      PROVE  answer' \o down' \in {<<>>} \cup Refusal
  <2>1. down' = Sent(down, Reply(c), cliOpen)
    BY <1>1, Closing, Empty DEF Refuse, Types
  <2>2. down' \in {<<>>, Reply(c)}
    BY <1>1, <1>3, <2>1, Joined, Empty DEF Sent
  <2>3. answer' = <<>> /\ answer' \o down' = down'
    BY <1>1, <1>2, <2>2, Joined, Empty
  <2> QED
    BY <2>2, <2>3 DEF Refusal
<1> QED
  BY <1>2, <1>3 DEF Refused

LEMMA SocksOfReadRequest ==
  ASSUME Types, Opening, Opening', SocksInv, port = "socks", whole, ReadRequest,
         UNCHANGED clientVars
  PROVE  SocksInv'
<1>0. /\ spc = "request" /\ AtRequest /\ whole /\ apc # "start" /\ apc' = apc
      /\ UNCHANGED <<cliOpen, fin, broken, whole, port, greeting, request, said, answer>>
      /\ up \in Seq(Byte) /\ BufLen \in Nat
  BY ServerAssumption DEF ReadRequest, SocksInv, Opening, link, clientVars, chosen, Types, WireOK
<1>1. CASE \E k \in Pieces(up, BufLen) : b' = Fill(k) /\ Judge(b', k)
  <2>1. PICK k \in Pieces(up, BufLen) : b' = Fill(k) /\ Judge(b', k)
    BY <1>1
  <2>2. up # <<>> /\ up = Encoded(request) /\ apc \in {"requested", "left"}
    BY <1>0, <2>1, Taken DEF Types, AtRequest
  <2>3. Len(up) <= BufLen
    <3>1. request \in Requests
      BY DEF Types
    <3> QED
      BY <2>2, <3>1, ClientAssumption
  <2>4. k = Len(up) /\ Drop(up, k) = <<>>
    BY <1>0, <2>1, <2>3, Taken, DropAll DEF Types
  <2>5. /\ b'[1] = request.cmd /\ b'[3] = request.atyp
        /\ request.atyp \in Atyps => ~Panics(b', k) /\ Address(b', k) = Wanted
    BY <2>1, <2>2, <2>4, Decoding
  <2>6. ASSUME NEW c \in Fitting \ {0}, Refuse(c, Drop(up, k))
        PROVE  SocksInv'
    <3>1. said = <<>> /\ answer = <<>> /\ (apc = "requested" => down = <<>>)
      BY <1>0 DEF AtRequest
    <3>2. Refused'
      BY <1>0, <2>2, <2>4, <2>6, <3>1, RefusedBy
    <3> QED
      BY <1>0, <2>6, <3>2 DEF SocksInv, Refuse
  <2>7. CASE StartDial(b', k) /\ b'[1] = 1 /\ b'[3] \in Atyps
    <3>1. up' = <<>> /\ down' = down /\ spc' = "dialing" /\ dialed' = Wanted
      BY <2>4, <2>5, <2>7 DEF StartDial
    <3>2. Wanted' = Wanted
      BY <1>0 DEF Wanted
    <3>3. AtDial' /\ Asked'
      BY <1>0, <2>2, <2>5, <2>7, <3>1, <3>2 DEF AtDial, Asked, AtRequest
    <3> QED
      BY <1>0, <3>1, <3>3 DEF SocksInv
  <2>8. CASE b'[1] # 1 /\ Refuse(7, Drop(up, k))
    BY <2>5, <2>6, <2>8 DEF Fitting
  <2>9. CASE b'[1] = 1 /\ b'[3] \notin Atyps /\ Refuse(8, Drop(up, k))
    BY <2>5, <2>6, <2>9 DEF Fitting
  <2> QED
    BY <2>1, <2>5, <2>7, <2>8, <2>9 DEF Judge
<1>2. CASE UpFails /\ UNCHANGED b /\ Judge(b', 0)
  <2>1. spc' = "closed"
    BY <1>0, <1>2 DEF Judge, Refuse, AtRequest, Atyps, IPv4, IPv6, Domain
  <2>2. apc = "requested" => broken
    <3>1. Encoded(request) # <<>>
      BY Encoding
    <3> QED
      BY <1>0, <1>2, <3>1 DEF UpFails, AtRequest, Opening
  <2>3. apc = "greeted" => broken \/ fin
    BY <1>0, <1>2 DEF UpFails, Opening
  <2>4. broken => down' = <<>>
    BY <1>0 DEF Opening
  <2>5. answer' = <<>> /\ said' = <<>> /\ (apc = "requested" => answer' \o down' = <<>>)
    BY <1>0, <2>2, <2>4, Joined, Empty DEF AtRequest
  <2>6. Refused'
    BY <1>0, <2>3, <2>4, <2>5 DEF Refused
  <2> QED
    BY <1>0, <2>1, <2>6 DEF SocksInv
<1> QED
  BY <1>1, <1>2 DEF ReadRequest, ReadMax

LEMMA SocksOfServer ==
  ASSUME Types, Opening, Opening', SocksInv, port = "socks", whole, Server,
         UNCHANGED clientVars
  PROVE  SocksInv'
<1>0. /\ UNCHANGED <<whole, port, greeting, request, apc, said, answer>>
      /\ whole /\ up \in Seq(Byte) /\ BufLen \in Nat /\ BufLen >= 22
      /\ Wanted' = Wanted
  BY ServerAssumption
     DEF Server, Accept, ReadGreeting, GreetingErr, ReadRequest, DialOk, DialFails, Relay,
         RelayToTarget, ServerTunnelEnds, CloseTunnel, link, wireVars, clientVars, chosen,
         SocksInv, Types, WireOK, Wanted
<1>1. CASE Accept
  BY <1>0, <1>1 DEF Accept, wireVars, SocksInv, AtGreeting
<1>2. ASSUME AtGreeting, spc' = "closed", down' = <<>>
      PROVE  SocksInv'
  <2>1. answer' \o down' = <<>> /\ answer' = <<>> /\ said' = <<>>
    BY <1>0, <1>2, Joined, Empty DEF AtGreeting
  <2>2. Refused'
    BY <1>2, <2>1 DEF Refused
  <2> QED
    BY <1>0, <1>2, <2>2 DEF SocksInv
<1>3. CASE ReadGreeting
  <2>0. AtGreeting /\ spc = "greeting"
    BY <1>3 DEF ReadGreeting, SocksInv
  <2>1. PICK k \in Pieces(up, BufLen) :
          /\ b' = Fill(k)
          /\ \/ CloseSrv(<<>>, Drop(up, k)) /\ spc' = "closed"
             \/ /\ b'[0] = 5
                /\ up' = Drop(up, k) /\ down' = Sent(down, <<5, 0>>, cliOpen)
                /\ spc' = "request"
    BY <1>3 DEF ReadGreeting, ReadMax
  <2>2. /\ up = greeting /\ k \in 1 .. Len(up) /\ k <= BufLen
        /\ Drop(up, k) \in Seq(Byte) /\ Len(up) \in Nat
        /\ Len(up) <= BufLen => k = Len(up)
    <3>1. /\ up # <<>> /\ k \in 1 .. Len(up) /\ k <= BufLen
          /\ Len(up) <= BufLen => k = Len(up)
      BY <1>0, <2>1, Taken DEF Types
    <3> QED
      BY <1>0, <2>0, <2>1, <3>1, NothingLeft, NotEmpty DEF AtGreeting
  <2>3. CASE CloseSrv(<<>>, Drop(up, k)) /\ spc' = "closed"
    <3>1. down' = <<>>
      BY <2>0, <2>2, <2>3, Closing, Empty DEF AtGreeting, Types
    <3> QED
      BY <1>2, <2>0, <2>3, <3>1
  <2>4. CASE b'[0] = 5 /\ up' = Drop(up, k) /\ spc' = "request"
             /\ down' = Sent(down, <<5, 0>>, cliOpen)
    <3>1. b'[0] = up[1]
      BY <1>0, <2>1, <2>2 DEF Fill
    <3>2. Len(up) >= 2 /\ Len(up) = 2 + up[2] /\ Len(up) <= BufLen
      <4>1. greeting \in Greetings
        BY DEF Types
      <4> QED
        BY <2>2, <2>4, <3>1, <4>1, ClientAssumption
    <3>3. k = Len(up) /\ up' = <<>>
      BY <1>0, <2>2, <2>4, <3>2, DropAll
    <3>4. b'[1] = 1 => b'[3] = 0
      <4>1. b'[1] = up[2]
        BY <1>0, <2>1, <2>2, <3>2, <3>3 DEF Fill
      <4>2. k = 3 => b'[3] = b[3]
        BY <1>0, <2>1 DEF Fill
      <4>3. b[3] = 0
        BY <1>0, <2>0 DEF AtGreeting
      <4> QED
        BY <3>2, <3>3, <4>1, <4>2, <4>3
    <3>5. down' \in {<<>>, <<5, 0>>}
      <4>1. down = <<>> /\ <<5, 0>> \in Seq(Byte)
        BY <2>0, ShortMessages DEF AtGreeting
      <4>2. <<>> \o <<5, 0>> = <<5, 0>>
        BY <4>1, Joined, Empty
      <4> QED
        BY <2>4, <4>1, <4>2 DEF Sent
    <3>6. AtRequest'
      BY <1>0, <2>0, <3>3, <3>4, <3>5 DEF AtRequest, AtGreeting
    <3> QED
      BY <1>0, <2>4, <3>6 DEF SocksInv
  <2> QED
    BY <2>1, <2>3, <2>4
<1>4. CASE GreetingErr
  <2>1. AtGreeting /\ CloseSrv(<<>>, <<>>) /\ spc' = "closed"
    BY <1>4 DEF GreetingErr, SocksInv
  <2>2. down' = <<>>
    BY <2>1, Closing, Empty DEF AtGreeting, Types
  <2> QED
    BY <1>2, <2>1, <2>2
<1>5. CASE ReadRequest
  BY <1>5, SocksOfReadRequest
<1>6. CASE DialOk
  <2>1. Asked /\ spc' = "tunnel" /\ dialed' = dialed
    BY <1>6 DEF DialOk, SocksInv
  <2>2. Asked'
    BY <1>0, <2>1 DEF Asked
  <2> QED
    BY <1>0, <2>1, <2>2 DEF SocksInv
<1>7. CASE DialFails
  <2>1. /\ Asked /\ AtDial /\ Refuse(5, up) /\ spc' = "closed"
        /\ UNCHANGED <<cliOpen, fin, broken>>
    BY <1>7 DEF DialFails, Refuse, SocksInv, link
  <2>2. 5 \in Fitting \ {0}
    BY <2>1 DEF Fitting, Asked
  <2>3. Refused'
    BY <2>1, <2>2, RefusedBy DEF AtDial, Asked
  <2> QED
    BY <1>0, <2>1, <2>3 DEF SocksInv
<1>8. CASE Relay
  <2>1. spc' \in {"tunnel", "done"} /\ Asked /\ dialed' = dialed
    BY <1>8 DEF Relay, RelayToTarget, ServerTunnelEnds, CloseTunnel, SocksInv
  <2>2. Asked'
    BY <1>0, <2>1 DEF Asked
  <2> QED
    BY <1>0, <2>1, <2>2 DEF SocksInv
<1> QED
  BY <1>1, <1>3, <1>4, <1>5, <1>6, <1>7, <1>8 DEF Server

LEMMA SocksNext ==
  ASSUME Types, Opening, Opening', SocksInv, [Next]_vars
  PROVE  SocksInv'
<1> USE DEF clientVars, chosen, servers, serverVars, proxyVars, link
<1>0. port' = port /\ whole' = whole
  BY Constant
<1> SUFFICES ASSUME port = "socks", whole PROVE SocksInv'
  BY <1>0 DEF SocksInv
<1>1. CASE WireBreaks /\ UNCHANGED <<servers, clientVars>>
  <2>1. /\ UNCHANGED <<spc, b, dialed, whole, port, greeting, request, apc, said, answer, fin>>
        /\ broken' /\ up' = <<>> /\ down' = <<>>
    BY <1>1 DEF WireBreaks
  <2>2. Wanted' = Wanted /\ Refusal' = Refusal
    BY <2>1 DEF Wanted, Refusal, Fitting, Reply
  <2>3. answer' \o down' = answer
    BY <2>1, Joined, Empty DEF Types
  <2>4. AtGreeting => AtGreeting'
    BY <2>1 DEF AtGreeting
  <2>5. AtRequest => AtRequest'
    BY <2>1 DEF AtRequest
  <2>6. (AtDial => AtDial') /\ (Asked => Asked')
    BY <2>1, <2>2 DEF AtDial, Asked
  <2>7. Refused => Refused'
    BY <2>1, <2>2, <2>3 DEF Refused
  <2> QED
    BY <2>1, <2>4, <2>5, <2>6, <2>7 DEF SocksInv
<1>2. CASE UNCHANGED vars
  BY <1>2, ZenonT(40) DEF vars, wireVars, SocksInv, AtGreeting, AtRequest, AtDial, Asked, Refused, Refusal,
              Fitting, Reply, Wanted, Encoded
<1>3. CASE Target /\ UNCHANGED <<b, head, echoVars, clientVars>>
  <2>1. /\ UNCHANGED <<dialed, whole, port, request, apc>>
        /\ spc = "tunnel" /\ spc' \in {"tunnel", "done"}
    BY <1>3 DEF Target, RelayToClient, TargetEnds, CloseTunnel
  <2>2. Asked /\ Wanted' = Wanted
    BY <2>1 DEF SocksInv, Wanted
  <2>3. Asked'
    BY <2>1, <2>2 DEF Asked
  <2> QED
    BY <2>1, <2>3 DEF SocksInv
<1>4. CASE ServerStep
  BY <1>4, SocksOfServer DEF ServerStep
<1> QED
  BY <1>1, <1>2, <1>3, <1>4, SocksOfClient DEF Next

-----------------------------------------------------------------------------
(* The first line of what has been read is that of the head.  A set of     *)
(* numbers has a least one, as a family of finite sets has a minimal one.  *)
LEMMA LeastOf ==
  ASSUME NEW T \in SUBSET Nat, T # {}
  PROVE  \E m \in T : \A k \in T : m <= k
<1> DEFINE Upto == {0 .. m : m \in T}
<1>1. Upto \subseteq FiniteSubsetsOf(Nat) /\ Upto # {}
  <2>1. ASSUME NEW m \in T PROVE 0 .. m \in FiniteSubsetsOf(Nat)
    <3>1. 0 \in Int /\ m \in Int /\ 0 .. m \in SUBSET Nat
      OBVIOUS
    <3>2. IsFiniteSet(0 .. m)
      BY <3>1, FS_Interval
    <3> QED
      BY <3>1, <3>2 DEF FiniteSubsetsOf
  <2> QED
    BY <2>1
<1>2. IsWellFoundedOn(StrictSubsetOrdering(Nat), FiniteSubsetsOf(Nat))
  BY FS_StrictSubsetOrderingWellFounded
<1> HIDE DEF Upto
<1>3. PICK I \in Upto : \A J \in Upto : ~ (<<J, I>> \in StrictSubsetOrdering(Nat))
  BY <1>1, <1>2, WFMin
<1>4. PICK m \in T : I = 0 .. m
  BY <1>3 DEF Upto
<1>5. ASSUME NEW k \in T, k < m
      PROVE  FALSE
  <2>1. 0 .. k \in Upto
    BY DEF Upto
  <2>2. (0 .. k) \subseteq (0 .. m) /\ m \notin 0 .. k /\ m \in 0 .. m
    BY <1>5
  <2>3. <<0 .. k, 0 .. m>> \in StrictSubsetOrdering(Nat)
    BY <2>2 DEF StrictSubsetOrdering
  <2> QED
    BY <1>3, <1>4, <2>1, <2>3
<1> QED
  BY <1>5

FirstEnd(h) == CHOOSE i \in LineEnds(h) : \A k \in LineEnds(h) : i <= k

LEMMA FirstEndIs ==
  ASSUME NEW h \in Seq(Byte), LineEnds(h) # {}
  PROVE  /\ FirstEnd(h) \in 1 .. Len(h) /\ Len(h) \in Nat /\ h[FirstEnd(h)] = Newline
         /\ \A k \in 1 .. Len(h) : h[k] = Newline => FirstEnd(h) <= k
<1>1. DOMAIN h = 1 .. Len(h) /\ Len(h) \in Nat
  BY LenProperties
<1>2. LineEnds(h) \in SUBSET Nat
  BY <1>1 DEF LineEnds
<1>3. \E i \in LineEnds(h) : \A k \in LineEnds(h) : i <= k
  BY <1>2, LeastOf
<1>4. FirstEnd(h) \in LineEnds(h) /\ \A k \in LineEnds(h) : FirstEnd(h) <= k
  BY <1>3 DEF FirstEnd
<1> QED
  BY <1>1, <1>4 DEF LineEnds

LEMMA SameLine ==
  ASSUME NEW h \in Seq(Byte), NEW p \in Seq(Byte), LineEnds(h) # {}, LineEnds(p) # {},
         \A i \in 1 .. Len(h) : i <= Len(p) => h[i] = p[i]
  PROVE  \A i : Word(h, i) = Word(p, i)
<1> DEFINE n == FirstEnd(h)
           m == FirstEnd(p)
<1>1. /\ n \in 1 .. Len(h) /\ Len(h) \in Nat /\ h[n] = Newline
      /\ \A k \in 1 .. Len(h) : h[k] = Newline => n <= k
  BY FirstEndIs
<1>2. /\ m \in 1 .. Len(p) /\ Len(p) \in Nat /\ p[m] = Newline
      /\ \A k \in 1 .. Len(p) : p[k] = Newline => m <= k
  BY FirstEndIs
<1> HIDE DEF n, m
<1>3. n = m
  <2>1. CASE n < m
    BY <1>1, <1>2, <2>1
  <2>2. CASE m < n
    BY <1>1, <1>2, <2>2
  <2> QED
    BY <1>1, <1>2, <2>1, <2>2
<1>4. SubSeq(h, 1, n - 1) = SubSeq(p, 1, n - 1)
  <2>1. n - 1 \in 0 .. Len(h) /\ n - 1 \in 0 .. Len(p)
    BY <1>1, <1>2, <1>3
  <2>2. /\ SubSeq(h, 1, n - 1) \in Seq(Byte) /\ Len(SubSeq(h, 1, n - 1)) = n - 1
        /\ \A i \in 1 .. n - 1 : SubSeq(h, 1, n - 1)[i] = h[i]
    BY <2>1, Divided
  <2>3. /\ SubSeq(p, 1, n - 1) \in Seq(Byte) /\ Len(SubSeq(p, 1, n - 1)) = n - 1
        /\ \A i \in 1 .. n - 1 : SubSeq(p, 1, n - 1)[i] = p[i]
    BY <2>1, Divided
  <2>4. \A i \in 1 .. n - 1 : h[i] = p[i]
    BY <1>1, <1>2, <1>3
  <2> QED
    BY <2>2, <2>3, <2>4, SeqEqual
<1>5. Line(h) = Line(p)
  BY <1>3, <1>4 DEF Line, FirstEnd, n, m
<1> QED
  BY <1>5 DEF Word

(* A part of what the client has sent that has a newline at all.           *)
LEMMA Parsed ==
  ASSUME Types, up = httpHead \o said, NEW k \in 0 .. Len(up), NEW h, h = SubSeq(up, 1, k),
         LineEnds(h) # {}
  PROVE  \A i : Word(h, i) = Word(httpHead, i)
<1>1. httpHead \in Seq(Byte) /\ said \in Seq(Byte) /\ up \in Seq(Byte)
  BY Chosen DEF Types, WireOK
<1>2. LineEnds(httpHead) # {}
  <2>1. httpHead \in Heads
    BY DEF Types
  <2>2. \E i \in DOMAIN httpHead : httpHead[i] = Newline
    BY <2>1, ClientAssumption
  <2> QED
    BY <2>2 DEF LineEnds
<1>3. h \in Seq(Byte) /\ Len(h) = k /\ \A i \in 1 .. k : h[i] = up[i]
  BY <1>1, Divided
<1>4. \A i \in 1 .. Len(httpHead) : up[i] = httpHead[i]
  BY <1>1, Joined
<1>5. \A i \in 1 .. Len(h) : i <= Len(httpHead) => h[i] = httpHead[i]
  BY <1>1, <1>3, <1>4, LenProperties
<1> QED
  BY <1>1, <1>2, <1>3, <1>5, SameLine

-----------------------------------------------------------------------------
(* Before the tunnel of httpproxy.go. *)
LEMMA Says1 ==
  ASSUME Types, Speaks
  PROVE  LET x == Says[Len(said) + 1]
         IN  /\ x \in Byte /\ said' = said \o <<x>> /\ <<x>> \in Seq(Byte)
             /\ up' = Sent(up, <<x>>, srvOpen)
<1> DEFINE x == Says[Len(said) + 1]
<1>1. Len(said) \in Nat /\ Len(said) < Len(Says) /\ Says \in Seq(Byte) /\ Len(Says) \in Nat
  BY LenProperties, Chosen DEF Types, Speaks
<1>2. x \in Byte
  BY <1>1, NotEmpty
<1>3. said' = Append(said, x) /\ up' = Sent(up, <<x>>, srvOpen)
  BY DEF Speaks
<1>4. Append(said, x) = said \o <<x>> /\ <<x>> \in Seq(Byte)
  BY <1>2, AppendIsConcat, One DEF Types
<1> QED
  BY <1>2, <1>3, <1>4

LEMMA HttpOfClient ==
  ASSUME Types, Opening, HttpInv, port = "http", AnyClientStep
  PROVE  HttpInv'
<1> USE DEF clientVars, chosen, servers, serverVars, proxyVars, link
<1>0. /\ UNCHANGED <<spc, head, dialed, broken, whole, port, httpHead>>
      /\ up \in Seq(Byte) /\ down \in Seq(Byte) /\ answer \in Seq(Byte)
      /\ httpHead \in Seq(Byte) /\ said \in Seq(Byte) /\ head \in Seq(Byte)
  BY Chosen DEF AnyClientStep, Connects, AsksFor, Speaks, Listens, ShutsDown, Leaves, Types, WireOK
<1>1. ~ IsPrefixOf(Established, <<>>)
  <2>1. 5 \in Byte \ {0}
    BY DEF Byte
  <2> QED
    BY <2>1, Refusals
<1>2. /\ Wanted' = Wanted /\ (LineFits <=> LineFits') /\ (HeadFits <=> HeadFits')
      /\ Method(head)' = Method(head) /\ Method(httpHead)' = Method(httpHead)
  BY <1>0 DEF Wanted, LineFits, HeadFits, Method, Word, Line, LineEnds
<1>3. ASSUME Unanswered, spc \notin {"tunnel", "done"}
      PROVE  Unanswered'
  <2>1. CASE Connects
    BY <1>0, <1>2, <1>3, <2>1 DEF Connects, Unanswered
  <2>2. CASE AsksFor \/ Listens
    BY <1>3, <2>2 DEF AsksFor, Listens, Unanswered
  <2>3. CASE Speaks
    <3>1. Method(httpHead) # CONNECT /\ UNCHANGED <<answer, down>>
      BY <1>1, <1>3, <2>3 DEF Speaks, MaySpeak, Unanswered
    <3> QED
      BY <1>2, <1>3, <3>1 DEF Unanswered
  <2>4. CASE ShutsDown
    BY <1>2, <1>3, <2>4 DEF ShutsDown, Unanswered
  <2>5. CASE Leaves
    BY <1>2, <1>3, <2>5 DEF Leaves, CloseCli, Unanswered
  <2> QED
    BY <2>1, <2>2, <2>3, <2>4, <2>5 DEF AnyClientStep
<1>4. ASSUME AtHead, Unanswered, spc \in {"accept", "first"}
      PROVE  AtHead'
  <2>1. CASE Connects
    <3>1. up' = httpHead /\ said = <<>> /\ said' = said
      BY <2>1 DEF Connects, FirstMessage, Opening
    <3>2. up' = httpHead' \o said'
      BY <1>0, <3>1, Joined, Empty
    <3> QED
      BY <3>2 DEF AtHead
  <2>2. CASE AsksFor \/ Listens
    BY <1>4, <2>2 DEF AsksFor, Listens, Unanswered
  <2>3. CASE Speaks
    <3>1. PICK m \in Seq(Byte) : said' = said \o m /\ up' = Sent(up, m, srvOpen)
      BY <2>3, Says1
    <3>2. apc = "requested" /\ apc' = apc /\ srvOpen
      BY <1>4, <2>3 DEF Speaks, Opening
    <3>3. CASE broken
      BY <1>0, <3>1, <3>3 DEF Sent, AtHead, Opening
    <3>4. CASE ~broken
      <4>1. up' = (httpHead \o said) \o m
        BY <1>4, <3>1, <3>2, <3>4 DEF Sent, AtHead
      <4>2. (httpHead \o said) \o m = httpHead \o (said \o m)
        <5>1. httpHead \in Seq(Byte) /\ said \in Seq(Byte) /\ m \in Seq(Byte)
          BY <1>0, <3>1
        <5> QED
          BY <5>1, Regrouped
      <4>3. up' = httpHead' \o said'
        BY <1>0, <3>1, <4>1, <4>2
      <4> QED
        BY <4>3 DEF AtHead
    <3> QED
      BY <3>3, <3>4
  <2>4. CASE ShutsDown
    BY <1>0, <1>4, <2>4 DEF ShutsDown, AtHead
  <2>5. CASE Leaves
    BY <1>0, <1>4, <2>5 DEF Leaves, CloseCli, AfterClose, AtHead
  <2> QED
    BY <2>1, <2>2, <2>3, <2>4, <2>5 DEF AnyClientStep
<1>5. ASSUME HeadTaken, Unanswered, spc = "dialing"
      PROVE  HeadTaken'
  <2>1. CASE Connects \/ AsksFor \/ Listens
    BY <1>5, <2>1 DEF Connects, AsksFor, Listens, Unanswered, Opening
  <2>2. CASE Speaks
    <3>1. PICK m \in Seq(Byte) : said' = said \o m /\ up' = Sent(up, m, srvOpen)
      BY <2>2, Says1
    <3>2. /\ apc = "requested" /\ apc' = apc /\ srvOpen
          /\ Method(httpHead) # CONNECT /\ Method(head) # CONNECT
      BY <1>1, <1>5, <2>2 DEF Speaks, MaySpeak, Opening, Unanswered, HeadTaken
    <3>3. /\ httpHead \o said \in Seq(Byte) /\ head \o up \in Seq(Byte)
          /\ httpHead' \o said' = (httpHead \o said) \o m
      <4>1. (httpHead \o said) \o m = httpHead \o (said \o m)
        <5>1. httpHead \in Seq(Byte) /\ said \in Seq(Byte) /\ m \in Seq(Byte)
          BY <1>0, <3>1
        <5> QED
          BY <5>1, Regrouped
      <4>2. httpHead \o said \in Seq(Byte) /\ head \o up \in Seq(Byte)
        BY <1>0, Joined
      <4> QED
        BY <1>0, <3>1, <4>1, <4>2
    <3>4. CASE broken
      <4>1. up' = up
        BY <3>1, <3>4 DEF Sent
      <4>2. IsPrefixOf(head' \o up', httpHead' \o said')
        BY <1>0, <1>5, <3>2, <3>3, <4>1, PrefixGrows DEF HeadTaken
      <4> QED
        BY <1>0, <1>2, <1>5, <3>2, <3>4, <4>2 DEF HeadTaken
    <3>5. CASE ~broken
      <4>1. up' = up \o m /\ head \o up = httpHead \o said
        BY <1>5, <3>1, <3>2, <3>5 DEF Sent, HeadTaken
      <4>2. head' \o up' = (head \o up) \o m
        BY <1>0, <4>1, Regrouped
      <4>3. head' \o up' = httpHead' \o said' /\ httpHead' \o said' \in Seq(Byte)
        BY <3>3, <4>1, <4>2, Joined
      <4>4. IsPrefixOf(head' \o up', httpHead' \o said')
        BY <4>3, PrefixOfItself
      <4> QED
        BY <1>0, <1>2, <1>5, <3>2, <4>3, <4>4 DEF HeadTaken
    <3> QED
      BY <3>4, <3>5
  <2>3. CASE ShutsDown
    BY <1>0, <1>2, <1>5, <2>3 DEF ShutsDown, HeadTaken
  <2>4. CASE Leaves
    <3>1. /\ up' \in {<<>>, up} /\ said' = said /\ apc' = "left"
      BY <2>4 DEF Leaves, CloseCli, AfterClose
    <3>2. ASSUME Method(head) # CONNECT
          PROVE  IsPrefixOf(head' \o up', httpHead' \o said')
      <4>1. IsPrefixOf(head \o up, httpHead \o said) /\ httpHead \o said \in Seq(Byte)
        BY <1>0, <1>5, <3>2, Joined DEF HeadTaken
      <4>2. IsPrefixOf(head, httpHead \o said) /\ head \o <<>> = head
        BY <1>0, <4>1, PrefixOfPrefix, Joined
      <4> QED
        BY <1>0, <3>1, <4>1, <4>2
    <3> QED
      BY <1>0, <1>2, <1>5, <3>1, <3>2 DEF HeadTaken
  <2> QED
    BY <2>1, <2>2, <2>3, <2>4 DEF AnyClientStep
<1> QED
  BY <1>0, <1>2, <1>3, <1>4, <1>5 DEF HttpInv

LEMMA HttpOfReadHead ==
  ASSUME Types, Opening, HttpInv, port = "http", ReadHead, UNCHANGED clientVars
  PROVE  HttpInv'
<1>0. /\ spc = "first" /\ AtHead /\ Unanswered /\ apc # "start"
      /\ UNCHANGED <<cliOpen, fin, broken, whole, port, httpHead, apc, said, answer>>
      /\ up \in Seq(Byte) /\ httpHead \in Seq(Byte) /\ said \in Seq(Byte)
      /\ HeadMax \in Nat
      /\ Method(httpHead)' = Method(httpHead)
  BY HttpAssumption, Chosen
     DEF ReadHead, HttpInv, Opening, link, clientVars, chosen, Types, WireOK, Method, Word, Line, LineEnds
<1>1. PICK k \in Pieces(up, HeadMax) :
        head' = SubSeq(up, 1, k) /\ (NoNewline(k) \/ DoesNotParse(k) \/ HttpDials(k))
  BY DEF ReadHead
<1>2. /\ up = httpHead \o said /\ k \in 0 .. Len(up) /\ Drop(up, k) \in Seq(Byte)
      /\ head' \in Seq(Byte) /\ Len(head') = k /\ head' \o Drop(up, k) = up
      /\ \A i \in 1 .. k : head'[i] = up[i]
  <2>1. up # <<>> /\ k \in 0 .. Len(up)
    BY <1>0, <1>1, NothingLeft
  <2> QED
    BY <1>0, <1>1, <2>1, Divided DEF AtHead
<1>3. (LineFits <=> LineFits') /\ (HeadFits <=> HeadFits') /\ Wanted' = Wanted
  BY <1>0 DEF Wanted, LineFits, HeadFits, Method, Word, Line, LineEnds
<1>4. ASSUME CloseSrv(<<>>, Drop(up, k))
      PROVE  Unanswered'
  <2>1. down' \in {<<>>, down}
    BY <1>2, <1>4, Closing, Empty DEF Types
  <2> QED
    BY <1>0, <2>1 DEF Unanswered
<1>5. CASE NoNewline(k)
  <2>1. LineEnds(head') = {} /\ CloseSrv(<<>>, Drop(up, k)) /\ spc' = "panic"
    BY <1>5 DEF NoNewline
  <2>2. ASSUME whole, LineFits
        PROVE  FALSE
    <3>1. PICK i \in LineEnds(httpHead) : i <= HeadMax
      BY <2>2 DEF LineFits
    <3>2. i \in 1 .. Len(httpHead) /\ httpHead[i] = Newline /\ Len(httpHead) \in Nat
      BY <1>0, <3>1, LenProperties DEF LineEnds
    <3>3. Len(up) = Len(httpHead) + Len(said) /\ Len(said) \in Nat /\ up[i] = httpHead[i]
      BY <1>0, <1>2, <3>2, Joined
    <3>4. i <= k
      <4>1. k = Len(up) \/ k = HeadMax
        <5>1. Len(up) <= HeadMax => k = Len(up)
          BY <1>0, <1>1, <2>2, Taken DEF Types
        <5>2. HeadMax < Len(up) => k = HeadMax
          BY <1>0, <1>1, <2>2, Taken DEF Types
        <5> QED
          BY <1>0, <3>2, <3>3, <5>1, <5>2
      <4> QED
        BY <3>1, <3>2, <3>3, <4>1
    <3>5. head'[i] = Newline /\ i \in DOMAIN head'
      BY <1>2, <3>2, <3>3, <3>4, LenProperties
    <3> QED
      BY <2>1, <3>5 DEF LineEnds
  <2> QED
    BY <1>0, <1>3, <1>4, <2>1, <2>2 DEF HttpInv
<1>6. CASE DoesNotParse(k)
  BY <1>0, <1>4, <1>6 DEF DoesNotParse, HttpInv
<1>7. CASE HttpDials(k)
  <2>1. /\ LineEnds(head') # {} /\ dialed' = HttpAddress(head') /\ up' = Drop(up, k)
        /\ spc' = "dialing" /\ down' = down
    BY <1>7 DEF HttpDials
  <2>2. \A i : Word(head', i) = Word(httpHead, i)
    BY <1>1, <1>2, <2>1, Parsed
  <2>3. Method(head)' = Method(httpHead)'
    BY <1>0, <2>2 DEF Method
  <2>4. dialed'.port # NoPort => dialed' = Wanted
    <3>1. Word(head', 2) = Word(httpHead, 2)
      BY <2>2
    <3> QED
      BY <1>0, <2>1, <3>1 DEF HttpAddress, Wanted
  <2>5. ASSUME Method(httpHead) = CONNECT, HeadFits
        PROVE  up' = <<>>
    <3>1. said = <<>> /\ up = httpHead
      BY <1>0, <1>2, <2>5, Joined, Empty DEF Unanswered
    <3>2. k = Len(up)
      BY <1>0, <1>1, <2>5, <3>1, Taken DEF HeadFits, Types
    <3> QED
      BY <1>0, <2>1, <3>2, DropAll
  <2>6. head' \o up' = httpHead' \o said' /\ httpHead' \o said' \in Seq(Byte)
    BY <1>0, <1>2, <2>1
  <2>7. IsPrefixOf(head' \o up', httpHead' \o said')
    BY <2>6, PrefixOfItself
  <2>8. HeadTaken'
    BY <1>0, <1>3, <2>3, <2>4, <2>5, <2>6, <2>7 DEF HeadTaken
  <2>9. Unanswered'
    BY <1>0, <2>1 DEF Unanswered
  <2> QED
    BY <1>0, <2>1, <2>8, <2>9 DEF HttpInv
<1> QED
  BY <1>1, <1>5, <1>6, <1>7

LEMMA HttpOfServer ==
  ASSUME Types, Opening, HttpInv, port = "http", HttpServer, UNCHANGED clientVars
  PROVE  HttpInv'
<1>0. /\ UNCHANGED <<whole, broken, port, httpHead, apc, said, answer>>
      /\ up \in Seq(Byte) /\ Wanted' = Wanted
      /\ Method(httpHead)' = Method(httpHead)
  BY DEF HttpServer, HttpAccept, HttpReadErr, ReadHead, HttpDialOk, HttpDialFails, Relay,
         RelayToTarget, ServerTunnelEnds, CloseTunnel, link, wireVars, clientVars, chosen,
         Types, WireOK, Wanted, Method, Word, Line, LineEnds
<1>1. ASSUME NEW rest \in Seq(Byte), CloseSrv(<<>>, rest), Unanswered
      PROVE  Unanswered'
  <2>1. down' \in {<<>>, down}
    BY <1>1, Closing, Empty DEF Types
  <2> QED
    BY <1>0, <1>1, <2>1 DEF Unanswered
<1>2. CASE HttpAccept
  BY <1>0, <1>2 DEF HttpAccept, wireVars, HttpInv, AtHead, Unanswered
<1>3. CASE HttpReadErr
  <2>1. CloseSrv(<<>>, <<>>) /\ Unanswered /\ spc' = "closed"
    BY <1>3 DEF HttpReadErr, HttpInv
  <2>2. Unanswered'
    BY <1>1, <2>1, Empty
  <2> QED
    BY <1>0, <2>1, <2>2 DEF HttpInv
<1>4. CASE ReadHead
  BY <1>4, HttpOfReadHead
<1>5. CASE HttpDialOk
  <2>1. /\ spc' = "tunnel" /\ dialed' = dialed /\ dialed.port # NoPort /\ HeadTaken
    BY <1>5 DEF HttpDialOk, HttpInv
  <2> QED
    BY <1>0, <2>1 DEF HttpInv, HeadTaken
<1>6. CASE HttpDialFails
  <2>1. CloseSrv(<<>>, up) /\ Unanswered /\ spc' = "closed"
    BY <1>6 DEF HttpDialFails, HttpInv
  <2>2. Unanswered'
    BY <1>0, <1>1, <2>1
  <2> QED
    BY <1>0, <2>1, <2>2 DEF HttpInv
<1>7. CASE Relay
  <2>1. spc = "tunnel" /\ spc' \in {"tunnel", "done"} /\ dialed' = dialed
    BY <1>7 DEF Relay, RelayToTarget, ServerTunnelEnds, CloseTunnel
  <2> QED
    BY <1>0, <2>1 DEF HttpInv
<1> QED
  BY <1>2, <1>3, <1>4, <1>5, <1>6, <1>7 DEF HttpServer

LEMMA HttpNext ==
  ASSUME Types, Opening, HttpInv, [Next]_vars
  PROVE  HttpInv'
<1> USE DEF clientVars, chosen, servers, serverVars, proxyVars, link
<1>0. port' = port
  BY Constant
<1> SUFFICES ASSUME port = "http" PROVE HttpInv'
  BY <1>0 DEF HttpInv
<1>1. CASE (WireBreaks \/ UNCHANGED wireVars) /\ UNCHANGED <<servers, clientVars>>
  <2>1. /\ UNCHANGED <<spc, head, dialed, whole, port, httpHead, apc, said, answer, fin>>
        /\ \/ broken' /\ up' = <<>> /\ down' = <<>>
           \/ UNCHANGED <<up, down, broken>>
    BY <1>1 DEF WireBreaks, wireVars
  <2>2. /\ Wanted' = Wanted /\ (LineFits <=> LineFits') /\ (HeadFits <=> HeadFits')
        /\ Method(head)' = Method(head) /\ Method(httpHead)' = Method(httpHead)
    BY <2>1 DEF Wanted, LineFits, HeadFits, Method, Word, Line, LineEnds
  <2>3. Unanswered => Unanswered'
    BY <2>1, <2>2 DEF Unanswered
  <2>4. AtHead => AtHead'
    BY <2>1 DEF AtHead
  <2>5. ASSUME HeadTaken PROVE HeadTaken'
    <3>1. ASSUME Method(head) # CONNECT
          PROVE  IsPrefixOf(head' \o up', httpHead' \o said')
      <4>1. /\ IsPrefixOf(head \o up, httpHead \o said) /\ httpHead \o said \in Seq(Byte)
            /\ head \in Seq(Byte) /\ up \in Seq(Byte)
        BY <2>5, <3>1, Joined, Chosen DEF HeadTaken, Types, WireOK
      <4>2. IsPrefixOf(head, httpHead \o said) /\ head \o <<>> = head
        BY <4>1, PrefixOfPrefix, Joined
      <4> QED
        BY <2>1, <4>1, <4>2
    <3> QED
      BY <2>1, <2>2, <2>5, <3>1 DEF HeadTaken
  <2> QED
    BY <2>1, <2>2, <2>3, <2>4, <2>5 DEF HttpInv
<1>2. CASE UNCHANGED vars
  BY <1>1, <1>2 DEF vars
<1>3. CASE Target /\ UNCHANGED <<b, head, echoVars, clientVars>>
  <2>1. /\ UNCHANGED <<dialed, whole, port, httpHead>>
        /\ spc = "tunnel" /\ spc' \in {"tunnel", "done"}
    BY <1>3 DEF Target, RelayToClient, TargetEnds, CloseTunnel
  <2>2. Wanted' = Wanted
    BY <2>1 DEF Wanted, Word, Line, LineEnds
  <2> QED
    BY <2>1, <2>2 DEF HttpInv
<1>4. CASE ServerStep
  BY <1>4, HttpOfServer DEF ServerStep
<1> QED
  BY <1>1, <1>2, <1>3, <1>4, HttpOfClient DEF Next

-----------------------------------------------------------------------------
(* The tunnel of both proxies. *)
LEMMA Frames ==
  ASSUME Types, UNCHANGED chosen, UNCHANGED whole
  PROVE  /\ Success' = Success /\ (Covered <=> Covered') /\ Success \in Seq(Byte)
         /\ said' = said => ForTarget' = ForTarget
         /\ \A m \in Seq(Byte) : said' = said \o m => ForTarget' = ForTarget \o m
         /\ ForTarget \in Seq(Byte)
<1>0. /\ httpHead \in Seq(Byte) /\ said \in Seq(Byte)
      /\ Method(httpHead)' = Method(httpHead)
      /\ UNCHANGED <<port, httpHead>>
  BY Chosen DEF Types, chosen, Method, Word, Line, LineEnds
<1>1. Success' = Success /\ (Covered <=> Covered')
  BY <1>0 DEF Success, Covered, HeadFits, Reply, Established
<1>2. Success \in Seq(Byte)
  <2>1. 0 \in Byte
    BY DEF Byte
  <2> QED
    BY <2>1, Replies, ShortMessages, Empty DEF Success
<1>3. said' = said => ForTarget' = ForTarget
  BY <1>0 DEF ForTarget
<1>4. ASSUME NEW m \in Seq(Byte), said' = said \o m
      PROVE  ForTarget' = ForTarget \o m
  <2>1. (httpHead \o said) \o m = httpHead \o (said \o m)
    BY <1>0, Regrouped
  <2> QED
    BY <1>0, <1>4, <2>1 DEF ForTarget
<1>5. ForTarget \in Seq(Byte)
  BY <1>0, Joined DEF ForTarget
<1> QED
  BY <1>1, <1>2, <1>3, <1>4, <1>5

(* What has been received stays a prefix when the rest is lost. *)
LEMMA TargetKeeps ==
  ASSUME Types, TargetGets, UNCHANGED <<chosen, whole, said, tgtGot>>,
         up' = <<>> \/ up' = up,
         up' = up \/ apc' # "requested" \/ broken' \/ ~srvOpen',
         apc' = "requested" /\ ~broken' /\ srvOpen' => apc = "requested" /\ ~broken /\ srvOpen
  PROVE  TargetGets'
<1>1. /\ tgtGot \in Seq(Byte) /\ up \in Seq(Byte)
      /\ ForTarget' = ForTarget /\ (Covered <=> Covered') /\ ForTarget \in Seq(Byte)
  <2>1. tgtGot \in Seq(Byte) /\ up \in Seq(Byte)
    BY DEF Types, WireOK
  <2>2. ForTarget' = ForTarget /\ ForTarget \in Seq(Byte)
    BY Frames
  <2>3. Covered <=> Covered'
    BY Frames
  <2> QED
    BY <2>1, <2>2, <2>3
<1>2. ASSUME Covered PROVE IsPrefixOf(tgtGot' \o up', ForTarget')
  <2>1. IsPrefixOf(tgtGot \o up, ForTarget)
    BY <1>2 DEF TargetGets
  <2>2. IsPrefixOf(tgtGot, ForTarget) /\ tgtGot \o <<>> = tgtGot
    BY <1>1, <2>1, PrefixOfPrefix, Joined
  <2> QED
    BY <1>1, <2>1, <2>2
<1>3. ASSUME Covered, apc' = "requested" /\ ~broken' /\ srvOpen'
      PROVE  tgtGot' \o up' = ForTarget'
  BY <1>1, <1>3 DEF TargetGets
<1> QED
  BY <1>1, <1>2, <1>3 DEF TargetGets

LEMMA ToldKept ==
  ASSUME Types, UNCHANGED <<chosen, whole, tgtSent>>
  PROVE  Told' = Told /\ Success' = Success
<1>1. Success' = Success
  BY Frames
<1> QED
  BY <1>1 DEF Told

(* Nothing new comes, or something has been read.                          *)
LEMMA ClientKeeps ==
  ASSUME Types, ClientGets, UNCHANGED <<chosen, whole, tgtSent>>,
         spc' = spc \/ spc' = "done",
         apc' = "requested" => apc = "requested" /\ (broken => broken'),
         \/ answer' = answer /\ down' = down
         \/ answer' = answer /\ down' = <<>> /\ (apc' # "requested" \/ broken' \/ spc' # "tunnel")
         \/ apc = "requested" /\ answer' = answer \o down /\ down' = <<>>
  PROVE  ClientGets'
<1>1. answer \in Seq(Byte) /\ down \in Seq(Byte) /\ Told' = Told /\ Success' = Success
  BY ToldKept DEF Types, WireOK
<1>2. answer \o <<>> = answer /\ (answer \o down) \o <<>> = answer \o down
  BY <1>1, Joined
<1> QED
  BY <1>1, <1>2 DEF ClientGets

LEMMA TunnelOfClient ==
  ASSUME Types, Opening, SocksInv, HttpInv, TunnelInv, ~CutUp, AnyClientStep
  PROVE  TunnelInv'
<1> USE DEF clientVars, chosen, servers, serverVars, proxyVars, link
<1>0. /\ UNCHANGED <<spc, tgtSent, tgtGot, chosen, whole, srvOpen>> \/ Connects
      /\ UNCHANGED <<spc, tgtSent, tgtGot, chosen, whole, broken>>
  BY DEF AnyClientStep, Connects, AsksFor, Speaks, Listens, ShutsDown, Leaves
<1>1. CASE spc \notin {"tunnel", "done"}
  BY <1>0, <1>1 DEF TunnelInv, TargetSaid
<1>2. CASE spc \in {"tunnel", "done"}
  <2>0. TargetGets /\ ClientGets /\ apc \in {"requested", "left"}
    BY <1>2 DEF TunnelInv, Opening, SocksInv, Asked, Types, CutUp
  <2> SUFFICES TargetGets' /\ ClientGets'
    BY <1>0, <1>2 DEF TunnelInv, TargetSaid
  <2>1. CASE Connects \/ AsksFor
    BY <2>0, <2>1 DEF Connects, AsksFor
  <2>2. CASE Speaks
    <3>1. PICK m \in Seq(Byte) : said' = said \o m /\ up' = Sent(up, m, srvOpen)
      BY <2>2, Says1
    <3>2. UNCHANGED <<apc, srvOpen, answer, down>>
      BY <2>2 DEF Speaks
    <3>3. ClientGets'
      BY <1>0, <2>0, <3>2, ClientKeeps
    <3>4. /\ tgtGot \in Seq(Byte) /\ up \in Seq(Byte) /\ tgtGot \o up \in Seq(Byte)
          /\ ForTarget' = ForTarget \o m /\ (Covered <=> Covered') /\ ForTarget \in Seq(Byte)
          /\ ForTarget \o m \in Seq(Byte) /\ m \in Seq(Byte)
      <4>1. tgtGot \in Seq(Byte) /\ up \in Seq(Byte) /\ m \in Seq(Byte)
        BY <3>1 DEF Types, WireOK
      <4>2. ForTarget' = ForTarget \o m /\ ForTarget \in Seq(Byte)
        BY <1>0, <3>1, Frames
      <4>3. Covered <=> Covered'
        BY <1>0, Frames
      <4> QED
        BY <4>1, <4>2, <4>3, Joined
    <3>5. CASE broken \/ ~srvOpen
      <4>1. up' = up /\ tgtGot' = tgtGot
        BY <1>0, <3>1, <3>5 DEF Sent
      <4>2. Covered => IsPrefixOf(tgtGot \o up, ForTarget \o m)
        BY <2>0, <3>4, PrefixGrows DEF TargetGets
      <4> QED
        BY <1>0, <3>2, <3>3, <3>4, <3>5, <4>1, <4>2 DEF TargetGets
    <3>6. CASE ~broken /\ srvOpen
      <4>1. up' = up \o m /\ tgtGot' = tgtGot /\ apc = "requested"
        BY <1>0, <2>2, <3>1, <3>6 DEF Sent, Speaks
      <4>2. tgtGot \o (up \o m) = (tgtGot \o up) \o m
        <5>1. tgtGot \in Seq(Byte) /\ up \in Seq(Byte) /\ m \in Seq(Byte)
          BY <3>4
        <5> QED
          BY <5>1, Regrouped
      <4>3. Covered => tgtGot' \o up' = ForTarget'
        BY <2>0, <3>4, <3>6, <4>1, <4>2 DEF TargetGets
      <4>4. Covered => IsPrefixOf(tgtGot' \o up', ForTarget')
        BY <3>4, <4>3, PrefixOfItself
      <4> QED
        BY <3>3, <3>4, <4>3, <4>4 DEF TargetGets
    <3> QED
      BY <3>5, <3>6
  <2>3. CASE Listens
    <3>1. /\ UNCHANGED <<up, srvOpen, apc, said>> /\ apc = "requested"
          /\ answer' = answer \o down /\ down' = <<>>
      BY <2>3 DEF Listens
    <3> QED
      BY <1>0, <2>0, <3>1, TargetKeeps, ClientKeeps
  <2>4. CASE ShutsDown
    <3>1. UNCHANGED <<up, down, srvOpen, apc, said, answer>>
      BY <2>4 DEF ShutsDown
    <3> QED
      BY <1>0, <2>0, <3>1, TargetKeeps, ClientKeeps
  <2>5. CASE Leaves
    <3>1. /\ UNCHANGED <<srvOpen, said, answer>> /\ apc' = "left"
          /\ down' = <<>> /\ (up' = <<>> \/ up' = up)
      BY <2>5 DEF Leaves, CloseCli, AfterClose
    <3> QED
      BY <1>0, <2>0, <3>1, TargetKeeps, ClientKeeps
  <2> QED
    BY <2>1, <2>2, <2>3, <2>4, <2>5 DEF AnyClientStep
<1> QED
  BY <1>1, <1>2

LEMMA TargetGoesOn ==
  ASSUME Types, TargetSaid, RelayToClient
  PROVE  /\ TargetSaid'
         /\ \E x \in Byte : /\ <<x>> \in Seq(Byte) /\ down' = Sent(down, <<x>>, cliOpen)
                            /\ tgtSent' = tgtSent \o <<x>>
                            /\ Len(tgtSent') = Len(tgtSent) + 1 /\ Len(tgtSent) \in Nat
<1> DEFINE n == Len(tgtSent)
           x == TargetSays[n + 1]
<1>0. tgtSent \in Seq(Byte) /\ TargetSays \in Seq(Byte)
  BY TargetAssumption DEF Types
<1>1. n \in Nat /\ n < Len(TargetSays) /\ Len(TargetSays) \in Nat
  BY <1>0, LenProperties DEF RelayToClient
<1>2. x \in Byte /\ <<x>> \in Seq(Byte)
  BY <1>0, <1>1, NotEmpty, One
<1>3. tgtSent' = Append(tgtSent, x) /\ down' = Sent(down, <<x>>, cliOpen)
  BY DEF RelayToClient
<1>4. tgtSent' = tgtSent \o <<x>> /\ Len(tgtSent') = n + 1
  BY <1>0, <1>2, <1>3, AppendIsConcat, AppendProperties
<1>5. tgtSent' = SubSeq(TargetSays, 1, Len(tgtSent')) /\ Len(tgtSent') <= Len(TargetSays)
  <2>1. 1 \in 1 .. Len(TargetSays) /\ n + 1 \in 1 .. Len(TargetSays)
    BY <1>1
  <2>2. SubSeq(TargetSays, 1, n + 1) = SubSeq(TargetSays, 1, n + 1 - 1) \o <<TargetSays[n + 1]>>
    BY <1>0, <2>1, SubSeqRecursiveSecond
  <2>3. n + 1 - 1 = n
    BY <1>1
  <2>4. tgtSent = SubSeq(TargetSays, 1, n)
    BY DEF TargetSaid
  <2> HIDE DEF n
  <2>5. SubSeq(TargetSays, 1, n + 1) = tgtSent \o <<x>>
    BY <2>2, <2>3, <2>4
  <2>6. n + 1 <= Len(TargetSays)
    BY <1>1
  <2> QED
    BY <1>4, <2>5, <2>6
<1>6. TargetSaid'
  BY <1>5 DEF TargetSaid
<1> HIDE DEF x, n
<1>7. Len(tgtSent) = n
  BY DEF n
<1> QED
  BY <1>1, <1>2, <1>3, <1>4, <1>6, <1>7

LEMMA TunnelOfTunnel ==
  ASSUME Types, Opening, TunnelInv, ~CutUp, Relay \/ Target, UNCHANGED clientVars
  PROVE  TunnelInv'
<1> USE DEF clientVars, link
<1>0. /\ spc = "tunnel" /\ TargetGets /\ ClientGets
      /\ UNCHANGED <<chosen, whole, broken, apc, said, answer, cliOpen>>
      /\ tgtGot \in Seq(Byte) /\ up \in Seq(Byte) /\ down \in Seq(Byte) /\ tgtSent \in Seq(Byte)
      /\ answer \in Seq(Byte) /\ TargetSays \in Seq(Byte)
  BY Chosen DEF Relay, RelayToTarget, ServerTunnelEnds, Target, TargetEnds, RelayToClient, CloseTunnel,
                TunnelInv, Types, WireOK
<1>1. CASE RelayToTarget
  <2>1. PICK k \in 1 .. Len(up) :
          tgtGot' = tgtGot \o SubSeq(up, 1, k) /\ up' = Drop(up, k)
    BY <1>1 DEF RelayToTarget
  <2>2. UNCHANGED <<down, srvOpen, spc, tgtSent>>
    BY <1>1 DEF RelayToTarget
  <2>3. tgtGot' \o up' = tgtGot \o up
    <3>1. k \in 0 .. Len(up)
      BY <2>1
    <3>2. /\ SubSeq(up, 1, k) \in Seq(Byte) /\ Drop(up, k) \in Seq(Byte)
          /\ SubSeq(up, 1, k) \o Drop(up, k) = up
      BY <1>0, <3>1, Divided
    <3>3. (tgtGot \o SubSeq(up, 1, k)) \o Drop(up, k) = tgtGot \o (SubSeq(up, 1, k) \o Drop(up, k))
      <4>1. tgtGot \in Seq(Byte) /\ SubSeq(up, 1, k) \in Seq(Byte) /\ Drop(up, k) \in Seq(Byte)
        BY <1>0, <3>2
      <4> QED
        BY <4>1, Regrouped
    <3> QED
      BY <2>1, <3>2, <3>3
  <2>4. ForTarget' = ForTarget /\ (Covered <=> Covered')
    BY <1>0, Frames
  <2>5. TargetGets'
    BY <1>0, <2>2, <2>3, <2>4 DEF TargetGets
  <2>6. ClientGets'
    BY <1>0, <2>2, ClientKeeps
  <2> QED
    BY <1>0, <2>2, <2>5, <2>6 DEF TunnelInv, TargetSaid
<1>2. CASE CloseTunnel
  <2>1. /\ CloseSrv(<<>>, up) /\ spc' = "done" /\ UNCHANGED <<tgtSent, tgtGot>>
    BY <1>2 DEF CloseTunnel
  <2>2. ~srvOpen' /\ up' = <<>> /\ (down' = <<>> \/ down' = down)
    BY <1>0, <2>1, Closing, Empty DEF Types
  <2>3. TargetGets'
    BY <1>0, <2>1, <2>2, TargetKeeps
  <2>4. ClientGets'
    BY <1>0, <2>1, <2>2, ClientKeeps
  <2> QED
    BY <2>1, <2>3, <2>4 DEF TunnelInv, TargetSaid
<1>3. CASE RelayToClient
  <2>1. PICK x \in Byte :
          /\ <<x>> \in Seq(Byte) /\ down' = Sent(down, <<x>>, cliOpen)
          /\ tgtSent' = tgtSent \o <<x>>
          /\ Len(tgtSent') = Len(tgtSent) + 1 /\ Len(tgtSent) \in Nat
    BY <1>3, TargetGoesOn DEF TunnelInv
  <2>2. UNCHANGED <<up, srvOpen, spc, tgtGot>>
    BY <1>3 DEF RelayToClient
  <2>3. TargetSaid'
    BY <1>3, TargetGoesOn DEF TunnelInv
  <2>4. TargetGets'
    BY <1>0, <2>2, TargetKeeps
  <2>5. Success' = Success /\ Success \in Seq(Byte)
    BY <1>0, Frames
  <2>6. /\ Told \subseteq Told'
        /\ Success \o tgtSent' \in Told'
    <3>1. 0 .. Len(tgtSent) \subseteq 0 .. Len(tgtSent') /\ Len(tgtSent') \in 0 .. Len(tgtSent')
      BY <2>1
    <3> QED
      BY <2>3, <2>5, <3>1 DEF Told, TargetSaid
  <2>7. CASE apc = "requested" /\ ~broken
    <3>1. cliOpen
      BY <2>7 DEF Opening
    <3>2. down' = down \o <<x>>
      BY <2>1, <2>7, <3>1 DEF Sent
    <3>3. answer \o (down \o <<x>>) = (answer \o down) \o <<x>>
      <4>1. answer \in Seq(Byte) /\ down \in Seq(Byte) /\ <<x>> \in Seq(Byte)
        BY <1>0, <2>1
      <4> QED
        BY <4>1, Regrouped
    <3>4. answer \o down = Success \o tgtSent
      BY <1>0, <2>7 DEF ClientGets
    <3>5. (Success \o tgtSent) \o <<x>> = Success \o (tgtSent \o <<x>>)
      <4>1. Success \in Seq(Byte) /\ tgtSent \in Seq(Byte) /\ <<x>> \in Seq(Byte)
        BY <1>0, <2>1, <2>5
      <4> QED
        BY <4>1, Regrouped
    <3>6. answer' \o down' = Success' \o tgtSent'
      BY <1>0, <2>1, <2>5, <3>2, <3>3, <3>4, <3>5
    <3>7. ClientGets'
      BY <1>0, <2>5, <2>6, <3>6 DEF ClientGets
    <3> QED
      BY <1>0, <2>2, <2>3, <2>4, <3>7 DEF TunnelInv
  <2>8. CASE ~(apc = "requested" /\ ~broken)
    <3>1. apc = "requested" => down' = down
      BY <2>1, <2>8 DEF Sent
    <3>2. ClientGets'
      BY <1>0, <2>6, <2>8, <3>1 DEF ClientGets
    <3> QED
      BY <1>0, <2>2, <2>3, <2>4, <3>2 DEF TunnelInv
  <2> QED
    BY <2>7, <2>8
<1> QED
  BY <1>1, <1>2, <1>3 DEF Relay, Target, ServerTunnelEnds, TargetEnds

(* The steps that open the tunnel, and those before it. *)
LEMMA TunnelOfSocks ==
  ASSUME Types, Opening, SocksInv, TunnelInv, port = "socks", ~CutUp, Server, ~Relay,
         UNCHANGED <<head, echoVars, clientVars>>
  PROVE  TunnelInv'
<1> USE DEF clientVars, link
<1>0. /\ UNCHANGED <<chosen, whole, broken, apc, said, answer, cliOpen, tgtSent, tgtGot>>
      /\ spc \notin {"tunnel", "done"}
  BY DEF Server, Accept, ReadGreeting, GreetingErr, ReadRequest, DialOk, DialFails, wireVars
<1>1. CASE DialOk
  <2>1. /\ spc = "dialing" /\ spc' = "tunnel" /\ down' = Sent(down, Reply(0), cliOpen)
        /\ UNCHANGED <<up, srvOpen>>
    BY <1>1 DEF DialOk
  <2>2. /\ AtDial /\ tgtSent = <<>> /\ tgtGot = <<>> /\ answer = <<>> /\ up = <<>> /\ said = <<>>
        /\ apc = "requested" => down = <<>> /\ cliOpen
    BY <1>0, <2>1 DEF TunnelInv, SocksInv, AtDial, Opening, CutUp
  <2>3. ForTarget' = <<>> /\ tgtGot' \o up' = <<>> /\ IsPrefixOf(<<>>, <<>>)
    BY <1>0, <2>1, <2>2, Joined, Empty, PrefixOfItself DEF ForTarget, chosen
  <2>4. TargetGets'
    BY <2>3 DEF TargetGets
  <2>5. Success' = Reply(0) /\ Reply(0) \in Seq(Byte)
    <3>1. 0 \in Byte
      BY DEF Byte
    <3> QED
      BY <1>0, <3>1, Replies DEF Success, Reply, chosen
  <2>6. Success' \o tgtSent' = Reply(0) /\ Reply(0) \in Told'
    <3>1. Reply(0) \o <<>> = Reply(0)
      BY <2>5, Joined, Empty
    <3>2. Len(tgtSent') = 0 /\ tgtSent' = <<>> /\ SubSeq(TargetSays, 1, 0) = <<>>
      BY <1>0, <2>2, Empty, SubSeqEmpty
    <3>3. 0 \in 0 .. Len(tgtSent')
      BY <3>2
    <3> QED
      BY <2>5, <3>1, <3>2, <3>3 DEF Told
  <2>7. /\ answer' = <<>>
        /\ apc' = "requested" => answer' \o down' \in {<<>>, Reply(0)}
        /\ apc' = "requested" /\ ~broken' => answer' \o down' = Reply(0)
    <3>1. apc' = "requested" => down' = IF broken THEN <<>> ELSE Reply(0)
      BY <1>0, <2>1, <2>2, <2>5, Joined, Empty DEF Sent
    <3>2. <<>> \o <<>> = <<>> /\ <<>> \o Reply(0) = Reply(0)
      BY <2>5, Joined, Empty
    <3> QED
      BY <1>0, <2>2, <3>1, <3>2
  <2>8. ClientGets'
    BY <2>6, <2>7 DEF ClientGets
  <2> QED
    BY <1>0, <2>1, <2>4, <2>8 DEF TunnelInv, TargetSaid
<1>2. CASE ~DialOk
  <2>1. spc' \notin {"tunnel", "done"}
    BY <1>2 DEF Server, Accept, ReadGreeting, GreetingErr, ReadRequest, Judge, Refuse, Die, StartDial,
                DialFails
  <2> QED
    BY <1>0, <2>1 DEF TunnelInv, TargetSaid
<1> QED
  BY <1>1, <1>2

LEMMA TunnelOfHttp ==
  ASSUME Types, Opening, HttpInv, TunnelInv, port = "http", HttpServer, ~Relay,
         UNCHANGED <<echoVars, clientVars>>
  PROVE  TunnelInv'
<1> USE DEF clientVars, link
<1>0. /\ UNCHANGED <<chosen, whole, broken, apc, said, answer, cliOpen, tgtSent>>
      /\ spc \notin {"tunnel", "done"}
  BY DEF HttpServer, HttpAccept, HttpReadErr, ReadHead, HttpDialOk, HttpDialFails, wireVars
<1>1. CASE HttpDialOk
  <2>1. /\ spc = "dialing" /\ spc' = "tunnel" /\ AnswerOrForward
        /\ UNCHANGED <<up, srvOpen>>
    BY <1>1 DEF HttpDialOk
  <2>2. /\ HeadTaken /\ tgtSent = <<>> /\ tgtGot = <<>> /\ answer = <<>> /\ down = <<>>
        /\ Method(httpHead) = CONNECT => said = <<>>
        /\ apc = "requested" => cliOpen
        /\ head \in Seq(Byte) /\ up \in Seq(Byte)
    BY <1>0, <2>1 DEF TunnelInv, HttpInv, Unanswered, Opening, Types, WireOK
  <2>3. /\ Method(httpHead)' = Method(httpHead) /\ (Covered <=> Covered') /\ Success' = Success
        /\ port' = "http" /\ httpHead' = httpHead
    BY <1>0, Frames DEF Method, Word, Line, LineEnds, chosen
  <2>4. CASE Method(httpHead) = CONNECT
    <3>1. tgtGot' = <<>> /\ down' = Sent(down, Established, cliOpen)
      BY <2>1, <2>2, <2>4 DEF AnswerOrForward, HeadTaken
    <3>2. Covered' => up = <<>>
      BY <2>2, <2>3, <2>4 DEF HeadTaken, Covered
    <3>3. ForTarget' = <<>> /\ <<>> \o <<>> = <<>> /\ IsPrefixOf(<<>>, <<>>)
      BY <1>0, <2>2, <2>3, <2>4, Joined, Empty, PrefixOfItself DEF ForTarget
    <3>4. TargetGets'
      BY <2>1, <3>1, <3>2, <3>3 DEF TargetGets
    <3>5. Success' = Established /\ Established \in Seq(Byte)
      BY <2>3, <2>4, ShortMessages DEF Success
    <3>6. Success' \o tgtSent' = Established /\ Established \in Told'
      <4>1. Established \o <<>> = Established
        BY <3>5, Joined, Empty
      <4>2. Len(tgtSent') = 0 /\ tgtSent' = <<>> /\ SubSeq(TargetSays, 1, 0) = <<>>
        BY <1>0, <2>2, Empty, SubSeqEmpty
      <4>3. 0 \in 0 .. Len(tgtSent')
        BY <4>2
      <4> QED
        BY <3>5, <4>1, <4>2, <4>3 DEF Told
    <3>7. /\ answer' = <<>>
          /\ apc' = "requested" => answer' \o down' \in {<<>>, Established}
          /\ apc' = "requested" /\ ~broken' => answer' \o down' = Established
      <4>1. apc' = "requested" => down' = IF broken THEN <<>> ELSE Established
        BY <1>0, <2>2, <3>1, <3>5, Joined, Empty DEF Sent
      <4>2. <<>> \o <<>> = <<>> /\ <<>> \o Established = Established
        BY <3>5, Joined, Empty
      <4> QED
        BY <1>0, <2>2, <4>1, <4>2
    <3>8. ClientGets'
      BY <3>6, <3>7 DEF ClientGets
    <3> QED
      BY <1>0, <2>1, <2>2, <3>4, <3>8, Empty, SubSeqEmpty DEF TunnelInv, TargetSaid
  <2>5. CASE Method(httpHead) # CONNECT
    <3>1. tgtGot' = head /\ down' = <<>> /\ Method(head) # CONNECT
      BY <2>1, <2>2, <2>5 DEF AnswerOrForward, HeadTaken
    <3>2. ForTarget' = httpHead \o said
      BY <1>0, <2>3, <2>5 DEF ForTarget
    <3>3. TargetGets'
      BY <1>0, <2>1, <2>2, <3>1, <3>2 DEF TargetGets, HeadTaken
    <3>4. Success' = <<>>
      BY <2>3, <2>5 DEF Success
    <3>5. answer' = <<>> /\ answer' \o down' = <<>> /\ Success' \o tgtSent' = <<>>
      BY <1>0, <2>2, <3>1, <3>4, Joined, Empty
    <3>6. ClientGets'
      BY <3>5 DEF ClientGets
    <3> QED
      BY <1>0, <2>1, <2>2, <3>3, <3>6, Empty, SubSeqEmpty DEF TunnelInv, TargetSaid
  <2> QED
    BY <2>4, <2>5
<1>2. CASE ~HttpDialOk
  <2>1. spc' \notin {"tunnel", "done"} /\ tgtGot' = tgtGot
    BY <1>2 DEF HttpServer, HttpAccept, HttpReadErr, ReadHead, NoNewline, DoesNotParse, HttpDials,
                HttpDialFails
  <2> QED
    BY <1>0, <2>1 DEF TunnelInv, TargetSaid
<1> QED
  BY <1>1, <1>2

(* Of a SOCKS connection on which Reads cut messages up only the target's  *)
(* part is claimed.                                                        *)
LEMMA TunnelCutUp ==
  ASSUME Types, TunnelInv, CutUp, [Next]_vars
  PROVE  TunnelInv'
<1> USE DEF servers, serverVars, proxyVars, clientVars, chosen
<1> DEFINE Silent == spc \notin {"tunnel", "done"} => tgtSent = <<>> /\ tgtGot = <<>>
<1>0. port = "socks" /\ CutUp' /\ TargetSaid /\ Silent
  BY Constant DEF CutUp, TunnelInv
<1> SUFFICES TargetSaid' /\ Silent'
  BY <1>0 DEF TunnelInv
<1>1. CASE UNCHANGED <<spc, tgtSent, tgtGot>>
  BY <1>0, <1>1 DEF TargetSaid
<1>2. CASE CloseTunnel
  BY <1>0, <1>2 DEF CloseTunnel, TargetSaid
<1>3. CASE RelayToTarget
  BY <1>0, <1>3 DEF RelayToTarget, TargetSaid
<1>4. CASE RelayToClient
  <2>1. TargetSaid'
    BY <1>0, <1>4, TargetGoesOn
  <2> QED
    BY <2>1, <1>4 DEF RelayToClient
<1>5. CASE Server /\ ~Relay
  <2>1. UNCHANGED <<tgtSent, tgtGot>> /\ spc \notin {"tunnel", "done"}
    BY <1>5 DEF Server, Accept, ReadGreeting, GreetingErr, ReadRequest, DialOk, DialFails, wireVars
  <2> QED
    BY <1>0, <2>1 DEF TargetSaid
<1>6. CASE \/ AnyClientStep \/ UNCHANGED vars
           \/ (WireBreaks /\ UNCHANGED <<servers, clientVars>>)
  <2>1. UNCHANGED <<spc, tgtSent, tgtGot>>
    BY <1>6 DEF AnyClientStep, Connects, AsksFor, Speaks, Listens, ShutsDown, Leaves, WireBreaks, vars
  <2> QED
    BY <1>1, <2>1
<1> QED
  BY <1>0, <1>2, <1>3, <1>4, <1>5, <1>6 DEF Next, ServerStep, Relay, Target, ServerTunnelEnds, TargetEnds

LEMMA TunnelNext ==
  ASSUME Types, Opening, SocksInv, HttpInv, TunnelInv, [Next]_vars
  PROVE  TunnelInv'
<1> USE DEF servers, serverVars, proxyVars, link
<1> SUFFICES ASSUME ~CutUp PROVE TunnelInv'
  BY TunnelCutUp
<1>1. CASE (WireBreaks \/ UNCHANGED wireVars) /\ UNCHANGED <<servers, clientVars>>
  <2>1. /\ UNCHANGED <<spc, tgtSent, tgtGot, chosen, whole, apc, said, answer, srvOpen>>
        /\ \/ broken' /\ up' = <<>> /\ down' = <<>>
           \/ UNCHANGED <<up, down, broken>>
    BY <1>1 DEF WireBreaks, wireVars, clientVars
  <2>2. TargetGets => TargetGets'
    BY <2>1, TargetKeeps
  <2>3. ClientGets => ClientGets'
    BY <2>1, ClientKeeps
  <2> QED
    BY <2>1, <2>2, <2>3 DEF TunnelInv, TargetSaid
<1>2. CASE UNCHANGED vars
  BY <1>1, <1>2 DEF vars
<1>3. CASE Target /\ UNCHANGED <<b, head, echoVars, clientVars>>
  BY <1>3, TunnelOfTunnel
<1>4. CASE ServerStep
  <2>1. CASE Relay /\ UNCHANGED clientVars
    BY <2>1, TunnelOfTunnel
  <2>2. CASE port = "echo" /\ UNCHANGED serverVars
    <3>1. spc' = spc /\ spc = "accept" /\ UNCHANGED <<tgtSent, tgtGot>>
      BY <2>2 DEF Opening
    <3> QED
      BY <3>1 DEF TunnelInv, TargetSaid
  <2> QED
    BY <1>4, <2>1, <2>2, TunnelOfSocks, TunnelOfHttp DEF ServerStep
<1> QED
  BY <1>1, <1>2, <1>3, <1>4, TunnelOfClient DEF Next

-----------------------------------------------------------------------------
(* The echo server. *)
LEMMA EchoTypes ==
  ASSUME Types
  PROVE  /\ answer \in Seq(Byte) /\ down \in Seq(Byte) /\ up \in Seq(Byte) /\ said \in Seq(Byte)
         /\ Echoed \in Seq(Byte)
         /\ chunk["p1die"] \in Seq(Byte) /\ chunk["p2die"] \in Seq(Byte)
         /\ \A c \in Copiers : chunk[c] \in Seq(Byte)
         /\ Len(answer) \in Nat /\ Len(down) \in Nat /\ Len(up) \in Nat /\ Len(said) \in Nat
         /\ Len(Echoed) = Len(answer) + Len(down)
         /\ Len(chunk["p1die"]) \in Nat /\ Len(chunk["p2die"]) \in Nat
<1>1. /\ answer \in Seq(Byte) /\ down \in Seq(Byte) /\ up \in Seq(Byte) /\ said \in Seq(Byte)
      /\ \A c \in Copiers : chunk[c] \in Seq(Byte)
  BY DEF Types, WireOK
<1>2. chunk["p1die"] \in Seq(Byte) /\ chunk["p2die"] \in Seq(Byte)
  BY <1>1 DEF Copiers
<1>3. Echoed \in Seq(Byte) /\ Len(Echoed) = Len(answer) + Len(down)
  BY <1>1, Joined DEF Echoed
<1> QED
  BY <1>1, <1>2, <1>3, LenProperties

(* An echo connection that nothing but the history of the client touches. *)
LEMMA EchoSpeaks ==
  ASSUME Types, Opening, EchoInv, Speaks, port = "echo"
  PROVE  EchoInv'
<1> DEFINE x == Says[Len(said) + 1]
           p == chunk["p1die"]
           q == chunk["p2die"]
<1>1. /\ UNCHANGED <<port, handler, epc, chunk, cliOpen, broken, srvOpen, fin, apc, answer, down>>
      /\ said' = Append(said, x) /\ up' = Sent(up, <<x>>, srvOpen)
      /\ patient' = (patient /\ answer = said)
      /\ ~fin /\ apc = "requested"
  BY DEF Speaks, chosen, servers, echoVars, link
<1>2. x \in Byte
  <2>1. Len(said) \in Nat /\ Len(said) < Len(Says) /\ Says \in Seq(Byte) /\ Len(Says) \in Nat
    BY NotEmpty, Chosen DEF Speaks, Types
  <2> QED
    BY <2>1, NotEmpty
<1> HIDE DEF x
<1>3. Copying'
  BY <1>1 DEF EchoInv, Copying
<1>4. Echoed' = Echoed
  BY <1>1 DEF Echoed
<1>5. ASSUME cliOpen, ~broken
      PROVE  srvOpen /\ Conserved /\ Returned /\ handler # "done"
  <2>1. Returned
    BY <1>5 DEF EchoInv
  <2>2. handler # "done"
    BY <1>1, <2>1 DEF Returned
  <2>3. srvOpen
    BY <1>1, <2>2 DEF EchoInv, Copying
  <2> QED
    BY <1>5, <2>1, <2>2, <2>3 DEF EchoInv
<1>6. ASSUME cliOpen, ~broken
      PROVE  Conserved' /\ Returned'
  <2>0. srvOpen /\ Conserved /\ Returned /\ handler # "done"
    BY <1>5, <1>6
  <2> HIDE DEF p, q
  <2>1. /\ <<x>> \in Seq(Byte) /\ Len(<<x>>) = 1 /\ up \in Seq(Byte) /\ said \in Seq(Byte)
        /\ answer \in Seq(Byte) /\ down \in Seq(Byte)
        /\ Echoed \in Seq(Byte) /\ p \in Seq(Byte) /\ q \in Seq(Byte)
    BY <1>2, One, EchoTypes DEF p, q
  <2>2. said' = said \o <<x>> /\ up' = up \o <<x>>
    <3>1. Append(said, x) = said \o <<x>>
      BY <1>2, <2>1, AppendIsConcat
    <3> QED
      BY <1>1, <1>6, <2>0, <3>1 DEF Sent
  <2>3. p' = p /\ q' = q
    BY <1>1 DEF p, q
  <2>4. Elements(said) = Elements(Echoed) \cup Elements(up) \cup Elements(p) \cup Elements(q)
    BY <2>0 DEF Conserved, p, q
  <2>5. Elements(said') = Elements(Echoed') \cup Elements(up') \cup Elements(p') \cup Elements(q')
    <3>1. /\ Elements(said \o <<x>>) = Elements(said) \cup Elements(<<x>>)
          /\ Elements(up \o <<x>>) = Elements(up) \cup Elements(<<x>>)
      BY <2>1, ElementsJoined
    <3> QED
      BY <1>4, <2>2, <2>3, <2>4, <3>1
  <2>6. Len(said) = Len(Echoed) + Len(up) + Len(p) + Len(q)
    <3>1. /\ Len(said) = Len(Echoed) + (Len(up) + Len(p) + Len(q))
      BY <2>0 DEF Conserved, p, q, InFlight
    <3> QED
      BY <2>1, <3>1, LenProperties
  <2>7. /\ Len(said') = Len(said) + 1 /\ Len(up') = Len(up) + 1
        /\ Len(said) \in Nat /\ Len(up) \in Nat /\ Len(p) \in Nat /\ Len(q) \in Nat /\ Len(Echoed) \in Nat
    BY <2>1, <2>2, Joined, LenProperties
  <2>8. Len(said') = Len(Echoed') + (Len(up') + Len(p') + Len(q'))
    BY <1>4, <2>3, <2>6, <2>7
  <2>9. ASSUME patient'
        PROVE  Len(up') + Len(p') + Len(q') <= 1 /\ ((Echoed' \o p') \o q') \o up' = said'
    <3>1. patient /\ answer = said
      BY <1>1, <2>9
    <3>2. Len(Echoed) = Len(answer) + Len(down) /\ Len(answer) \in Nat /\ Len(down) \in Nat
      BY EchoTypes
    <3>3. Len(down) = 0 /\ Len(up) = 0 /\ Len(p) = 0 /\ Len(q) = 0
      BY <2>6, <2>7, <3>1, <3>2
    <3>4. up = <<>> /\ p = <<>> /\ q = <<>>
      BY <2>1, <3>3, NotEmpty
    <3>5. ((Echoed \o p) \o q) \o up = said
      BY <2>0, <3>1 DEF Conserved, p, q
    <3>6. Echoed \o <<>> = Echoed /\ <<>> \o <<x>> = <<x>>
      BY <2>1, Joined
    <3>7. Echoed = said
      BY <3>4, <3>5, <3>6
    <3>8. ((Echoed' \o p') \o q') \o up' = said \o <<x>>
      BY <1>4, <2>2, <2>3, <3>4, <3>6, <3>7
    <3> QED
      BY <2>2, <2>3, <2>7, <3>3, <3>8
  <2>10. Conserved'
    <3>1. \A c \in Copiers : epc'[c] # "ended"
      BY <1>1, <2>0 DEF Conserved
    <3> QED
      BY <2>5, <2>8, <2>9, <3>1 DEF Conserved, p, q, InFlight
  <2>11. Returned'
    <3>1. patient => IsPrefixOf(Echoed, said \o <<x>>)
      BY <2>0, <2>1, PrefixGrows DEF Returned
    <3> QED
      BY <1>1, <1>4, <2>0, <2>2, <3>1 DEF Returned
  <2> QED
    BY <2>10, <2>11
<1> QED
  BY <1>1, <1>3, <1>6 DEF EchoInv

LEMMA EchoOfClient ==
  ASSUME Types, Opening, EchoInv, AnyClientStep, port = "echo"
  PROVE  EchoInv'
<1> USE DEF chosen, servers, echoVars, link
<1>1. CASE Connects
  <2>1. /\ cliOpen' /\ srvOpen' /\ up' = <<>>
        /\ UNCHANGED <<port, handler, epc, chunk, fin, broken, down, said, answer, patient>>
        /\ apc = "start"
    BY <1>1 DEF Connects, FirstMessage
  <2>2. /\ ~cliOpen /\ ~broken /\ handler = "accept" /\ said = <<>> /\ answer = <<>> /\ down = <<>>
    BY <2>1 DEF Opening
  <2>3. epc = [c \in Copiers |-> "read"] /\ chunk = [c \in Copiers |-> <<>>]
    BY <2>2 DEF EchoInv, Copying
  <2>4. \A c \in Copiers : epc[c] = "read" /\ chunk[c] = <<>>
    BY <2>3
  <2>5. chunk["p1die"] = <<>> /\ chunk["p2die"] = <<>>
    BY <2>4 DEF Copiers
  <2>6. /\ Len(<<>>) = 0 /\ Elements(<<>>) = {} /\ <<>> \o <<>> = <<>>
        /\ IsPrefixOf(<<>>, <<>>)
    BY Empty, Joined, PrefixOfItself
  <2>7. Echoed' = <<>> /\ InFlight' = 0
    BY <2>1, <2>2, <2>5, <2>6 DEF Echoed, InFlight
  <2>8. Conserved'
    BY <2>1, <2>2, <2>4, <2>5, <2>6, <2>7 DEF Conserved
  <2>9. Returned'
    BY <2>1, <2>2, <2>6, <2>7 DEF Returned
  <2>10. Copying'
    BY <2>1, <2>2, <2>3, <2>4 DEF Copying
  <2> QED
    BY <2>8, <2>9, <2>10 DEF EchoInv
<1>2. CASE AsksFor
  BY <1>2 DEF AsksFor, Opening
<1>3. CASE Listens
  <2>1. /\ UNCHANGED <<port, handler, epc, chunk, cliOpen, broken, srvOpen, fin, apc, said, up, patient>>
        /\ answer' = answer \o down /\ down' = <<>>
    BY <1>3 DEF Listens
  <2>2. Echoed' = Echoed
    <3>1. Echoed \o <<>> = Echoed
      BY EchoTypes, Joined
    <3> QED
      BY <2>1, <3>1 DEF Echoed
  <2>3. Copying' = Copying /\ InFlight' = InFlight
    BY <2>1 DEF Copying, InFlight
  <2>4. Conserved' = Conserved
    BY <2>1, <2>2, <2>3 DEF Conserved
  <2>5. Returned' = Returned
    BY <2>1, <2>2 DEF Returned
  <2> QED
    BY <2>1, <2>3, <2>4, <2>5 DEF EchoInv
<1>4. CASE ShutsDown
  <2>1. /\ UNCHANGED <<port, handler, epc, chunk, cliOpen, broken, srvOpen>>
        /\ UNCHANGED <<apc, said, up, down, answer, patient>> /\ fin'
    BY <1>4 DEF ShutsDown, clientVars
  <2>2. Echoed' = Echoed /\ InFlight' = InFlight /\ Copying' = Copying
    BY <2>1 DEF Copying, InFlight, Echoed
  <2>3. Conserved => Conserved'
    BY <2>1, <2>2 DEF Conserved
  <2>4. Returned => Returned'
    BY <2>1, <2>2 DEF Returned
  <2> QED
    BY <2>1, <2>2, <2>3, <2>4 DEF EchoInv
<1>5. CASE Leaves
  <2>1. UNCHANGED <<port, handler, epc, chunk, srvOpen>> /\ cliOpen' = FALSE /\ apc' = "left" /\ cliOpen
    BY <1>5 DEF Leaves, CloseCli
  <2>2. apc # "start"
    BY <2>1 DEF Opening
  <2>3. Copying'
    BY <2>1, <2>2 DEF EchoInv, Copying
  <2> QED
    BY <2>1, <2>3 DEF EchoInv
<1> QED
  BY <1>1, <1>2, <1>3, <1>4, <1>5, EchoSpeaks DEF AnyClientStep
(* A Read moves bytes from the connection to a copier, a Write moves them  *)
(* back to the connection.                                                 *)
LEMMA EchoReads ==
  ASSUME Types, EchoInv, NEW c \in Copiers, EchoRead(c), UNCHANGED clientVars, port = "echo"
  PROVE  EchoInv'
<1> DEFINE p == chunk["p1die"]
           q == chunk["p2die"]
<1>1. PICK k \in Pieces(up, EchoMax) :
        chunk' = [chunk EXCEPT ![c] = SubSeq(up, 1, k)] /\ up' = Drop(up, k)
  BY DEF EchoRead
<1>2. /\ UNCHANGED <<port, apc, said, answer, patient, down, cliOpen, srvOpen, fin, broken, handler>>
      /\ epc' = [epc EXCEPT ![c] = "write"]
      /\ epc[c] = "read" /\ handler # "accept" /\ srvOpen
  BY DEF EchoRead, Copies, clientVars, chosen, link
<1>3. k \in 1 .. Len(up) /\ k \in 0 .. Len(up) /\ up # <<>>
  BY NothingLeft, Taken, EchoAssumption DEF Types
<1>4. /\ up \in Seq(Byte) /\ SubSeq(up, 1, k) \in Seq(Byte) /\ Drop(up, k) \in Seq(Byte)
      /\ Len(SubSeq(up, 1, k)) = k /\ Len(Drop(up, k)) = Len(up) - k
      /\ SubSeq(up, 1, k) \o Drop(up, k) = up
      /\ Elements(up) = Elements(SubSeq(up, 1, k)) \cup Elements(Drop(up, k))
  BY <1>3, EchoTypes, Divided
<1>5. chunk[c] = <<>>
  BY <1>2 DEF EchoInv, Copying
<1>6. Copying'
  <2>1. handler # "accept" /\ handler # "done"
    BY <1>2 DEF EchoInv, Copying
  <2>2. \A d \in Copiers : epc'[d] = "read" => epc[d] = "read" /\ chunk'[d] = chunk[d]
    BY <1>1, <1>2 DEF Types
  <2> QED
    BY <1>2, <2>1, <2>2 DEF EchoInv, Copying
<1>7. Echoed' = Echoed
  BY <1>2 DEF Echoed
<1>8. ASSUME cliOpen, ~broken PROVE Conserved' /\ Returned'
  <2>1. Conserved /\ Returned
    BY <1>2, <1>8 DEF EchoInv
  <2>2. \A d \in Copiers : epc[d] # "ended" /\ epc'[d] # "ended"
    BY <1>2, <1>3, <2>1 DEF Conserved, Types
  <2>3. /\ p \in Seq(Byte) /\ q \in Seq(Byte) /\ Echoed \in Seq(Byte)
        /\ Len(p) \in Nat /\ Len(q) \in Nat /\ Len(up) \in Nat /\ Len(Echoed) \in Nat
    BY EchoTypes, LenProperties
  <2>4. \/ c = "p1die" /\ p = <<>> /\ p' = SubSeq(up, 1, k) /\ q' = q
        \/ c = "p2die" /\ q = <<>> /\ q' = SubSeq(up, 1, k) /\ p' = p
    BY <1>1, <1>5 DEF Copiers, Types
  <2>5. Len(<<>>) = 0 /\ Elements(<<>>) = {} /\ <<>> \in Seq(Byte)
    BY Empty
  <2> HIDE DEF p, q
  <2>6. Elements(said) = Elements(Echoed) \cup Elements(up') \cup Elements(p') \cup Elements(q')
    <3>1. Elements(said) = Elements(Echoed) \cup Elements(up) \cup Elements(p) \cup Elements(q)
      BY <2>1 DEF Conserved, p, q
    <3> QED
      BY <1>1, <1>4, <2>4, <2>5, <3>1
  <2>7. Len(up') + Len(p') + Len(q') = Len(up) + Len(p) + Len(q)
    <3>1. k \in Nat /\ Len(up') = Len(up) - k /\ Len(SubSeq(up, 1, k)) = k
      BY <1>1, <1>3, <1>4
    <3>2. \/ Len(p) = 0 /\ Len(p') = k /\ Len(q') = Len(q)
          \/ Len(q) = 0 /\ Len(q') = k /\ Len(p') = Len(p)
      BY <2>4, <2>5, <3>1
    <3>3. Len(p') + Len(q') = k + Len(p) + Len(q)
      BY <2>3, <3>1, <3>2
    <3>4. Len(p') + Len(q') \in Nat /\ Len(p) \in Nat /\ Len(q) \in Nat /\ Len(up) \in Nat
      BY <2>3, <3>1, <3>2
    <3>5. Len(p') \in Nat /\ Len(q') \in Nat
      BY <2>3, <3>1, <3>2
    <3> QED
      BY <3>1, <3>3, <3>4, <3>5
  <2>8. InFlight' = InFlight /\ Len(said) = Len(Echoed) + InFlight'
    BY <2>1, <2>7 DEF Conserved, InFlight, p, q
  <2>9. ASSUME patient
        PROVE  ((Echoed \o p') \o q') \o up' = said
    <3>1. Len(up) + Len(p) + Len(q) <= 1 /\ ((Echoed \o p) \o q) \o up = said
      BY <2>1, <2>9 DEF Conserved, InFlight, p, q
    <3>2. Len(up) = 1 /\ k = 1 /\ Len(p) = 0 /\ Len(q) = 0
      <4>1. k \in Nat /\ 1 <= k /\ k <= Len(up)
        BY <1>3, <2>3
      <4>2. Len(up) + Len(p) + Len(q) <= 1
        BY <3>1
      <4>3. Len(p) \in Nat /\ Len(q) \in Nat /\ Len(up) \in Nat
        BY <2>3
      <4>4. ASSUME NEW l \in Nat, NEW n \in Nat, NEW o \in Nat, k <= l, l + n + o <= 1
            PROVE  l = 1 /\ k = 1 /\ n = 0 /\ o = 0
        BY <4>1, <4>4
      <4> QED
        BY <4>1, <4>2, <4>3, <4>4
    <3>3. p = <<>> /\ q = <<>>
      BY <2>3, <3>2, NotEmpty
    <3>4. up' = <<>>
      BY <1>1, <1>4, <3>2, DropAll
    <3>5. SubSeq(up, 1, k) = up
      <4>1. SubSeq(up, 1, k) \o <<>> = SubSeq(up, 1, k)
        BY <1>4, Joined
      <4> QED
        BY <1>1, <1>4, <3>4, <4>1
    <3>6. /\ Echoed \o <<>> = Echoed
          /\ Echoed \o up \in Seq(Byte) /\ (Echoed \o up) \o <<>> = Echoed \o up
      BY <1>4, <2>3, Joined
    <3>7. Echoed \o up = said
      BY <3>1, <3>3, <3>6
    <3> QED
      BY <2>4, <3>3, <3>4, <3>5, <3>6, <3>7
  <2>10. Conserved'
    BY <1>2, <1>7, <2>1, <2>2, <2>6, <2>8, <2>9 DEF Conserved, p, q
  <2>11. Returned'
    <3>1. handler # "done"
      BY <1>2 DEF EchoInv, Copying
    <3> QED
      BY <1>2, <1>7, <2>1, <3>1 DEF Returned
  <2> QED
    BY <2>10, <2>11
<1> QED
  BY <1>2, <1>6, <1>8 DEF EchoInv

LEMMA EchoWrites ==
  ASSUME Types, EchoInv, NEW c \in Copiers, EchoWrite(c), UNCHANGED clientVars, port = "echo"
  PROVE  EchoInv'
<1> DEFINE p == chunk["p1die"]
           q == chunk["p2die"]
<1>1. /\ UNCHANGED <<port, apc, said, answer, patient, up, cliOpen, srvOpen, fin, broken, handler>>
      /\ chunk' = [chunk EXCEPT ![c] = <<>>]
      /\ epc' = [epc EXCEPT ![c] = "read"]
      /\ epc[c] = "write" /\ handler # "accept" /\ srvOpen
      /\ down' = Sent(down, chunk[c], cliOpen)
  BY DEF EchoWrite, Copies, clientVars, chosen, link
<1>2. Copying'
  <2>1. handler # "accept" /\ handler # "done"
    BY <1>1 DEF EchoInv, Copying
  <2>2. \A d \in Copiers : epc'[d] = "read" => chunk'[d] = <<>>
    BY <1>1 DEF EchoInv, Copying, Types
  <2> QED
    BY <1>1, <2>1, <2>2 DEF EchoInv, Copying
<1>3. ASSUME cliOpen, ~broken PROVE Conserved' /\ Returned'
  <2>1. Conserved /\ Returned /\ handler # "done"
    BY <1>1, <1>3 DEF EchoInv, Copying
  <2>2. /\ p \in Seq(Byte) /\ q \in Seq(Byte) /\ Echoed \in Seq(Byte) /\ up \in Seq(Byte)
        /\ answer \in Seq(Byte) /\ down \in Seq(Byte)
        /\ Len(p) \in Nat /\ Len(q) \in Nat /\ Len(up) \in Nat /\ Len(Echoed) \in Nat
        /\ chunk[c] \in Seq(Byte)
    BY EchoTypes, LenProperties
  <2>3. \A d \in Copiers : epc'[d] = "ended" => epc[d] = "ended" /\ chunk'[d] = chunk[d]
    BY <1>1 DEF Types
  <2>4. \/ chunk[c] = p /\ p' = <<>> /\ q' = q
        \/ chunk[c] = q /\ q' = <<>> /\ p' = p
    BY <1>1 DEF Copiers, Types
  <2>5. Len(<<>>) = 0 /\ Elements(<<>>) = {} /\ <<>> \in Seq(Byte)
    BY Empty
  <2>6. PICK m \in Seq(Byte) : m = chunk[c]
    BY <2>2
  <2>7. (m = p /\ p' = <<>> /\ q' = q) \/ (m = q /\ q' = <<>> /\ p' = p)
    BY <2>4, <2>6
  <2> HIDE DEF p, q
  <2>8. Echoed' = Echoed \o m
    <3>1. down' = down \o m
      BY <1>1, <1>3, <2>6 DEF Sent
    <3>2. answer \in Seq(Byte) /\ down \in Seq(Byte) /\ m \in Seq(Byte)
      BY <2>2, <2>6
    <3>3. (answer \o down) \o m = answer \o (down \o m)
      BY <3>2, Regrouped
    <3> QED
      BY <1>1, <3>1, <3>3 DEF Echoed
  <2>9. Elements(Echoed \o m) = Elements(Echoed) \cup Elements(m) /\ Len(Echoed \o m) = Len(Echoed) + Len(m)
    BY <2>2, <2>6, ElementsJoined, Joined
  <2>10. Elements(said) = Elements(Echoed') \cup Elements(up) \cup Elements(p') \cup Elements(q')
    <3>1. Elements(said) = Elements(Echoed) \cup Elements(up) \cup Elements(p) \cup Elements(q)
      BY <2>1 DEF Conserved, p, q
    <3> QED
      BY <2>5, <2>7, <2>9, <2>8, <3>1
  <2>11. Len(said) = Len(Echoed) + (Len(up) + Len(p) + Len(q))
    BY <2>1 DEF Conserved, InFlight, p, q
  <2>12. Len(said) = Len(Echoed') + (Len(up) + Len(p') + Len(q'))
    <3>1. Len(Echoed') = Len(Echoed) + Len(m) /\ Len(m) \in Nat
      BY <2>6, <2>9, <2>8, LenProperties
    <3>2. (Len(m) = Len(p) /\ Len(p') = 0 /\ q' = q) \/ (Len(m) = Len(q) /\ Len(q') = 0 /\ p' = p)
      BY <2>5, <2>7
    <3>3. Len(p) \in Nat /\ Len(q) \in Nat /\ Len(up) \in Nat /\ Len(Echoed) \in Nat
      BY <2>2
    <3>4. CASE Len(m) = Len(p) /\ Len(p') = 0 /\ q' = q
      BY <2>11, <3>1, <3>3, <3>4
    <3>5. CASE Len(m) = Len(q) /\ Len(q') = 0 /\ p' = p
      BY <2>11, <3>1, <3>3, <3>5
    <3> QED
      BY <3>2, <3>4, <3>5
  <2>13. ASSUME patient
         PROVE  Len(up) + Len(p') + Len(q') <= 1 /\ ((Echoed' \o p') \o q') \o up = said
    <3>1. Len(up) + Len(p) + Len(q) <= 1 /\ ((Echoed \o p) \o q) \o up = said
      BY <2>1, <2>13 DEF Conserved, InFlight, p, q
    <3>2. Len(up) + Len(p') + Len(q') <= 1
      BY <2>2, <2>5, <2>7, <3>1
    <3>3. p = <<>> \/ q = <<>>
      <4>1. Len(p) = 0 \/ Len(q) = 0
        BY <2>2, <3>1
      <4> QED
        BY <2>2, <4>1, NotEmpty
    <3>4. /\ Echoed \o <<>> = Echoed /\ Echoed \o p \in Seq(Byte) /\ (Echoed \o p) \o <<>> = Echoed \o p
          /\ Echoed \o q \in Seq(Byte) /\ (Echoed \o q) \o <<>> = Echoed \o q
      BY <2>2, Joined
    <3>5. (Echoed' \o p') \o q' = (Echoed \o p) \o q
      BY <2>7, <2>8, <3>3, <3>4
    <3> QED
      BY <3>1, <3>2, <3>5
  <2>14. Conserved'
    BY <1>1, <2>1, <2>3, <2>10, <2>12, <2>13 DEF Conserved, InFlight, p, q
  <2>15. ASSUME patient PROVE IsPrefixOf(Echoed', said)
    <3>1. ((Echoed' \o p') \o q') \o up = said
      BY <2>13, <2>15
    <3>2. Echoed' \in Seq(Byte) /\ p' \in Seq(Byte) /\ q' \in Seq(Byte)
      BY <2>2, <2>5, <2>6, <2>7, <2>8, Joined
    <3>3. Echoed' \o p' \in Seq(Byte) /\ IsPrefixOf(Echoed', Echoed' \o p')
      BY <3>2, Joined, PrefixOfItself
    <3>4. (Echoed' \o p') \o q' \in Seq(Byte) /\ IsPrefixOf(Echoed', (Echoed' \o p') \o q')
      BY <3>2, <3>3, Joined, PrefixGrows
    <3>5. IsPrefixOf(Echoed', ((Echoed' \o p') \o q') \o up)
      BY <2>2, <3>2, <3>4, PrefixGrows
    <3> QED
      BY <3>1, <3>5
  <2>16. Returned'
    BY <1>1, <2>1, <2>15 DEF Returned
  <2> QED
    BY <2>14, <2>16
<1> QED
  BY <1>1, <1>2, <1>3 DEF EchoInv

LEMMA EchoOfServer ==
  ASSUME Types, Opening, EchoInv, EchoServer, UNCHANGED clientVars, port = "echo"
  PROVE  EchoInv'
<1>0. /\ UNCHANGED <<port, apc, said, answer, patient>> /\ Echoed = answer \o down
      /\ <<>> \in Seq(Byte) /\ apc # "start"
  BY Empty DEF clientVars, chosen, Echoed, Opening, EchoServer, EchoAccept, EchoClose, EchoCopy,
               EchoRead, EchoReadEnds, EchoWrite, EchoWriteErr, Copies
<1>1. CASE EchoAccept
  <2>1. /\ UNCHANGED <<up, down, cliOpen, srvOpen, fin, broken, epc, chunk>>
        /\ handler = "accept" /\ handler' = "select" /\ srvOpen
    BY <1>1 DEF EchoAccept, wireVars
  <2>2. Echoed' = Echoed /\ InFlight' = InFlight
    BY <1>0, <2>1 DEF Echoed, InFlight
  <2>3. Copying'
    BY <1>0, <2>1 DEF EchoInv, Copying
  <2>4. (Conserved => Conserved') /\ (Returned => Returned')
    BY <1>0, <2>1, <2>2 DEF Conserved, Returned
  <2> QED
    BY <1>0, <2>1, <2>3, <2>4 DEF EchoInv
<1>2. CASE EchoClose
  <2>1. /\ UNCHANGED <<cliOpen, fin, broken, epc, chunk>> /\ handler = "select" /\ handler' = "done"
        /\ CloseSrv(<<>>, up)
    BY <1>2 DEF EchoClose, link
  <2>2. srvOpen' = FALSE /\ (up = <<>> => down' = down)
    <3>1. up \in Seq(Byte) /\ WireOK
      BY DEF Types, WireOK
    <3> QED
      BY <1>0, <2>1, <3>1, Closing
  <2>3. Copying'
    BY <1>0, <2>1, <2>2 DEF EchoInv, Copying
  <2>4. ASSUME cliOpen, ~broken PROVE Returned'
    <3>1. srvOpen
      BY <1>0, <2>1 DEF EchoInv, Copying
    <3>2. Conserved /\ Returned
      BY <2>4, <3>1 DEF EchoInv
    <3>3. PICK c \in Copiers : epc[c] = "ended"
      BY <1>2 DEF EchoClose, EchoDead
    <3>4. fin /\ up = <<>> /\ chunk[c] = <<>>
      BY <3>2, <3>3 DEF Conserved
    <3>5. Echoed' = Echoed
      BY <1>0, <2>2, <3>4 DEF Echoed
    <3>6. \E d \in Copiers : Elements(said) = Elements(Echoed) \cup Elements(chunk[d])
      <4>1. Elements(<<>>) = {}
        BY Empty
      <4>2. Elements(said) = Elements(Echoed) \cup Elements(chunk["p1die"]) \cup Elements(chunk["p2die"])
        BY <3>2, <3>4, <4>1 DEF Conserved
      <4>3. c = "p1die" \/ c = "p2die"
        BY DEF Copiers
      <4>4. CASE c = "p1die"
        BY <3>4, <4>1, <4>2, <4>4 DEF Copiers
      <4>5. CASE c = "p2die"
        BY <3>4, <4>1, <4>2, <4>5 DEF Copiers
      <4> QED
        BY <4>3, <4>4, <4>5
    <3> QED
      BY <1>0, <2>1, <3>2, <3>4, <3>5, <3>6 DEF Returned
  <2> QED
    BY <1>0, <2>1, <2>2, <2>3, <2>4 DEF EchoInv
<1>3. ASSUME NEW c \in Copiers, EchoReadEnds(c) \/ EchoWriteErr(c) PROVE EchoInv'
  <2>1. /\ UNCHANGED <<up, down, cliOpen, srvOpen, fin, broken, handler, chunk>>
        /\ epc' = [epc EXCEPT ![c] = "ended"] /\ handler # "accept"
    BY <1>3 DEF EchoReadEnds, EchoWriteErr, Copies, wireVars
  <2>2. \A d \in Copiers : epc'[d] = epc[d] \/ (d = c /\ epc'[d] = "ended")
    <3>1. epc \in [Copiers -> {"read", "write", "ended"}] /\ epc' = [epc EXCEPT ![c] = "ended"]
      BY <2>1 DEF Types
    <3> QED
      BY <3>1
  <2>3. Copying'
    BY <1>0, <2>1, <2>2 DEF EchoInv, Copying
  <2>4. Echoed' = Echoed /\ InFlight' = InFlight
    BY <1>0, <2>1 DEF Echoed, InFlight
  <2>5. Returned => Returned'
    BY <1>0, <2>1, <2>4 DEF Returned
  <2>6. ASSUME cliOpen, ~broken, srvOpen
        PROVE  fin /\ up = <<>> /\ chunk[c] = <<>>
    BY <1>3, <2>6 DEF EchoReadEnds, EchoWriteErr, UpFails, Copies, EchoInv, Copying
  <2>7. ASSUME cliOpen, ~broken, srvOpen PROVE Conserved'
    <3>1. Conserved
      BY <2>7 DEF EchoInv
    <3>2. \A d \in Copiers : epc'[d] = "ended" => fin /\ up = <<>> /\ chunk[d] = <<>>
      BY <2>2, <2>6, <2>7, <3>1 DEF Conserved
    <3> QED
      BY <1>0, <2>1, <2>4, <3>1, <3>2 DEF Conserved
  <2> QED
    BY <1>0, <2>1, <2>3, <2>5, <2>7 DEF EchoInv
<1> QED
  BY <1>1, <1>2, <1>3, EchoReads, EchoWrites DEF EchoServer, EchoCopy

LEMMA EchoNext ==
  ASSUME Types, Opening, EchoInv, [Next]_vars
  PROVE  EchoInv'
<1> SUFFICES ASSUME port = "echo" PROVE EchoInv'
  BY Constant DEF EchoInv, chosen
<1>1. CASE WireBreaks /\ UNCHANGED <<servers, clientVars>>
  <2>1. UNCHANGED <<port, apc, handler, epc, chunk, srvOpen>> /\ broken'
    BY <1>1 DEF WireBreaks, servers, clientVars, chosen, echoVars
  <2>2. Copying'
    BY <2>1 DEF EchoInv, Copying
  <2> QED
    BY <2>1, <2>2 DEF EchoInv
<1>2. CASE UNCHANGED vars
  <2>1. /\ UNCHANGED <<up, down, cliOpen, srvOpen, fin, broken>>
        /\ UNCHANGED <<port, apc, said, answer, patient, handler, epc, chunk>>
    BY <1>2 DEF vars, wireVars, servers, echoVars, clientVars, chosen
  <2>2. Echoed' = Echoed /\ InFlight' = InFlight
    BY <2>1 DEF Echoed, InFlight
  <2>3. Copying' = Copying /\ Conserved' = Conserved /\ Returned' = Returned
    BY <2>1, <2>2 DEF Copying, Conserved, Returned
  <2> QED
    BY <2>1, <2>3 DEF EchoInv
<1>3. CASE Target /\ UNCHANGED <<b, head, echoVars, clientVars>>
  BY <1>3 DEF Opening, Target, RelayToClient, TargetEnds, CloseTunnel
<1>4. CASE ServerStep
  BY <1>4, EchoOfServer DEF ServerStep
<1> QED
  BY <1>1, <1>2, <1>3, <1>4, EchoOfClient DEF Next
-----------------------------------------------------------------------------
LEMMA InvariantInit ==
  ASSUME Init
  PROVE  IInv
<1> USE DEF Init, WireInit, ServerInit, HttpInit, EchoInit, ProxyInit
<1>0. /\ <<>> \in Seq(Byte) /\ Len(<<>>) = 0 /\ IsPrefixOf(<<>>, <<>>)
      /\ TargetSays \in Seq(Byte) /\ Len(TargetSays) \in Nat
  BY Empty, PrefixOfItself, TargetAssumption, LenProperties
<1>1. Types
  BY <1>0 DEF Types, WireOK
<1>2. Opening
  BY DEF Opening
<1>3. SocksInv
  BY DEF SocksInv, AtGreeting
<1>4. HttpInv
  BY DEF HttpInv, Unanswered, AtHead
<1>5. TunnelInv
  <2>1. SubSeq(TargetSays, 1, 0) = <<>>
    BY <1>0
  <2> QED
    BY <1>0, <2>1 DEF TunnelInv, TargetSaid
<1>6. EchoInv
  BY DEF EchoInv, Copying
<1> QED
  BY <1>1, <1>2, <1>3, <1>4, <1>5, <1>6 DEF IInv

LEMMA InvariantNext ==
  ASSUME IInv, [Next]_vars
  PROVE  IInv'
<1>1. Types /\ Opening /\ SocksInv /\ HttpInv /\ TunnelInv /\ EchoInv
  BY DEF IInv
<1>2. Types' /\ Opening'
  BY <1>1, TypesNext, OpeningNext
<1>3. SocksInv' /\ HttpInv'
  BY <1>1, <1>2, SocksNext, HttpNext
<1>4. TunnelInv'
  BY <1>1, TunnelNext
<1>5. EchoInv'
  BY <1>1, EchoNext
<1> QED
  BY <1>2, <1>3, <1>4, <1>5 DEF IInv

LEMMA Invariant == Spec => []IInv
<1>1. Init => IInv
  BY InvariantInit
<1>2. IInv /\ [Next]_vars => IInv'
  BY InvariantNext
<1> QED
  BY <1>1, <1>2, PTL DEF Spec

(***************************************************************************)
(* If Reads find the messages of a SOCKS client whole, socks.go never      *)
(* indexes its array out of range, whatever the client does: a Read that   *)
(* returns nothing leaves the greeting to be judged, and that is not a     *)
(* request it would dial for.  If its one Read finds the first line of the *)
(* head, httpproxy.go does not either.  (Both do otherwise, socks.go:69,   *)
(* httpproxy.go:61.)                                                       *)
(***************************************************************************)
THEOREM ProxiesSurvive == Spec => []ServerSurvives
<1>1. IInv => ServerSurvives
  BY DEF IInv, Types, Opening, SocksInv, HttpInv, ServerSurvives, OneReadIsEnough
<1> QED
  BY <1>1, Invariant, PTL

(***************************************************************************)
(* Both proxies reach the target that their client has asked for and give  *)
(* it what is for it, in order and nothing twice, for every size of their  *)
(* arrays and whenever the client leaves or the connection breaks:         *)
(* socks.go if each of its Reads finds a message whole, httpproxy.go       *)
(* however Reads cut up what is sent, except that a CONNECT which one Read *)
(* does not hold gives the target more than that.                          *)
(***************************************************************************)
THEOREM TargetsAreServed == Spec => []TargetIsServed
<1>1. ASSUME IInv, spc \in {"tunnel", "done"}, ~CutUp
      PROVE  /\ port = "socks" => request.cmd = 1
             /\ dialed = Wanted
             /\ HeadFits \/ port = "socks" \/ Method(httpHead) # CONNECT
                  => IsPrefixOf(tgtGot, ForTarget)
  <2>1. port \in {"socks", "http"}
    BY <1>1 DEF IInv, Types, Opening
  <2>2. (port = "socks" => request.cmd = 1) /\ dialed = Wanted
    BY <1>1, <2>1 DEF IInv, SocksInv, Asked, HttpInv, CutUp, Types, WireOK
  <2>3. ASSUME Covered PROVE IsPrefixOf(tgtGot, ForTarget)
    <3>1. tgtGot \in Seq(Byte) /\ up \in Seq(Byte) /\ ForTarget \in Seq(Byte)
      <4>1. httpHead \in Seq(Byte) /\ said \in Seq(Byte)
        BY <1>1, Chosen DEF IInv, Types
      <4>2. ForTarget \in Seq(Byte)
        BY <4>1, Joined DEF ForTarget
      <4> QED
        BY <1>1, <4>2 DEF IInv, Types, WireOK
    <3>2. IsPrefixOf(tgtGot \o up, ForTarget)
      BY <1>1, <2>3 DEF IInv, TunnelInv, TargetGets
    <3> QED
      BY <3>1, <3>2, PrefixOfPrefix
  <2> QED
    BY <2>2, <2>3 DEF Covered
<1>2. IInv => TargetIsServed
  BY <1>1 DEF TargetIsServed
<1> QED
  BY <1>2, Invariant, PTL

(***************************************************************************)
(* What a client of a proxy has read is one answer that fits its request,  *)
(* then what the target has said; and success it has read only of a dial   *)
(* that has succeeded.  Of socks.go this is so if its Reads find messages  *)
(* whole.                                                                  *)
(***************************************************************************)
THEOREM AnswersDoFit == Spec => []AnswersFit
<1>1. ASSUME IInv, port # "echo", answer # <<>>, ~CutUp
      PROVE  /\ \E n \in 0 .. Len(tgtSent) : answer \in FittingAnswers(n)
             /\ IsPrefixOf(Reply(0), answer) \/ port = "http" => spc \in {"tunnel", "done"}
  <2>0. Types /\ port \in {"socks", "http"} /\ Len(tgtSent) \in Nat
    BY <1>1, LenProperties DEF IInv, Types
  <2>1. CASE spc \in {"tunnel", "done"}
    <3>1. answer \in Told
      BY <1>1, <2>1 DEF IInv, TunnelInv, ClientGets
    <3>2. PICK n \in 0 .. Len(tgtSent) : answer = Success \o SubSeq(TargetSays, 1, n)
      BY <3>1 DEF Told
    <3>3. port = "socks" => 0 \in Fitting
      BY <1>1, <2>1 DEF IInv, SocksInv, Asked, Fitting, CutUp
    <3>4. answer \in FittingAnswers(n)
      <4>1. CASE port = "socks"
        BY <3>2, <3>3, <4>1 DEF FittingAnswers, Success
      <4>2. CASE port = "http"
        BY <3>2, <4>2 DEF FittingAnswers, Success
      <4> QED
        BY <2>0, <4>1, <4>2
    <3> QED
      BY <2>1, <3>4
  <2>2. CASE spc \notin {"tunnel", "done"}
    <3>1. port = "socks"
      BY <1>1, <2>0, <2>2 DEF IInv, HttpInv, Unanswered
    <3>2. spc \in {"accept", "greeting", "request", "dialing", "closed"}
      BY <1>1, <2>2, <3>1 DEF IInv, SocksInv, CutUp
    <3>3. answer \in Refusal
      BY <1>1, <3>1, <3>2 DEF IInv, SocksInv, AtGreeting, AtRequest, AtDial, Refused, CutUp
    <3>4. PICK c \in Fitting \ {0} : answer = Reply(c)
      BY <3>3 DEF Refusal
    <3>5. c \in Byte \ {0} /\ Reply(c) \in Seq(Byte)
      <4>1. c \in Byte \ {0}
        BY DEF Fitting, Byte
      <4> QED
        BY <4>1, Replies
    <3>6. Reply(c) \o <<>> = Reply(c)
      BY <3>5, Joined, Empty
    <3>7. answer \in FittingAnswers(0)
      BY <3>1, <3>4, <3>6 DEF FittingAnswers
    <3>8. ~ IsPrefixOf(Reply(0), answer)
      BY <3>4, <3>5, Refusals
    <3> QED
      BY <2>0, <3>1, <3>7, <3>8
  <2> QED
    BY <2>1, <2>2
<1>2. IInv => AnswersFit
  BY <1>1 DEF AnswersFit
<1> QED
  BY <1>2, Invariant, PTL

(***************************************************************************)
(* The echo server returns every byte once, or still has it to return, and *)
(* loses at most the chunk of one copier when the client shuts down its    *)
(* side; for a client that waits for every echo it keeps the order, for    *)
(* every size of its buffer.                                               *)
(***************************************************************************)
THEOREM EchoesReturn == Spec => []EchoReturns
<1>1. ASSUME IInv, port = "echo", cliOpen, ~broken
      PROVE  /\ srvOpen =>
                  /\ Elements(said) =
                       Elements(Echoed) \cup Elements(up) \cup
                       UNION {Elements(chunk[c]) : c \in Copiers}
                  /\ Len(said) =
                       Len(Echoed) + Len(up) + Len(chunk["p1die"]) + Len(chunk["p2die"])
             /\ handler = "done" =>
                  fin /\ \E c \in Copiers :
                           Elements(said) = Elements(Echoed) \cup Elements(chunk[c])
             /\ patient => IsPrefixOf(Echoed, said)
  <2>1. Returned /\ (srvOpen => Conserved)
    BY <1>1 DEF IInv, EchoInv
  <2>2. UNION {Elements(chunk[c]) : c \in Copiers}
          = Elements(chunk["p1die"]) \cup Elements(chunk["p2die"])
    BY DEF Copiers
  <2>3. ASSUME srvOpen
        PROVE  Elements(said) =
                 Elements(Echoed) \cup Elements(up) \cup
                 UNION {Elements(chunk[c]) : c \in Copiers}
    BY <2>1, <2>2, <2>3 DEF Conserved
  <2>4. ASSUME srvOpen
        PROVE  Len(said) = Len(Echoed) + Len(up) + Len(chunk["p1die"]) + Len(chunk["p2die"])
    <3>1. /\ Len(Echoed) \in Nat /\ Len(up) \in Nat
          /\ Len(chunk["p1die"]) \in Nat /\ Len(chunk["p2die"]) \in Nat
      BY <1>1, EchoTypes, LenProperties DEF IInv
    <3>2. Len(said) = Len(Echoed) + (Len(up) + Len(chunk["p1die"]) + Len(chunk["p2die"]))
      BY <2>1, <2>4 DEF Conserved, InFlight
    <3>3. PICK e \in Nat, u \in Nat, p \in Nat, q \in Nat :
             e = Len(Echoed) /\ u = Len(up) /\ p = Len(chunk["p1die"]) /\ q = Len(chunk["p2die"])
      BY <3>1
    <3>4. e + (u + p + q) = e + u + p + q
      OBVIOUS
    <3> QED
      BY <3>2, <3>3, <3>4
  <2> QED
    BY <2>1, <2>3, <2>4 DEF Returned
<1>2. IInv => EchoReturns
  BY <1>1 DEF EchoReturns
<1> QED
  BY <1>2, Invariant, PTL

-----------------------------------------------------------------------------
(***************************************************************************)
(* The chain: a program of this repository as the client of socks.go.      *)
(***************************************************************************)

(* Which ends are open, and that nothing is left of what has been lost. *)
Ends ==
  /\ ~fin
  /\ cpc = "connect" => ~cliOpen /\ ~srvOpen /\ ~broken /\ spc = "accept"
  /\ cpc \in {"method", "reply", "tunnel"} => cliOpen /\ (spc = "accept" => srvOpen)
  /\ spc \in {"greeting", "request", "dialing", "tunnel"} => srvOpen
  /\ ~cliOpen \/ broken => down = <<>>
  /\ ~srvOpen \/ broken => up = <<>>

(* What the client has yet to read of the handshake, and what follows it:  *)
(* the rest of the choice of a method, of which a Read may leave a byte,   *)
(* and what the server has said of the request.                            *)
ChoiceLeft == IF cpc = "method" THEN {<<5, 0>>} ELSE {<<>>, <<0>>}

Verdicts ==
  IF spc \in {"tunnel", "done"} THEN {Reply(0) \o tgtSent}
  ELSE IF spc = "closed" THEN {<<>>} \cup {Reply(c) : c \in {5, 7, 8}}
  ELSE {<<>>}

Coming == {h \o v : h \in ChoiceLeft, v \in Verdicts}

Handshaking ==
  cpc \in {"method", "reply"} =>
    /\ spc \in {"accept", "greeting"} => cpc = "method" /\ down = <<>>
    /\ spc \in {"request", "dialing", "tunnel"} => broken \/ down \in Coming
    /\ spc \in {"closed", "done", "panic"} => down = <<>> \/ down \in Coming

(* What the raw client has, and what is on its way to it. *)
RawGets ==
  /\ cpc \notin {"tunnel", "done"} => rawGot = <<>> /\ rawSent = <<>>
  /\ cpc = "tunnel" => spc \in {"tunnel", "done"}
  /\ spc \notin {"tunnel", "done"} => tgtSent = <<>> /\ tgtGot = <<>>
  /\ IsPrefixOf(rawGot, tgtSent)
  /\ cpc = "tunnel" =>
       /\ IsPrefixOf(rawGot \o down, tgtSent)
       /\ ~broken /\ spc = "tunnel" => rawGot \o down = tgtSent

(* What the server has still to read, if messages arrive whole: one at a   *)
(* time, and then what the raw client sends.                               *)
Asking ==
  /\ spc \in {"accept", "greeting"} => up \in {<<>>, <<5, 1, 0>>}
  /\ spc = "request" => up \in {<<>>, SocksReq(asked)} /\ (cpc = "method" => up = <<>>)
  /\ spc \in {"dialing", "tunnel", "done"} => cpc \notin {"connect", "method"}
  /\ spc = "dialing" => up = <<>>
  /\ spc \in {"tunnel", "done"} =>
       /\ IsPrefixOf(tgtGot \o up, rawSent)
       /\ cpc = "tunnel" /\ ~broken /\ srvOpen => tgtGot \o up = rawSent
  /\ DialsWhatWasAsked

ChainInv == TypeOK /\ Ends /\ Handshaking /\ RawGets /\ (whole => Asking)

(* What the client of the chain asks for, and that it is understood. *)
LEMMA PortIs ==
  ASSUME NEW q \in PortNumber
  PROVE  q \in Nat /\ q < 65536
<1>1. PICK m \in Nat : m = MaxPort
  BY DEF MaxPort
<1>2. q \in Nat /\ q <= m
  BY <1>1 DEF PortNumber
<1>3. m < 65536
  BY <1>1 DEF MaxPort
<1> QED
  BY <1>2, <1>3

LEMMA AskIs ==
  ASSUME ClientOK
  PROVE  /\ asked.atyp \in Atyps /\ asked.host \in Seq(Byte) /\ asked.port \in PortNumber
         /\ asked = [atyp |-> asked.atyp, host |-> asked.host, port |-> asked.port]
         /\ asked.atyp = IPv4 => Len(asked.host) = 4
         /\ asked.atyp = IPv6 => Len(asked.host) = 16
         /\ Len(SocksReq(asked)) <= BufLen
<1>1. asked \in Asks
  BY DEF ClientOK
<1>2. asked \in [atyp : {1, 3, 4}, host : Seq(Byte), port : PortNumber]
  BY <1>1, SocksClientAssumption
<1>3. /\ asked.atyp = 1 => Len(asked.host) = 4
      /\ asked.atyp = 4 => Len(asked.host) = 16
  BY <1>1, SocksClientAssumption
<1>4. Len(SocksReq(asked)) <= BufLen
  BY <1>1, ChainAssumption
<1> QED
  BY <1>2, <1>3, <1>4 DEF Atyps, IPv4, Domain, IPv6

LEMMA AskEncoding ==
  ASSUME ClientOK
  PROVE  /\ Carries(SocksReq(asked), 1, asked)
         /\ SocksReq(asked) \in Seq(Byte) /\ SocksReq(asked) # <<>>
<1> DEFINE len == IF asked.atyp = 3 THEN <<Len(asked.host) % 256>> ELSE <<>>
<1>1. /\ asked.atyp \in Byte /\ asked.host \in Seq(Byte) /\ 1 \in Byte
      /\ asked.port \in Nat /\ asked.port < 65536
  BY AskIs, PortIs DEF Atyps, IPv4, Domain, IPv6, Byte
<1>2. len \in Seq(Byte) /\ Len(len) = IF asked.atyp = Domain THEN 1 ELSE 0
  <2>1. CASE asked.atyp = 3
    <3>1. Len(asked.host) \in Nat
      BY <1>1, LenProperties
    <3>2. Len(asked.host) % 256 \in Byte
      BY <3>1, ByteOf
    <3> QED
      BY <2>1, <3>2, One DEF Domain
  <2>2. CASE asked.atyp # 3
    BY <2>2, Empty DEF Domain
  <2> QED
    BY <2>1, <2>2
<1>3. PICK x \in Byte, y \in Byte : x = asked.port \div 256 /\ y = asked.port % 256
  BY <1>1, PortBytes
<1>4. SocksReq(asked) = Message(1, asked.atyp, len, asked.host, x, y)
  BY <1>3 DEF SocksReq, Message
<1>5. 256 * x + y = asked.port
  BY <1>1, <1>3, PortBytes
<1> HIDE DEF len
<1> QED
  BY <1>1, <1>2, <1>4, <1>5, Carried

LEMMA AskDecoding ==
  ASSUME ClientOK, NEW k, k = Len(up), up = SocksReq(asked), b' = Fill(k)
  PROVE  /\ k # 0 /\ b'[1] = 1 /\ b'[3] \in Atyps
         /\ ~Panics(b', k) /\ Address(b', k) = asked
<1>1. Carries(up, 1, asked)
  BY AskEncoding
<1>2. Reads(b', k, 1, asked.atyp, asked.host, asked.port)
  BY <1>1, AskIs, Understood
<1> QED
  BY <1>2, AskIs DEF Reads

-----------------------------------------------------------------------------
(* Every step of the chain is one of these. *)
LEMMA ChainSteps ==
  ASSUME [ChainNext]_chainVars
  PROVE  /\ UNCHANGED <<fin, whole, asked>>
         /\ \/ Client /\ UNCHANGED serverVars
            \/ Raw /\ UNCHANGED serverVars
            \/ Finalize /\ UNCHANGED serverVars
            \/ Server /\ UNCHANGED socksClientVars
            \/ Target /\ UNCHANGED <<b, socksClientVars>>
            \/ WireBreaks /\ UNCHANGED <<socksClientVars, serverVars>>
            \/ UNCHANGED chainVars
<1>1. CASE ClientSide
  BY <1>1 DEF ClientSide, Client, Raw, Finalize, Connect, ConnectFails, ReadMethod, ReadReply, ReadErr,
              RelayToRaw, ClientTunnelEnds, RelayToServer, RawEnds, CloseBoth,
              wireVars, link, socksClientVars
<1>2. CASE ServerSide
  BY <1>2 DEF ServerSide, Server, Accept, ReadGreeting, GreetingErr, ReadRequest, DialOk, DialFails,
              Relay, RelayToTarget, ServerTunnelEnds, Target, RelayToClient, TargetEnds,
              CloseTunnel, wireVars, link, socksClientVars
<1>3. CASE WireSide
  BY <1>3 DEF WireSide, WireBreaks, socksClientVars
<1>4. CASE UNCHANGED chainVars
  BY <1>4 DEF chainVars, wireVars, socksClientVars
<1> QED
  BY <1>1, <1>2, <1>3, <1>4 DEF ChainNext

(* What a Read of the client takes. *)
LEMMA TakenDown ==
  ASSUME WireOK, NEW max \in Nat, NEW k \in Pieces(down, max)
  PROVE  k \in 1 .. Len(down) /\ k <= max /\ down # <<>>
<1>1. Len(down) \in Nat /\ down \in Seq(Byte) /\ (down = <<>> <=> Len(down) = 0) /\ whole \in BOOLEAN
  BY NotEmpty DEF WireOK
<1>2. CASE Len(down) < max
  BY <1>1, <1>2 DEF Pieces
<1>3. CASE ~(Len(down) < max)
  BY <1>1, <1>3 DEF Pieces
<1> QED
  BY <1>2, <1>3

LEMMA ClosingCli ==
  ASSUME WireOK, CloseCli
  PROVE  /\ cliOpen' = FALSE /\ down' = <<>> /\ up' \in {<<>>, up}
         /\ up' \in Seq(Byte) /\ down' \in Seq(Byte) /\ cliOpen' \in BOOLEAN
<1>1. cliOpen' = FALSE /\ down' = <<>> /\ up' \in {<<>>, up}
  BY DEF CloseCli, AfterClose
<1>2. <<>> \in Seq(Byte) /\ up \in Seq(Byte)
  BY Empty DEF WireOK
<1> QED
  BY <1>1, <1>2

(* The next byte that the raw client sends. *)
LEMMA RawSpeaks ==
  ASSUME rawSent \in Seq(Byte), RelayToServer
  PROVE  \E x \in Byte : rawSent' = Append(rawSent, x) /\ up' = Sent(up, <<x>>, srvOpen)
<1>1. Len(rawSent) \in Nat /\ Len(rawSent) < Len(RawSays) /\ RawSays \in Seq(Byte) /\ Len(RawSays) \in Nat
  BY NotEmpty, SocksClientAssumption DEF RelayToServer
<1>2. RawSays[Len(rawSent) + 1] \in Byte
  BY <1>1, NotEmpty
<1> QED
  BY <1>2 DEF RelayToServer

LEMMA ChainTypesOfClient ==
  ASSUME TypeOK, Client \/ Raw \/ Finalize, UNCHANGED serverVars
  PROVE  TypeOK'
<1> USE DEF TypeOK, WireOK, ClientOK, link, socksClientVars
<1>0. <<>> \in Seq(Byte) /\ <<5, 1, 0>> \in Seq(Byte) /\ ServerOK'
  <2>1. ServerOK'
    BY DEF ServerOK, serverVars, proxyVars
  <2> QED
    BY <2>1, Empty DEF Byte
<1>1. CASE Connect
  BY <1>0, <1>1 DEF Connect
<1>2. CASE ConnectFails
  BY <1>0, <1>2 DEF ConnectFails, wireVars
<1>3. ASSUME NEW k \in Pieces(down, 2) \cup Pieces(down, 10)
      PROVE  Drop(down, k) \in Seq(Byte)
  <2>1. k \in 1 .. Len(down) /\ Len(down) \in Nat
    BY <1>3, TakenDown, NotEmpty
  <2>2. k \in 0 .. Len(down)
    BY <2>1
  <2> QED
    BY <2>2, Divided
<1>4. CASE ReadMethod
  <2>1. down' \in Seq(Byte)
    BY <1>3, <1>4 DEF ReadMethod
  <2>2. Sent(up, SocksReq(asked), srvOpen) \in Seq(Byte)
    BY AskEncoding, SentIs
  <2> QED
    BY <1>0, <1>4, <2>1, <2>2 DEF ReadMethod
<1>5. CASE ReadReply
  <2>1. down' \in Seq(Byte) /\ cpc' \in {"tunnel", "failed"}
    BY <1>3, <1>5 DEF ReadReply, ReplyMax
  <2> QED
    BY <1>0, <1>5, <2>1 DEF ReadReply
<1>6. CASE ReadErr
  BY <1>0, <1>6 DEF ReadErr, wireVars
<1>7. CASE Finalize
  BY <1>0, <1>7, ClosingCli DEF Finalize
<1>8. CASE RelayToServer
  <2>1. PICK x \in Byte : rawSent' = Append(rawSent, x) /\ up' = Sent(up, <<x>>, srvOpen)
    BY <1>8, RawSpeaks
  <2>2. Append(rawSent, x) \in Seq(Byte) /\ Sent(up, <<x>>, srvOpen) \in Seq(Byte)
    BY AppendProperties, One, SentIs
  <2> QED
    BY <1>0, <1>8, <2>1, <2>2 DEF RelayToServer
<1>9. CASE RelayToRaw
  <2>1. PICK k \in 1 .. Len(down) : rawGot' = rawGot \o SubSeq(down, 1, k) /\ down' = Drop(down, k)
    BY <1>9 DEF RelayToRaw
  <2>2. k \in 0 .. Len(down)
    BY <2>1
  <2>3. rawGot' \in Seq(Byte) /\ down' \in Seq(Byte)
    BY <2>1, <2>2, Divided, Joined
  <2> QED
    BY <1>0, <1>9, <2>3 DEF RelayToRaw
<1>10. CASE CloseBoth
  BY <1>0, <1>10, ClosingCli DEF CloseBoth
<1> QED
  BY <1>1, <1>2, <1>4, <1>5, <1>6, <1>7, <1>8, <1>9, <1>10 DEF Client, Raw, ClientTunnelEnds, RawEnds

(* The array, and the address read from it. *)
LEMMA Filled ==
  ASSUME WireOK, ServerOK, NEW k \in Pieces(up, BufLen), b' = Fill(k)
  PROVE  k <= BufLen /\ b' \in [0 .. BufLen - 1 -> Byte] /\ b'[0] = up[1]
<1>1. k \in 1 .. Len(up) /\ k <= BufLen /\ up \in Seq(Byte) /\ Len(up) \in Nat
      /\ \A i \in 1 .. Len(up) : up[i] \in Byte
  BY Taken, NotEmpty, ServerAssumption DEF WireOK
<1>2. ASSUME NEW i \in 0 .. BufLen - 1 PROVE (IF i < k THEN up[i + 1] ELSE b[i]) \in Byte
  <2>1. CASE i < k
    <3>1. i + 1 \in 1 .. Len(up)
      BY <1>1, <2>1, ServerAssumption
    <3> QED
      BY <1>1, <2>1, <3>1
  <2>2. CASE ~(i < k)
    BY <2>2 DEF ServerOK
  <2> QED
    BY <2>1, <2>2
<1>3. b' \in [0 .. BufLen - 1 -> Byte]
  BY <1>2 DEF Fill
<1>4. b'[0] = up[1]
  <2>1. 0 \in 0 .. BufLen - 1 /\ 0 < k /\ 0 + 1 = 1
    BY <1>1, ServerAssumption
  <2> QED
    BY <2>1 DEF Fill
<1> QED
  BY <1>1, <1>3, <1>4

LEMMA Slice ==
  ASSUME NEW a \in [0 .. BufLen - 1 -> Byte], NEW i \in Nat, NEW j \in Nat, i <= j, j <= BufLen
  PROVE  Take(a, i, j) \in Seq(Byte)
<1>1. j - i \in Nat /\ BufLen \in Nat
  BY ServerAssumption
<1>2. ASSUME NEW x \in 1 .. j - i PROVE a[i + x - 1] \in Byte
  <2>1. i + x - 1 \in 0 .. BufLen - 1
    BY <1>1
  <2> QED
    BY <2>1
<1>3. Take(a, i, j) \in [1 .. j - i -> Byte]
  BY <1>2 DEF Take
<1> QED
  BY <1>1, <1>3

LEMMA PortRead ==
  ASSUME NEW a \in [0 .. BufLen - 1 -> Byte], NEW k \in Nat, 2 <= k, k <= BufLen
  PROVE  Port(a, k) \in PortNumber
<1>1. k - 2 \in 0 .. BufLen - 1 /\ k - 1 \in 0 .. BufLen - 1
  BY ServerAssumption
<1>2. PICK x \in 0 .. 255, y \in 0 .. 255 : x = a[k - 2] /\ y = a[k - 1]
  BY <1>1 DEF Byte
<1>3. 256 * x + y \in Nat /\ 256 * x + y <= 65535
  OBVIOUS
<1>4. Port(a, k) = 256 * x + y
  BY <1>2 DEF Port
<1>5. PICK m \in Nat : m = MaxPort
  BY DEF MaxPort
<1>6. 256 * x + y <= m
  BY <1>3, <1>5 DEF MaxPort
<1> QED
  BY <1>3, <1>4, <1>5, <1>6 DEF PortNumber

LEMMA AddressRead ==
  ASSUME NEW a \in [0 .. BufLen - 1 -> Byte], NEW k \in Nat, k <= BufLen,
         ~Panics(a, k), a[3] \in Atyps
  PROVE  Address(a, k) \in [atyp : Atyps, host : Seq(Byte), port : PortNumber]
<1>1. 2 <= k /\ (a[3] = Domain => 7 <= k)
  BY DEF Panics
<1>2. Port(a, k) \in PortNumber
  BY <1>1, PortRead
<1>3. CASE a[3] = IPv4
  <2>1. Take(a, 4, 8) \in Seq(Byte)
    BY Slice, ServerAssumption
  <2> QED
    BY <1>2, <1>3, <2>1 DEF Address, Atyps, IPv4, Domain, IPv6
<1>4. CASE a[3] = Domain
  <2>1. k - 2 \in Nat /\ 5 <= k - 2 /\ k - 2 <= BufLen
    BY <1>1, <1>4, ServerAssumption
  <2>2. Take(a, 5, k - 2) \in Seq(Byte)
    BY <2>1, Slice
  <2> QED
    BY <1>2, <1>4, <2>2 DEF Address, Atyps, IPv4, Domain, IPv6
<1>5. CASE a[3] = IPv6
  <2>1. Take(a, 4, 20) \in Seq(Byte)
    BY Slice, ServerAssumption
  <2> QED
    BY <1>2, <1>5, <2>1 DEF Address, Atyps, IPv4, Domain, IPv6
<1> QED
  BY <1>3, <1>4, <1>5 DEF Atyps

LEMMA ChainTypesOfServer ==
  ASSUME TypeOK, \/ Server /\ UNCHANGED socksClientVars
                 \/ Target /\ UNCHANGED <<b, socksClientVars>>
  PROVE  TypeOK'
<1>1. WireOK' /\ ClientOK' /\ tgtSent' \in Seq(Byte) /\ tgtGot' \in Seq(Byte)
  BY TypesOfServer, TypesOfRelay DEF TypeOK, ServerOK, ClientOK, socksClientVars
<1>2. spc' \in {"greeting", "request", "dialing", "tunnel", "closed", "done", "panic"}
  BY TypesOfServer, TypesOfRelay DEF TypeOK, ServerOK
<1>3. b' \in [0 .. BufLen - 1 -> Byte]
  <2>1. CASE UNCHANGED b
    BY <2>1 DEF TypeOK, ServerOK
  <2>2. CASE \E k \in Pieces(up, BufLen) : b' = Fill(k)
    BY <2>2, Filled DEF TypeOK
  <2> QED
    BY <2>1, <2>2 DEF Server, Accept, ReadGreeting, GreetingErr, ReadRequest, DialOk, DialFails,
                      ReadMax
<1>4. CASE UNCHANGED dialed
  BY <1>1, <1>2, <1>3, <1>4 DEF TypeOK, ServerOK
<1>5. CASE \E k \in Pieces(up, BufLen) : b' = Fill(k) /\ StartDial(b', k) /\ b'[3] \in Atyps
  <2>1. PICK k \in Pieces(up, BufLen) : b' = Fill(k) /\ StartDial(b', k) /\ b'[3] \in Atyps
    BY <1>5
  <2>2. k \in Nat /\ k <= BufLen
    <3>1. k \in 1 .. Len(up) /\ Len(up) \in Nat /\ k <= BufLen
      BY Taken, NotEmpty, ServerAssumption DEF TypeOK, WireOK
    <3> QED
      BY <3>1
  <2>3. dialed' \in [atyp : Atyps, host : Seq(Byte), port : PortNumber]
    BY <1>3, <2>1, <2>2, AddressRead DEF StartDial
  <2> QED
    BY <1>1, <1>2, <1>3, <2>3 DEF TypeOK, ServerOK
<1>6. CASE ReadRequest
  <2>1. ASSUME NEW k, Judge(b', k), ~UNCHANGED dialed
        PROVE  StartDial(b', k) /\ b'[3] \in Atyps /\ ~(k < 2)
    BY <2>1 DEF Judge, Refuse, Die, StartDial, Panics
  <2>2. CASE \E k \in Pieces(up, BufLen) : b' = Fill(k) /\ Judge(b', k)
    BY <1>4, <1>5, <2>1, <2>2
  <2>3. CASE UNCHANGED b /\ Judge(b', 0)
    BY <1>4, <2>1, <2>3
  <2> QED
    BY <1>6, <2>2, <2>3 DEF ReadRequest, ReadMax
<1>7. CASE ~ReadRequest
  <2>1. UNCHANGED dialed
    BY <1>7, TypesOfRelay DEF TypeOK, ServerOK, Server, Accept, ReadGreeting, GreetingErr, DialOk,
                              DialFails, Refuse
  <2> QED
    BY <1>4, <2>1
<1> QED
  BY <1>6, <1>7

LEMMA ChainTypesNext ==
  ASSUME TypeOK, [ChainNext]_chainVars
  PROVE  TypeOK'
<1>1. CASE WireBreaks /\ UNCHANGED <<socksClientVars, serverVars>>
  BY <1>1, Empty DEF WireBreaks, TypeOK, WireOK, ClientOK, ServerOK, socksClientVars, serverVars, proxyVars
<1>2. CASE UNCHANGED chainVars
  BY <1>2 DEF chainVars, wireVars, TypeOK, WireOK, ClientOK, ServerOK, socksClientVars, serverVars, proxyVars
<1> QED
  BY <1>1, <1>2, ChainSteps, ChainTypesOfClient, ChainTypesOfServer

-----------------------------------------------------------------------------
(* What the server does before its tunnel, as far as the chain can tell.   *)
Greets ==
  /\ spc = "greeting" /\ spc' = "request"
  /\ up # <<>> /\ (whole /\ Len(up) <= BufLen => up' = <<>>)
  /\ down' = Sent(down, <<5, 0>>, cliOpen)
  /\ UNCHANGED <<srvOpen, dialed, tgtSent, tgtGot>>

Dials ==
  /\ spc = "request" /\ spc' = "dialing"
  /\ up # <<>>
  /\ whole /\ Len(up) <= BufLen =>
       up' = <<>> /\ b' = Fill(Len(up)) /\ dialed' = Address(b', Len(up))
  /\ UNCHANGED <<down, srvOpen, tgtSent, tgtGot>>

GivesUp ==
  /\ spc \in {"greeting", "request", "dialing"} /\ spc' \in {"closed", "panic"}
  /\ srvOpen' = FALSE /\ up' = <<>>
  /\ \/ down' \in {<<>>, down}
     \/ /\ spc # "greeting" /\ spc' = "closed"
        /\ \E c \in {5, 7, 8} : down' = Sent(down, Reply(c), cliOpen)
  /\ UNCHANGED <<dialed, tgtSent, tgtGot>>

LEMMA GivingUp ==
  ASSUME WireOK, NEW m \in Seq(Byte), NEW rest \in Seq(Byte), CloseSrv(m, rest),
         spc \in {"greeting", "request", "dialing"}, spc' \in {"closed", "panic"},
         UNCHANGED <<dialed, tgtSent, tgtGot>>,
         \/ m = <<>>
         \/ spc # "greeting" /\ spc' = "closed" /\ \E c \in {5, 7, 8} : m = Reply(c)
  PROVE  GivesUp
<1>1. /\ srvOpen' = FALSE /\ up' = <<>> /\ down' \in {<<>>, Sent(down, m, cliOpen)}
      /\ m = <<>> => down' \in {<<>>, down}
  BY Closing
<1> QED
  BY <1>1 DEF GivesUp

LEMMA Moves ==
  ASSUME WireOK, Server, ~Relay
  PROVE  /\ UNCHANGED <<cliOpen, broken>>
         /\ Accept \/ Greets \/ Dials \/ GivesUp \/ DialOk
<1>0. /\ <<>> \in Seq(Byte) /\ \A c \in {5, 7, 8} : Reply(c) \in Seq(Byte)
      /\ up \in Seq(Byte) /\ BufLen \in Nat
  BY Empty, Replies, ServerAssumption DEF Byte, WireOK
<1>1. UNCHANGED <<cliOpen, broken>>
  BY DEF Server, Accept, ReadGreeting, GreetingErr, ReadRequest, DialOk, DialFails, link, wireVars
<1>2. ASSUME NEW k \in Pieces(up, BufLen)
      PROVE  /\ Drop(up, k) \in Seq(Byte) /\ up # <<>> /\ k # 0
             /\ whole /\ Len(up) <= BufLen => k = Len(up) /\ Drop(up, k) = <<>>
  <2>1. k \in 1 .. Len(up) /\ up # <<>> /\ (whole /\ Len(up) <= BufLen => k = Len(up))
    BY <1>0, <1>2, Taken
  <2>2. k \in 0 .. Len(up) /\ k # 0
    BY <1>0, <2>1, NotEmpty
  <2> QED
    BY <1>0, <2>1, <2>2, Divided, DropAll
<1>3. CASE ReadGreeting
  <2>1. PICK k \in Pieces(up, BufLen) :
          \/ CloseSrv(<<>>, Drop(up, k)) /\ spc' = "closed"
          \/ /\ up' = Drop(up, k) /\ down' = Sent(down, <<5, 0>>, cliOpen)
             /\ spc' = "request" /\ UNCHANGED srvOpen
    BY <1>3 DEF ReadGreeting, ReadMax
  <2>2. spc = "greeting" /\ UNCHANGED <<dialed, tgtSent, tgtGot>>
    BY <1>3 DEF ReadGreeting
  <2>3. CASE CloseSrv(<<>>, Drop(up, k)) /\ spc' = "closed"
    BY <1>0, <1>1, <1>2, <2>2, <2>3, GivingUp
  <2>4. CASE up' = Drop(up, k) /\ spc' = "request"
    BY <1>1, <1>2, <2>1, <2>2, <2>4 DEF Greets
  <2> QED
    BY <2>1, <2>3, <2>4
<1>4. CASE GreetingErr
  BY <1>0, <1>1, <1>4, GivingUp DEF GreetingErr
<1>5. ASSUME NEW k, Judge(b', k), Drop(up, k) \in Seq(Byte), spc = "request",
             UNCHANGED <<tgtSent, tgtGot>>
      PROVE  GivesUp \/ (StartDial(b', k) /\ ~(k < 2))
  <2>1. ASSUME NEW c \in {7, 8}, Refuse(c, Drop(up, k))
        PROVE  GivesUp
    BY <1>0, <1>5, <2>1, GivingUp DEF Refuse
  <2>2. CASE Die(k)
    BY <1>0, <1>5, <2>2, GivingUp DEF Die
  <2>3. CASE StartDial(b', k)
    BY <2>3 DEF StartDial, Panics
  <2> QED
    BY <1>5, <2>1, <2>2, <2>3 DEF Judge
<1>6. CASE ReadRequest
  <2>1. spc = "request" /\ UNCHANGED <<tgtSent, tgtGot>>
    BY <1>6 DEF ReadRequest
  <2>2. ASSUME NEW k \in Pieces(up, BufLen), b' = Fill(k), Judge(b', k)
        PROVE  GivesUp \/ Dials
    <3>1. CASE GivesUp
      BY <3>1
    <3>2. CASE StartDial(b', k)
      BY <1>2, <2>1, <2>2, <3>2 DEF StartDial, Dials
    <3> QED
      BY <1>2, <1>5, <2>1, <2>2, <3>1, <3>2
  <2>3. CASE UpFails /\ Judge(b', 0)
    <3>1. 0 \in 0 .. Len(up) /\ 0 < 2
      BY <1>0, NotEmpty
    <3>2. Drop(up, 0) \in Seq(Byte)
      BY <1>0, <3>1, Divided
    <3> QED
      BY <1>1, <1>5, <2>1, <2>3, <3>1, <3>2
  <2> QED
    BY <1>1, <1>6, <2>2, <2>3 DEF ReadRequest, ReadMax
<1>7. CASE DialFails
  BY <1>0, <1>1, <1>7, GivingUp DEF DialFails, Refuse
<1> QED
  BY <1>1, <1>3, <1>4, <1>6, <1>7 DEF Server

-----------------------------------------------------------------------------
(* Ends *)
LEMMA EndsNext ==
  ASSUME TypeOK, Ends, [ChainNext]_chainVars
  PROVE  Ends'
<1>0. /\ WireOK /\ UNCHANGED fin /\ ~fin /\ up \in Seq(Byte) /\ <<>> \in Seq(Byte)
  BY ChainSteps, Empty DEF TypeOK, WireOK, Ends
<1>1. ASSUME NEW k \in Pieces(down, 2) \cup Pieces(down, 10)
      PROVE  down # <<>>
  BY <1>0, <1>1, TakenDown
<1>2. CASE Client /\ UNCHANGED serverVars
  <2>0. UNCHANGED spc
    BY <1>2 DEF serverVars, proxyVars
  <2>1. CASE Connect
    BY <1>0, <2>0, <2>1 DEF Connect, Ends, link
  <2>2. CASE ConnectFails \/ ReadErr
    BY <1>0, <2>0, <2>2 DEF ConnectFails, ReadErr, wireVars, Ends
  <2>3. CASE ReadMethod
    <3>1. down # <<>> /\ up' = Sent(up, SocksReq(asked), srvOpen) /\ cpc = "method" /\ cpc' = "reply"
          /\ UNCHANGED <<cliOpen, srvOpen, broken>>
      BY <1>1, <2>3 DEF ReadMethod, link
    <3> QED
      BY <1>0, <2>0, <3>1 DEF Ends, Sent
  <2>4. CASE ReadReply
    <3>1. down # <<>> /\ cpc = "reply" /\ cpc' \in {"tunnel", "failed"}
          /\ UNCHANGED <<up, cliOpen, srvOpen, broken>>
      BY <1>1, <2>4 DEF ReadReply, ReplyMax, link
    <3> QED
      BY <1>0, <2>0, <3>1 DEF Ends
  <2>5. CASE RelayToRaw
    BY <1>0, <2>0, <2>5 DEF RelayToRaw, Ends, link
  <2>6. CASE ClientTunnelEnds
    BY <1>0, <2>0, <2>6, ClosingCli DEF ClientTunnelEnds, CloseBoth, Ends, link
  <2> QED
    BY <1>2, <2>1, <2>2, <2>3, <2>4, <2>5, <2>6 DEF Client
<1>3. CASE (Raw \/ Finalize) /\ UNCHANGED serverVars
  <2>0. UNCHANGED spc
    BY <1>3 DEF serverVars, proxyVars
  <2>1. CASE RelayToServer
    <3>1. /\ cpc = "tunnel" /\ UNCHANGED <<down, cliOpen, srvOpen, broken, cpc>>
          /\ ~srvOpen \/ broken => up' = up
      BY <2>1 DEF RelayToServer, link, Sent
    <3> QED
      BY <1>0, <2>0, <3>1 DEF Ends
  <2>2. CASE RawEnds
    BY <1>0, <2>0, <2>2, ClosingCli DEF RawEnds, CloseBoth, Ends, link
  <2>3. CASE Finalize
    BY <1>0, <2>0, <2>3, ClosingCli DEF Finalize, Ends, link, socksClientVars
  <2> QED
    BY <1>3, <2>1, <2>2, <2>3 DEF Raw
<1>4. CASE Server /\ ~Relay /\ UNCHANGED socksClientVars
  <2>0. UNCHANGED <<cpc, cliOpen, broken>> /\ (Accept \/ Greets \/ Dials \/ GivesUp \/ DialOk)
    BY <1>0, <1>4, Moves DEF socksClientVars
  <2>1. CASE Accept
    BY <1>0, <2>0, <2>1 DEF Accept, wireVars, Ends
  <2>2. CASE Greets
    BY <1>0, <2>0, <2>2 DEF Greets, Ends, Sent
  <2>3. CASE Dials
    BY <1>0, <2>0, <2>3 DEF Dials, Ends
  <2>4. CASE GivesUp
    BY <1>0, <2>0, <2>4 DEF GivesUp, Ends, Sent
  <2>5. CASE DialOk
    BY <1>0, <2>0, <2>5 DEF DialOk, Ends, Sent
  <2> QED
    BY <2>0, <2>1, <2>2, <2>3, <2>4, <2>5
<1>5. CASE (Relay \/ Target) /\ UNCHANGED socksClientVars
  <2>0. UNCHANGED <<cpc, cliOpen, broken>> /\ spc = "tunnel"
    BY <1>5 DEF Relay, Target, RelayToTarget, RelayToClient, ServerTunnelEnds, TargetEnds, CloseTunnel,
                link, socksClientVars
  <2>1. CASE RelayToTarget
    BY <1>0, <2>0, <2>1 DEF RelayToTarget, Ends
  <2>2. CASE RelayToClient
    BY <1>0, <2>0, <2>2 DEF RelayToClient, Ends, Sent
  <2>3. CASE CloseTunnel
    <3>1. CloseSrv(<<>>, up) /\ spc' = "done"
      BY <2>3 DEF CloseTunnel
    <3>2. up' = <<>> /\ srvOpen' = FALSE /\ down' \in {<<>>, down}
      BY <1>0, <3>1, Closing
    <3> QED
      BY <1>0, <2>0, <3>1, <3>2 DEF Ends
  <2> QED
    BY <1>5, <2>1, <2>2, <2>3 DEF Relay, Target, ServerTunnelEnds, TargetEnds
<1>6. CASE WireBreaks /\ UNCHANGED <<socksClientVars, serverVars>>
  BY <1>0, <1>6 DEF WireBreaks, socksClientVars, serverVars, proxyVars, Ends
<1>7. CASE UNCHANGED chainVars
  BY <1>7 DEF chainVars, wireVars, socksClientVars, serverVars, proxyVars, Ends
<1> QED
  BY <1>2, <1>3, <1>4, <1>5, <1>6, <1>7, ChainSteps

-----------------------------------------------------------------------------
(* Handshaking *)
LEMMA DropPrefix ==
  ASSUME NEW s \in Seq(Byte), NEW t \in Seq(Byte), NEW k, k = Len(s), k # 0
  PROVE  Drop(s \o t, k) = t
<1>1. /\ s \o t \in Seq(Byte) /\ Len(s \o t) = Len(s) + Len(t) /\ Len(s) \in Nat /\ Len(t) \in Nat
  BY Joined
<1>2. k \in 0 .. Len(s \o t) /\ 1 \in 1 .. Len(s) /\ k \in 1 .. Len(s)
  BY <1>1
<1>3. SubSeq(s \o t, 1, k) \o Drop(s \o t, k) = s \o t /\ Drop(s \o t, k) \in Seq(Byte)
  BY <1>1, <1>2, Divided
<1>4. SubSeq(s \o t, 1, k) = s
  BY <1>2, SubSeqOfConcat1, SubSeqFull
<1>5. s \o Drop(s \o t, k) = s \o t
  BY <1>3, <1>4
<1> QED
  BY <1>3, <1>5, ConcatSimplifications

(* A Read of the choice of a method leaves a byte of it or none. *)
LEMMA ChoiceRead ==
  ASSUME NEW v \in Seq(Byte), NEW k \in {1, 2}
  PROVE  Drop(<<5, 0>> \o v, k) \in {<<0>> \o v, <<>> \o v}
<1>1. PICK s \in Seq(Byte), t \in Seq(Byte), u \in Seq(Byte) :
        s = <<5>> /\ t = <<0>> /\ u = <<5, 0>> /\ Len(s) = 1 /\ Len(u) = 2 /\ u = s \o t
  <2>1. <<5>> \in Seq(Byte) /\ <<0>> \in Seq(Byte) /\ <<5, 0>> \in Seq(Byte)
    BY DEF Byte
  <2>2. Len(<<5>>) = 1 /\ Len(<<5, 0>>) = 2 /\ <<5, 0>> = <<5>> \o <<0>>
    OBVIOUS
  <2> QED
    BY <2>1, <2>2
<1>2. CASE k = 1
  <2>1. u \o v = s \o (t \o v)
    BY <1>1, Regrouped
  <2>2. t \o v \in Seq(Byte)
    BY Joined
  <2>3. Len(s) # 0
    BY <1>1
  <2>4. Drop(s \o (t \o v), Len(s)) = t \o v
    BY <2>2, <2>3, DropPrefix
  <2> QED
    BY <1>1, <1>2, <2>1, <2>4
<1>3. CASE k = 2
  <2>1. Len(u) # 0
    BY <1>1
  <2>2. Drop(u \o v, Len(u)) = v
    BY <2>1, DropPrefix
  <2>3. <<>> \o v = v
    BY Joined, Empty
  <2> QED
    BY <1>1, <1>3, <2>2, <2>3
<1> QED
  BY <1>2, <1>3

LEMMA Parting ==
  ASSUME TypeOK
  PROVE  /\ ChoiceLeft \subseteq Seq(Byte) /\ Verdicts \subseteq Seq(Byte)
         /\ \A h \in Seq(Byte) : h \o <<>> = h
<1>1. /\ <<>> \in Seq(Byte) /\ <<0>> \in Seq(Byte) /\ <<5, 0>> \in Seq(Byte)
      /\ \A c \in {0, 5, 7, 8} : Reply(c) \in Seq(Byte)
      /\ tgtSent \in Seq(Byte)
  BY Empty, Replies DEF Byte, TypeOK, ServerOK
<1>2. Reply(0) \o tgtSent \in Seq(Byte)
  BY <1>1, Joined
<1>3. ChoiceLeft \subseteq Seq(Byte)
  BY <1>1 DEF ChoiceLeft
<1>4. Verdicts \subseteq Seq(Byte)
  <2>1. CASE spc \in {"tunnel", "done"}
    BY <1>2, <2>1 DEF Verdicts
  <2>2. CASE spc = "closed"
    BY <1>1, <2>2 DEF Verdicts
  <2>3. CASE spc \notin {"tunnel", "done", "closed"}
    BY <1>1, <2>3 DEF Verdicts
  <2> QED
    BY <2>1, <2>2, <2>3
<1>5. \A h \in Seq(Byte) : h \o <<>> = h
  BY <1>1, Joined
<1> QED
  BY <1>3, <1>4, <1>5

LEMMA HandshakingOfClient ==
  ASSUME TypeOK, Ends, Handshaking, Client \/ Raw \/ Finalize, UNCHANGED serverVars
  PROVE  Handshaking'
<1>0. UNCHANGED <<spc, tgtSent>> /\ WireOK /\ Verdicts' = Verdicts
  BY DEF serverVars, proxyVars, TypeOK, Verdicts
<1>1. CASE Connect
  BY <1>0, <1>1 DEF Connect, Ends, Handshaking
<1>2. CASE ReadMethod
  <2>1. PICK k \in Pieces(down, 2) : down' = Drop(down, k)
    BY <1>2 DEF ReadMethod
  <2>2. k \in {1, 2} /\ down # <<>>
    <3>1. k \in 1 .. Len(down) /\ k <= 2 /\ down # <<>> /\ Len(down) \in Nat
      BY <1>0, TakenDown, NotEmpty DEF WireOK
    <3> QED
      BY <3>1
  <2>3. cpc = "method" /\ cpc' = "reply" /\ UNCHANGED broken
    BY <1>2 DEF ReadMethod, link
  <2>4. spc \notin {"accept", "greeting"} /\ down \in Coming
    BY <2>2, <2>3 DEF Handshaking, Ends, TypeOK, ServerOK
  <2>5. PICK v \in Verdicts : down = <<5, 0>> \o v
    BY <2>3, <2>4 DEF Coming, ChoiceLeft
  <2>6. down' \in {<<0>> \o v, <<>> \o v}
    BY <2>1, <2>2, <2>5, ChoiceRead, Parting
  <2>7. down' \in Coming'
    BY <1>0, <2>3, <2>6 DEF Coming, ChoiceLeft
  <2> QED
    BY <1>0, <2>3, <2>4, <2>7 DEF Handshaking
<1>3. CASE ~Connect /\ ~ReadMethod
  <2>1. cpc' \in {"tunnel", "failed", "done"}
    BY <1>3 DEF Client, Raw, Finalize, ConnectFails, ReadReply, ReadErr, RelayToRaw, ClientTunnelEnds,
                RelayToServer, RawEnds, CloseBoth, socksClientVars
  <2> QED
    BY <2>1 DEF Handshaking
<1> QED
  BY <1>1, <1>2, <1>3

LEMMA ComingNext ==
  ASSUME NEW h \in ChoiceLeft', NEW v \in Verdicts'
  PROVE  h \o v \in Coming'
BY DEF Coming

(* What the server adds to what is coming. *)
LEMMA Added ==
  ASSUME TypeOK, cpc' = cpc, down \in Coming, NEW m \in Seq(Byte),
         \A v \in Verdicts : v \o m \in Verdicts'
  PROVE  down \o m \in Coming'
<1>1. PICK h \in ChoiceLeft, v \in Verdicts : down = h \o v
  BY DEF Coming
<1>2. down \o m = h \o (v \o m)
  BY <1>1, Parting, Regrouped
<1>3. h \in ChoiceLeft'
  BY DEF ChoiceLeft
<1>4. PICK w \in Verdicts' : w = v \o m
  BY <1>1
<1>5. h \o w \in Coming'
  BY <1>3, ComingNext
<1> QED
  BY <1>2, <1>4, <1>5

LEMMA HandshakingOfServer ==
  ASSUME TypeOK, Ends, Handshaking, RawGets, Server, ~Relay, UNCHANGED socksClientVars
  PROVE  Handshaking'
<1>0. /\ UNCHANGED <<cpc, cliOpen, broken>> /\ (Accept \/ Greets \/ Dials \/ GivesUp \/ DialOk)
      /\ ChoiceLeft' = ChoiceLeft
  BY Moves DEF socksClientVars, TypeOK, ChoiceLeft
<1>1. SUFFICES ASSUME cpc \in {"method", "reply"}
               PROVE  Handshaking'
  BY <1>0 DEF Handshaking
<1>2. cliOpen /\ (broken => down = <<>>)
  BY <1>1 DEF Ends
<1>3. CASE Accept
  BY <1>0, <1>1, <1>3 DEF Accept, wireVars, Handshaking
<1>4. CASE Greets
  <2>1. cpc = "method" /\ down = <<>> /\ spc' = "request"
    BY <1>1, <1>4 DEF Greets, Handshaking
  <2>2. <<>> \o <<5, 0>> = <<5, 0>> /\ <<5, 0>> \o <<>> = <<5, 0>>
    BY ShortMessages, Joined, Empty
  <2>3. broken \/ down' = <<5, 0>> \o <<>>
    BY <1>2, <1>4, <2>1, <2>2 DEF Greets, Sent
  <2>4. <<5, 0>> \in ChoiceLeft' /\ <<>> \in Verdicts'
    BY <1>0, <2>1 DEF ChoiceLeft, Verdicts
  <2>5. broken \/ down' \in Coming'
    BY <2>3, <2>4 DEF Coming
  <2> QED
    BY <1>0, <1>1, <2>1, <2>5 DEF Handshaking
<1>5. CASE Dials
  <2>1. Verdicts' = Verdicts /\ Coming' = Coming
    BY <1>0, <1>5 DEF Dials, Verdicts, Coming
  <2> QED
    BY <1>0, <1>1, <1>5, <2>1 DEF Dials, Handshaking
<1>6. CASE GivesUp
  <2>0. spc' \in {"closed", "panic"} /\ down \in Seq(Byte)
    BY <1>6 DEF GivesUp, TypeOK, WireOK
  <2>1. CASE spc = "greeting"
    <3>1. down' = <<>>
      BY <1>1, <1>6, <2>1 DEF GivesUp, Handshaking
    <3> QED
      BY <2>0, <3>1 DEF Handshaking
  <2>2. CASE spc # "greeting" /\ broken
    <3>1. \A c \in {5, 7, 8} : Sent(down, Reply(c), cliOpen) = down
      BY <2>2 DEF Sent
    <3>2. down' \in {<<>>, down} \/ \E c \in {5, 7, 8} : down' = Sent(down, Reply(c), cliOpen)
      BY <1>6 DEF GivesUp
    <3>3. down' = <<>>
      BY <1>2, <2>2, <3>1, <3>2
    <3> QED
      BY <2>0, <3>3 DEF Handshaking
  <2>3. CASE spc # "greeting" /\ ~broken
    <3>1. down \in Coming /\ Verdicts = {<<>>}
      BY <1>1, <1>6, <2>3 DEF GivesUp, Handshaking, Verdicts
    <3>2. CASE down' = <<>>
      BY <2>0, <3>2 DEF Handshaking
    <3>3. CASE down' = down
      <4>1. <<>> \o <<>> \in Verdicts' /\ down \o <<>> = down
        BY <2>0, Joined, Empty DEF Verdicts
      <4>2. down \o <<>> \in Coming'
        BY <1>0, <3>1, <4>1, Added, Empty
      <4> QED
        BY <2>0, <3>3, <4>1, <4>2 DEF Handshaking
    <3>4. CASE spc' = "closed" /\ \E c \in {5, 7, 8} : down' = Sent(down, Reply(c), cliOpen)
      <4>1. PICK c \in {5, 7, 8} : down' = down \o Reply(c)
        BY <1>2, <2>3, <3>4 DEF Sent
      <4>2. Reply(c) \in Seq(Byte) /\ <<>> \o Reply(c) = Reply(c)
        <5>1. c \in Byte
          BY DEF Byte
        <5>2. Reply(c) \in Seq(Byte)
          BY <5>1, Replies
        <5> QED
          BY <5>2, Joined
      <4>3. <<>> \o Reply(c) \in Verdicts'
        BY <3>4, <4>2 DEF Verdicts
      <4>4. down \o Reply(c) \in Coming'
        BY <1>0, <3>1, <4>2, <4>3, Added
      <4> QED
        BY <2>0, <4>1, <4>4 DEF Handshaking
    <3> QED
      BY <1>6, <3>2, <3>3, <3>4 DEF GivesUp
  <2> QED
    BY <2>1, <2>2, <2>3
<1>7. CASE DialOk
  <2>1. /\ spc = "dialing" /\ spc' = "tunnel" /\ Verdicts = {<<>>} /\ tgtSent' = tgtSent
        /\ down' = Sent(down, Reply(0), cliOpen)
    BY <1>7 DEF DialOk, Verdicts
  <2>2. tgtSent = <<>> /\ Reply(0) \in Seq(Byte)
    BY <2>1, Replies DEF RawGets, Byte
  <2>3. <<>> \o Reply(0) = Reply(0) \o <<>>
    BY <2>2, Joined, Empty
  <2>4. \A v \in Verdicts : v \o Reply(0) \in Verdicts'
    BY <2>1, <2>2, <2>3 DEF Verdicts
  <2>5. CASE ~broken
    <3>1. down \in Coming
      BY <1>1, <2>1, <2>5 DEF Handshaking
    <3>2. down \o Reply(0) \in Coming'
      BY <1>0, <2>2, <2>4, <3>1, Added
    <3> QED
      BY <1>2, <2>1, <2>5, <3>2 DEF Handshaking, Sent
  <2>6. CASE broken
    BY <1>0, <2>1, <2>6 DEF Handshaking
  <2> QED
    BY <2>5, <2>6
<1> QED
  BY <1>0, <1>3, <1>4, <1>5, <1>6, <1>7

LEMMA HandshakingOfTunnel ==
  ASSUME TypeOK, Ends, Handshaking, Relay \/ Target, UNCHANGED socksClientVars
  PROVE  Handshaking'
<1>0. UNCHANGED <<cpc, cliOpen, broken>> /\ spc = "tunnel" /\ ChoiceLeft' = ChoiceLeft
  BY DEF Relay, Target, RelayToTarget, RelayToClient, ServerTunnelEnds, TargetEnds, CloseTunnel,
         link, socksClientVars, ChoiceLeft
<1>1. SUFFICES ASSUME cpc \in {"method", "reply"}
               PROVE  Handshaking'
  BY <1>0 DEF Handshaking
<1>2. cliOpen /\ (broken => down = <<>>) /\ (broken \/ down \in Coming)
  BY <1>0, <1>1 DEF Ends, Handshaking
<1>3. CASE RelayToTarget
  <2>1. UNCHANGED <<down, spc, tgtSent>>
    BY <1>3 DEF RelayToTarget
  <2>2. Coming' = Coming
    BY <1>0, <2>1 DEF Coming, Verdicts
  <2> QED
    BY <1>0, <1>1, <2>1, <2>2 DEF Handshaking
<1>4. CASE RelayToClient
  <2>1. tgtSent \in Seq(Byte) /\ spc' = "tunnel"
    BY <1>0, <1>4 DEF RelayToClient, TypeOK, ServerOK
  <2>2. PICK x \in Byte : tgtSent' = Append(tgtSent, x) /\ down' = Sent(down, <<x>>, cliOpen)
    BY <1>4, <2>1, TargetSpeaks
  <2>3. <<x>> \in Seq(Byte) /\ tgtSent' = tgtSent \o <<x>> /\ Reply(0) \in Seq(Byte)
    <3>1. 0 \in Byte
      BY DEF Byte
    <3>2. Append(tgtSent, x) = tgtSent \o <<x>>
      BY <2>1, AppendIsConcat
    <3>3. <<x>> \in Seq(Byte)
      BY One
    <3>4. Reply(0) \in Seq(Byte)
      BY <3>1, Replies
    <3> QED
      BY <2>2, <3>2, <3>3, <3>4
  <2>4. (Reply(0) \o tgtSent) \o <<x>> = Reply(0) \o tgtSent'
    BY <2>1, <2>3, Regrouped
  <2>5. \A v \in Verdicts : v \o <<x>> \in Verdicts'
    BY <1>0, <2>1, <2>4 DEF Verdicts
  <2>6. CASE ~broken
    <3>1. down \o <<x>> \in Coming'
      BY <1>0, <1>2, <2>3, <2>5, <2>6, Added
    <3> QED
      BY <1>2, <2>1, <2>2, <2>6, <3>1 DEF Handshaking, Sent
  <2>7. CASE broken
    BY <1>0, <2>1, <2>7 DEF Handshaking
  <2> QED
    BY <2>6, <2>7
<1>5. CASE CloseTunnel
  <2>1. CloseSrv(<<>>, up) /\ spc' = "done" /\ tgtSent' = tgtSent
    BY <1>5 DEF CloseTunnel
  <2>2. down' \in {<<>>, down}
    BY <2>1, Closing, Empty DEF TypeOK, WireOK
  <2>3. Coming' = Coming
    BY <1>0, <2>1 DEF Coming, Verdicts
  <2> QED
    BY <1>2, <2>1, <2>2, <2>3 DEF Handshaking
<1> QED
  BY <1>3, <1>4, <1>5 DEF Relay, Target, ServerTunnelEnds, TargetEnds

LEMMA HandshakingNext ==
  ASSUME TypeOK, Ends, Handshaking, RawGets, [ChainNext]_chainVars
  PROVE  Handshaking'
<1>1. CASE WireBreaks /\ UNCHANGED <<socksClientVars, serverVars>>
  BY <1>1 DEF WireBreaks, socksClientVars, serverVars, proxyVars, Handshaking
<1>2. CASE UNCHANGED chainVars
  <2>1. UNCHANGED <<cpc, spc, down, broken, tgtSent>>
    BY <1>2 DEF chainVars, wireVars, socksClientVars, serverVars, proxyVars
  <2>2. Coming' = Coming
    BY <2>1 DEF Coming, ChoiceLeft, Verdicts
  <2> QED
    BY <2>1, <2>2 DEF Handshaking
<1>3. CASE Relay /\ UNCHANGED socksClientVars
  BY <1>3, HandshakingOfTunnel
<1>4. CASE Target /\ UNCHANGED <<b, socksClientVars>>
  BY <1>4, HandshakingOfTunnel
<1> QED
  BY <1>1, <1>2, <1>3, <1>4, ChainSteps, HandshakingOfClient, HandshakingOfServer

-----------------------------------------------------------------------------
(* RawGets *)
LEMMA VerdictIs ==
  ASSUME TypeOK, NEW v \in Verdicts, v # <<>>
  PROVE  /\ v \in Seq(Byte) /\ v[1] = 5
         /\ v[2] = 0 => spc \in {"tunnel", "done"} /\ v = Reply(0) \o tgtSent
<1>1. \A c \in {0, 5, 7, 8} : Reply(c) \in Seq(Byte) /\ Len(Reply(c)) = 10 /\ Reply(c)[2] = c
  <2>1. {0, 5, 7, 8} \subseteq Byte
    BY DEF Byte
  <2> QED
    BY <2>1, Replies
<1>2. \A c \in {0, 5, 7, 8} : Reply(c)[1] = 5
  BY DEF Reply
<1>3. CASE spc \in {"tunnel", "done"}
  <2>1. PICK r \in Seq(Byte) : r = Reply(0) /\ Len(r) = 10 /\ r[1] = 5
    BY <1>1, <1>2
  <2>2. v = r \o tgtSent /\ tgtSent \in Seq(Byte)
    BY <1>3, <2>1 DEF Verdicts, TypeOK, ServerOK
  <2>3. v \in Seq(Byte) /\ \A i \in 1 .. Len(r) : v[i] = r[i]
    BY <2>2, Joined
  <2>4. 1 \in 1 .. Len(r)
    BY <2>1
  <2> QED
    BY <1>3, <2>1, <2>2, <2>3, <2>4
<1>4. CASE spc \notin {"tunnel", "done"}
  <2>1. PICK c \in {5, 7, 8} : v = Reply(c)
    BY <1>4 DEF Verdicts
  <2> QED
    BY <1>1, <1>2, <2>1
<1> QED
  BY <1>3, <1>4

(* Ten bytes that say that the request is granted are the reply, and what  *)
(* is behind them is what the target has sent.                             *)
LEMMA GrantRead ==
  ASSUME TypeOK, Ends, Handshaking, ReadReply, cpc' = "tunnel"
  PROVE  spc \in {"tunnel", "done"} /\ down' = tgtSent
<1>1. PICK k \in Pieces(down, 10) : down' = Drop(down, k) /\ k >= 10 /\ down[2] = 0
  BY DEF ReadReply, ReplyMax, ReplyMin
<1>2. k = 10 /\ 10 <= Len(down) /\ down # <<>> /\ down \in Seq(Byte) /\ Len(down) \in Nat
  <2>1. WireOK /\ 10 \in Nat /\ down \in Seq(Byte) /\ Len(down) \in Nat
    BY NotEmpty DEF TypeOK, WireOK
  <2>2. k \in 1 .. Len(down) /\ k <= 10 /\ down # <<>>
    BY <2>1, TakenDown
  <2> QED
    BY <1>1, <2>1, <2>2
<1>3. cpc = "reply" /\ down \in Coming
  BY <1>2 DEF ReadReply, Handshaking, Ends, TypeOK, ServerOK
<1>4. PICK h \in {<<>>, <<0>>}, v \in Verdicts : down = h \o v
  BY <1>3 DEF Coming, ChoiceLeft
<1>5. v \in Seq(Byte)
  BY Parting
<1>6. CASE h = <<0>>
  <2>1. PICK u \in Seq(Byte) : u = <<0>> /\ Len(u) = 1
    <3>1. 0 \in Byte
      BY DEF Byte
    <3> QED
      BY <3>1, One
  <2>2. Len(down) = Len(u) + Len(v) /\ \A i \in 1 .. Len(v) : down[Len(u) + i] = v[i]
    BY <1>4, <1>5, <1>6, <2>1, Joined
  <2>3. Len(v) \in Nat /\ 1 \in 1 .. Len(v) /\ v # <<>>
    BY <1>2, <1>5, <2>1, <2>2, NotEmpty
  <2>4. down[2] = v[1] /\ v[1] = 5
    BY <2>1, <2>2, <2>3, VerdictIs
  <2> QED
    BY <1>1, <2>4
<1>7. CASE h = <<>>
  <2>1. down = v
    BY <1>4, <1>5, <1>7, Joined
  <2>2. spc \in {"tunnel", "done"} /\ down = Reply(0) \o tgtSent
    BY <1>1, <1>2, <2>1, VerdictIs
  <2>3. PICK r \in Seq(Byte) : r = Reply(0) /\ Len(r) = 10
    <3>1. 0 \in Byte
      BY DEF Byte
    <3> QED
      BY <3>1, Replies
  <2>4. Drop(r \o tgtSent, 10) = tgtSent
    <3>1. tgtSent \in Seq(Byte)
      BY DEF TypeOK, ServerOK
    <3>2. Len(r) # 0
      BY <2>3
    <3>3. Drop(r \o tgtSent, Len(r)) = tgtSent
      BY <3>1, <3>2, DropPrefix
    <3> QED
      BY <2>3, <3>3
  <2> QED
    BY <1>1, <1>2, <2>2, <2>3, <2>4
<1> QED
  BY <1>4, <1>6, <1>7

LEMMA RawGetsOfClient ==
  ASSUME TypeOK, Ends, Handshaking, RawGets, Client \/ Raw \/ Finalize, UNCHANGED serverVars
  PROVE  RawGets'
<1>0. /\ UNCHANGED <<spc, tgtSent, tgtGot>>
      /\ rawGot \in Seq(Byte) /\ tgtSent \in Seq(Byte) /\ down \in Seq(Byte)
  BY DEF serverVars, proxyVars, TypeOK, WireOK, ClientOK, ServerOK
<1>1. CASE Connect \/ ConnectFails \/ ReadMethod \/ ReadErr \/ Finalize \/ CloseBoth
  <2>1. cpc' # "tunnel" /\ UNCHANGED <<rawGot, rawSent>> /\ (cpc' # "done" => cpc # "done" /\ cpc # "tunnel")
    BY <1>1 DEF Connect, ConnectFails, ReadMethod, ReadErr, Finalize, CloseBoth, socksClientVars
  <2> QED
    BY <1>0, <2>1 DEF RawGets
<1>2. CASE ReadReply
  <2>1. cpc = "reply" /\ cpc' \in {"tunnel", "failed"} /\ UNCHANGED <<rawGot, rawSent, broken>>
    BY <1>2 DEF ReadReply, link
  <2>2. rawGot = <<>> /\ rawSent = <<>>
    BY <2>1 DEF RawGets
  <2>3. CASE cpc' = "tunnel"
    <3>1. spc \in {"tunnel", "done"} /\ down' = tgtSent
      BY <1>2, <2>3, GrantRead
    <3>2. rawGot \o down' = tgtSent /\ IsPrefixOf(tgtSent, tgtSent)
      BY <1>0, <2>2, <3>1, Joined, PrefixOfItself
    <3> QED
      BY <1>0, <2>1, <2>3, <3>1, <3>2 DEF RawGets
  <2>4. CASE cpc' # "tunnel"
    BY <1>0, <2>1, <2>2, <2>4 DEF RawGets
  <2> QED
    BY <2>3, <2>4
<1>3. CASE RelayToServer
  <2>1. cpc = "tunnel" /\ UNCHANGED <<cpc, down, rawGot, broken>>
    BY <1>3 DEF RelayToServer, link
  <2> QED
    BY <1>0, <2>1 DEF RawGets
<1>4. CASE RelayToRaw
  <2>1. PICK k \in 1 .. Len(down) : rawGot' = rawGot \o SubSeq(down, 1, k) /\ down' = Drop(down, k)
    BY <1>4 DEF RelayToRaw
  <2>2. k \in 0 .. Len(down)
    BY <2>1
  <2>3. /\ SubSeq(down, 1, k) \in Seq(Byte) /\ Drop(down, k) \in Seq(Byte)
        /\ SubSeq(down, 1, k) \o Drop(down, k) = down
    BY <1>0, <2>2, Divided
  <2>4. rawGot' \in Seq(Byte) /\ rawGot' \o down' = rawGot \o down
    <3>1. (rawGot \o SubSeq(down, 1, k)) \o Drop(down, k) = rawGot \o (SubSeq(down, 1, k) \o Drop(down, k))
      BY <1>0, <2>3, Regrouped
    <3>2. rawGot \o SubSeq(down, 1, k) \in Seq(Byte)
      BY <1>0, <2>3, Joined
    <3> QED
      BY <2>1, <2>3, <3>1, <3>2
  <2>5. cpc = "tunnel" /\ UNCHANGED <<cpc, rawSent, broken>>
    BY <1>4 DEF RelayToRaw, link
  <2>6. IsPrefixOf(rawGot' \o down', tgtSent)
    BY <2>4, <2>5 DEF RawGets
  <2>7. IsPrefixOf(rawGot', tgtSent)
    BY <1>0, <2>1, <2>3, <2>4, <2>6, PrefixOfPrefix
  <2> QED
    BY <1>0, <2>4, <2>5, <2>6, <2>7 DEF RawGets
<1> QED
  BY <1>1, <1>2, <1>3, <1>4 DEF Client, Raw, ClientTunnelEnds, RawEnds

LEMMA RawGetsOfTunnel ==
  ASSUME TypeOK, Ends, RawGets, Relay \/ Target, UNCHANGED socksClientVars
  PROVE  RawGets'
<1>0. /\ spc = "tunnel" /\ UNCHANGED <<cpc, rawGot, rawSent, broken>>
      /\ rawGot \in Seq(Byte) /\ tgtSent \in Seq(Byte) /\ down \in Seq(Byte)
  BY DEF Relay, Target, RelayToTarget, RelayToClient, ServerTunnelEnds, TargetEnds, CloseTunnel,
         link, socksClientVars, TypeOK, WireOK, ClientOK, ServerOK
<1>1. CASE RelayToTarget
  BY <1>0, <1>1 DEF RelayToTarget, RawGets
<1>2. CASE RelayToClient
  <2>1. spc' = "tunnel"
    BY <1>0, <1>2 DEF RelayToClient
  <2>2. PICK x \in Byte : tgtSent' = Append(tgtSent, x) /\ down' = Sent(down, <<x>>, cliOpen)
    BY <1>0, <1>2, TargetSpeaks
  <2>3. PICK m \in Seq(Byte) : m = <<x>> /\ tgtSent' = tgtSent \o m
    <3>1. Append(tgtSent, x) = tgtSent \o <<x>>
      BY <1>0, AppendIsConcat
    <3> QED
      BY <2>2, <3>1, One
  <2>4. IsPrefixOf(rawGot, tgtSent')
    BY <1>0, <2>3, PrefixGrows DEF RawGets
  <2>5. CASE cpc # "tunnel"
    BY <1>0, <2>1, <2>2, <2>4, <2>5 DEF RawGets
  <2>6. CASE cpc = "tunnel" /\ broken
    <3>1. down = <<>> /\ down' = down
      BY <2>2, <2>6 DEF Ends, Sent
    <3>2. rawGot \o down' = rawGot
      BY <1>0, <3>1, Joined
    <3> QED
      BY <1>0, <2>1, <2>2, <2>4, <2>6, <3>2 DEF RawGets
  <2>7. CASE cpc = "tunnel" /\ ~broken
    <3>1. down' = down \o m
      BY <2>2, <2>3, <2>7 DEF Ends, Sent
    <3>2. rawGot \o down = tgtSent
      BY <1>0, <2>7 DEF RawGets
    <3>3. rawGot \o (down \o m) = (rawGot \o down) \o m
      <4>1. rawGot \in Seq(Byte) /\ down \in Seq(Byte)
        BY <1>0
      <4> QED
        BY <4>1, Regrouped
    <3>4. rawGot \o down' = tgtSent' /\ tgtSent' \in Seq(Byte)
      BY <1>0, <2>3, <3>1, <3>2, <3>3, Joined
    <3>5. IsPrefixOf(tgtSent', tgtSent')
      BY <3>4, PrefixOfItself
    <3> QED
      BY <1>0, <2>1, <2>2, <2>4, <2>7, <3>4, <3>5 DEF RawGets
  <2> QED
    BY <2>5, <2>6, <2>7
<1>3. CASE CloseTunnel
  <2>1. CloseSrv(<<>>, up) /\ spc' = "done" /\ UNCHANGED <<tgtSent, tgtGot>>
    BY <1>3 DEF CloseTunnel
  <2>2. down' \in {<<>>, down}
    BY <2>1, Closing, Empty DEF TypeOK, WireOK
  <2>3. rawGot \o <<>> = rawGot
    BY <1>0, Joined
  <2>4. cpc = "tunnel" => IsPrefixOf(rawGot \o down', tgtSent)
    BY <2>2, <2>3 DEF RawGets
  <2> QED
    BY <1>0, <2>1, <2>4 DEF RawGets
<1> QED
  BY <1>1, <1>2, <1>3 DEF Relay, Target, ServerTunnelEnds, TargetEnds

LEMMA RawGetsNext ==
  ASSUME TypeOK, Ends, Handshaking, RawGets, [ChainNext]_chainVars
  PROVE  RawGets'
<1>0. rawGot \in Seq(Byte) /\ rawGot \o <<>> = rawGot
  BY Joined, Empty DEF TypeOK, ClientOK
<1>1. CASE WireBreaks /\ UNCHANGED <<socksClientVars, serverVars>>
  BY <1>0, <1>1 DEF WireBreaks, socksClientVars, serverVars, proxyVars, RawGets
<1>2. CASE UNCHANGED chainVars
  BY <1>2 DEF chainVars, wireVars, socksClientVars, serverVars, proxyVars, RawGets
<1>3. CASE Server /\ ~Relay /\ UNCHANGED socksClientVars
  <2>1. Accept \/ Greets \/ Dials \/ GivesUp \/ DialOk
    BY <1>3, Moves DEF TypeOK
  <2>2. spc \notin {"tunnel", "done"} /\ UNCHANGED <<cpc, rawGot, rawSent, tgtSent, tgtGot>>
    BY <1>3, <2>1 DEF Accept, Greets, Dials, GivesUp, DialOk, socksClientVars
  <2> QED
    BY <2>2 DEF RawGets
<1>4. CASE Relay /\ UNCHANGED socksClientVars
  BY <1>4, RawGetsOfTunnel
<1>5. CASE Target /\ UNCHANGED <<b, socksClientVars>>
  BY <1>5, RawGetsOfTunnel
<1> QED
  BY <1>1, <1>2, <1>3, <1>4, <1>5, ChainSteps, RawGetsOfClient

-----------------------------------------------------------------------------
(* Asking *)
LEMMA PrefixOfNothing ==
  ASSUME NEW s \in Seq(Byte), IsPrefixOf(s, <<>>)
  PROVE  s = <<>>
<1>1. Len(s) \in Nat /\ Len(s) <= Len(<<>>)
  BY NotEmpty DEF IsPrefixOf
<1>2. Len(<<>>) = 0
  BY Empty
<1>3. Len(s) = 0
  BY <1>1, <1>2
<1> QED
  BY <1>3, NotEmpty

(* What has come to the server may also be lost on its way. *)
LEMMA Lost ==
  ASSUME TypeOK, IsPrefixOf(tgtGot \o up, rawSent), UNCHANGED <<tgtGot, rawSent>>, up' \in {<<>>, up}
  PROVE  IsPrefixOf((tgtGot \o up)', rawSent')
<1>1. tgtGot \in Seq(Byte) /\ up \in Seq(Byte) /\ rawSent \in Seq(Byte)
  BY DEF TypeOK, WireOK, ClientOK, ServerOK
<1>2. tgtGot \o <<>> = tgtGot
  BY <1>1, Joined
<1>3. IsPrefixOf(tgtGot, rawSent)
  BY <1>1, PrefixOfPrefix
<1> QED
  BY <1>2, <1>3

LEMMA AskingOfRaw ==
  ASSUME TypeOK, Ends, RawGets, whole, Asking, RelayToServer, UNCHANGED serverVars
  PROVE  Asking'
<1>0. /\ UNCHANGED <<spc, dialed, tgtGot, asked, whole, cpc, srvOpen, broken>>
      /\ cpc = "tunnel" /\ spc \in {"tunnel", "done"}
      /\ tgtGot \in Seq(Byte) /\ up \in Seq(Byte) /\ rawSent \in Seq(Byte)
  BY DEF RelayToServer, RawGets, serverVars, proxyVars, link, TypeOK, WireOK, ClientOK, ServerOK
<1>1. PICK x \in Byte : rawSent' = Append(rawSent, x) /\ up' = Sent(up, <<x>>, srvOpen)
  BY <1>0, RawSpeaks
<1>2. PICK m \in Seq(Byte) : m = <<x>> /\ rawSent' = rawSent \o m
  <2>1. Append(rawSent, x) = rawSent \o <<x>>
    BY <1>0, AppendIsConcat
  <2> QED
    BY <1>1, <2>1, One
<1>3. DialsWhatWasAsked'
  BY <1>0 DEF Asking, DialsWhatWasAsked
<1>4. IsPrefixOf(tgtGot \o up, rawSent) /\ tgtGot \o up \in Seq(Byte)
  BY <1>0, Joined DEF Asking
<1>5. CASE broken \/ ~srvOpen
  <2>1. up' = up
    BY <1>1, <1>5 DEF Sent
  <2>2. IsPrefixOf(tgtGot \o up, rawSent')
    BY <1>0, <1>2, <1>4, PrefixGrows
  <2> QED
    BY <1>0, <1>3, <1>5, <2>1, <2>2 DEF Asking
<1>6. CASE ~broken /\ srvOpen
  <2>1. up' = up \o m /\ tgtGot \o up = rawSent
    BY <1>0, <1>1, <1>2, <1>6 DEF Sent, Asking
  <2>2. tgtGot \o (up \o m) = (tgtGot \o up) \o m
    <3>1. tgtGot \in Seq(Byte) /\ up \in Seq(Byte)
      BY <1>0
    <3> QED
      BY <3>1, Regrouped
  <2>3. tgtGot \o up' = rawSent' /\ rawSent' \in Seq(Byte)
    BY <1>0, <1>2, <2>1, <2>2, Joined
  <2>4. IsPrefixOf(rawSent', rawSent')
    BY <2>3, PrefixOfItself
  <2> QED
    BY <1>0, <1>3, <1>6, <2>3, <2>4 DEF Asking
<1> QED
  BY <1>5, <1>6

LEMMA AskingOfClient ==
  ASSUME TypeOK, Ends, Handshaking, RawGets, whole, Asking,
         Client \/ Raw \/ Finalize, UNCHANGED serverVars, UNCHANGED <<whole, asked>>
  PROVE  Asking'
<1>0. /\ UNCHANGED <<spc, dialed, tgtGot>>
      /\ tgtGot \in Seq(Byte) /\ up \in Seq(Byte) /\ rawSent \in Seq(Byte) /\ WireOK
  BY DEF serverVars, proxyVars, TypeOK, WireOK, ClientOK, ServerOK
<1>1. DialsWhatWasAsked'
  BY <1>0 DEF Asking, DialsWhatWasAsked
<1>2. CASE Connect
  <2>1. spc = "accept" /\ up' = <<5, 1, 0>>
    BY <1>2 DEF Connect, Ends
  <2> QED
    BY <1>0, <1>1, <2>1 DEF Asking
<1>3. CASE ConnectFails \/ ReadErr
  <2>1. /\ cpc' \in {"done", "failed"} /\ UNCHANGED <<up, rawSent>>
        /\ cpc = "connect" => spc = "accept"
    BY <1>3 DEF ConnectFails, ReadErr, wireVars, Ends
  <2> QED
    BY <1>0, <1>1, <2>1 DEF Asking
<1>4. CASE ReadMethod
  <2>1. PICK k \in Pieces(down, 2) : down' = Drop(down, k)
    BY <1>4 DEF ReadMethod
  <2>2. down # <<>>
    BY <1>0, TakenDown
  <2>3. cpc = "method" /\ cpc' = "reply" /\ up' = Sent(up, SocksReq(asked), srvOpen)
    BY <1>4 DEF ReadMethod
  <2>4. spc \notin {"accept", "greeting", "dialing", "tunnel", "done"}
    BY <2>2, <2>3 DEF Handshaking, Asking
  <2>5. SocksReq(asked) \in Seq(Byte)
    BY AskEncoding DEF TypeOK
  <2>6. <<>> \o SocksReq(asked) = SocksReq(asked)
    BY <2>5, Joined
  <2>7. spc = "request" => up' \in {<<>>, SocksReq(asked)}
    BY <2>3, <2>6 DEF Asking, Sent
  <2> QED
    BY <1>0, <1>1, <2>3, <2>4, <2>7 DEF Asking
<1>5. CASE ReadReply
  <2>1. cpc = "reply" /\ cpc' \in {"tunnel", "failed"} /\ UNCHANGED <<up, rawSent>>
    BY <1>5 DEF ReadReply
  <2>2. spc \in {"tunnel", "done"} => tgtGot \o up = rawSent
    <3>1. SUFFICES ASSUME spc \in {"tunnel", "done"}
                   PROVE  tgtGot \o up = rawSent
      OBVIOUS
    <3>2. rawSent = <<>> /\ IsPrefixOf(tgtGot \o up, rawSent)
      BY <2>1, <3>1 DEF RawGets, Asking
    <3>3. tgtGot \o up \in Seq(Byte)
      BY <1>0, Joined
    <3> QED
      BY <3>2, <3>3, PrefixOfNothing
  <2> QED
    BY <1>0, <1>1, <2>1, <2>2 DEF Asking
<1>6. CASE RelayToRaw
  <2>1. UNCHANGED <<cpc, up, rawSent, broken, srvOpen>>
    BY <1>6 DEF RelayToRaw, link
  <2> QED
    BY <1>0, <1>1, <2>1 DEF Asking
<1>7. CASE Finalize \/ CloseBoth
  <2>1. /\ cpc' \in {"failed", "done"} /\ cpc \in {"failed", "tunnel"} /\ UNCHANGED rawSent
        /\ CloseCli
    BY <1>7 DEF Finalize, CloseBoth, socksClientVars
  <2>2. up' \in {<<>>, up}
    BY <1>0, <2>1, ClosingCli
  <2>3. spc \in {"tunnel", "done"} => IsPrefixOf((tgtGot \o up)', rawSent')
    BY <1>0, <2>1, <2>2, Lost DEF Asking
  <2> QED
    BY <1>0, <1>1, <2>1, <2>2, <2>3 DEF Asking
<1> QED
  BY <1>2, <1>3, <1>4, <1>5, <1>6, <1>7, AskingOfRaw DEF Client, Raw, ClientTunnelEnds, RawEnds

LEMMA AskingOfServer ==
  ASSUME TypeOK, Ends, Handshaking, RawGets, whole, Asking, Server, ~Relay,
         UNCHANGED socksClientVars, UNCHANGED whole
  PROVE  Asking'
<1>0. /\ UNCHANGED <<cpc, asked, rawSent, broken>>
      /\ Accept \/ Greets \/ Dials \/ GivesUp \/ DialOk
      /\ rawSent \in Seq(Byte)
  BY Moves DEF socksClientVars, TypeOK, ClientOK
<1>1. CASE Accept
  BY <1>0, <1>1 DEF Accept, wireVars, Asking, DialsWhatWasAsked
<1>2. CASE Greets
  <2>1. up = <<5, 1, 0>> /\ spc' = "request" /\ UNCHANGED dialed
    BY <1>2 DEF Greets, Asking
  <2>2. Len(<<5, 1, 0>>) = 3
    OBVIOUS
  <2>3. Len(up) <= BufLen
    BY <2>1, <2>2, ServerAssumption
  <2>4. up' = <<>>
    BY <1>2, <2>3 DEF Greets
  <2> QED
    BY <1>0, <2>1, <2>4 DEF Asking, DialsWhatWasAsked
<1>3. CASE Dials
  <2>1. up = SocksReq(asked) /\ cpc \notin {"connect", "method"} /\ spc' = "dialing"
    BY <1>3 DEF Dials, Asking, Ends
  <2>2. ClientOK /\ Len(up) <= BufLen
    BY <2>1, AskIs DEF TypeOK
  <2>3. up' = <<>> /\ b' = Fill(Len(up)) /\ dialed' = Address(b', Len(up))
    BY <1>3, <2>2 DEF Dials
  <2>4. Address(b', Len(up)) = asked
    BY <2>1, <2>2, <2>3, AskDecoding
  <2> QED
    BY <1>0, <2>1, <2>3, <2>4 DEF Asking, DialsWhatWasAsked
<1>4. CASE GivesUp
  BY <1>0, <1>4 DEF GivesUp, Asking, DialsWhatWasAsked
<1>5. CASE DialOk
  <2>1. /\ spc = "dialing" /\ spc' = "tunnel" /\ UNCHANGED <<up, tgtGot, dialed>>
    BY <1>5 DEF DialOk
  <2>2. up = <<>> /\ tgtGot = <<>> /\ cpc \notin {"connect", "method", "tunnel"}
    BY <2>1 DEF Asking, RawGets
  <2>3. tgtGot \o up = <<>>
    BY <2>2, Joined, Empty
  <2>4. IsPrefixOf(<<>>, rawSent)
    BY <1>0, PrefixOfItself
  <2> QED
    BY <1>0, <2>1, <2>2, <2>3, <2>4 DEF Asking, DialsWhatWasAsked
<1> QED
  BY <1>0, <1>1, <1>2, <1>3, <1>4, <1>5

LEMMA AskingOfTunnel ==
  ASSUME TypeOK, whole, Asking, Relay \/ Target, UNCHANGED socksClientVars, UNCHANGED whole
  PROVE  Asking'
<1>0. /\ spc = "tunnel" /\ UNCHANGED <<cpc, asked, rawSent, broken, dialed>>
      /\ tgtGot \in Seq(Byte) /\ up \in Seq(Byte)
  BY DEF Relay, Target, RelayToTarget, RelayToClient, ServerTunnelEnds, TargetEnds, CloseTunnel,
         link, socksClientVars, TypeOK, WireOK, ServerOK
<1>1. CASE RelayToTarget
  <2>1. PICK k \in 1 .. Len(up) : tgtGot' = tgtGot \o SubSeq(up, 1, k) /\ up' = Drop(up, k)
    BY <1>1 DEF RelayToTarget
  <2>2. k \in 0 .. Len(up)
    BY <2>1
  <2>3. /\ SubSeq(up, 1, k) \in Seq(Byte) /\ Drop(up, k) \in Seq(Byte)
        /\ SubSeq(up, 1, k) \o Drop(up, k) = up
    BY <1>0, <2>2, Divided
  <2>4. (tgtGot \o SubSeq(up, 1, k)) \o Drop(up, k) = tgtGot \o (SubSeq(up, 1, k) \o Drop(up, k))
    BY <1>0, <2>3, Regrouped
  <2>5. tgtGot' \o up' = tgtGot \o up
    BY <2>1, <2>3, <2>4
  <2>6. UNCHANGED <<spc, srvOpen>>
    BY <1>1 DEF RelayToTarget
  <2> QED
    BY <1>0, <2>5, <2>6 DEF Asking, DialsWhatWasAsked
<1>2. CASE RelayToClient
  BY <1>0, <1>2 DEF RelayToClient, Asking, DialsWhatWasAsked
<1>3. CASE CloseTunnel
  <2>1. CloseSrv(<<>>, up) /\ spc' = "done" /\ UNCHANGED tgtGot
    BY <1>3 DEF CloseTunnel
  <2>2. up' = <<>> /\ srvOpen' = FALSE
    BY <2>1 DEF CloseSrv
  <2>3. IsPrefixOf((tgtGot \o up)', rawSent')
    BY <1>0, <2>1, <2>2, Lost DEF Asking
  <2> QED
    BY <1>0, <2>1, <2>2, <2>3 DEF Asking, DialsWhatWasAsked
<1> QED
  BY <1>1, <1>2, <1>3 DEF Relay, Target, ServerTunnelEnds, TargetEnds

LEMMA AskingNext ==
  ASSUME TypeOK, Ends, Handshaking, RawGets, whole, Asking, [ChainNext]_chainVars
  PROVE  Asking'
<1>0. UNCHANGED <<whole, asked>>
  BY ChainSteps
<1>1. CASE WireBreaks /\ UNCHANGED <<socksClientVars, serverVars>>
  <2>1. UNCHANGED <<spc, cpc, dialed, rawSent, tgtGot, asked>> /\ up' = <<>> /\ broken' = TRUE
    BY <1>1 DEF WireBreaks, socksClientVars, serverVars, proxyVars
  <2>2. spc \in {"tunnel", "done"} => IsPrefixOf((tgtGot \o up)', rawSent')
    BY <2>1, Lost DEF Asking
  <2> QED
    BY <1>0, <2>1, <2>2 DEF Asking, DialsWhatWasAsked
<1>2. CASE UNCHANGED chainVars
  BY <1>2 DEF chainVars, wireVars, socksClientVars, serverVars, proxyVars, Asking, DialsWhatWasAsked
<1>3. CASE Relay /\ UNCHANGED socksClientVars
  BY <1>0, <1>3, AskingOfTunnel
<1>4. CASE Target /\ UNCHANGED <<b, socksClientVars>>
  BY <1>0, <1>4, AskingOfTunnel
<1> QED
  BY <1>0, <1>1, <1>2, <1>3, <1>4, ChainSteps, AskingOfClient, AskingOfServer

-----------------------------------------------------------------------------
(* The chain. *)
LEMMA ChainInvInit ==
  ASSUME ChainInit
  PROVE  ChainInv
<1>1. /\ up = <<>> /\ down = <<>> /\ ~fin /\ ~cliOpen /\ ~srvOpen /\ ~broken /\ whole \in BOOLEAN
      /\ fin \in BOOLEAN /\ cliOpen \in BOOLEAN /\ srvOpen \in BOOLEAN /\ broken \in BOOLEAN
  BY DEF ChainInit, WireInit
<1>2. asked \in Asks /\ cpc = "connect" /\ rawSent = <<>> /\ rawGot = <<>>
  BY DEF ChainInit, ClientInit
<1>3. /\ spc = "accept" /\ dialed = NoDial /\ tgtSent = <<>> /\ tgtGot = <<>>
      /\ b = [i \in 0 .. BufLen - 1 |-> 0]
  BY DEF ChainInit, ServerInit, ProxyInit
<1>4. <<>> \in Seq(Byte) /\ IsPrefixOf(<<>>, <<>>)
  BY Empty, PrefixOfItself
<1>5. b \in [0 .. BufLen - 1 -> Byte]
  <2>1. 0 \in Byte
    BY DEF Byte
  <2> QED
    BY <1>3, <2>1
<1>6. TypeOK
  BY <1>1, <1>2, <1>3, <1>4, <1>5 DEF TypeOK, WireOK, ClientOK, ServerOK
<1>7. Ends /\ Handshaking
  BY <1>1, <1>2, <1>3 DEF Ends, Handshaking
<1>8. RawGets /\ Asking
  BY <1>1, <1>2, <1>3, <1>4 DEF RawGets, Asking, DialsWhatWasAsked
<1> QED
  BY <1>6, <1>7, <1>8 DEF ChainInv

LEMMA ChainInvNext ==
  ASSUME ChainInv, [ChainNext]_chainVars
  PROVE  ChainInv'
<1>1. whole' = whole
  BY ChainSteps
<1> QED
  BY <1>1, ChainTypesNext, EndsNext, HandshakingNext, RawGetsNext, AskingNext DEF ChainInv

(***************************************************************************)
(* ChainInv holds in every state of raw2socks or redir2socks and socks.go: *)
(* its parts together are inductive.  Ends, Handshaking and RawGets hold   *)
(* however the messages are cut up; Asking does if Reads find them whole.  *)
(***************************************************************************)
THEOREM ChainInvariant == ChainSpec => []ChainInv
<1>1. ChainInit => ChainInv
  BY ChainInvInit
<1>2. ChainInv /\ [ChainNext]_chainVars => ChainInv'
  BY ChainInvNext
<1> QED
  BY <1>1, <1>2, PTL DEF ChainSpec

(***************************************************************************)
(* The types: past its checks socks.go (socks.go:58-80) never slices its   *)
(* array out of bounds, so what it dials is an address, whichever bytes it *)
(* has read.                                                               *)
(***************************************************************************)
THEOREM ChainTypes == ChainSpec => []TypeOK
<1>1. ChainInv => TypeOK
  BY DEF ChainInv
<1> QED
  BY <1>1, ChainInvariant, PTL

(***************************************************************************)
(* Both ends mean the same connection: the server dials the address that   *)
(* raw2socks or redir2socks was asked for, of whichever type and length,   *)
(* if Reads find messages whole; the client tunnels only if the server     *)
(* does.                                                                   *)
(***************************************************************************)
THEOREM BothEndsAgree == ChainSpec => []HandshakeAgrees
<1>1. ChainInv => HandshakeAgrees
  BY DEF ChainInv, Asking, RawGets, HandshakeAgrees, DialsWhatWasAsked, TunnelsOnlyIfGranted
<1> QED
  BY <1>1, ChainInvariant, PTL

-----------------------------------------------------------------------------
(* The pipes that the chain implements. *)

(* What one step does to the one, and to the other, end of a pipe. *)
Passes(sent, got, sentAfter, gotAfter) ==
  \/ sentAfter = sent /\ gotAfter = got
  \/ gotAfter = got /\ \E x \in Byte : sentAfter = Append(sent, x)
  \/ sentAfter = sent /\ \E q \in Seq(Byte) : q # <<>> /\ gotAfter = got \o q

LEMMA Took ==
  ASSUME NEW got \in Seq(Byte), NEW q \in Seq(Byte), q # <<>>, NEW sent \in Seq(Byte),
         IsPrefixOf(got \o q, sent)
  PROVE  \E k \in Len(got) + 1 .. Len(sent) : got \o q = SubSeq(sent, 1, k)
<1>1. PICK p \in Seq(Byte) : p = got \o q /\ Len(p) = Len(got) + Len(q)
  BY Joined
<1>2. /\ Len(got) \in Nat /\ Len(q) \in Nat /\ Len(q) # 0 /\ Len(sent) \in Nat /\ Len(p) \in Nat
      /\ DOMAIN p = 1 .. Len(p)
  BY NotEmpty
<1>3. Len(p) <= Len(sent) /\ \A i \in DOMAIN p : p[i] = sent[i]
  BY <1>1 DEF IsPrefixOf
<1>4. Len(p) \in Len(got) + 1 .. Len(sent) /\ Len(p) \in 0 .. Len(sent)
  <2>1. Len(p) >= Len(got) + 1
    BY <1>1, <1>2
  <2> QED
    BY <1>2, <1>3, <2>1
<1>5. /\ SubSeq(sent, 1, Len(p)) \in Seq(Byte) /\ Len(SubSeq(sent, 1, Len(p))) = Len(p)
      /\ \A i \in 1 .. Len(p) : SubSeq(sent, 1, Len(p))[i] = sent[i]
  BY <1>4, Divided
<1>6. \A i \in 1 .. Len(p) : p[i] = SubSeq(sent, 1, Len(p))[i]
  BY <1>2, <1>3, <1>5
<1>7. p = SubSeq(sent, 1, Len(p))
  BY <1>5, <1>6, SeqEqual
<1> QED
  BY <1>1, <1>4, <1>7

LEMMA PassesToRaw ==
  ASSUME TypeOK, [ChainNext]_chainVars
  PROVE  Passes(tgtSent, rawGot, tgtSent', rawGot')
<1>1. CASE RelayToClient /\ UNCHANGED socksClientVars
  <2>1. \E x \in Byte : tgtSent' = Append(tgtSent, x)
    BY <1>1, TargetSpeaks DEF TypeOK, ServerOK
  <2> QED
    BY <1>1, <2>1 DEF socksClientVars, Passes
<1>2. CASE RelayToRaw /\ UNCHANGED serverVars
  <2>1. PICK k \in 1 .. Len(down) : rawGot' = rawGot \o SubSeq(down, 1, k)
    BY <1>2 DEF RelayToRaw
  <2>2. k \in 0 .. Len(down) /\ k # 0 /\ down \in Seq(Byte)
    BY <2>1 DEF TypeOK, WireOK
  <2>3. SubSeq(down, 1, k) \in Seq(Byte) /\ Len(SubSeq(down, 1, k)) = k
    BY <2>2, Divided
  <2>4. SubSeq(down, 1, k) # <<>>
    BY <2>2, <2>3, NotEmpty
  <2> QED
    BY <1>2, <2>1, <2>3, <2>4 DEF serverVars, proxyVars, Passes
<1>3. CASE \/ (Client \/ Raw \/ Finalize) /\ ~RelayToRaw /\ UNCHANGED serverVars
           \/ (Server \/ TargetEnds) /\ UNCHANGED socksClientVars
           \/ UNCHANGED <<socksClientVars, serverVars>>
  <2>1. UNCHANGED <<tgtSent, rawGot>>
    BY <1>3
    DEF Client, Raw, Finalize, Connect, ConnectFails, ReadMethod, ReadReply, ReadErr, ClientTunnelEnds,
        RelayToServer, RawEnds, CloseBoth, Server, Accept, ReadGreeting, GreetingErr, ReadRequest, DialOk,
        DialFails, Relay, RelayToTarget, ServerTunnelEnds, TargetEnds, CloseTunnel,
        socksClientVars, serverVars, proxyVars
  <2> QED
    BY <2>1 DEF Passes
<1> QED
  BY <1>1, <1>2, <1>3, ChainSteps DEF Target, chainVars

LEMMA PassesToTarget ==
  ASSUME TypeOK, [ChainNext]_chainVars
  PROVE  Passes(rawSent, tgtGot, rawSent', tgtGot')
<1>1. CASE RelayToServer /\ UNCHANGED serverVars
  <2>1. \E x \in Byte : rawSent' = Append(rawSent, x)
    BY <1>1, RawSpeaks DEF TypeOK, ClientOK
  <2> QED
    BY <1>1, <2>1 DEF serverVars, proxyVars, Passes
<1>2. CASE RelayToTarget /\ UNCHANGED socksClientVars
  <2>1. PICK k \in 1 .. Len(up) : tgtGot' = tgtGot \o SubSeq(up, 1, k)
    BY <1>2 DEF RelayToTarget
  <2>2. k \in 0 .. Len(up) /\ k # 0 /\ up \in Seq(Byte)
    BY <2>1 DEF TypeOK, WireOK
  <2>3. SubSeq(up, 1, k) \in Seq(Byte) /\ Len(SubSeq(up, 1, k)) = k
    BY <2>2, Divided
  <2>4. SubSeq(up, 1, k) # <<>>
    BY <2>2, <2>3, NotEmpty
  <2> QED
    BY <1>2, <2>1, <2>3, <2>4 DEF socksClientVars, Passes
<1>3. CASE \/ (Client \/ RawEnds \/ Finalize) /\ UNCHANGED serverVars
           \/ Server /\ ~RelayToTarget /\ UNCHANGED socksClientVars
           \/ Target /\ UNCHANGED socksClientVars
           \/ UNCHANGED <<socksClientVars, serverVars>>
  <2>1. UNCHANGED <<rawSent, tgtGot>>
    BY <1>3
    DEF Client, RawEnds, Finalize, Connect, ConnectFails, ReadMethod, ReadReply, ReadErr, ClientTunnelEnds,
        RelayToRaw, CloseBoth, Server, Accept, ReadGreeting, GreetingErr, ReadRequest, DialOk,
        DialFails, Relay, RelayToClient, ServerTunnelEnds, Target, TargetEnds, CloseTunnel,
        socksClientVars, serverVars, proxyVars
  <2> QED
    BY <2>1 DEF Passes
<1> QED
  BY <1>1, <1>2, <1>3, ChainSteps DEF Raw, chainVars

(***************************************************************************)
(* The chain implements a pipe each way: the raw client receives what the  *)
(* target sends, in its order, and nothing else, however the handshake was *)
(* cut up; so does the target of the raw client, if messages arrive whole. *)
(***************************************************************************)
THEOREM ChainImplementsPipes == ChainSpec => EndToEnd
<1>1. ChainInit => ToRaw!Init /\ ToTarget!Init
  BY DEF ChainInit, ClientInit, ServerInit, ProxyInit, ToRaw!Init, ToTarget!Init
<1>2. ChainInv /\ ChainInv' /\ [ChainNext]_chainVars => [ToRaw!Next]_(ToRaw!pipe)
  <2> SUFFICES ASSUME ChainInv, ChainInv', [ChainNext]_chainVars
               PROVE  [ToRaw!Next]_(ToRaw!pipe)
    OBVIOUS
  <2>1. TypeOK /\ rawGot \in Seq(Byte) /\ tgtSent \in Seq(Byte) /\ IsPrefixOf(rawGot', tgtSent')
    BY DEF ChainInv, TypeOK, ClientOK, ServerOK, RawGets
  <2>2. Passes(tgtSent, rawGot, tgtSent', rawGot')
    BY <2>1, PassesToRaw
  <2>3. CASE rawGot' = rawGot /\ \E x \in Byte : tgtSent' = Append(tgtSent, x)
    BY <2>3 DEF ToRaw!Next, ToRaw!Put, Byte
  <2>4. CASE tgtSent' = tgtSent /\ \E q \in Seq(Byte) : q # <<>> /\ rawGot' = rawGot \o q
    <3>1. PICK q \in Seq(Byte) : q # <<>> /\ rawGot' = rawGot \o q
      BY <2>4
    <3>2. \E k \in Len(rawGot) + 1 .. Len(tgtSent) : rawGot' = SubSeq(tgtSent, 1, k)
      BY <2>1, <2>4, <3>1, Took
    <3> QED
      BY <2>4, <3>2 DEF ToRaw!Next, ToRaw!Take
  <2> QED
    BY <2>2, <2>3, <2>4 DEF Passes, ToRaw!pipe
<1>3. ChainInv /\ ChainInv' /\ [ChainNext]_chainVars => [ToTarget!Next]_(ToTarget!pipe)
  <2> SUFFICES ASSUME ChainInv, ChainInv', [ChainNext]_chainVars
               PROVE  [ToTarget!Next]_(ToTarget!pipe)
    OBVIOUS
  <2>1. /\ TypeOK /\ whole' = whole
        /\ tgtGot \in Seq(Byte) /\ rawSent \in Seq(Byte)
        /\ tgtGot' \in Seq(Byte) /\ rawSent' \in Seq(Byte) /\ up' \in Seq(Byte)
    BY ChainSteps DEF ChainInv, TypeOK, WireOK, ClientOK, ServerOK
  <2>2. Passes(rawSent, tgtGot, rawSent', tgtGot')
    BY <2>1, PassesToTarget
  <2>3. CASE tgtGot' = tgtGot /\ \E x \in Byte : rawSent' = Append(rawSent, x)
    BY <2>1, <2>3 DEF ToTarget!Next, ToTarget!Put, Byte
  <2>4. CASE rawSent' = rawSent /\ \E q \in Seq(Byte) : q # <<>> /\ tgtGot' = tgtGot \o q
    <3>1. PICK q \in Seq(Byte) : q # <<>> /\ tgtGot' = tgtGot \o q
      BY <2>4
    <3>2. ASSUME whole
          PROVE  IsPrefixOf(tgtGot \o q, rawSent)
      <4>1. CASE spc' \in {"tunnel", "done"}
        <5>1. IsPrefixOf(tgtGot' \o up', rawSent')
          BY <2>1, <3>2, <4>1 DEF ChainInv, Asking
        <5>2. IsPrefixOf(tgtGot', rawSent')
          BY <2>1, <5>1, PrefixOfPrefix
        <5> QED
          BY <2>4, <3>1, <5>2
      <4>2. CASE spc' \notin {"tunnel", "done"}
        <5>1. tgtGot' = <<>>
          BY <4>2 DEF ChainInv, RawGets
        <5> QED
          BY <2>1, <2>4, <3>1, <5>1, PrefixOfItself
      <4> QED
        BY <4>1, <4>2
    <3>3. CASE whole
      <4>1. \E k \in Len(tgtGot) + 1 .. Len(rawSent) : tgtGot \o q = SubSeq(rawSent, 1, k)
        BY <2>1, <3>1, <3>2, <3>3, Took
      <4> QED
        BY <2>1, <2>4, <3>1, <3>3, <4>1 DEF ToTarget!Next, ToTarget!Take
    <3>4. CASE ~whole
      BY <2>1, <2>4, <3>4 DEF ToTarget!pipe
    <3> QED
      BY <3>3, <3>4
  <2> QED
    BY <2>1, <2>2, <2>3, <2>4 DEF Passes, ToTarget!pipe
<1> QED
  BY <1>1, <1>2, <1>3, ChainInvariant, PTL
  DEF ChainSpec, EndToEnd, ToRaw!Spec, ToTarget!Spec
=============================================================================
