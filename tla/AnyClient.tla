----------------------------- MODULE AnyClient ------------------------------
(***************************************************************************)
(* The servers of src/network with any client that keeps to their          *)
(* protocols: it connects to the port of socks.go, of httpproxy.go or of   *)
(* echo.go, may offer other methods, ask for other commands or address     *)
(* types, speak another version, shut down its side or leave at any        *)
(* moment.  The client is external.                                        *)
(***************************************************************************)
EXTENDS SocksServer, HttpProxy, Echo, FiniteSets

CONSTANTS
  Greetings,  \* the first messages to socks.go there are
  Requests,   \* what may be requested: command, address type, host, port
  Heads,      \* the heads of requests to httpproxy.go there are
  Says        \* the bytes the client has to send, each once

VARIABLES
  port,               \* which of the servers the client connects to
  greeting, request,  \* what it sends to socks.go
  httpHead,           \* what it sends to httpproxy.go
  apc,                \* how far it is
  said,               \* what it has sent of Says
  answer,             \* what it has read since its request
  patient             \* history: it has waited for every echo

chosen == <<port, greeting, request, httpHead>>
clientVars == <<chosen, apc, said, answer, patient>>
servers == <<serverVars, head, echoVars>>
vars == <<wireVars, servers, clientVars>>

Init ==
  /\ WireInit
  /\ ServerInit /\ HttpInit /\ EchoInit
  /\ port \in {"socks", "http", "echo"}
  /\ greeting \in Greetings /\ request \in Requests
  /\ port # "socks" => greeting = <<5, 1, 0>> /\ request.cmd = 1 /\ request.atyp = 1
  /\ httpHead \in Heads
  /\ port # "http" => httpHead = <<CONNECT, NoMethod, Newline>>
  /\ apc = "start" /\ said = <<>> /\ answer = <<>> /\ patient = TRUE

-----------------------------------------------------------------------------
FirstMessage ==
  CASE port = "socks" -> greeting [] port = "http" -> httpHead [] OTHER -> <<>>

Connects ==
  /\ apc = "start"
  /\ cliOpen' = TRUE /\ srvOpen' = TRUE
  /\ up' = FirstMessage
  /\ apc' = IF port = "socks" THEN "greeted" ELSE "requested"
  /\ UNCHANGED <<down, link, servers, chosen, said, answer, patient>>

(* The request as RFC 1928 has it. *)
Encoded(r) ==
  <<5, r.cmd, 0, r.atyp>>
    \o (IF r.atyp = Domain THEN <<Len(r.host)>> ELSE <<>>)
    \o r.host \o <<r.port \div 256, r.port % 256>>

(* The client has its answer to the greeting, of two bytes. *)
AsksFor ==
  /\ apc = "greeted" /\ Len(down) >= 2 /\ ~fin
  /\ down' = Drop(down, 2)
  /\ up' = Sent(up, Encoded(request), srvOpen)
  /\ apc' = "requested"
  /\ UNCHANGED <<cliOpen, srvOpen, link, servers, chosen, said, answer, patient>>

(* What the protocols allow, and that a message fits the array of the      *)
(* server: the longest greeting there is has 257 bytes, the longest        *)
(* request 262.  A head has a newline somewhere.                           *)
ASSUME ClientAssumption ==
  /\ \A g \in Greetings :
       /\ g \in Seq(Byte) /\ g # <<>>
       /\ g[1] = 5 => Len(g) >= 2 /\ Len(g) = 2 + g[2] /\ Len(g) <= BufLen
  /\ \A r \in Requests :
       /\ r.cmd \in Byte /\ r.atyp \in Byte /\ r.host \in Seq(Byte)
       /\ r.port \in Nat /\ r.port < 65536
       /\ r.atyp = IPv4 => Len(r.host) = 4
       /\ r.atyp = IPv6 => Len(r.host) = 16
       /\ r.atyp = Domain => Len(r.host) \in Byte
       /\ Len(Encoded(r)) <= BufLen
  /\ \A h \in Heads : h \in Seq(Byte) /\ \E i \in DOMAIN h : h[i] = Newline
  /\ Says \in Seq(Byte)

IsPrefixOf(p, s) == Len(p) <= Len(s) /\ \A i \in DOMAIN p : p[i] = s[i]

(* A proxy's client speaks when it is through, one that is not in need of  *)
(* a CONNECT and one of echo.go at once.                                   *)
MaySpeak ==
  \/ port = "socks" /\ IsPrefixOf(Reply(0), answer)
  \/ port = "http" /\ (Method(httpHead) = CONNECT => IsPrefixOf(Established, answer))
  \/ port = "echo"

Speaks ==
  /\ apc = "requested" /\ ~fin /\ Len(said) < Len(Says)
  /\ MaySpeak
  /\ LET x == Says[Len(said) + 1]
     IN  /\ said' = Append(said, x)
         /\ up' = Sent(up, <<x>>, srvOpen)
  /\ patient' = (patient /\ answer = said)
  /\ UNCHANGED <<down, cliOpen, srvOpen, link, servers, chosen, apc, answer>>

Listens ==
  /\ apc = "requested" /\ down # <<>>
  /\ answer' = answer \o down
  /\ down' = <<>>
  /\ UNCHANGED <<up, cliOpen, srvOpen, link, servers, chosen, apc, said, patient>>

ShutsDown ==
  /\ cliOpen /\ ~fin /\ ~broken
  /\ fin' = TRUE
  /\ UNCHANGED <<up, down, cliOpen, srvOpen, broken, whole, servers, clientVars>>

Leaves ==
  /\ cliOpen
  /\ CloseCli
  /\ apc' = "left"
  /\ UNCHANGED <<srvOpen, link, servers, chosen, said, answer, patient>>

AnyClientStep == Connects \/ AsksFor \/ Speaks \/ Listens \/ ShutsDown \/ Leaves

(* The goroutines of the program that listens on the port. *)
ServerStep ==
  /\ \/ port = "socks" /\ Server /\ UNCHANGED <<head, echoVars>>
     \/ port = "http" /\ HttpServer /\ UNCHANGED <<b, echoVars>>
     \/ port = "echo" /\ EchoServer /\ UNCHANGED <<serverVars, head>>
  /\ UNCHANGED clientVars

Next ==
  \/ AnyClientStep
  \/ ServerStep
  \/ Target /\ UNCHANGED <<b, head, echoVars, clientVars>>
  \/ WireBreaks /\ UNCHANGED <<servers, clientVars>>

Spec == Init /\ [][Next]_vars

(* The Go scheduler runs every runnable goroutine, and a dial comes to an  *)
(* end; what a proxy writes before its tunnel fits the kernel's buffers.   *)
(* Nothing is assumed of clients, targets and the network, so nothing of a *)
(* tunnel, and nothing of a Write to an echo client that may not read.     *)
FairSpec ==
  /\ Spec
  /\ WF_vars(ServerStep /\ port # "echo" /\ spc # "tunnel")
  /\ WF_vars(ServerStep /\ (EchoAccept \/ EchoClose))
  /\ \A c \in Copiers : WF_vars(ServerStep /\ EchoCopy(c) /\ ~MayBlock(c))

(* The target reads what is written to it, so the proxy's copiers go on. *)
TargetReads == WF_vars(ServerStep /\ Relay)

(* The client of the echo server reads what is written to it. *)
ClientReads == \A c \in Copiers : WF_vars(ServerStep /\ EchoWrite(c))

-----------------------------------------------------------------------------
(* A Read of socks.go may return a part of a message. *)
CutUp == port = "socks" /\ ~whole

(* The reply codes that fit the request. *)
Fitting ==
  CASE request.cmd # 1 -> {7}
    [] request.cmd = 1 /\ request.atyp \notin Atyps -> {8}
    [] OTHER -> {0, 5}

(* What the client may have read when it has read n bytes of the target. *)
FittingAnswers(n) ==
  LET fromTarget == SubSeq(TargetSays, 1, n)
  IN  IF port = "socks"
      THEN {Reply(c) \o (IF c = 0 THEN fromTarget ELSE <<>>) : c \in Fitting}
      ELSE {(IF Method(httpHead) = CONNECT THEN Established ELSE <<>>) \o fromTarget}

(***************************************************************************)
(* A client of a proxy that is answered is answered once, with what fits   *)
(* its request, before anything the target says; and it is told of success *)
(* only when the dial has succeeded.  (A SOCKS message that a Read cuts up *)
(* is judged by its parts.)                                                *)
(***************************************************************************)
AnswersFit ==
  port # "echo" /\ answer # <<>> /\ ~CutUp =>
    /\ \E n \in 0 .. Len(tgtSent) : answer \in FittingAnswers(n)
    /\ IsPrefixOf(Reply(0), answer) \/ port = "http" => spc \in {"tunnel", "done"}

(* The address the client asks for: no port means 80. *)
Wanted ==
  IF port = "socks"
  THEN [atyp |-> request.atyp, host |-> request.host, port |-> request.port]
  ELSE LET u == Url[Word(httpHead, 2)]
       IN  [host |-> u.host, port |-> IF u.port = NoPort THEN 80 ELSE u.port]

(* What is for the target: all of a request that is not a CONNECT. *)
ForTarget ==
  IF port = "http" /\ Method(httpHead) # CONNECT THEN httpHead \o said ELSE said

(* The first line of the head, and all of it, within the first Read. *)
LineFits == \E i \in LineEnds(httpHead) : i <= HeadMax
HeadFits == whole /\ Len(httpHead) <= HeadMax

(***************************************************************************)
(* A target that is reached is the one the client has asked for - never    *)
(* one put together from the greeting that is left in the array of socks.go *)
(* when the client leaves instead of requesting - and it receives what is  *)
(* for it, in order and nothing twice, whether the first Read of the proxy *)
(* took some of it or the tunnel did.  There are two exceptions: a SOCKS   *)
(* message that a Read cuts up (see DialsHoweverCutUp), and a CONNECT that *)
(* one Read does not hold, the rest of whose head goes to the target.      *)
(***************************************************************************)
TargetIsServed ==
  spc \in {"tunnel", "done"} /\ ~CutUp =>
    /\ port = "socks" => request.cmd = 1
    /\ dialed = Wanted
    /\ HeadFits \/ port = "socks" \/ Method(httpHead) # CONNECT
         => IsPrefixOf(tgtGot, ForTarget)

(* What one Read is to hold it holds: a SOCKS message, or the first line. *)
OneReadIsEnough == whole /\ (port = "http" => LineFits)

(***************************************************************************)
(* No client that keeps to the protocol, and none that leaves early, makes *)
(* a proxy index its array out of range and end all its connections, if    *)
(* one Read finds each SOCKS message whole, or all of the HTTP first line. *)
(* In particular not a client that leaves after its greeting: the Read of  *)
(* its request returns 0 (socks.go:58), and the greeting is judged, but    *)
(* never as far as b[n-2].  If a Read cuts a message up they do panic: at  *)
(* socks.go:69 on the first 4 to 6 bytes of a request for a name, at       *)
(* httpproxy.go:61 without a newline.                                      *)
(***************************************************************************)
ServerSurvives == OneReadIsEnough => spc # "panic"

(* The bytes on their way back, or back. *)
Echoed == answer \o down

Elements(s) == {s[i] : i \in DOMAIN s}

(***************************************************************************)
(* The echo server returns every byte once or still has it to return; what *)
(* it fails to return to a client that shuts down its side is at most the  *)
(* one chunk that one copier holds when the other reads the end.  The two  *)
(* copiers may change the order, but not for a client that waits for every *)
(* echo.                                                                   *)
(***************************************************************************)
EchoReturns ==
  port = "echo" /\ cliOpen /\ ~broken =>
    /\ srvOpen =>
         /\ Elements(said) =
              Elements(Echoed) \cup Elements(up) \cup
              UNION {Elements(chunk[c]) : c \in Copiers}
         /\ Len(said) =
              Len(Echoed) + Len(up) + Len(chunk["p1die"]) + Len(chunk["p2die"])
    /\ handler = "done" =>
         fin /\ \E c \in Copiers : Elements(said) = Elements(Echoed) \cup Elements(chunk[c])
    /\ patient => IsPrefixOf(Echoed, said)

(***************************************************************************)
(* Whatever a server is doing for a client - reading, dialling, relaying,  *)
(* echoing - it closes the connection when the client has shut down its    *)
(* side, has left or is lost: nothing is kept for a client that has gone.  *)
(* But a tunnel goes on for as long as a target that does not read holds   *)
(* the copier up that would notice (socks.go:109, httpproxy.go:108), and   *)
(* the echo of a client that has only shut down its side as long as that   *)
(* client does not read (echo.go:65, 73).                                  *)
(***************************************************************************)
LeavingReleases ==
  TargetReads =>
    /\ apc = "left" \/ broken ~> ~srvOpen
    /\ ClientReads => (fin ~> ~srvOpen)

=============================================================================
