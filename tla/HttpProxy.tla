----------------------------- MODULE HttpProxy ------------------------------
(***************************************************************************)
(* network/httpproxy.go: one connection of the HTTP proxy, from Accept to  *)
(* the tunnel.  handleClientRequest takes what the first Read returns for  *)
(* the head of the request: it finds the first newline in it, parses the   *)
(* line before it, dials, and either answers a CONNECT or passes on what   *)
(* it has read; the tunnel takes care of everything after that.            *)
(*                                                                         *)
(* A request line is abstracted to a byte for the method, one for the URL  *)
(* and the newline; Url says what net/url makes of the second.             *)
(***************************************************************************)
EXTENDS ProxyTunnel

CONSTANTS
  HeadMax,   \* len(b): 1024
  NoMethod,  \* what Sscanf leaves in method and host of a line too short
  CONNECT,   \* the method
  NoPort,    \* a URL without a port
  Url        \* for a byte: whether it parses as a URL, host, port, and
             \* whether the host is written with colons (an IPv6 address)

ASSUME HttpAssumption ==
  /\ HeadMax \in Nat \ {0}
  /\ CONNECT \in Byte /\ NoMethod \in Byte /\ NoMethod # CONNECT
  /\ NoMethod \in DOMAIN Url
  /\ \A u \in DOMAIN Url : DOMAIN Url[u] = {"parses", "host", "port", "colons"}

VARIABLE
  head  \* b[:n]

httpVars == <<proxyVars, head>>

Newline == 10
Established == <<200>>  \* HTTP/1.1 200 Connection established

HttpInit == ProxyInit /\ head = <<>>

-----------------------------------------------------------------------------
(* The first line of what has been read, if it is there. *)
LineEnds(h) == {i \in DOMAIN h : h[i] = Newline}
Line(h) ==
  LET end == CHOOSE i \in LineEnds(h) : \A k \in LineEnds(h) : i <= k
  IN  SubSeq(h, 1, end - 1)

(* Sscanf(line, "%s%s", &method, &host) *)
Word(h, i) == IF Len(Line(h)) < i THEN NoMethod ELSE Line(h)[i]
Method(h) == Word(h, 1)

(* No colon in the host: port 80. *)
HttpAddress(h) ==
  LET u == Url[Word(h, 2)]
  IN  [host |-> u.host,
       port |-> IF u.port = NoPort /\ ~u.colons THEN 80 ELSE u.port]

-----------------------------------------------------------------------------
HttpAccept ==
  /\ spc = "accept" /\ srvOpen
  /\ spc' = "first"
  /\ UNCHANGED <<wireVars, dialed, tgtSent, tgtGot, head>>

M_ReturnsUnclosed ==
  /\ spc = "first"
  /\ UpFails
  /\ spc' = "closed"
  /\ UNCHANGED <<wireVars, dialed, tgtSent, tgtGot, head>>

HttpReadErr ==
  /\ spc = "first"
  /\ UpFails
  /\ CloseSrv(<<>>, <<>>)
  /\ spc' = "closed"
  /\ UNCHANGED <<cliOpen, link, dialed, tgtSent, tgtGot, head>>

(* The slice b[:-1] of a head without a newline: the program dies. *)
NoNewline(k) ==
  /\ LineEnds(head') = {}
  /\ CloseSrv(<<>>, Drop(up, k))
  /\ spc' = "panic"
  /\ UNCHANGED dialed

DoesNotParse(k) ==
  /\ LineEnds(head') # {} /\ ~Url[Word(head', 2)].parses
  /\ CloseSrv(<<>>, Drop(up, k))
  /\ spc' = "closed"
  /\ UNCHANGED dialed

HttpDials(k) ==
  /\ LineEnds(head') # {} /\ Url[Word(head', 2)].parses
  /\ dialed' = HttpAddress(head')
  /\ up' = Drop(up, k)
  /\ spc' = "dialing"
  /\ UNCHANGED <<down, srvOpen>>

ReadHead ==
  /\ spc = "first"
  /\ \E k \in Pieces(up, HeadMax) :
       /\ head' = SubSeq(up, 1, k)
       /\ NoNewline(k) \/ DoesNotParse(k) \/ HttpDials(k)
  /\ UNCHANGED <<cliOpen, link, tgtSent, tgtGot>>

(* Dial fails, sooner or later; the client is told nothing. *)
HttpDialFails ==
  /\ spc = "dialing"
  /\ CloseSrv(<<>>, up)
  /\ spc' = "closed"
  /\ UNCHANGED <<cliOpen, link, dialed, tgtSent, tgtGot, head>>

M_ForwardsAll ==
  /\ tgtGot' = head
  /\ down' = IF Method(head) = CONNECT THEN Sent(down, Established, cliOpen) ELSE down

M_AnswersAll ==
  /\ tgtGot' = IF Method(head) = CONNECT THEN tgtGot ELSE head
  /\ down' = Sent(down, Established, cliOpen)

(* A CONNECT is answered, any other request is passed on. *)
AnswerOrForward ==
  /\ tgtGot' = IF Method(head) = CONNECT THEN tgtGot ELSE head
  /\ down' = IF Method(head) = CONNECT THEN Sent(down, Established, cliOpen) ELSE down

(* There is no address without a port: such a Dial always fails. *)
HttpDialOk ==
  /\ spc = "dialing" /\ dialed.port # NoPort
  /\ AnswerOrForward
  /\ spc' = "tunnel"
  /\ UNCHANGED <<up, cliOpen, srvOpen, link, dialed, tgtSent, head>>

-----------------------------------------------------------------------------
(* What the Go program does; the kernel's connect gives up. *)
HttpServer ==
  \/ HttpAccept
  \/ HttpReadErr \/ ReadHead
  \/ HttpDialOk \/ HttpDialFails
  \/ (Relay /\ UNCHANGED head)

=============================================================================
