---------------------------- MODULE SocksClient -----------------------------
(***************************************************************************)
(* network/raw2socks.go and redir2socks.go: one connection of the programs *)
(* that carry a raw TCP connection p1 over a SOCKS5 server.                *)
(* handleConnection dials the server, sends the greeting, reads at most 2  *)
(* bytes, sends the request, reads at most 10 bytes and insists on all     *)
(* ten, and then tunnels.  raw2socks asks for the domain name of its flag  *)
(* t, redir2socks for the address the connection was redirected from.      *)
(*                                                                         *)
(* When the handshake fails p2, the connection to the server, is not       *)
(* closed: it is left to the garbage collector.                            *)
(***************************************************************************)
EXTENDS TcpWire

CONSTANTS
  Asks,    \* the addresses this session may be for
  RawSays  \* the bytes the raw client has to send

VARIABLES
  asked,    \* the address this session is for
  cpc,      \* where handleConnection is
  rawSent,  \* bytes read from the raw client
  rawGot    \* bytes written to the raw client

socksClientVars == <<asked, cpc, rawSent, rawGot>>

ASSUME SocksClientAssumption ==
  /\ Asks \subseteq [atyp : {1, 3, 4}, host : Seq(Byte), port : PortNumber]
  /\ \A a \in Asks :
       /\ a.atyp = 1 => Len(a.host) = 4
       /\ a.atyp = 4 => Len(a.host) = 16
  /\ RawSays \in Seq(Byte)

ClientInit ==
  /\ asked \in Asks
  /\ cpc = "connect"
  /\ rawSent = <<>> /\ rawGot = <<>>

-----------------------------------------------------------------------------
M_NoLength(a) ==
  <<5, 1, 0, a.atyp>> \o a.host \o <<a.port \div 256, a.port % 256>>
M_NoCast(a) ==
  <<5, 1, 0, a.atyp, Len(a.host)>> \o a.host \o <<a.port \div 256, a.port>>

(* socksReq: raw2socks puts the length before the name, cut to a byte. *)
SocksReq(a) ==
  <<5, 1, 0, a.atyp>>
    \o (IF a.atyp = 3 THEN <<Len(a.host) % 256>> ELSE <<>>)
    \o a.host \o <<a.port \div 256, a.port % 256>>

Connect ==
  /\ cpc = "connect"
  /\ cliOpen' = TRUE /\ srvOpen' = TRUE
  /\ up' = <<5, 1, 0>>
  /\ cpc' = "method"
  /\ UNCHANGED <<down, link, asked, rawSent, rawGot>>

ConnectFails ==
  /\ cpc = "connect"
  /\ cpc' = "done"
  /\ UNCHANGED <<wireVars, asked, rawSent, rawGot>>

ReadMethod ==
  /\ cpc = "method"
  /\ \E k \in Pieces(down, 2) : down' = Drop(down, k)
  /\ up' = Sent(up, SocksReq(asked), srvOpen)
  /\ cpc' = "reply"
  /\ UNCHANGED <<cliOpen, srvOpen, link, asked, rawSent, rawGot>>

M_ReplyMax == 9
ReplyMax == 10  \* b[:10]
M_ReplyMin == 2
ReplyMin == 10  \* n < 10

M_ReadReplyAnyCode ==
  /\ cpc = "reply"
  /\ \E k \in Pieces(down, ReplyMax) :
       /\ down' = Drop(down, k)
       /\ cpc' = IF k >= ReplyMin THEN "tunnel" ELSE "failed"
  /\ UNCHANGED <<up, cliOpen, srvOpen, link, asked, rawSent, rawGot>>

(* A whole reply with b[1] = 0: the tunnel; the return otherwise. *)
ReadReply ==
  /\ cpc = "reply"
  /\ \E k \in Pieces(down, ReplyMax) :
       /\ down' = Drop(down, k)
       /\ cpc' = IF k >= ReplyMin /\ down[2] = 0 THEN "tunnel" ELSE "failed"
  /\ UNCHANGED <<up, cliOpen, srvOpen, link, asked, rawSent, rawGot>>

ReadErr ==
  /\ cpc \in {"method", "reply"}
  /\ DownFails
  /\ cpc' = "failed"
  /\ UNCHANGED <<wireVars, asked, rawSent, rawGot>>

(* The finalizer of the abandoned p2 closes it. *)
Finalize ==
  /\ cpc = "failed" /\ cliOpen
  /\ CloseCli
  /\ UNCHANGED <<srvOpen, link, socksClientVars>>

-----------------------------------------------------------------------------
(* The tunnel.                                                             *)

RelayToServer ==
  /\ cpc = "tunnel" /\ Len(rawSent) < Len(RawSays)
  /\ LET x == RawSays[Len(rawSent) + 1]
     IN  /\ rawSent' = Append(rawSent, x)
         /\ up' = Sent(up, <<x>>, srvOpen)
  /\ UNCHANGED <<down, cliOpen, srvOpen, link, asked, cpc, rawGot>>

RelayToRaw ==
  /\ cpc = "tunnel" /\ down # <<>>
  /\ \E k \in 1 .. Len(down) :
       /\ rawGot' = rawGot \o SubSeq(down, 1, k)
       /\ down' = Drop(down, k)
  /\ UNCHANGED <<up, cliOpen, srvOpen, link, asked, cpc, rawSent>>

CloseBoth ==
  /\ cpc = "tunnel"
  /\ CloseCli
  /\ cpc' = "done"
  /\ UNCHANGED <<srvOpen, link, asked, rawSent, rawGot>>

(* The server has closed its end, or the connection is lost. *)
ClientTunnelEnds == DownFails /\ CloseBoth

(* The raw client has closed its connection. *)
RawEnds == CloseBoth

-----------------------------------------------------------------------------
(* What the Go program does by itself. *)
Client ==
  \/ Connect \/ ConnectFails
  \/ ReadMethod \/ ReadReply \/ ReadErr
  \/ RelayToRaw \/ ClientTunnelEnds

Raw == RelayToServer \/ RawEnds

ClientOK ==
  /\ asked \in Asks
  /\ cpc \in {"connect", "method", "reply", "tunnel", "failed", "done"}
  /\ rawSent \in Seq(Byte) /\ rawGot \in Seq(Byte)

=============================================================================
