----------------------------- MODULE SocksChain -----------------------------
(***************************************************************************)
(* The two ends of this repository put together: raw2socks or redir2socks  *)
(* as the client of socks.go.                                              *)
(*                                                                         *)
(*   raw client - SocksClient - TcpWire - SocksServer - target           *)
(***************************************************************************)
EXTENDS SocksClient, SocksServer

(* A request fits the array of the server: a name has at most 255 bytes,  *)
(* its request 262, the array 1024.                                        *)
ASSUME ChainAssumption == \A a \in Asks : Len(SocksReq(a)) <= BufLen

chainVars == <<wireVars, socksClientVars, serverVars>>

ChainInit == WireInit /\ ClientInit /\ ServerInit

ClientSide == (Client \/ Raw \/ Finalize) /\ UNCHANGED serverVars
ServerSide == (Server \/ (Target /\ UNCHANGED b)) /\ UNCHANGED socksClientVars
WireSide == WireBreaks /\ UNCHANGED <<socksClientVars, serverVars>>

ChainNext == ClientSide \/ ServerSide \/ WireSide

ChainSpec == ChainInit /\ [][ChainNext]_chainVars

(* The Go scheduler runs every runnable goroutine, a dial has a timeout,   *)
(* and the runtime collects what is unreachable.  The few bytes that are   *)
(* written before the tunnel fit the kernel's buffers; in the tunnel a     *)
(* Write waits for the raw client or the target to read.  Nothing is       *)
(* assumed of these two and of the network.                                *)
FairChainSpec ==
  /\ ChainSpec
  /\ WF_chainVars(Client /\ cpc # "tunnel" /\ UNCHANGED serverVars)
  /\ WF_chainVars(Server /\ spc # "tunnel" /\ UNCHANGED socksClientVars)
  /\ WF_chainVars(Finalize /\ UNCHANGED serverVars)

(* The target reads what is written to it, so the server's copiers go on. *)
TargetTakes == WF_chainVars(Relay /\ UNCHANGED <<b, socksClientVars>>)

-----------------------------------------------------------------------------
TypeOK == WireOK /\ ClientOK /\ ServerOK

DialsWhatWasAsked == whole /\ dialed # NoDial => dialed = asked

(***************************************************************************)
(* The server dials that address however the request was cut up on its     *)
(* way: "raw tcp client ---> socks5 proxy ---> raw tcp server".            *)
(***************************************************************************)
DialsHoweverCutUp == dialed # NoDial => dialed = asked

TunnelsOnlyIfGranted == cpc = "tunnel" => spc \in {"tunnel", "done"}

(***************************************************************************)
(* Both ends mean the same connection.  If messages arrive whole, the      *)
(* server dials the address the client was asked to reach, for every type  *)
(* of address, although it goes by the length of its last Read instead of  *)
(* the length in the request; and the client tunnels only when the         *)
(* server's dial has succeeded, however the replies were cut up.           *)
(***************************************************************************)
HandshakeAgrees == DialsWhatWasAsked /\ TunnelsOnlyIfGranted

(* End to end each direction is a pipe. *)
ToTarget == INSTANCE BytePipe WITH
              sent <- rawSent, got <- IF whole THEN tgtGot ELSE <<>>
ToRaw == INSTANCE BytePipe WITH sent <- tgtSent, got <- rawGot

(***************************************************************************)
(* The raw client receives a prefix of what the target sends and nothing   *)
(* else, however the replies were cut up: the client begins its tunnel     *)
(* right behind the last byte of the server's handshake or not at all.  If *)
(* messages arrive whole, the target receives a prefix of what the raw     *)
(* client sends: the server has consumed all of the request, and nothing   *)
(* but the request, when it begins its tunnel.                             *)
(***************************************************************************)
EndToEnd == ToRaw!Spec /\ ToTarget!Spec

HandshakeResolves == <>(cpc \notin {"connect", "method", "reply"})
SessionReleased == cpc \in {"failed", "done"} ~> ~cliOpen /\ ~srvOpen

GrantIsUsed == whole /\ spc = "tunnel" ~> cpc \in {"tunnel", "done"} \/ broken

(***************************************************************************)
(* The client's part of the handshake ends: no misread message leaves both *)
(* ends waiting for each other.  If messages arrive whole, it ends in the  *)
(* use of the connection that the server has made to the target, unless    *)
(* theirs breaks.  When the client is through with a session, both ends of *)
(* the connection get closed, also when it gave up and merely dropped p2 - *)
(* if the target reads: a copier of the server that is stuck in its Write  *)
(* to the target (socks.go:109) would keep both connections.               *)
(***************************************************************************)
SessionEnds == HandshakeResolves /\ GrantIsUsed /\ (TargetTakes => SessionReleased)

=============================================================================
