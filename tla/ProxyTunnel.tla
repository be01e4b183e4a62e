---------------------------- MODULE ProxyTunnel -----------------------------
(***************************************************************************)
(* What one connection of socks.go and of httpproxy.go have in common: the *)
(* goroutine that handles it, the address it dials, the target it reaches, *)
(* and the tunnel it ends in.  Both programs hold the same handleClient    *)
(* (socks.go:93-119, httpproxy.go:92-118), modelled here by what module    *)
(* Tunnel promises of it.                                                  *)
(***************************************************************************)
EXTENDS TcpWire

CONSTANTS
  TargetSays,  \* the bytes the target of the connection has to send
  NoDial       \* nothing has been dialled

ASSUME TargetAssumption == TargetSays \in Seq(Byte)

VARIABLES
  spc,      \* where the goroutine is
  dialed,   \* the address given to Dial
  tgtSent,  \* bytes read from the target
  tgtGot    \* bytes written to the target

proxyVars == <<spc, dialed, tgtSent, tgtGot>>

ProxyInit ==
  /\ spc = "accept"
  /\ dialed = NoDial
  /\ tgtSent = <<>> /\ tgtGot = <<>>

-----------------------------------------------------------------------------
(* Write blocks for as long as the target does not read: that this step    *)
(* comes is up to the target.  The copier does not read meanwhile, and so  *)
(* learns neither of a FIN nor of a connection that is lost.               *)
RelayToTarget ==
  /\ spc = "tunnel" /\ up # <<>>
  /\ \E k \in 1 .. Len(up) :
       /\ tgtGot' = tgtGot \o SubSeq(up, 1, k)
       /\ up' = Drop(up, k)
  /\ UNCHANGED <<down, cliOpen, srvOpen, link, spc, dialed, tgtSent>>

RelayToClient ==
  /\ spc = "tunnel" /\ Len(tgtSent) < Len(TargetSays)
  /\ LET x == TargetSays[Len(tgtSent) + 1]
     IN  /\ tgtSent' = Append(tgtSent, x)
         /\ down' = Sent(down, <<x>>, cliOpen)
  /\ UNCHANGED <<up, cliOpen, srvOpen, link, spc, dialed, tgtGot>>

CloseTunnel ==
  /\ spc = "tunnel"
  /\ CloseSrv(<<>>, up)
  /\ spc' = "done"
  /\ UNCHANGED <<cliOpen, link, dialed, tgtSent, tgtGot>>

(* The client has closed its end, or the connection is lost, and the       *)
(* copier is back at its Read to be told so.                               *)
ServerTunnelEnds == UpFails /\ CloseTunnel

(* The target has closed its connection. *)
TargetEnds == CloseTunnel

-----------------------------------------------------------------------------
(* What the two copiers and handleClient do, if the target reads. *)
Relay == RelayToTarget \/ ServerTunnelEnds

(* What the target does. *)
Target == RelayToClient \/ TargetEnds

=============================================================================
