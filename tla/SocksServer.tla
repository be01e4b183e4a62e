---------------------------- MODULE SocksServer -----------------------------
(***************************************************************************)
(* network/socks.go: one connection of the SOCKS5 server, from Accept to   *)
(* the tunnel.  handleConnection takes each Read for one message: the      *)
(* first is the greeting, the second the request.  It keeps the bytes in   *)
(* one array b and the length of the last Read in n; the array still holds *)
(* the greeting when the request is read over it, and the error of the     *)
(* second Read is not looked at.                                           *)
(***************************************************************************)
EXTENDS ProxyTunnel

CONSTANT
  BufLen  \* len(b): 1024

ASSUME ServerAssumption == BufLen \in Nat /\ BufLen >= 22

VARIABLE
  b  \* the array, indexed from 0

serverVars == <<proxyVars, b>>

IPv4 == 1
Domain == 3
IPv6 == 4

ServerInit ==
  /\ ProxyInit
  /\ b = [i \in 0 .. BufLen - 1 |-> 0]

-----------------------------------------------------------------------------
M_ReadMax == 10
ReadMax == BufLen  \* b[:]

(* The array after a Read of k bytes. *)
Fill(k) == [i \in 0 .. BufLen - 1 |-> IF i < k THEN up[i + 1] ELSE b[i]]

Take(a, i, j) == [x \in 1 .. j - i |-> a[i + x - 1]]  \* a[i:j]

(* The reply with code rpy: the bound address is left at 0.0.0.0:0. *)
Reply(rpy) == <<5, rpy, 0, 1, 0, 0, 0, 0, 0, 0>>

Accept ==
  /\ spc = "accept" /\ srvOpen
  /\ spc' = "greeting"
  /\ UNCHANGED <<wireVars, b, dialed, tgtSent, tgtGot>>

ReadGreeting ==
  /\ spc = "greeting"
  /\ \E k \in Pieces(up, ReadMax) :
       /\ b' = Fill(k)
       /\ IF b'[0] # 5
            THEN /\ CloseSrv(<<>>, Drop(up, k))
                 /\ spc' = "closed"
            ELSE /\ up' = Drop(up, k)
                 /\ down' = Sent(down, <<5, 0>>, cliOpen)
                 /\ spc' = "request"
                 /\ UNCHANGED srvOpen
  /\ UNCHANGED <<cliOpen, link, dialed, tgtSent, tgtGot>>

M_GreetingErrNoClose ==
  /\ spc = "greeting"
  /\ UpFails
  /\ spc' = "closed"
  /\ UNCHANGED <<wireVars, b, dialed, tgtSent, tgtGot>>

GreetingErr ==
  /\ spc = "greeting"
  /\ UpFails
  /\ CloseSrv(<<>>, <<>>)
  /\ spc' = "closed"
  /\ UNCHANGED <<cliOpen, link, b, dialed, tgtSent, tgtGot>>

-----------------------------------------------------------------------------
(* The request, in the array a after a Read of k bytes.                    *)

(* replyAndClose *)
Refuse(rpy, rest) ==
  /\ CloseSrv(Reply(rpy), rest)
  /\ spc' = "closed"
  /\ UNCHANGED dialed

(* The port is in the last two bytes read. *)
Port(a, k) == 256 * a[k - 2] + a[k - 1]

(* host and port: a name ends where the port begins, whatever b[4] says. *)
Address(a, k) ==
  [atyp |-> a[3],
   host |-> CASE a[3] = IPv4 -> Take(a, 4, 8)
              [] a[3] = Domain -> Take(a, 5, k - 2)
              [] a[3] = IPv6 -> Take(a, 4, 20),
   port |-> Port(a, k)]

(* The array is indexed below 0, or sliced backwards: the program dies. *)
Panics(a, k) == k < 2 \/ (a[3] = Domain /\ k < 7)

StartDial(a, k) ==
  /\ ~Panics(a, k)
  /\ dialed' = Address(a, k)
  /\ up' = Drop(up, k)
  /\ spc' = "dialing"
  /\ UNCHANGED <<down, srvOpen>>

Die(k) ==
  /\ CloseSrv(<<>>, Drop(up, k))
  /\ spc' = "panic"
  /\ UNCHANGED dialed

Atyps == {IPv4, Domain, IPv6}

M_AnyCommand(a, k) ==
  \/ a[3] \notin Atyps /\ Refuse(8, Drop(up, k))
  \/ a[3] \in Atyps /\ Panics(a, k) /\ Die(k)
  \/ a[3] \in Atyps /\ StartDial(a, k)

Judge(a, k) ==
  \/ a[1] # 1 /\ Refuse(7, Drop(up, k))
  \/ a[1] = 1 /\ a[3] \notin Atyps /\ Refuse(8, Drop(up, k))
  \/ a[1] = 1 /\ a[3] \in Atyps /\ Panics(a, k) /\ Die(k)
  \/ a[1] = 1 /\ a[3] \in Atyps /\ StartDial(a, k)

ReadRequest ==
  /\ spc = "request"
  /\ \/ \E k \in Pieces(up, ReadMax) : b' = Fill(k) /\ Judge(b', k)
     \/ UpFails /\ UNCHANGED b /\ Judge(b, 0)
  /\ UNCHANGED <<cliOpen, link, tgtSent, tgtGot>>

(* Dial fails, or its timeout of 5 s has passed. *)
DialFails ==
  /\ spc = "dialing"
  /\ Refuse(5, up)
  /\ UNCHANGED <<cliOpen, link, b, tgtSent, tgtGot>>

M_DialOkNoReply ==
  /\ spc = "dialing"
  /\ spc' = "tunnel"
  /\ UNCHANGED <<wireVars, b, dialed, tgtSent, tgtGot>>

DialOk ==
  /\ spc = "dialing"
  /\ down' = Sent(down, Reply(0), cliOpen)
  /\ spc' = "tunnel"
  /\ UNCHANGED <<up, cliOpen, srvOpen, link, b, dialed, tgtSent, tgtGot>>

-----------------------------------------------------------------------------
(* What the Go program does; the dial is over after its timeout.           *)
Server ==
  \/ Accept
  \/ ReadGreeting \/ GreetingErr
  \/ ReadRequest
  \/ DialOk \/ DialFails
  \/ Relay /\ UNCHANGED b

ServerOK ==
  /\ spc \in {"accept", "greeting", "request", "dialing", "tunnel",
              "closed", "done", "panic"}
  /\ b \in [0 .. BufLen - 1 -> Byte]
  /\ dialed = NoDial \/
       dialed \in [atyp : Atyps, host : Seq(Byte), port : PortNumber]
  /\ tgtSent \in Seq(Byte) /\ tgtGot \in Seq(Byte)

=============================================================================
