-------------------------------- MODULE Echo --------------------------------
(***************************************************************************)
(* network/echo.go: one connection of the echo server.  cp is the relay of *)
(* the other programs, called with the same connection on both sides: two  *)
(* goroutines, each of which reads from the connection and writes what it  *)
(* has read back to it.  (The pool of buffers is that of module Tunnel.)   *)
(***************************************************************************)
EXTENDS TcpWire

CONSTANT
  EchoMax  \* len(buf): 4096

ASSUME EchoAssumption == EchoMax \in Nat \ {0}

Copiers == {"p1die", "p2die"}

VARIABLES
  handler,  \* where echoConn is
  epc,      \* where each copier is
  chunk     \* what it has read and not yet written

echoVars == <<handler, epc, chunk>>

EchoInit ==
  /\ handler = "accept"
  /\ epc = [c \in Copiers |-> "read"]
  /\ chunk = [c \in Copiers |-> <<>>]

-----------------------------------------------------------------------------
EchoAccept ==
  /\ handler = "accept" /\ srvOpen
  /\ handler' = "select"
  /\ UNCHANGED <<wireVars, epc, chunk>>

Copies(c, at) == handler # "accept" /\ epc[c] = at

EchoRead(c) ==
  /\ Copies(c, "read") /\ srvOpen
  /\ \E k \in Pieces(up, EchoMax) :
       /\ chunk' = [chunk EXCEPT ![c] = SubSeq(up, 1, k)]
       /\ up' = Drop(up, k)
  /\ epc' = [epc EXCEPT ![c] = "write"]
  /\ UNCHANGED <<down, cliOpen, srvOpen, link, handler>>

(* EOF, a broken connection, or one that echoConn has closed. *)
EchoReadEnds(c) ==
  /\ Copies(c, "read")
  /\ UpFails \/ ~srvOpen
  /\ epc' = [epc EXCEPT ![c] = "ended"]
  /\ UNCHANGED <<wireVars, handler, chunk>>

(* Write holds the connection's write lock: the chunk stays together.  It  *)
(* blocks for as long as a client that has not gone does not read.         *)
EchoWrite(c) ==
  /\ Copies(c, "write") /\ srvOpen /\ ~broken
  /\ down' = Sent(down, chunk[c], cliOpen)
  /\ chunk' = [chunk EXCEPT ![c] = <<>>]
  /\ epc' = [epc EXCEPT ![c] = "read"]
  /\ UNCHANGED <<up, cliOpen, srvOpen, link, handler>>

(* The chunk is lost. *)
EchoWriteErr(c) ==
  /\ Copies(c, "write")
  /\ ~srvOpen \/ broken
  /\ epc' = [epc EXCEPT ![c] = "ended"]
  /\ UNCHANGED <<wireVars, handler, chunk>>

M_NoWait == TRUE

(* select on p1die and p2die *)
EchoDead == \E c \in Copiers : epc[c] = "ended"

(* cp returns; the deferred conn.Close() follows. *)
EchoClose ==
  /\ handler = "select"
  /\ EchoDead
  /\ CloseSrv(<<>>, up)
  /\ handler' = "done"
  /\ UNCHANGED <<cliOpen, link, epc, chunk>>

-----------------------------------------------------------------------------
EchoCopy(c) == EchoRead(c) \/ EchoReadEnds(c) \/ EchoWrite(c) \/ EchoWriteErr(c)

(* The connection is up: its client may leave a Write blocked. *)
MayBlock(c) == epc[c] = "write" /\ srvOpen /\ cliOpen /\ ~broken

EchoServer == EchoAccept \/ EchoClose \/ \E c \in Copiers : EchoCopy(c)

=============================================================================
