------------------------------ MODULE TcpWire -------------------------------
(***************************************************************************)
(* The TCP connection between a server of this repository and its client,  *)
(* as their Read, Write and Close calls see it.  It is external code: the  *)
(* kernel's.  TCP keeps no message boundaries: a Read returns any part of  *)
(* what has been sent, though mostly it finds all of it.                   *)
(***************************************************************************)
EXTENDS Integers, Sequences

VARIABLES
  up,       \* bytes the client has written and the server has not read
  down,     \* bytes the server has written and the client has not read
  fin,      \* the client has shut down its sending side
  cliOpen,  \* the client's end is open
  srvOpen,  \* the server's end is open
  broken,   \* the connection has been reset or lost
  whole     \* each Read on it finds all that has been sent so far

wireVars == <<up, down, fin, cliOpen, srvOpen, broken, whole>>
link == <<fin, broken, whole>>  \* what none of the programs changes

Byte == 0 .. 255
MaxPort == 65535
PortNumber == 0 .. MaxPort

WireInit ==
  /\ up = <<>> /\ down = <<>>
  /\ fin = FALSE /\ cliOpen = FALSE /\ srvOpen = FALSE
  /\ broken = FALSE
  /\ whole \in BOOLEAN

(* How many bytes Read(buf) may return, max being len(buf). *)
Pieces(q, max) ==
  LET most == IF Len(q) < max THEN Len(q) ELSE max
  IN  IF whole THEN {most} \ {0} ELSE 1 .. most

Drop(q, k) == SubSeq(q, k + 1, Len(q))

(* What Write(m) leaves on its way to an end that is, or is not, open. *)
Sent(q, m, open) == IF open /\ ~broken THEN q \o m ELSE q

(* Read returns 0 and an error: EOF, or the connection is broken. *)
UpFails == broken \/ (up = <<>> /\ (fin \/ ~cliOpen))
DownFails == broken \/ (down = <<>> /\ ~srvOpen)

(* Close with bytes unread makes the kernel send a reset, which may destroy *)
(* what the other end has not read.                                         *)
AfterClose(q, unread) == {q} \cup IF unread = <<>> THEN {} ELSE {<<>>}

(* The client closes its end. *)
CloseCli ==
  /\ cliOpen' = FALSE
  /\ down' = <<>>
  /\ up' \in AfterClose(up, down)

(* The server closes its end, having written m, with rest not read. *)
CloseSrv(m, rest) ==
  /\ srvOpen' = FALSE
  /\ up' = <<>>
  /\ down' \in AfterClose(Sent(down, m, cliOpen), rest)

(* A reset from the network, or the loss of either host. *)
WireBreaks ==
  /\ cliOpen \/ srvOpen
  /\ ~broken
  /\ broken' = TRUE
  /\ up' = <<>> /\ down' = <<>>
  /\ UNCHANGED <<fin, cliOpen, srvOpen, whole>>

WireOK ==
  /\ up \in Seq(Byte) /\ down \in Seq(Byte)
  /\ fin \in BOOLEAN /\ cliOpen \in BOOLEAN /\ srvOpen \in BOOLEAN
  /\ broken \in BOOLEAN /\ whole \in BOOLEAN

=============================================================================
