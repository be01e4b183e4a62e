------------------------------- MODULE Tunnel -------------------------------
(***************************************************************************)
(* The bidirectional relay every proxy of src/network is built on: cp, or  *)
(* handleClient, called with the two connections p1 (the client's) and p2  *)
(* (the server's).  It is the same code in jmp.go, socks.go, raw2socks.go, *)
(* redir2socks.go and httpproxy.go; the lines mapped are those of          *)
(* socks.go.                                                               *)
(*                                                                         *)
(* Two goroutines copy, one per direction; each takes a buffer from the    *)
(* shared pool, runs io.CopyBuffer until EOF or an error, closes its "die" *)
(* channel and returns the buffer.  The handler waits for either channel   *)
(* and then closes p2 and p1.  A goroutine is named by the channel it      *)
(* closes.                                                                 *)
(*                                                                         *)
(* The peers, the kernel's socket queues and io.CopyBuffer are external:   *)
(* they are modelled from how the code relies on them.                     *)
(***************************************************************************)
EXTENDS Integers, Sequences

CONSTANTS
  P1, P2,    \* the two connections handed to handleClient
  Stream,    \* the bytes the peer of each connection has to send
  MaxChunk,  \* len(buf): the most one Read returns
  WireCap,   \* what the kernel accepts before a Write blocks
  Bufs,      \* the buffers there can be
  NoBuf      \* no buffer held

Ends == {P1, P2}
Copiers == {"p1die", "p2die"}
Byte == 0 .. 255

ASSUME TunnelAssumption ==
  /\ P1 # P2
  /\ Stream \in [Ends -> Seq(Byte)]
  /\ MaxChunk \in Nat \ {0}
  /\ WireCap \in Nat \ {0}
  /\ NoBuf \notin Bufs

VARIABLES
  \* the peer of each connection
  sent,     \* bytes it has written so far
  got,      \* bytes it has received
  fin,      \* it has shut down its sending side
  \* the connection itself
  open,     \* the proxy has not closed it
  rst,      \* it is broken: reset by the peer, or by closing it unread
  rcv,      \* bytes on their way to the proxy or in its receive queue
  wire,     \* bytes written by the proxy that the peer has not received
  \* the copying goroutines
  pc,       \* where each is
  chunk,    \* bytes read and not yet written
  held,     \* the buffer it holds
  result,   \* how its CopyBuffer ended
  \* the handler and the pool
  handler,  \* where handleClient is
  pool      \* copyBuf: buffers nobody uses

peerVars == <<sent, got, fin>>
sockVars == <<open, rst, rcv, wire>>
copyVars == <<pc, chunk, held, result>>
vars == <<sent, got, fin, open, rst, rcv, wire, pc, chunk, held, result,
          handler, pool>>

-----------------------------------------------------------------------------
(* Goroutine p1die runs CopyBuffer(p1, p2, buf), goroutine p2die runs      *)
(* CopyBuffer(p2, p1, buf): destination first, then source.                *)

M_BothReadP2(c) == P2

Src(c) == IF c = "p1die" THEN P2 ELSE P1
Dst(c) == IF c = "p1die" THEN P1 ELSE P2

(* The channel the goroutine closes when its copy ends. *)
Died(c) == pc[c] \in {"put", "done"}

-----------------------------------------------------------------------------
Init ==
  /\ sent = [s \in Ends |-> <<>>]
  /\ got = [s \in Ends |-> <<>>]
  /\ fin = [s \in Ends |-> FALSE]
  /\ open = [s \in Ends |-> TRUE]
  /\ rst = [s \in Ends |-> FALSE]
  /\ rcv = [s \in Ends |-> <<>>]
  /\ wire = [s \in Ends |-> <<>>]
  /\ pc = [c \in Copiers |-> "get"]
  /\ chunk = [c \in Copiers |-> <<>>]
  /\ held = [c \in Copiers |-> NoBuf]
  /\ result = [c \in Copiers |-> "none"]
  /\ handler = "select"
  /\ pool \in SUBSET Bufs

-----------------------------------------------------------------------------
(* The peers and the network.                                              *)

(* The peer of s writes its next byte; the kernel answers data for a       *)
(* closed connection with a reset.                                         *)
PeerSend(s) ==
  /\ ~fin[s] /\ ~rst[s]
  /\ Len(sent[s]) < Len(Stream[s])
  /\ LET b == Stream[s][Len(sent[s]) + 1]
     IN  /\ sent' = [sent EXCEPT ![s] = Append(@, b)]
         /\ rcv' = [rcv EXCEPT ![s] = Append(@, b)]
  /\ rst' = [rst EXCEPT ![s] = ~open[s]]
  /\ UNCHANGED <<got, fin, open, wire, copyVars, handler, pool>>

(* The peer of s will send no more; it can still receive. *)
PeerFin(s) ==
  /\ ~fin[s] /\ ~rst[s]
  /\ fin' = [fin EXCEPT ![s] = TRUE]
  /\ UNCHANGED <<sent, got, sockVars, copyVars, handler, pool>>

(* The peer of s resets the connection, or is lost. *)
PeerReset(s) ==
  /\ open[s] /\ ~rst[s]
  /\ rst' = [rst EXCEPT ![s] = TRUE]
  /\ UNCHANGED <<peerVars, open, rcv, wire, copyVars, handler, pool>>

(* The peer of s receives what is on the wire; a reset destroys it. *)
PeerRecv(s) ==
  /\ ~rst[s]
  /\ wire[s] # <<>>
  /\ got' = [got EXCEPT ![s] = @ \o wire[s]]
  /\ wire' = [wire EXCEPT ![s] = <<>>]
  /\ UNCHANGED <<sent, fin, open, rst, rcv, copyVars, handler, pool>>

-----------------------------------------------------------------------------
(* The copying goroutines.                                                 *)

M_SharedBuf(c) == \E b \in Bufs : held' = [held EXCEPT ![c] = b]
M_PoolWithoutNew(c) ==
  \E b \in IF pool = {} THEN {NoBuf} ELSE pool : held' = [held EXCEPT ![c] = b]

(* sync.Pool's Get: a pooled buffer, or one that New has just made. *)
TakeBuf(c) ==
  \E b \in {x \in Bufs : \A o \in Copiers : held[o] # x} :
    held' = [held EXCEPT ![c] = b]

GetBuf(c) ==
  /\ pc[c] = "get"
  /\ TakeBuf(c)
  /\ pool' = pool \ {held'[c]}
  /\ pc' = [pc EXCEPT ![c] = "read"]
  /\ UNCHANGED <<peerVars, sockVars, chunk, result, handler>>

(* Read returns some of the bytes that have arrived. *)
CopyRead(c) ==
  /\ pc[c] = "read"
  /\ open[Src(c)]
  /\ \E n \in 1 .. Len(rcv[Src(c)]) :
       /\ n <= MaxChunk
       /\ chunk' = [chunk EXCEPT ![c] = SubSeq(rcv[Src(c)], 1, n)]
       /\ rcv' = [rcv EXCEPT ![Src(c)] = SubSeq(@, n + 1, Len(@))]
  /\ pc' = [pc EXCEPT ![c] = "write"]
  /\ UNCHANGED <<peerVars, open, rst, wire, held, result, handler, pool>>

(* The copy has returned with r: the goroutine closes its channel. *)
CopyEnds(c, r) ==
  /\ result' = [result EXCEPT ![c] = r]
  /\ pc' = [pc EXCEPT ![c] = "put"]
  /\ UNCHANGED <<peerVars, sockVars, chunk, held, handler, pool>>

M_EofUnread(c) ==
  /\ pc[c] = "read"
  /\ open[Src(c)] /\ fin[Src(c)]
  /\ CopyEnds(c, "eof")

(* Everything the peer sent has been read and it has shut down. *)
CopyEof(c) ==
  /\ pc[c] = "read"
  /\ open[Src(c)] /\ fin[Src(c)]
  /\ rcv[Src(c)] = <<>>
  /\ CopyEnds(c, "eof")

(* Read fails: the connection is broken, or the handler has closed it. *)
CopyReadErr(c) ==
  /\ pc[c] = "read"
  /\ ~open[Src(c)] \/ rst[Src(c)]
  /\ CopyEnds(c, "err")

M_WriteAgain(c, n) == chunk[c]

(* Write goes on with what the kernel did not accept. *)
Rest(c, n) == SubSeq(chunk[c], n + 1, Len(chunk[c]))

(* The kernel accepts some of the chunk; Write returns when it has it all. *)
CopyWrite(c) ==
  /\ pc[c] = "write"
  /\ open[Dst(c)] /\ ~rst[Dst(c)]
  /\ \E n \in 1 .. Len(chunk[c]) :
       /\ Len(wire[Dst(c)]) + n <= WireCap
       /\ wire' = [wire EXCEPT ![Dst(c)] = @ \o SubSeq(chunk[c], 1, n)]
       /\ chunk' = [chunk EXCEPT ![c] = Rest(c, n)]
       /\ pc' = [pc EXCEPT ![c] = IF n = Len(chunk[c]) THEN "read" ELSE @]
  /\ UNCHANGED <<peerVars, open, rst, rcv, held, result, handler, pool>>

(* Write fails, now or after a part: the rest of the chunk is lost. *)
CopyWriteErr(c) ==
  /\ pc[c] = "write"
  /\ ~open[Dst(c)] \/ rst[Dst(c)]
  /\ CopyEnds(c, "err")

(* copyBuf.Put(buf), and the goroutine ends. *)
PutBuf(c) ==
  /\ pc[c] = "put"
  /\ pool' = pool \cup {held[c]}
  /\ held' = [held EXCEPT ![c] = NoBuf]
  /\ pc' = [pc EXCEPT ![c] = "done"]
  /\ UNCHANGED <<peerVars, sockVars, chunk, result, handler>>

-----------------------------------------------------------------------------
(* The handler.                                                            *)

M_NoWait == TRUE
M_WaitBoth == \A c \in Copiers : Died(c)

TunnelDead == \E c \in Copiers : Died(c)

(* select on the two channels; the deferred calls follow. *)
Select ==
  /\ handler = "select"
  /\ TunnelDead
  /\ handler' = "closeP2"
  /\ UNCHANGED <<peerVars, sockVars, copyVars, pool>>

(* Close: with data unread the kernel sends a reset instead of a FIN. *)
CloseConn(s) ==
  /\ open' = [open EXCEPT ![s] = FALSE]
  /\ rst' = [rst EXCEPT ![s] = @ \/ (open[s] /\ rcv[s] # <<>>)]

CloseP2 ==
  /\ handler = "closeP2"
  /\ CloseConn(P2)
  /\ handler' = "closeP1"
  /\ UNCHANGED <<peerVars, rcv, wire, copyVars, pool>>

M_NoCloseP1 ==
  /\ handler = "closeP1"
  /\ handler' = "done"
  /\ UNCHANGED <<peerVars, sockVars, copyVars, pool>>

CloseP1 ==
  /\ handler = "closeP1"
  /\ CloseConn(P1)
  /\ handler' = "done"
  /\ UNCHANGED <<peerVars, rcv, wire, copyVars, pool>>

-----------------------------------------------------------------------------
Peer(s) == PeerSend(s) \/ PeerFin(s) \/ PeerReset(s) \/ PeerRecv(s)

Copy(c) ==
  \/ GetBuf(c)
  \/ CopyRead(c) \/ CopyEof(c) \/ CopyReadErr(c)
  \/ CopyWrite(c) \/ CopyWriteErr(c)
  \/ PutBuf(c)

HandleClient == Select \/ CloseP2 \/ CloseP1

Next ==
  \/ \E s \in Ends : Peer(s)
  \/ \E c \in Copiers : Copy(c)
  \/ HandleClient

Spec == Init /\ [][Next]_vars

(* The Go scheduler runs every runnable goroutine; nothing is assumed of   *)
(* the peers.                                                              *)
GoFairness ==
  /\ \A c \in Copiers : WF_vars(Copy(c))
  /\ WF_vars(HandleClient)

FairSpec == Spec /\ GoFairness

(* What some properties assume in addition: peers read what reaches them. *)
PeersRead == \A s \in Ends : WF_vars(PeerRecv(s))

-----------------------------------------------------------------------------
TypeOK ==
  /\ sent \in [Ends -> Seq(Byte)]
  /\ got \in [Ends -> Seq(Byte)]
  /\ fin \in [Ends -> BOOLEAN]
  /\ open \in [Ends -> BOOLEAN]
  /\ rst \in [Ends -> BOOLEAN]
  /\ rcv \in [Ends -> Seq(Byte)]
  /\ wire \in [Ends -> Seq(Byte)]
  /\ pc \in [Copiers -> {"get", "read", "write", "put", "done"}]
  /\ chunk \in [Copiers -> Seq(Byte)]
  /\ held \in [Copiers -> Bufs \cup {NoBuf}]
  /\ result \in [Copiers -> {"none", "eof", "err"}]
  /\ handler \in {"select", "closeP2", "closeP1", "done"}
  /\ pool \in SUBSET Bufs

(***************************************************************************)
(* In each direction every byte the sender wrote is, exactly once and in   *)
(* its place, with the receiver, on the wire to it, in the copier's hands  *)
(* or still to be read - through short reads, short writes, resets and     *)
(* the closing of both connections under a running copier.                 *)
(***************************************************************************)
StreamIntegrity ==
  \A c \in Copiers :
    sent[Src(c)] =
      got[Dst(c)] \o (wire[Dst(c)] \o (chunk[c] \o rcv[Src(c)]))

(***************************************************************************)
(* No two goroutines ever use one buffer, no buffer in use is in the pool  *)
(* for another connection to take, and a goroutine that copies has one.    *)
(***************************************************************************)
BufferExclusive ==
  /\ \A c, o \in Copiers : c # o /\ held[c] = held[o] => held[c] = NoBuf
  /\ \A c \in Copiers : held[c] \notin pool
  /\ \A c \in Copiers : (held[c] = NoBuf) <=> (pc[c] \in {"get", "done"})

(***************************************************************************)
(* The direction whose copy ended with EOF is complete: all its sender     *)
(* ever wrote has been handed to the receiver's connection.  What closing  *)
(* the tunnel cuts off belongs to the other direction.                     *)
(***************************************************************************)
EofCompletes ==
  \A c \in Copiers :
    result[c] = "eof" => got[Dst(c)] \o wire[Dst(c)] = sent[Src(c)]

(***************************************************************************)
(* The handler starts to close the connections only for a cause outside    *)
(* the tunnel: a peer has shut down or a connection has broken.            *)
(***************************************************************************)
EndsForCause ==
  [][handler = "select" /\ handler' # "select"
       => \E s \in Ends : fin[s] \/ rst[s]]_vars

(* Both connections closed, both goroutines gone, both buffers back. *)
Reaped ==
  /\ handler = "done"
  /\ \A s \in Ends : ~open[s]
  /\ \A c \in Copiers : pc[c] = "done" /\ held[c] = NoBuf

DeadReaps == TunnelDead ~> Reaped
FinReaps == PeersRead => \A s \in Ends : fin[s] ~> Reaped

(***************************************************************************)
(* Once either copy has ended nothing of the tunnel is left behind, even   *)
(* with the other goroutine blocked in Write towards a peer that does not  *)
(* read: closing the connections is what sets it free.  If the peers read, *)
(* a shutdown by either of them suffices for that.                         *)
(***************************************************************************)
TunnelReaped == DeadReaps /\ FinReaps

(***************************************************************************)
(* If the peers read, all a peer sent before it shut down arrives, unless  *)
(* the other direction ended first or a connection broke (which closing    *)
(* it with unread data also does).                                         *)
(***************************************************************************)
GracefulDelivery ==
  PeersRead => \A c \in Copiers :
    fin[Src(c)] ~> \/ got[Dst(c)] = sent[Src(c)]
                   \/ \E o \in Copiers \ {c} : result[o] = "eof"
                   \/ \E s \in Ends : rst[s]

-----------------------------------------------------------------------------
(* Each direction implements the abstract pipe. *)
UpPipe == INSTANCE BytePipe WITH sent <- sent[P1], got <- got[P2]
DownPipe == INSTANCE BytePipe WITH sent <- sent[P2], got <- got[P1]

(***************************************************************************)
(* What the server receives is at all times a prefix of what the client    *)
(* sent, and the other way round.                                          *)
(***************************************************************************)
ImplementsPipes == UpPipe!Spec /\ DownPipe!Spec

=============================================================================
