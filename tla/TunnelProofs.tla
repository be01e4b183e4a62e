---------------------------- MODULE TunnelProofs ----------------------------
(***************************************************************************)
(* Theorems about Tunnel, for every pair of peers, every stream they have  *)
(* to send, every buffer size, socket capacity and set of buffers.         *)
(***************************************************************************)
EXTENDS Tunnel, SequenceTheorems, TLAPS

(* Each end is the source of one copier and the destination of the other. *)
LEMMA Routing ==
  /\ \A c \in Copiers : Src(c) \in Ends /\ Dst(c) \in Ends
  /\ \A c, o \in Copiers : Src(c) = Src(o) => c = o
  /\ \A c, o \in Copiers : Dst(c) = Dst(o) => c = o
BY TunnelAssumption DEF Src, Dst, Ends, Copiers

(* Cutting a byte sequence anywhere gives two sequences that join to it. *)
LEMMA Cut ==
  ASSUME NEW q \in Seq(Byte), NEW n \in 0 .. Len(q)
  PROVE  /\ SubSeq(q, 1, n) \in Seq(Byte)
         /\ SubSeq(q, n + 1, Len(q)) \in Seq(Byte)
         /\ SubSeq(q, 1, n) \o SubSeq(q, n + 1, Len(q)) = q
<1>1. Len(q) \in Nat /\ \A i \in 1 .. Len(q) : q[i] \in Byte
  BY LenProperties, ElementOfSeq
<1>2. SubSeq(q, 1, n) \in Seq(Byte)
  BY <1>1, SubSeqProperties
<1>3. SubSeq(q, n + 1, Len(q)) \in Seq(Byte)
  BY <1>1, SubSeqProperties
<1>4. SubSeq(q, 1, n) \o SubSeq(q, n + 1, Len(q)) = SubSeq(q, 1, Len(q))
  <2>1. /\ 1 \in 1 .. Len(q) + 1
        /\ n \in 1 - 1 .. Len(q)
        /\ Len(q) \in n .. Len(q)
    BY <1>1
  <2> QED
    BY <2>1, ConcatAdjacentSubSeq
<1> QED
  BY <1>2, <1>3, <1>4, SubSeqFull

(* Closing an end leaves both its flags Booleans. *)
LEMMA CloseTypes ==
  ASSUME TypeOK, NEW s \in Ends, CloseConn(s)
  PROVE  open' \in [Ends -> BOOLEAN] /\ rst' \in [Ends -> BOOLEAN]
<1>1. open' \in [Ends -> BOOLEAN]
  BY DEF CloseConn, TypeOK
<1>2. (rst[s] \/ (open[s] /\ rcv[s] # <<>>)) \in BOOLEAN
  BY Zenon
<1>3. rst' \in [Ends -> BOOLEAN]
  BY <1>2, Zenon DEF CloseConn, TypeOK
<1> QED
  BY <1>1, <1>3

-----------------------------------------------------------------------------
(* A goroutine that copies or is about to return its buffer holds one, so  *)
(* what it returns to the pool is a buffer.                                *)
Inv0 == TypeOK /\ BufferExclusive

LEMMA BuffersAndTypes == Spec => []Inv0
<1> USE TunnelAssumption, Routing
<1>1. Init => Inv0
  BY DEF Init, Inv0, TypeOK, BufferExclusive
<1>2. Inv0 /\ [Next]_vars => Inv0'
  <2> SUFFICES ASSUME TypeOK, BufferExclusive, [Next]_vars
               PROVE  TypeOK' /\ BufferExclusive'
    BY DEF Inv0
  <2>1. ASSUME NEW s \in Ends, PeerSend(s) PROVE TypeOK' /\ BufferExclusive'
    <3>1. Stream[s] \in Seq(Byte) /\ sent[s] \in Seq(Byte)
      BY DEF TypeOK
    <3>2. Len(sent[s]) + 1 \in 1 .. Len(Stream[s])
      BY <2>1, <3>1, LenProperties DEF PeerSend
    <3>3. Stream[s][Len(sent[s]) + 1] \in Byte
      BY <3>1, <3>2, ElementOfSeq
    <3> QED
      BY <2>1, <3>3, AppendProperties
      DEF PeerSend, TypeOK, BufferExclusive, copyVars
  <2>2. ASSUME NEW s \in Ends, PeerFin(s) PROVE TypeOK' /\ BufferExclusive'
    BY <2>2 DEF PeerFin, TypeOK, BufferExclusive, sockVars, copyVars
  <2>3. ASSUME NEW s \in Ends, PeerReset(s) PROVE TypeOK' /\ BufferExclusive'
    BY <2>3 DEF PeerReset, TypeOK, BufferExclusive, peerVars, copyVars
  <2>4. ASSUME NEW s \in Ends, PeerRecv(s) PROVE TypeOK' /\ BufferExclusive'
    BY <2>4, ConcatProperties DEF PeerRecv, TypeOK, BufferExclusive, copyVars
  <2>5. ASSUME NEW c \in Copiers, GetBuf(c) PROVE TypeOK' /\ BufferExclusive'
    <3>1. PICK b \in Bufs : /\ \A o \in Copiers : held[o] # b
                            /\ held' = [held EXCEPT ![c] = b]
      BY <2>5 DEF GetBuf, TakeBuf
    <3>2. held'[c] = b
      BY <3>1 DEF TypeOK
    <3>3. TypeOK'
      BY <2>5, <3>1 DEF GetBuf, TypeOK, peerVars, sockVars
    <3>4. BufferExclusive'
      BY <2>5, <3>1, <3>2, ZenonT(40) DEF GetBuf, TypeOK, BufferExclusive
    <3> QED BY <3>3, <3>4
  <2>6. ASSUME NEW c \in Copiers, CopyRead(c) PROVE TypeOK' /\ BufferExclusive'
    <3>1. PICK n \in 1 .. Len(rcv[Src(c)]) :
            /\ chunk' = [chunk EXCEPT ![c] = SubSeq(rcv[Src(c)], 1, n)]
            /\ rcv' = [rcv EXCEPT ![Src(c)] = SubSeq(@, n + 1, Len(@))]
      BY <2>6 DEF CopyRead
    <3>2. rcv[Src(c)] \in Seq(Byte) /\ n \in 0 .. Len(rcv[Src(c)])
      BY DEF TypeOK
    <3>3. /\ SubSeq(rcv[Src(c)], 1, n) \in Seq(Byte)
          /\ SubSeq(rcv[Src(c)], n + 1, Len(rcv[Src(c)])) \in Seq(Byte)
      BY <3>2, Cut
    <3> QED
      BY <2>6, <3>1, <3>3, ZenonT(40) DEF CopyRead, TypeOK, BufferExclusive, peerVars
  <2>7. ASSUME NEW c \in Copiers, CopyEof(c) \/ CopyReadErr(c) \/ CopyWriteErr(c)
        PROVE TypeOK' /\ BufferExclusive'
    BY <2>7, ZenonT(40) DEF CopyEof, CopyReadErr, CopyWriteErr, CopyEnds, TypeOK,
                BufferExclusive, peerVars, sockVars
  <2>8. ASSUME NEW c \in Copiers, CopyWrite(c) PROVE TypeOK' /\ BufferExclusive'
    <3>1. PICK n \in 1 .. Len(chunk[c]) :
            /\ wire' = [wire EXCEPT ![Dst(c)] = @ \o SubSeq(chunk[c], 1, n)]
            /\ chunk' = [chunk EXCEPT ![c] = Rest(c, n)]
            /\ pc' = [pc EXCEPT ![c] = IF n = Len(chunk[c]) THEN "read" ELSE @]
      BY <2>8 DEF CopyWrite
    <3>2. chunk[c] \in Seq(Byte) /\ n \in 0 .. Len(chunk[c])
      BY DEF TypeOK
    <3>3. SubSeq(chunk[c], 1, n) \in Seq(Byte) /\ Rest(c, n) \in Seq(Byte)
      BY <3>2, Cut DEF Rest
    <3>4. wire[Dst(c)] \o SubSeq(chunk[c], 1, n) \in Seq(Byte)
      BY <3>3, ConcatProperties DEF TypeOK
    <3> QED
      BY <2>8, <3>1, <3>3, <3>4, ZenonT(40) DEF CopyWrite, TypeOK, BufferExclusive, peerVars
  <2>9. ASSUME NEW c \in Copiers, PutBuf(c) PROVE TypeOK' /\ BufferExclusive'
    BY <2>9, ZenonT(40) DEF PutBuf, TypeOK, BufferExclusive, peerVars, sockVars
  <2>10. CASE HandleClient
    <3>1. CASE Select
      BY <3>1 DEF Select, TypeOK, BufferExclusive, peerVars, sockVars, copyVars
    <3>2. CASE CloseP2
      BY <3>2, CloseTypes DEF CloseP2, TypeOK, BufferExclusive, peerVars,
                              copyVars, Ends
    <3>3. CASE CloseP1
      BY <3>3, CloseTypes DEF CloseP1, TypeOK, BufferExclusive, peerVars,
                              copyVars, Ends
    <3> QED
      BY <2>10, <3>1, <3>2, <3>3 DEF HandleClient
  <2>11. CASE UNCHANGED vars
    BY <2>11 DEF vars, TypeOK, BufferExclusive
  <2>12. ASSUME NEW s \in Ends, Peer(s) PROVE TypeOK' /\ BufferExclusive'
    BY <2>1, <2>2, <2>3, <2>4, <2>12 DEF Peer
  <2>13. ASSUME NEW c \in Copiers, Copy(c) PROVE TypeOK' /\ BufferExclusive'
    BY <2>5, <2>6, <2>7, <2>8, <2>9, <2>13 DEF Copy
  <2>14. CASE Next
    BY <2>10, <2>12, <2>13, <2>14 DEF Next
  <2> QED
    BY <2>11, <2>14
<1> QED
  BY <1>1, <1>2, PTL DEF Spec

(***************************************************************************)
(* Every variable keeps its type: the model's queues hold bytes, and each  *)
(* goroutine is at a statement of handleClient.                            *)
(***************************************************************************)
THEOREM TypeCorrect == Spec => []TypeOK
<1>1. Inv0 => TypeOK
  BY DEF Inv0
<1> QED
  BY <1>1, BuffersAndTypes, PTL

(***************************************************************************)
(* The buffer pool is safe however the goroutines interleave.              *)
(***************************************************************************)
THEOREM BuffersExclusive == Spec => []BufferExclusive
<1>1. Inv0 => BufferExclusive
  BY DEF Inv0
<1> QED
  BY <1>1, BuffersAndTypes, PTL

-----------------------------------------------------------------------------
(* One direction end to end: received, on the wire, in the copier's hands, *)
(* to be read.                                                             *)
Join(g, w, k, r) == g \o (w \o (k \o r))

LEMMA JoinIsSeq == \A x, y \in Seq(Byte) : x \o y \in Seq(Byte)
BY ConcatProperties

LEMMA JoinAssociates ==
  \A x, y, z \in Seq(Byte) : (x \o y) \o z = x \o (y \o z)
BY ConcatAssociative

(* What the steps of the relay do to the four parts does not change the    *)
(* whole.                                                                  *)
LEMMA JoinRecv ==
  \A g, w, k, r \in Seq(Byte) : Join(g \o w, <<>>, k, r) = Join(g, w, k, r)
<1>1. SUFFICES ASSUME NEW g, NEW w, NEW k, NEW r,
                      g \in Seq(Byte) /\ w \in Seq(Byte),
                      k \in Seq(Byte) /\ r \in Seq(Byte)
               PROVE  Join(g \o w, <<>>, k, r) = Join(g, w, k, r)
  OBVIOUS
<1> DEFINE t == k \o r
<1>2. t \in Seq(Byte)
  BY <1>1, JoinIsSeq
<1>3. g \in Seq(Byte) /\ w \in Seq(Byte)
  BY <1>1
<1> HIDE DEF t
<1>4. <<>> \o t = t
  BY <1>2, ConcatEmptySeq
<1>5. (g \o w) \o t = g \o (w \o t)
  BY <1>2, <1>3, JoinAssociates, SMTT(40)
<1> QED
  BY <1>4, <1>5, Zenon DEF Join, t

LEMMA JoinRead ==
  \A g, w, r \in Seq(Byte) : \A n \in 0 .. Len(r) :
    Join(g, w, SubSeq(r, 1, n), SubSeq(r, n + 1, Len(r))) = Join(g, w, <<>>, r)
BY Cut, ConcatEmptySeq DEF Join

LEMMA JoinWrite ==
  \A g, w, a, b, r \in Seq(Byte) :
    Join(g, w \o a, b, r) = Join(g, w, a \o b, r)
<1>1. SUFFICES ASSUME NEW g, NEW w, NEW a, NEW b, NEW r,
                      w \in Seq(Byte), a \in Seq(Byte),
                      b \in Seq(Byte) /\ r \in Seq(Byte)
               PROVE  Join(g, w \o a, b, r) = Join(g, w, a \o b, r)
  OBVIOUS
<1> DEFINE t == b \o r
<1>2. t \in Seq(Byte)
  BY <1>1, JoinIsSeq
<1>3. w \in Seq(Byte) /\ a \in Seq(Byte)
  BY <1>1
<1>4. (a \o b) \o r = a \o t
  BY <1>1, JoinAssociates, SMTT(40)
<1> HIDE DEF t
<1>5. (w \o a) \o t = w \o (a \o t)
  BY <1>2, <1>3, JoinAssociates, SMTT(40)
<1> QED
  BY <1>4, <1>5, Zenon DEF Join, t

(* A copier holds no bytes while it reads, and one that has seen EOF has    *)
(* left nothing behind.                                                    *)
Drained ==
  /\ \A c \in Copiers : pc[c] \in {"get", "read"} => chunk[c] = <<>>
  /\ \A c \in Copiers :
       result[c] = "eof" =>
         /\ pc[c] \in {"put", "done"}
         /\ fin[Src(c)]
         /\ chunk[c] = <<>> /\ rcv[Src(c)] = <<>>

StreamInv == StreamIntegrity /\ Drained

LEMMA StreamStep == TypeOK /\ StreamInv /\ [Next]_vars => StreamInv'
<1> USE Routing
<1> SUFFICES ASSUME TypeOK, StreamIntegrity, Drained, [Next]_vars
             PROVE  StreamIntegrity' /\ Drained'
  BY DEF StreamInv
<1>0. \A c \in Copiers :
       sent[Src(c)] = Join(got[Dst(c)], wire[Dst(c)], chunk[c], rcv[Src(c)])
  BY DEF StreamIntegrity, Join
<1>t. \A c \in Copiers :
       /\ got[Dst(c)] \in Seq(Byte) /\ wire[Dst(c)] \in Seq(Byte)
       /\ chunk[c] \in Seq(Byte) /\ rcv[Src(c)] \in Seq(Byte)
  BY DEF TypeOK
<1>s. SUFFICES ASSUME NEW d \in Copiers
               PROVE  /\ sent'[Src(d)] = Join(got'[Dst(d)], wire'[Dst(d)],
                                              chunk'[d], rcv'[Src(d)])
                      /\ pc'[d] \in {"get", "read"} => chunk'[d] = <<>>
                      /\ result'[d] = "eof" =>
                           /\ pc'[d] \in {"put", "done"}
                           /\ fin'[Src(d)]
                           /\ chunk'[d] = <<>> /\ rcv'[Src(d)] = <<>>
  BY DEF StreamIntegrity, Drained, Join
<1> DEFINE Goal == /\ sent'[Src(d)] = Join(got'[Dst(d)], wire'[Dst(d)],
                                           chunk'[d], rcv'[Src(d)])
                   /\ pc'[d] \in {"get", "read"} => chunk'[d] = <<>>
                   /\ result'[d] = "eof" =>
                        /\ pc'[d] \in {"put", "done"}
                        /\ fin'[Src(d)]
                        /\ chunk'[d] = <<>> /\ rcv'[Src(d)] = <<>>
<1>1. ASSUME NEW s \in Ends, PeerSend(s) PROVE Goal
  <2>1. CASE s # Src(d)
    BY <1>0, <1>1, <2>1 DEF PeerSend, TypeOK, Drained, copyVars
  <2>2. CASE s = Src(d)
    <3>1. PICK q \in Seq(Byte) :
            sent'[s] = sent[s] \o q /\ rcv'[s] = rcv[s] \o q
      <4> DEFINE b == Stream[s][Len(sent[s]) + 1]
      <4>1. Stream[s] \in Seq(Byte) /\ sent[s] \in Seq(Byte) /\ rcv[s] \in Seq(Byte)
        BY TunnelAssumption DEF TypeOK
      <4>2. Len(sent[s]) + 1 \in 1 .. Len(Stream[s])
        BY <1>1, <4>1, LenProperties DEF PeerSend
      <4>3. b \in Byte
        BY <4>1, <4>2, ElementOfSeq
      <4>4. sent'[s] = Append(sent[s], b) /\ rcv'[s] = Append(rcv[s], b)
        BY <1>1 DEF PeerSend, TypeOK
      <4> HIDE DEF b
      <4>5. /\ Append(sent[s], b) = sent[s] \o <<b>>
            /\ Append(rcv[s], b) = rcv[s] \o <<b>>
        BY <4>1, <4>3, AppendIsConcat
      <4>6. <<b>> \in Seq(Byte)
        BY <4>3
      <4> QED
        BY <4>4, <4>5, <4>6
    <3>2. sent'[s] = Join(got[Dst(d)], wire[Dst(d)], chunk[d], rcv'[s])
      <4> DEFINE g == got[Dst(d)]
                 w == wire[Dst(d)]
                 k == chunk[d]
                 r == rcv[s]
      <4>1. /\ g \in Seq(Byte) /\ w \in Seq(Byte)
            /\ k \in Seq(Byte) /\ r \in Seq(Byte)
        BY <1>t, <2>2
      <4> HIDE DEF g, w, k, r
      <4>2. Join(g, w, k, r) \o q = Join(g, w, k, r \o q)
        <5> DEFINE u == k \o r
                   t == w \o u
        <5>1. u \in Seq(Byte)
          BY <4>1, JoinIsSeq
        <5>2. w \in Seq(Byte) /\ g \in Seq(Byte)
          BY <4>1
        <5>3. t \in Seq(Byte)
          BY <5>1, <5>2, JoinIsSeq
        <5>4. u \o q = k \o (r \o q)
          <6>1. k \in Seq(Byte) /\ r \in Seq(Byte)
            BY <4>1
          <6> QED
            BY <6>1, JoinAssociates, SMTT(40)
        <5> HIDE DEF u
        <5>5. t \o q = w \o (u \o q)
          <6>1. w \in Seq(Byte)
            BY <5>2
          <6> QED
            BY <5>1, <6>1, JoinAssociates, SMTT(40)
        <5> HIDE DEF t
        <5>6. (g \o t) \o q = g \o (t \o q)
          <6>1. g \in Seq(Byte)
            BY <5>2
          <6> QED
            BY <5>3, <6>1, JoinAssociates, SMTT(40)
        <5> QED
          BY <5>4, <5>5, <5>6, Zenon DEF Join, u, t
      <4>3. sent[s] = Join(g, w, k, r)
        BY <1>0, <2>2 DEF g, w, k, r
      <4> QED
        BY <3>1, <4>2, <4>3, Zenon DEF g, w, k, r
    <3>3. result[d] # "eof" /\ UNCHANGED <<got, wire, pc, chunk, result>>
      BY <1>1, <2>2 DEF PeerSend, Drained, copyVars
    <3> QED
      BY <2>2, <3>2, <3>3 DEF Drained
  <2> QED
    BY <2>1, <2>2
<1>2. ASSUME NEW s \in Ends, PeerFin(s) PROVE Goal
  BY <1>0, <1>2 DEF PeerFin, TypeOK, Drained, sockVars, copyVars
<1>3. ASSUME NEW s \in Ends, PeerReset(s) PROVE Goal
  BY <1>0, <1>3 DEF PeerReset, Drained, peerVars, copyVars
<1>4. ASSUME NEW s \in Ends, PeerRecv(s) PROVE Goal
  <2>1. CASE s # Dst(d)
    BY <1>0, <1>4, <2>1 DEF PeerRecv, TypeOK, Drained, copyVars
  <2>2. CASE s = Dst(d)
    <3>1. got'[s] = got[s] \o wire[s] /\ wire'[s] = <<>>
      BY <1>4 DEF PeerRecv, TypeOK
    <3>2. Join(got'[s], wire'[s], chunk[d], rcv[Src(d)]) = sent[Src(d)]
      <4> DEFINE g == got[s]
                 w == wire[s]
                 k == chunk[d]
                 r == rcv[Src(d)]
      <4>1. /\ g \in Seq(Byte) /\ w \in Seq(Byte)
            /\ k \in Seq(Byte) /\ r \in Seq(Byte)
            /\ sent[Src(d)] = Join(g, w, k, r)
        BY <1>0, <1>t, <2>2
      <4> HIDE DEF g, w, k, r
      <4>2. Join(g \o w, <<>>, k, r) = Join(g, w, k, r)
        BY <4>1, JoinRecv
      <4> QED
        BY <3>1, <4>1, <4>2, Zenon DEF g, w, k, r
    <3> QED
      BY <1>4, <2>2, <3>2 DEF PeerRecv, Drained, copyVars
  <2> QED
    BY <2>1, <2>2
<1>5. ASSUME NEW c \in Copiers, GetBuf(c) PROVE Goal
  BY <1>0, <1>5, ZenonT(40) DEF GetBuf, TypeOK, Drained, peerVars, sockVars
<1>6. ASSUME NEW c \in Copiers, CopyRead(c) PROVE Goal
  <2>1. CASE c # d
    BY <1>0, <1>6, <2>1, ZenonT(40) DEF CopyRead, TypeOK, Drained, peerVars
  <2>2. CASE c = d
    <3>1. PICK n \in 1 .. Len(rcv[Src(d)]) :
            /\ chunk' = [chunk EXCEPT ![d] = SubSeq(rcv[Src(d)], 1, n)]
            /\ rcv' = [rcv EXCEPT ![Src(d)] = SubSeq(@, n + 1, Len(@))]
      BY <1>6, <2>2 DEF CopyRead
    <3>2. /\ chunk'[d] = SubSeq(rcv[Src(d)], 1, n)
          /\ rcv'[Src(d)] = SubSeq(rcv[Src(d)], n + 1, Len(rcv[Src(d)]))
      BY <3>1 DEF TypeOK
    <3>3. chunk[d] = <<>> /\ result[d] # "eof"
      BY <1>6, <2>2 DEF CopyRead, Drained
    <3>4. n \in 0 .. Len(rcv[Src(d)])
      OBVIOUS
    <3>5. Join(got[Dst(d)], wire[Dst(d)], chunk'[d], rcv'[Src(d)]) =
            sent[Src(d)]
      <4> DEFINE g == got[Dst(d)]
                 w == wire[Dst(d)]
                 r == rcv[Src(d)]
      <4>1. /\ g \in Seq(Byte) /\ w \in Seq(Byte) /\ r \in Seq(Byte)
            /\ sent[Src(d)] = Join(g, w, <<>>, r)
            /\ n \in 0 .. Len(r)
        BY <1>0, <1>t, <3>3, <3>4
      <4> HIDE DEF g, w, r
      <4>2. Join(g, w, SubSeq(r, 1, n), SubSeq(r, n + 1, Len(r))) =
              Join(g, w, <<>>, r)
        BY <4>1, JoinRead
      <4> QED
        BY <3>2, <4>1, <4>2, Zenon DEF g, w, r
    <3>6. pc'[d] = "write" /\ UNCHANGED <<sent, got, wire, result>>
      BY <1>6, <2>2 DEF CopyRead, TypeOK, peerVars
    <3> QED
      BY <3>3, <3>5, <3>6
  <2> QED
    BY <2>1, <2>2
<1>7. ASSUME NEW c \in Copiers, CopyEof(c) PROVE Goal
  BY <1>0, <1>7, ZenonT(40) DEF CopyEof, CopyEnds, TypeOK, Drained, peerVars, sockVars
<1>8. ASSUME NEW c \in Copiers, CopyReadErr(c) \/ CopyWriteErr(c) PROVE Goal
  BY <1>0, <1>8, ZenonT(40) DEF CopyReadErr, CopyWriteErr, CopyEnds, TypeOK, Drained,
                    peerVars, sockVars
<1>9. ASSUME NEW c \in Copiers, CopyWrite(c) PROVE Goal
  <2>1. CASE c # d
    BY <1>0, <1>9, <2>1, ZenonT(40) DEF CopyWrite, TypeOK, Drained, peerVars
  <2>2. CASE c = d
    <3>1. PICK n \in 1 .. Len(chunk[d]) :
            /\ wire' = [wire EXCEPT ![Dst(d)] = @ \o SubSeq(chunk[d], 1, n)]
            /\ chunk' = [chunk EXCEPT ![d] = Rest(d, n)]
            /\ pc' = [pc EXCEPT ![d] = IF n = Len(chunk[d]) THEN "read" ELSE @]
      BY <1>9, <2>2 DEF CopyWrite
    <3>2. /\ wire'[Dst(d)] = wire[Dst(d)] \o SubSeq(chunk[d], 1, n)
          /\ chunk'[d] = SubSeq(chunk[d], n + 1, Len(chunk[d]))
          /\ pc'[d] = IF n = Len(chunk[d]) THEN "read" ELSE pc[d]
      BY <3>1 DEF TypeOK, Rest
    <3>3. n \in 0 .. Len(chunk[d])
      OBVIOUS
    <3>4. Join(got[Dst(d)], wire'[Dst(d)], chunk'[d], rcv[Src(d)]) =
            sent[Src(d)]
      <4>1. /\ SubSeq(chunk[d], 1, n) \in Seq(Byte)
            /\ SubSeq(chunk[d], n + 1, Len(chunk[d])) \in Seq(Byte)
            /\ SubSeq(chunk[d], 1, n) \o SubSeq(chunk[d], n + 1, Len(chunk[d]))
                 = chunk[d]
        BY <1>t, <3>3, Cut
      <4> QED
        <5> DEFINE g == got[Dst(d)]
                   w == wire[Dst(d)]
                   a == SubSeq(chunk[d], 1, n)
                   b == SubSeq(chunk[d], n + 1, Len(chunk[d]))
                   r == rcv[Src(d)]
        <5>1. /\ g \in Seq(Byte) /\ w \in Seq(Byte) /\ a \in Seq(Byte)
              /\ b \in Seq(Byte) /\ r \in Seq(Byte)
              /\ sent[Src(d)] = Join(g, w, a \o b, r)
          BY <1>0, <1>t, <4>1
        <5> HIDE DEF g, w, a, b, r
        <5>2. Join(g, w \o a, b, r) = Join(g, w, a \o b, r)
          BY <5>1, JoinWrite
        <5> QED
          BY <3>2, <5>1, <5>2, Zenon DEF g, w, a, b, r
    <3>5. pc[d] = "write" /\ result[d] # "eof"
      BY <1>9, <2>2 DEF CopyWrite, Drained
    <3>6. n = Len(chunk[d]) => chunk'[d] = <<>>
      BY <1>t, <3>2, LenProperties, SubSeqEmpty
    <3>7. UNCHANGED <<sent, got, rcv, result>>
      BY <1>9 DEF CopyWrite, peerVars
    <3> QED
      BY <3>2, <3>4, <3>5, <3>6, <3>7
  <2> QED
    BY <2>1, <2>2
<1>10. ASSUME NEW c \in Copiers, PutBuf(c) PROVE Goal
  BY <1>0, <1>10 DEF PutBuf, TypeOK, Drained, peerVars, sockVars
<1>11. CASE HandleClient
  BY <1>0, <1>11 DEF HandleClient, Select, CloseP2, CloseP1, Drained,
                     peerVars, sockVars, copyVars
<1>12. CASE UNCHANGED vars
  BY <1>0, <1>12 DEF vars, Drained
<1>13. ASSUME NEW s \in Ends, Peer(s) PROVE Goal
  BY <1>1, <1>2, <1>3, <1>4, <1>13 DEF Peer
<1>14. ASSUME NEW c \in Copiers, Copy(c) PROVE Goal
  BY <1>5, <1>6, <1>7, <1>8, <1>9, <1>10, <1>14 DEF Copy
<1>15. CASE Next
  BY <1>11, <1>13, <1>14, <1>15 DEF Next
<1> QED
  BY <1>12, <1>15

LEMMA StreamInvariant == Spec => [](TypeOK /\ StreamInv)
<1>1. Init => StreamInv
  <2> SUFFICES ASSUME Init PROVE StreamInv
    OBVIOUS
  <2>1. <<>> \o (<<>> \o (<<>> \o <<>>)) = <<>>
    BY ConcatEmptySeq, EmptySeq
  <2>2. \A c \in Copiers : /\ sent[Src(c)] = <<>> /\ got[Dst(c)] = <<>> /\ wire[Dst(c)] = <<>>
                            /\ chunk[c] = <<>> /\ rcv[Src(c)] = <<>>
    BY Routing DEF Init
  <2>3. Drained
    BY DEF Init, Drained
  <2> QED
    BY <2>1, <2>2, <2>3 DEF StreamInv, StreamIntegrity
<1>2. StreamInv /\ TypeOK /\ [Next]_vars => StreamInv'
  BY StreamStep
<1> QED
  BY <1>1, <1>2, TypeCorrect, PTL DEF Spec

(***************************************************************************)
(* The relay never loses, repeats, reorders or invents a byte between its  *)
(* two sockets, whatever the streams, chunk sizes and socket capacities.   *)
(***************************************************************************)
THEOREM StreamsIntact == Spec => []StreamIntegrity
<1>1. StreamInv => StreamIntegrity
  BY DEF StreamInv
<1> QED
  BY <1>1, StreamInvariant, PTL

(***************************************************************************)
(* A direction whose copy ended with EOF has been passed on whole.         *)
(***************************************************************************)
THEOREM EofIsComplete == Spec => []EofCompletes
<1>1. TypeOK /\ StreamInv => EofCompletes
  <2> SUFFICES ASSUME TypeOK, StreamIntegrity, Drained,
                      NEW c \in Copiers, result[c] = "eof"
               PROVE  got[Dst(c)] \o wire[Dst(c)] = sent[Src(c)]
    BY DEF StreamInv, EofCompletes
  <2>1. chunk[c] = <<>> /\ rcv[Src(c)] = <<>>
    BY DEF Drained
  <2>2. got[Dst(c)] \in Seq(Byte) /\ wire[Dst(c)] \in Seq(Byte)
    BY Routing DEF TypeOK
  <2>3. sent[Src(c)] = got[Dst(c)] \o (wire[Dst(c)] \o (<<>> \o <<>>))
    BY <2>1 DEF StreamIntegrity
  <2>4. <<>> \o <<>> = <<>> /\ wire[Dst(c)] \o <<>> = wire[Dst(c)]
    BY <2>2, ConcatEmptySeq, EmptySeq
  <2> QED
    BY <2>3, <2>4
<1> QED
  BY <1>1, StreamInvariant, PTL

-----------------------------------------------------------------------------
(* Until the handler moves on both connections are open, so a copy that    *)
(* has ended met a shutdown or a broken connection.                        *)
Cause ==
  handler = "select" =>
    /\ \A s \in Ends : open[s]
    /\ TunnelDead => \E s \in Ends : fin[s] \/ rst[s]

LEMMA CauseStep == TypeOK /\ Cause /\ [Next]_vars => Cause'
<1> USE Routing
<1> SUFFICES ASSUME TypeOK, Cause, [Next]_vars, handler' = "select"
             PROVE  /\ \A s \in Ends : open'[s]
                    /\ TunnelDead' => \E s \in Ends : fin'[s] \/ rst'[s]
  BY DEF Cause
<1> DEFINE Goal == /\ \A s \in Ends : open'[s]
                   /\ TunnelDead' => \E s \in Ends : fin'[s] \/ rst'[s]
<1>1. ASSUME NEW s \in Ends, Peer(s) PROVE Goal
  <2>1. handler = "select" /\ pc' = pc /\ open' = open
    BY <1>1 DEF Peer, PeerSend, PeerFin, PeerReset, PeerRecv, sockVars, copyVars
  <2>2. \A e \in Ends : (fin[e] => fin'[e]) /\ (rst[e] => rst'[e])
    <3>1. CASE PeerSend(s)
      BY <3>1 DEF PeerSend, TypeOK
    <3>2. CASE PeerFin(s)
      BY <3>2 DEF PeerFin, TypeOK, sockVars
    <3>3. CASE PeerReset(s)
      BY <3>3 DEF PeerReset, TypeOK, peerVars
    <3>4. CASE PeerRecv(s)
      BY <3>4 DEF PeerRecv
    <3> QED
      BY <1>1, <3>1, <3>2, <3>3, <3>4 DEF Peer
  <2> QED
    BY <2>1, <2>2 DEF Cause, TunnelDead, Died
<1>2. ASSUME NEW c \in Copiers, GetBuf(c) \/ CopyRead(c) \/ CopyWrite(c)
      PROVE  Goal
  <2>1. /\ handler = "select"
        /\ UNCHANGED <<fin, open, rst>>
        /\ \A o \in Copiers : pc'[o] \in {"put", "done"} => pc'[o] = pc[o]
    BY <1>2, SMTT(40) DEF GetBuf, CopyRead, CopyWrite, TypeOK, peerVars, sockVars
  <2> QED
    BY <2>1 DEF Cause, TunnelDead, Died
<1>3. ASSUME NEW c \in Copiers, CopyEof(c) PROVE Goal
  BY <1>3 DEF CopyEof, CopyEnds, Cause, peerVars, sockVars
<1>4. ASSUME NEW c \in Copiers, CopyReadErr(c) \/ CopyWriteErr(c) PROVE Goal
  BY <1>4 DEF CopyReadErr, CopyWriteErr, CopyEnds, Cause, peerVars, sockVars
<1>5. ASSUME NEW c \in Copiers, PutBuf(c) PROVE Goal
  BY <1>5 DEF PutBuf, TypeOK, Cause, TunnelDead, Died, peerVars, sockVars
<1>6. CASE HandleClient
  BY <1>6 DEF HandleClient, Select, CloseP2, CloseP1
<1>7. CASE UNCHANGED vars
  BY <1>7 DEF vars, Cause, TunnelDead, Died
<1>8. ASSUME NEW c \in Copiers, Copy(c) PROVE Goal
  BY <1>2, <1>3, <1>4, <1>5, <1>8 DEF Copy
<1>9. CASE Next
  BY <1>1, <1>6, <1>8, <1>9 DEF Next
<1> QED
  BY <1>7, <1>9

(***************************************************************************)
(* A tunnel is only taken down for a shutdown or a broken connection.      *)
(***************************************************************************)
THEOREM EndsOnlyForCause == Spec => EndsForCause
<1>1. Init => Cause
  BY DEF Init, Cause, TunnelDead, Died
<1>2. TypeOK /\ Cause /\ [Next]_vars =>
        [handler = "select" /\ handler' # "select"
           => \E s \in Ends : fin[s] \/ rst[s]]_vars
  <2> SUFFICES ASSUME TypeOK, Cause, Next, handler = "select", handler' # "select"
               PROVE  \E s \in Ends : fin[s] \/ rst[s]
    BY DEF vars
  <2>1. ASSUME NEW s \in Ends, Peer(s) PROVE FALSE
    BY <2>1 DEF Peer, PeerSend, PeerFin, PeerReset, PeerRecv
  <2>2. ASSUME NEW c \in Copiers, Copy(c) PROVE FALSE
    BY <2>2 DEF Copy, GetBuf, CopyRead, CopyEof, CopyReadErr, CopyWrite,
                CopyWriteErr, CopyEnds, PutBuf
  <2>3. HandleClient
    BY <2>1, <2>2 DEF Next
  <2> QED
    BY <2>3 DEF HandleClient, Select, CloseP2, CloseP1, Cause
<1> QED
  BY <1>1, <1>2, CauseStep, TypeCorrect, PTL DEF Spec, EndsForCause

-----------------------------------------------------------------------------
(* What the receiver has and what is on the wire is a prefix of what was   *)
(* sent.                                                                   *)
LEMMA Received ==
  ASSUME TypeOK, StreamIntegrity, NEW c \in Copiers
  PROVE  LET k == Len(got[Dst(c)]) + Len(wire[Dst(c)])
         IN  /\ k \in 0 .. Len(sent[Src(c)])
             /\ got[Dst(c)] \o wire[Dst(c)] = SubSeq(sent[Src(c)], 1, k)
<1> DEFINE g == got[Dst(c)]
           w == wire[Dst(c)]
           t == chunk[c] \o rcv[Src(c)]
<1>1. g \in Seq(Byte) /\ w \in Seq(Byte) /\ t \in Seq(Byte)
  BY Routing, JoinIsSeq DEF TypeOK
<1>2. sent[Src(c)] = g \o (w \o t)
  BY DEF StreamIntegrity
<1> HIDE DEF g, w, t
<1>3. sent[Src(c)] = (g \o w) \o t
  BY <1>1, <1>2, JoinAssociates, SMTT(40)
<1>4. g \o w \in Seq(Byte) /\ Len(g \o w) = Len(g) + Len(w)
  BY <1>1, ConcatProperties
<1> DEFINE gw == g \o w
<1>5. gw \in Seq(Byte) /\ Len(gw) \in Nat /\ Len(t) \in Nat
  BY <1>1, <1>4, LenProperties
<1> HIDE DEF gw
<1>6. Len(gw \o t) = Len(gw) + Len(t)
  BY <1>1, <1>5, ConcatProperties
<1>7. gw = SubSeq(gw \o t, 1, Len(gw))
  <2>1. CASE gw = <<>>
    BY <2>1, <1>5, EmptySeq, SubSeqEmpty
  <2>2. CASE gw # <<>>
    <3>1. Len(gw) \in Nat \ {0}
      BY <1>5, <2>2, EmptySeq
    <3>2. 1 \in 1 .. Len(gw) /\ Len(gw) \in 1 .. Len(gw)
      BY <3>1
    <3>3. SubSeq(gw \o t, 1, Len(gw)) = SubSeq(gw, 1, Len(gw))
      BY <1>1, <1>5, <3>2, SubSeqOfConcat1
    <3> QED
      BY <1>5, <3>3, SubSeqFull
  <2> QED
    BY <2>1, <2>2
<1>8. /\ Len(g) + Len(w) \in 0 .. Len(sent[Src(c)])
      /\ g \o w = SubSeq(sent[Src(c)], 1, Len(g) + Len(w))
  <2>1. sent[Src(c)] = gw \o t /\ Len(gw) = Len(g) + Len(w)
    BY <1>3, <1>4 DEF gw
  <2>2. gw = SubSeq(sent[Src(c)], 1, Len(g) + Len(w))
    BY <1>7, <2>1
  <2>3. Len(g) + Len(w) \in 0 .. Len(sent[Src(c)])
    BY <1>5, <1>6, <2>1, SMTT(30)
  <2> QED
    BY <2>2, <2>3 DEF gw
<1> QED
  BY <1>8 DEF g, w

(* What a step of the relay does to the two ends of one direction.         *)
LEMMA PipeStep ==
  ASSUME TypeOK, StreamIntegrity, [Next]_vars, NEW c \in Copiers
  PROVE  LET s == Src(c)
             d == Dst(c)
         IN  \/ UNCHANGED <<sent[s], got[d]>>
             \/ /\ \E b \in 0 .. 255 : sent'[s] = Append(sent[s], b)
                /\ got'[d] = got[d]
             \/ /\ \E k \in Len(got[d]) + 1 .. Len(sent[s]) :
                     got'[d] = SubSeq(sent[s], 1, k)
                /\ sent'[s] = sent[s]
<1> USE Routing
<1> DEFINE s == Src(c)
           d == Dst(c)
           Goal == \/ UNCHANGED <<sent[s], got[d]>>
                   \/ /\ \E b \in 0 .. 255 : sent'[s] = Append(sent[s], b)
                      /\ got'[d] = got[d]
                   \/ /\ \E k \in Len(got[d]) + 1 .. Len(sent[s]) :
                           got'[d] = SubSeq(sent[s], 1, k)
                      /\ sent'[s] = sent[s]
<1>1. ASSUME NEW e \in Ends, PeerSend(e) PROVE Goal
  <2>1. CASE e # s
    BY <1>1, <2>1 DEF PeerSend, TypeOK
  <2>2. CASE e = s
    <3>1. Stream[s] \in Seq(Byte) /\ sent[s] \in Seq(Byte)
      BY TunnelAssumption DEF TypeOK
    <3>2. Len(sent[s]) + 1 \in 1 .. Len(Stream[s])
      BY <1>1, <2>2, <3>1, LenProperties DEF PeerSend
    <3>3. Stream[s][Len(sent[s]) + 1] \in 0 .. 255
      BY <3>1, <3>2, ElementOfSeq DEF Byte
    <3>4. sent'[s] = Append(sent[s], Stream[s][Len(sent[s]) + 1]) /\ got' = got
      BY <1>1, <2>2 DEF PeerSend, TypeOK
    <3> QED
      BY <3>3, <3>4
  <2> QED
    BY <2>1, <2>2
<1>2. ASSUME NEW e \in Ends, PeerRecv(e) PROVE Goal
  <2>1. CASE e # d
    BY <1>2, <2>1 DEF PeerRecv, TypeOK
  <2>2. CASE e = d
    <3> DEFINE k == Len(got[d]) + Len(wire[d])
    <3>1. got'[d] = got[d] \o wire[d] /\ sent' = sent /\ wire[d] # <<>>
      BY <1>2, <2>2 DEF PeerRecv, TypeOK
    <3>2. k \in 0 .. Len(sent[s]) /\ got[d] \o wire[d] = SubSeq(sent[s], 1, k)
      BY Received
    <3>3. /\ Len(got[d]) \in Nat
          /\ Len(wire[d]) \in Nat \ {0}
          /\ Len(sent[s]) \in Nat
      BY <3>1, LenProperties, EmptySeq DEF TypeOK
    <3>4. k \in Len(got[d]) + 1 .. Len(sent[s])
      <4> DEFINE x == Len(got[d])
                 y == Len(wire[d])
                 z == Len(sent[s])
      <4>1. x \in Nat /\ y \in Nat \ {0} /\ z \in Nat /\ x + y \in 0 .. z
        BY <3>2, <3>3
      <4> HIDE DEF x, y, z
      <4>2. x + y \in x + 1 .. z
        BY <4>1
      <4> QED
        BY <4>2 DEF x, y, z
    <3> QED
      BY <3>1, <3>2, <3>4
  <2> QED
    BY <2>1, <2>2
<1>3. ASSUME NEW e \in Ends, PeerFin(e) \/ PeerReset(e) PROVE Goal
  BY <1>3 DEF PeerFin, PeerReset, peerVars
<1>4. ASSUME NEW o \in Copiers, Copy(o) PROVE Goal
  BY <1>4 DEF Copy, GetBuf, CopyRead, CopyEof, CopyReadErr, CopyWrite,
              CopyWriteErr, CopyEnds, PutBuf, peerVars
<1>5. CASE HandleClient
  BY <1>5 DEF HandleClient, Select, CloseP2, CloseP1, peerVars
<1>6. CASE UNCHANGED vars
  BY <1>6 DEF vars
<1>7. ASSUME NEW e \in Ends, Peer(e) PROVE Goal
  BY <1>1, <1>2, <1>3, <1>7 DEF Peer
<1>8. CASE Next
  BY <1>4, <1>5, <1>7, <1>8 DEF Next
<1> QED
  BY <1>6, <1>8

(***************************************************************************)
(* The relay implements the abstract pipe in both directions: each peer    *)
(* receives a growing prefix of what the other has sent.                   *)
(***************************************************************************)
THEOREM RelayImplementsPipes == Spec => ImplementsPipes
<1>1. /\ "p1die" \in Copiers /\ Src("p1die") = P2 /\ Dst("p1die") = P1
      /\ "p2die" \in Copiers /\ Src("p2die") = P1 /\ Dst("p2die") = P2
      /\ P1 \in Ends /\ P2 \in Ends
  BY DEF Copiers, Src, Dst, Ends
<1>2. Init => UpPipe!Init /\ DownPipe!Init
  BY <1>1, SMTT(30) DEF Init, UpPipe!Init, DownPipe!Init
<1>3. TypeOK /\ StreamInv /\ [Next]_vars => [UpPipe!Next]_(UpPipe!pipe)
  <2> SUFFICES ASSUME TypeOK, StreamIntegrity, [Next]_vars
               PROVE  [UpPipe!Next]_(UpPipe!pipe)
    BY DEF StreamInv
  <2> QED
    BY <1>1, PipeStep DEF UpPipe!Next, UpPipe!Put, UpPipe!Take, UpPipe!pipe
<1>4. TypeOK /\ StreamInv /\ [Next]_vars => [DownPipe!Next]_(DownPipe!pipe)
  <2> SUFFICES ASSUME TypeOK, StreamIntegrity, [Next]_vars
               PROVE  [DownPipe!Next]_(DownPipe!pipe)
    BY DEF StreamInv
  <2> QED
    BY <1>1, PipeStep DEF DownPipe!Next, DownPipe!Put, DownPipe!Take, DownPipe!pipe
<1> QED
  BY <1>2, <1>3, <1>4, StreamInvariant, PTL
  DEF Spec, ImplementsPipes, UpPipe!Spec, DownPipe!Spec

=============================================================================
