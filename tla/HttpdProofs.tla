---------------------------- MODULE HttpdProofs ----------------------------
(***************************************************************************)
(* Proofs about module Httpd, for every set of PUTs and bodies, every file *)
(* and any number of seconds.                                              *)
(***************************************************************************)
EXTENDS Httpd, TLAPS

USE HttpdAssumption DEF HttpdAssumption

-----------------------------------------------------------------------------
(* w is what a write(2) of s at an offset leaves of f. *)
IsWritten(w, f, at, s) ==
  /\ w \in Seq(Block)
  /\ Len(w) = IF Len(f) > at + Len(s) THEN Len(f) ELSE at + Len(s)
  /\ \A i \in at + 1 .. at + Len(s) : w[i] = s[i - at]
  /\ \A i \in 1 .. Len(w) : i \notin at + 1 .. at + Len(s) =>
       w[i] = IF i <= Len(f) THEN f[i] ELSE Hole

LEMMA WriteAtSeq ==
  ASSUME NEW f \in Seq(Block), NEW at \in Nat, NEW s \in Seq(Block)
  PROVE  IsWritten(WriteAt(f, at, s), f, at, s)
<1> DEFINE end == at + Len(s)
           most == IF Len(f) > end THEN Len(f) ELSE end
<1>1. most \in Nat
  OBVIOUS
<1>2. \A i \in 1 .. most :
        (IF i \in at + 1 .. end THEN s[i - at] ELSE IF i <= Len(f) THEN f[i] ELSE Hole) \in Block
  OBVIOUS
<1> QED
  BY <1>1, <1>2 DEF WriteAt, IsWritten

(* What one write of a PUT does, from the block after its offset on. *)
LEMMA Piece ==
  ASSUME NEW p \in Puts, NEW from \in Nat, NEW to \in from + 1 .. Len(Body[p])
  PROVE  /\ SubSeq(Body[p], from + 1, to) \in Seq(Block)
         /\ Len(SubSeq(Body[p], from + 1, to)) = to - from
         /\ \A i \in 1 .. to - from : SubSeq(Body[p], from + 1, to)[i] = Body[p][from + i]
<1>1. Body[p] \in Seq(Block)
  OBVIOUS
<1> QED
  BY <1>1

(* So what it writes is in the place that it has in the body. *)
IsInPlace(w, f, p, from, to) ==
  /\ w \in Seq(Block)
  /\ Len(w) = IF Len(f) > to THEN Len(f) ELSE to
  /\ \A i \in from + 1 .. to : w[i] = Body[p][i]
  /\ \A i \in 1 .. Len(w) : i \notin from + 1 .. to =>
       w[i] = IF i <= Len(f) THEN f[i] ELSE Hole

LEMMA PieceInPlace ==
  ASSUME NEW p \in Puts, NEW f \in Seq(Block),
         NEW from \in Nat, NEW to \in from + 1 .. Len(Body[p])
  PROVE  IsInPlace(WriteAt(f, from, SubSeq(Body[p], from + 1, to)), f, p, from, to)
<1>1. PICK s : s = SubSeq(Body[p], from + 1, to)
  OBVIOUS
<1>2. /\ s \in Seq(Block) /\ Len(s) = to - from
      /\ \A i \in 1 .. to - from : s[i] = Body[p][from + i]
  BY <1>1, Piece
<1>3. PICK w : w = WriteAt(f, from, s)
  OBVIOUS
<1>4. IsWritten(w, f, from, s)
  BY <1>2, <1>3, WriteAtSeq
<1>5. from + Len(s) = to
  BY <1>2
<1>6. ASSUME NEW i \in from + 1 .. to PROVE s[i - from] = Body[p][i]
  <2>1. i - from \in 1 .. to - from /\ from + (i - from) = i
    OBVIOUS
  <2> QED
    BY <2>1, <1>2
<1>7. IsInPlace(w, f, p, from, to)
  BY <1>4, <1>5, <1>6 DEF IsWritten, IsInPlace
<1> QED
  BY <1>1, <1>3, <1>7

LEMMA RequestsTyped ==
  /\ NoGet \in Request /\ NoGet.lm = 0
  /\ \A x \in BOOLEAN : Ask(x) \in Request /\ Ask(x).lm = 0
  /\ \A x \in BOOLEAN : Shown(x) \in Request /\ Shown(x).lm = 0
<1>1. NoGet \in Request /\ NoGet.lm = 0
  <2>1. <<>> \in Seq(Block) /\ 0 \in Nat
    OBVIOUS
  <2> QED
    BY <2>1, Zenon DEF NoGet, Request
<1>2. ASSUME NEW x \in BOOLEAN PROVE Ask(x) \in Request /\ Ask(x).lm = 0
  BY <1>1 DEF Ask, Request
<1>3. ASSUME NEW x \in BOOLEAN PROVE Shown(x) \in Request /\ Shown(x).lm = 0
  BY <1>1 DEF Shown, Request
<1> QED
  BY <1>1, <1>2, <1>3

(* A change of the file keeps the types of all it touches. *)
LEMMA ChangesTyped ==
  ASSUME TypeOK, NEW f \in Seq(Block), FileChanges(f)
  PROVE  /\ file' \in Seq(Block) /\ mtime' \in 0 .. now
         /\ get' \in Request /\ get'.lm <= mtime'
         /\ cache' \in Copy /\ cache'.lm <= mtime'
<1>1. get' \in Request /\ get'.lm = get.lm
  <2> DEFINE a == get.pc \in {"copy", "shown"}
             b == get.pc = "copy" /\ (get.again \/ now = get.lm)
  <2>1. a \in BOOLEAN /\ b \in BOOLEAN
    OBVIOUS
  <2>2. get \in Request /\ get' = [get EXCEPT !.stirred = a, !.again = b]
    BY DEF TypeOK, FileChanges
  <2> HIDE DEF a, b
  <2> QED
    BY <2>1, <2>2 DEF Request
<1>2. cache' \in Copy /\ cache'.lm = cache.lm
  <2> DEFINE c == cache.kept /\ (cache.again \/ now = cache.lm)
  <2>1. c \in BOOLEAN
    OBVIOUS
  <2>2. cache \in Copy /\ cache' = [cache EXCEPT !.again = c]
    BY DEF TypeOK, FileChanges
  <2> HIDE DEF c
  <2> QED
    BY <2>1, <2>2 DEF Copy
<1>3. get.lm \in Nat /\ cache.lm \in Nat
  BY DEF TypeOK, Request, Copy
<1> QED
  BY <1>1, <1>2, <1>3 DEF TypeOK, FileChanges

(* TypeOK holds in every state of the file server (httpd.go:36-218). *)
THEOREM HttpdTypes == Spec => []TypeOK
<1>1. Init => TypeOK
  BY DEF Init, TypeOK, NoGet, NoCopy, Request, Copy, Saving
<1>2. TypeOK /\ [Next]_vars => TypeOK'
  <2> SUFFICES ASSUME TypeOK, [Next]_vars PROVE TypeOK'
    OBVIOUS
  <2>1. CASE Main \/ Signals \/ Interrupt \/ Restart \/ Tick
    BY <2>1 DEF Main, Signals, Listens, ListenFails, ServeReturns, MainReturns, Notify,
                ShutdownReturns, Interrupt, Restart, Tick, TypeOK, disk, process, puts, browser
  <2>2. CASE Kill
    <3>1. put' \in [Puts -> {"idle", "200", "403", "500", "lost"} \cup Saving]
      BY <2>2 DEF Kill, TypeOK
    <3>2. get' \in Request /\ get'.lm <= mtime
      BY <2>2, RequestsTyped DEF Kill, TypeOK
    <3> QED
      BY <2>2, <3>1, <3>2 DEF Kill, TypeOK, disk
  <2>3. ASSUME NEW p \in Puts,
               \/ PutStart(p) \/ PutReadAll(p) \/ PutReadErr(p)
               \/ PutOpenErr(p) \/ PutDone(p) \/ PutWriteErr(p)
        PROVE  TypeOK'
    BY <2>3 DEF PutStart, PutReadAll, PutReadErr, PutOpenErr, PutDone, PutWriteErr, TypeOK,
                Saving, disk, process, puts, browser
  <2>4. ASSUME NEW p \in Puts, PutOpen(p) PROVE TypeOK'
    <3>1. FileChanges(<<>>)
      BY <2>4 DEF PutOpen, Opened
    <3>2. <<>> \in Seq(Block)
      OBVIOUS
    <3>3. /\ file' \in Seq(Block) /\ mtime' \in 0 .. now
          /\ get' \in Request /\ get'.lm <= mtime'
          /\ cache' \in Copy /\ cache'.lm <= mtime'
      BY <3>1, <3>2, ChangesTyped
    <3>4. group' \subseteq Puts /\ put' \in [Puts -> {"idle", "200", "403", "500", "lost"} \cup Saving]
      BY <2>4 DEF PutOpen, TypeOK, Saving
    <3> QED
      BY <2>4, <3>3, <3>4 DEF PutOpen, TypeOK, process
  <2>5. ASSUME NEW p \in Puts, PutWrite(p) PROVE TypeOK'
    <3>1. PICK to \in off[p] + 1 .. Len(Body[p]) :
            /\ FileChanges(WriteAt(file, off[p], SubSeq(Body[p], off[p] + 1, to)))
            /\ off' = [off EXCEPT ![p] = to]
      BY <2>5 DEF PutWrite, Written
    <3>2. off[p] \in Nat /\ file \in Seq(Block) /\ Body[p] \in Seq(Block)
      BY DEF TypeOK
    <3>3. WriteAt(file, off[p], SubSeq(Body[p], off[p] + 1, to)) \in Seq(Block)
      BY <3>2, PieceInPlace DEF IsInPlace
    <3>4. /\ file' \in Seq(Block) /\ mtime' \in 0 .. now
          /\ get' \in Request /\ get'.lm <= mtime'
          /\ cache' \in Copy /\ cache'.lm <= mtime'
      BY <3>1, <3>3, ChangesTyped
    <3>5. off' \in [Puts -> Nat] /\ \A q \in Puts : off'[q] <= Len(Body[q])
      BY <3>1, <3>2 DEF TypeOK
    <3> QED
      BY <2>5, <3>4, <3>5 DEF PutWrite, TypeOK, process
  <2>6. CASE GetStart \/ Get304 \/ GetShort \/ GetBreaks
    <3>1. get' \in Request /\ get'.lm = 0
      BY <2>6, RequestsTyped DEF GetStart, Get304, GetShort, GetBreaks, MayReuse
    <3>2. UNCHANGED <<disk, now, process, puts, cache, group>>
      BY <2>6 DEF GetStart, Get304, GetShort, GetBreaks
    <3> QED
      BY <3>1, <3>2 DEF TypeOK, disk, process, puts
  <2>7. CASE GetStat
    <3>1. get' \in Request /\ get'.lm = mtime
      <4>1. Len(file) \in Nat /\ mtime \in Nat /\ get \in Request
        BY DEF TypeOK
      <4>2. get' = [get EXCEPT !.pc = "copy", !.size = Len(file), !.lm = mtime]
        BY <2>7 DEF GetStat
      <4> QED
        BY <4>1, <4>2 DEF Request
    <3> QED
      BY <2>7, <3>1 DEF GetStat, TypeOK, disk, process, puts
  <2>8. CASE GetCopy
    <3>1. get \in Request /\ get.body \in Seq(Block) /\ file \in Seq(Block)
      BY DEF TypeOK, Request
    <3>2. file[Len(get.body) + 1] \in Block
      BY <2>8, <3>1 DEF GetCopy, AtEOF
    <3>3. Append(get.body, file[Len(get.body) + 1]) \in Seq(Block)
      BY <3>1, <3>2
    <3>4. get' \in Request /\ get'.lm = get.lm
      BY <2>8, <3>1, <3>3 DEF GetCopy, Request
    <3> QED
      BY <2>8, <3>4 DEF GetCopy, TypeOK, disk, process, puts
  <2>9. CASE GetDone
    <3>1. get.stirred \in BOOLEAN /\ get.again \in BOOLEAN
          /\ get.body \in Seq(Block) /\ get.lm \in Nat
      BY DEF TypeOK, Request
    <3>2. get' \in Request /\ get'.lm = 0
      BY <2>9, <3>1, RequestsTyped DEF GetDone
    <3>3. cache' \in Copy /\ cache'.lm = get.lm
      BY <2>9, <3>1 DEF GetDone, Copy
    <3> QED
      BY <2>9, <3>2, <3>3 DEF GetDone, TypeOK, disk, process, puts
  <2>10. CASE UNCHANGED vars
    BY <2>10 DEF vars, disk, process, puts, browser, TypeOK
  <2> QED
    BY <2>1, <2>2, <2>3, <2>4, <2>5, <2>6, <2>7, <2>8, <2>9, <2>10 DEF Next, HandlePut, HandleGet
<1> QED
  BY <1>1, <1>2, PTL DEF Spec

-----------------------------------------------------------------------------
(* From the end of Shutdown on no handler runs, because none starts while  *)
(* the listener is closed; main goes no further before it.                 *)
ExitInv ==
  sig = "done" /\ main # "killed" => NoHandler

DoneBeforeExit == main = "exited" => sig = "done"

(* No handler starts: none of what runs makes a request out of nothing.    *)
LEMMA HandlersOnlyEnd ==
  ASSUME TypeOK, [Next]_vars, NoHandler, ~Serving
  PROVE  NoHandler'
<1> USE DEF NoHandler, Saving
<1>1. CASE Main \/ Signals \/ Interrupt \/ Restart \/ Tick
  BY <1>1 DEF Main, Signals, Listens, ListenFails, ServeReturns, MainReturns, Notify,
              ShutdownReturns, Interrupt, Restart, Tick, puts, browser
<1>2. CASE Kill
  BY <1>2 DEF Kill, TypeOK, NoGet
<1>3. ASSUME NEW p \in Puts, PutStart(p) \/ HandlePut(p) PROVE FALSE
  BY <1>3 DEF PutStart, HandlePut, PutReadAll, PutReadErr, BodyCutShort, PutOpen, PutOpenErr,
              PutWrite, PutDone, PutWriteErr
<1>4. CASE GetStart \/ GetCopy \/ HandleGet \/ GetBreaks
  BY <1>4 DEF GetStart, GetCopy, Left, HandleGet, Get304, GetStat, GetDone, GetShort, CopyEnds,
              GetBreaks
<1>5. CASE UNCHANGED vars
  BY <1>5 DEF vars, puts, browser
<1> QED
  BY <1>1, <1>2, <1>3, <1>4, <1>5 DEF Next

(***************************************************************************)
(* ExitIsGraceful holds in every state: main (httpd.go:172) returns from   *)
(* <-idleConnsClosed only when every handler has returned.                 *)
(***************************************************************************)
THEOREM ExitsAreGraceful == Spec => []ExitIsGraceful
<1> DEFINE IInv == ExitInv /\ DoneBeforeExit
<1>1. Init => IInv
  BY DEF Init, ExitInv, DoneBeforeExit
<1>2. TypeOK /\ IInv /\ [Next]_vars => IInv'
  <2> SUFFICES ASSUME TypeOK, ExitInv, DoneBeforeExit, [Next]_vars PROVE IInv'
    OBVIOUS
  <2>1. CASE UNCHANGED <<main, sig>>
    <3>1. sig = "done" /\ main # "killed" => NoHandler'
      BY HandlersOnlyEnd DEF ExitInv, Serving, Accepting
    <3> QED
      BY <2>1, <3>1 DEF ExitInv, DoneBeforeExit
  <2>2. CASE ShutdownReturns
    BY <2>2 DEF ShutdownReturns, ExitInv, DoneBeforeExit, NoHandler, puts, browser
  <2>3. CASE Main
    BY <2>3 DEF Main, Listens, ListenFails, ServeReturns, MainReturns, Closed, Accepting,
                ExitInv, DoneBeforeExit, NoHandler, puts, browser
  <2>4. CASE Notify \/ Interrupt \/ Kill \/ Restart
    BY <2>4 DEF Notify, Interrupt, Kill, Restart, ExitInv, DoneBeforeExit
  <2>5. Main \/ Signals \/ Interrupt \/ Kill \/ Restart \/ UNCHANGED <<main, sig>>
    BY DEF Next, vars, process, HandlePut, PutStart, PutReadAll, PutReadErr, PutOpen, PutOpenErr,
           PutWrite, PutDone, PutWriteErr, GetStart, GetCopy, HandleGet, Get304, GetStat,
           GetDone, GetShort, GetBreaks, Tick
  <2> QED
    BY <2>1, <2>2, <2>3, <2>4, <2>5 DEF Signals
<1>3. IInv => ExitIsGraceful
  BY DEF ExitInv, DoneBeforeExit, ExitIsGraceful
<1> QED
  BY <1>1, <1>2, <1>3, HttpdTypes, PTL DEF Spec

-----------------------------------------------------------------------------
(* Who writes belongs to the group, and the only one of a group has written *)
(* all that is in the file.                                                 *)
WritersInGroup == Writers \subseteq group

OffsetsKept ==
  \A p \in Puts :
    /\ put[p] \in {"idle", "body", "stalled", "open"} => off[p] = 0
    /\ put[p] = "200" => off[p] = Len(Body[p])

AloneWhole ==
  \A p \in Puts : group = {p} =>
    Len(file) = off[p] /\ \A i \in 1 .. Len(file) : file[i] = Body[p][i]

Mixed ==
  \A i \in 1 .. Len(file) : group # {} =>
    \/ file[i] = Hole
    \/ \E p \in group : i \in 1 .. Len(Body[p]) /\ file[i] = Body[p][i]

Untouched == group = {} => file = Old

FileInv == WritersInGroup /\ OffsetsKept /\ AloneWhole /\ Mixed /\ Untouched

LEMMA OpenKeepsFile ==
  ASSUME TypeOK, FileInv, NEW p \in Puts, PutOpen(p)
  PROVE  FileInv'
<1> USE DEF FileInv
<1>1. /\ put[p] = "open" /\ put' = [put EXCEPT ![p] = "write"] /\ off' = off
      /\ file' = <<>>
      /\ group' = {p} \cup (IF Writers = {} THEN {} ELSE group)
  BY DEF PutOpen, FileChanges, Opened
<1>2. Writers' = Writers \cup {p} /\ p \notin Writers
  BY <1>1 DEF Writers, TypeOK
<1>3. WritersInGroup'
  BY <1>1, <1>2 DEF WritersInGroup
<1>4. OffsetsKept'
  BY <1>1 DEF OffsetsKept, TypeOK
<1>5. AloneWhole'
  <2>0. Len(file') = 0
    BY <1>1
  <2> SUFFICES ASSUME NEW q \in Puts, group' = {q} PROVE Len(file') = off'[q]
    BY <2>0 DEF AloneWhole
  <2>1. q = p
    BY <1>1
  <2> QED
    BY <2>0, <2>1, <1>1 DEF OffsetsKept
<1>6. Mixed' /\ Untouched'
  BY <1>1 DEF Mixed, Untouched
<1> QED
  BY <1>3, <1>4, <1>5, <1>6

LEMMA WriteKeepsFile ==
  ASSUME TypeOK, FileInv, NEW p \in Puts, PutWrite(p)
  PROVE  FileInv'
<1> USE DEF FileInv
<1>1. PICK to \in off[p] + 1 .. Len(Body[p]) :
        /\ file' = WriteAt(file, off[p], SubSeq(Body[p], off[p] + 1, to))
        /\ off' = [off EXCEPT ![p] = to]
  BY DEF PutWrite, Written, FileChanges
<1>2. put[p] = "write" /\ put' = put /\ group' = group
  BY DEF PutWrite
<1>3. off[p] \in Nat /\ file \in Seq(Block) /\ Body[p] \in Seq(Block) /\ p \in group
  BY <1>2 DEF TypeOK, WritersInGroup, Writers
<1>4. IsInPlace(file', file, p, off[p], to)
  BY <1>1, <1>3, PieceInPlace
<1>5. WritersInGroup'
  BY <1>2 DEF WritersInGroup, Writers
<1>6. OffsetsKept'
  BY <1>1, <1>2 DEF OffsetsKept, TypeOK
<1>7. AloneWhole'
  <2> SUFFICES ASSUME NEW q \in Puts, group' = {q}
               PROVE  Len(file') = off'[q] /\ \A i \in 1 .. Len(file') : file'[i] = Body[q][i]
    BY DEF AloneWhole
  <2>1. q = p /\ group = {p}
    BY <1>2, <1>3
  <2>2. Len(file) = off[p] /\ \A i \in 1 .. Len(file) : file[i] = Body[p][i]
    BY <2>1 DEF AloneWhole
  <2>3. off'[p] = to
    BY <1>1 DEF TypeOK
  <2>4. /\ Len(file') = IF Len(file) > to THEN Len(file) ELSE to
        /\ \A i \in off[p] + 1 .. to : file'[i] = Body[p][i]
        /\ \A i \in 1 .. Len(file') : i \notin off[p] + 1 .. to =>
             file'[i] = IF i <= Len(file) THEN file[i] ELSE Hole
    BY <1>4 DEF IsInPlace
  <2>5. to \in Nat /\ off[p] < to /\ Len(file') = to
    BY <1>3, <2>2, <2>4
  <2>6. ASSUME NEW i \in 1 .. Len(file') PROVE file'[i] = Body[p][i]
    <3>1. CASE i \in off[p] + 1 .. to
      BY <2>4, <3>1
    <3>2. CASE i \notin off[p] + 1 .. to
      <4>1. i \in 1 .. Len(file)
        BY <1>3, <2>2, <2>5, <3>2
      <4> QED
        BY <1>3, <2>2, <2>4, <3>2, <4>1
    <3> QED
      BY <3>1, <3>2
  <2> QED
    BY <2>1, <2>3, <2>5, <2>6
<1>8. Mixed'
  <2> SUFFICES ASSUME NEW i \in 1 .. Len(file')
               PROVE  \/ file'[i] = Hole
                      \/ \E q \in group : i \in 1 .. Len(Body[q]) /\ file'[i] = Body[q][i]
    BY <1>2 DEF Mixed
  <2>1. CASE i \in off[p] + 1 .. to
    BY <2>1, <1>3, <1>4 DEF IsInPlace
  <2>2. CASE i \notin off[p] + 1 .. to /\ i <= Len(file)
    <3>1. i \in 1 .. Len(file) /\ file'[i] = file[i]
      BY <2>2, <1>3, <1>4 DEF IsInPlace
    <3> QED
      BY <3>1, <1>3 DEF Mixed
  <2>3. CASE i \notin off[p] + 1 .. to /\ ~(i <= Len(file))
    BY <2>3, <1>4 DEF IsInPlace
  <2> QED
    BY <2>1, <2>2, <2>3
<1>9. Untouched'
  BY <1>2, <1>3 DEF Untouched
<1> QED
  BY <1>5, <1>6, <1>7, <1>8, <1>9

(***************************************************************************)
(* FileIsThePuts holds in every state: whatever the handlers of            *)
(* httpd.go:72-93 do together, fail at or are killed in, the file is made  *)
(* of the bodies that were written last.                                   *)
(***************************************************************************)
THEOREM FilesAreThePuts == Spec => []FileIsThePuts
<1>1. Init => FileInv
  BY DEF Init, FileInv, WritersInGroup, Writers, OffsetsKept, AloneWhole, Mixed, Untouched
<1>2. TypeOK /\ FileInv /\ [Next]_vars => FileInv'
  <2> SUFFICES ASSUME TypeOK, FileInv, [Next]_vars PROVE FileInv'
    OBVIOUS
  <2> DEFINE Moves ==
        \A p \in Puts : \/ put'[p] = put[p]
                        \/ put'[p] \in {"403", "500", "lost"}
                        \/ put[p] = "idle" /\ put'[p] \in {"body", "stalled"}
                        \/ put[p] = "body" /\ put'[p] = "open"
                        \/ put'[p] = "200" /\ off[p] = Len(Body[p])
  <2>1. file' = file /\ group' = group /\ off' = off /\ Moves => FileInv'
    <3> SUFFICES ASSUME file' = file, group' = group, off' = off, Moves PROVE FileInv'
      OBVIOUS
    <3>1. WritersInGroup'
      BY DEF FileInv, WritersInGroup, Writers
    <3>2. OffsetsKept'
      BY DEF FileInv, OffsetsKept
    <3>3. AloneWhole' /\ Mixed' /\ Untouched'
      <4> HIDE DEF Moves
      <4> QED
        BY DEF FileInv, AloneWhole, Mixed, Untouched
    <3> QED
      BY <3>1, <3>2, <3>3 DEF FileInv
  <2>2. ASSUME NEW p \in Puts, PutOpen(p) \/ PutWrite(p) PROVE FileInv'
    BY <2>2, OpenKeepsFile, WriteKeepsFile
  <2>3. CASE Main \/ Signals \/ Interrupt \/ Restart \/ Tick
             \/ GetStart \/ GetCopy \/ HandleGet \/ GetBreaks \/ UNCHANGED vars
    <3>1. UNCHANGED <<file, group, off, put>>
      BY <2>3 DEF Main, Signals, Listens, ListenFails, ServeReturns, MainReturns, Notify,
                  ShutdownReturns, Interrupt, Restart, Tick, GetStart, GetCopy, HandleGet, Get304,
                  GetStat, GetDone, GetShort, GetBreaks, vars, disk, puts
    <3>2. Moves
      BY <3>1
    <3> HIDE DEF Moves
    <3> QED
      BY <2>1, <3>1, <3>2
  <2>4. CASE Kill
    <3>1. Moves
      BY <2>4 DEF Kill
    <3> HIDE DEF Moves
    <3> QED
      BY <2>1, <2>4, <3>1 DEF Kill, disk
  <2>5. ASSUME NEW p \in Puts,
               \/ PutStart(p) \/ PutReadAll(p) \/ PutReadErr(p)
               \/ PutOpenErr(p) \/ PutDone(p) \/ PutWriteErr(p)
        PROVE  FileInv'
    <3>1. UNCHANGED <<file, group, off>>
      BY <2>5 DEF PutStart, PutReadAll, PutReadErr, PutOpenErr, PutDone, PutWriteErr, disk
    <3>2. \A q \in Puts \ {p} : put'[q] = put[q]
      BY <2>5 DEF PutStart, PutReadAll, PutReadErr, PutOpenErr, PutDone, PutWriteErr, TypeOK
    <3>3. \/ put'[p] \in {"403", "500"}
          \/ put[p] = "idle" /\ put'[p] \in {"body", "stalled"}
          \/ put[p] = "body" /\ put'[p] = "open"
          \/ put'[p] = "200" /\ off[p] = Len(Body[p])
      BY <2>5 DEF PutStart, PutReadAll, PutReadErr, PutOpenErr, PutDone, PutWriteErr, TypeOK
    <3>4. Moves
      BY <3>2, <3>3
    <3> HIDE DEF Moves
    <3> QED
      BY <2>1, <3>1, <3>4
  <2> QED
    BY <2>2, <2>3, <2>4, <2>5 DEF Next, HandlePut
<1>3. TypeOK /\ FileInv => FileIsThePuts
  <2> SUFFICES ASSUME TypeOK, FileInv PROVE FileIsThePuts
    OBVIOUS
  <2>1. DOMAIN file = 1 .. Len(file) /\ \A p \in Puts : DOMAIN Body[p] = 1 .. Len(Body[p])
    BY DEF TypeOK
  <2>2. ASSUME NEW p \in Puts, group = {p}
        PROVE  IsPartOf(p) /\ (put[p] = "200" => Len(file) = Len(Body[p]))
    BY <2>1, <2>2 DEF FileInv, AloneWhole, OffsetsKept, IsPartOf, TypeOK
  <2> QED
    BY <2>1, <2>2 DEF FileInv, Untouched, Mixed, FileIsThePuts, TypeOK
<1> QED
  BY <1>1, <1>2, <1>3, HttpdTypes, PTL DEF Spec

-----------------------------------------------------------------------------
(* The browser's copy is the file, or the file's time tells them apart, or  *)
(* the file has changed in the second that the copy names.                  *)
CopyKnown == cache.kept /\ ~cache.again => cache.lm < mtime \/ cache.body = file

(* An answer under way agrees with the file until that changes, and then it *)
(* names an earlier time or the same second is marked.                      *)
AnswerKnown ==
  /\ get.pc = "stat" => get.body = <<>> /\ ~get.stirred
  /\ get.pc = "copy" =>
       /\ ~get.stirred =>
            /\ Len(get.body) <= Len(file) /\ get.size = Len(file)
            /\ \A i \in 1 .. Len(get.body) : get.body[i] = file[i]
       /\ get.stirred /\ ~get.again => get.lm < mtime

ShownInv == CopyKnown /\ AnswerKnown /\ ShownIsCurrent

LEMMA ChangeKnown ==
  ASSUME TypeOK, ShownInv, NEW f, FileChanges(f)
  PROVE  ShownInv'
<1> USE DEF ShownInv
<1>1. /\ file' = f /\ mtime' = now
      /\ get' = [get EXCEPT !.stirred = get.pc \in {"copy", "shown"},
                           !.again = get.pc = "copy" /\ (get.again \/ now = get.lm)]
      /\ cache' = [cache EXCEPT !.again = cache.kept /\ (cache.again \/ now = cache.lm)]
  BY DEF FileChanges
<1>2. /\ get \in Request /\ get.lm \in Nat /\ cache \in Copy /\ cache.lm \in Nat
      /\ now \in Nat /\ mtime \in Nat /\ get.lm <= now /\ cache.lm <= now
  BY DEF TypeOK, Request, Copy
<1>3. /\ get'.pc = get.pc /\ get'.lm = get.lm /\ get'.body = get.body
      /\ get'.stirred <=> get.pc \in {"copy", "shown"}
      /\ get'.again <=> get.pc = "copy" /\ (get.again \/ now = get.lm)
  BY <1>1, <1>2 DEF Request
<1>4. /\ cache'.kept = cache.kept /\ cache'.lm = cache.lm
      /\ cache'.again <=> cache.kept /\ (cache.again \/ now = cache.lm)
  BY <1>1, <1>2 DEF Copy
<1>5. CopyKnown'
  BY <1>1, <1>2, <1>4 DEF CopyKnown
<1>6. AnswerKnown'
  BY <1>1, <1>2, <1>3 DEF AnswerKnown
<1>7. ShownIsCurrent'
  BY <1>3 DEF ShownIsCurrent
<1> QED
  BY <1>5, <1>6, <1>7

LEMMA SameBlocks ==
  ASSUME NEW s \in Seq(Block), NEW t \in Seq(Block), Len(s) = Len(t),
         \A i \in 1 .. Len(s) : s[i] = t[i]
  PROVE  s = t
OBVIOUS

LEMMA DoneKnown ==
  ASSUME TypeOK, ShownInv, GetDone
  PROVE  ShownInv'
<1> USE DEF ShownInv
<1>1. /\ get \in Request /\ get.body \in Seq(Block) /\ file \in Seq(Block)
      /\ get.lm \in Nat /\ mtime \in Nat
  BY DEF TypeOK, Request
<1>2. /\ get.pc = "copy" /\ UNCHANGED <<file, mtime>>
      /\ get'.pc = "shown" /\ get'.stirred = get.stirred
      /\ cache'.body = get.body /\ cache'.lm = get.lm /\ cache'.again = get.again
  BY DEF GetDone, CopyEnds, Shown, NoGet, disk
<1>3. ~get.stirred => get.body = file
  <2> SUFFICES ASSUME ~get.stirred PROVE get.body = file
    OBVIOUS
  <2>1. Len(get.body) = Len(file)
    BY <1>1, <1>2 DEF AnswerKnown, GetDone, CopyEnds, Left, AtEOF
  <2>2. \A i \in 1 .. Len(get.body) : get.body[i] = file[i]
    BY <1>2 DEF AnswerKnown
  <2> QED
    BY <1>1, <2>1, <2>2, SameBlocks
<1>4. CopyKnown'
  BY <1>1, <1>2, <1>3 DEF CopyKnown, AnswerKnown
<1>5. AnswerKnown' /\ ShownIsCurrent'
  BY <1>2, <1>3 DEF AnswerKnown, ShownIsCurrent
<1> QED
  BY <1>4, <1>5

(***************************************************************************)
(* ShownIsCurrent holds in every state: Last-Modified and must-revalidate  *)
(* (httpd.go:96) keep a browser from showing anything but the file, except *)
(* in the cases that the property names.                                   *)
(***************************************************************************)
THEOREM ShownPagesAreCurrent == Spec => []ShownIsCurrent
<1>1. Init => ShownInv
  BY DEF Init, NoGet, NoCopy, ShownInv, CopyKnown, AnswerKnown, ShownIsCurrent
<1>2. TypeOK /\ ShownInv /\ [Next]_vars => ShownInv'
  <2> SUFFICES ASSUME TypeOK, ShownInv, [Next]_vars PROVE ShownInv'
    OBVIOUS
  <2> USE DEF ShownInv
  <2>1. CASE UNCHANGED <<file, mtime, get, cache>>
    BY <2>1 DEF CopyKnown, AnswerKnown, ShownIsCurrent
  <2>2. ASSUME NEW p \in Puts, PutOpen(p) \/ PutWrite(p) PROVE ShownInv'
    <3>1. \E f : FileChanges(f)
      BY <2>2 DEF PutOpen, PutWrite
    <3> QED
      BY <3>1, ChangeKnown
  <2>3. CASE Kill
    <3>1. UNCHANGED <<file, mtime, cache>> /\ (get' = get \/ get'.pc = "idle")
      BY <2>3 DEF Kill, NoGet, disk
    <3> QED
      BY <3>1 DEF CopyKnown, AnswerKnown, ShownIsCurrent
  <2>4. CASE GetStart \/ GetShort \/ GetBreaks
    <3>1. /\ UNCHANGED <<file, mtime, cache>>
          /\ get'.pc \in {"idle", "stat"} /\ get'.body = <<>> /\ ~get'.stirred
      <4>1. CASE GetStart
        <5>1. PICK gz \in BOOLEAN : get' = Ask(gz)
          BY <4>1 DEF GetStart, MayReuse
        <5>2. get' = [NoGet EXCEPT !.pc = "stat", !.gz = gz]
          BY <5>1 DEF Ask
        <5>3. get'.pc = "stat" /\ get'.body = <<>> /\ get'.stirred = FALSE
          BY <5>2 DEF NoGet
        <5> QED
          BY <4>1, <5>3 DEF GetStart, disk
      <4>2. CASE GetShort \/ GetBreaks
        BY <4>2 DEF GetShort, GetBreaks, NoGet, disk
      <4> QED
        BY <2>4, <4>1, <4>2
    <3> QED
      BY <3>1 DEF CopyKnown, AnswerKnown, ShownIsCurrent
  <2>5. CASE Get304
    <3>1. UNCHANGED <<file, mtime, cache>> /\ get'.pc = "shown" /\ NotModified
      BY <2>5 DEF Get304, Shown, NoGet, disk
    <3>2. cache.lm \in Nat /\ mtime \in Nat
      BY DEF TypeOK, Copy
    <3> QED
      BY <3>1, <3>2 DEF NotModified, CopyKnown, AnswerKnown, ShownIsCurrent
  <2>6. CASE GetStat
    <3>1. /\ UNCHANGED <<file, mtime, cache>> /\ get \in Request /\ get.pc = "stat"
          /\ get' = [get EXCEPT !.pc = "copy", !.size = Len(file), !.lm = mtime]
      BY <2>6 DEF GetStat, TypeOK, disk
    <3>2. /\ get'.pc = "copy" /\ get'.size = Len(file) /\ get'.body = get.body
          /\ get'.stirred = get.stirred
      BY <3>1 DEF Request
    <3>3. file \in Seq(Block) /\ get'.body = <<>> /\ ~get'.stirred
      BY <3>1, <3>2 DEF AnswerKnown, TypeOK
    <3>4. AnswerKnown'
      BY <3>1, <3>2, <3>3 DEF AnswerKnown
    <3> QED
      BY <3>1, <3>2, <3>4 DEF CopyKnown, ShownIsCurrent
  <2>7. CASE GetCopy
    <3>1. /\ UNCHANGED <<file, mtime, cache>> /\ get \in Request /\ get.pc = "copy"
          /\ get' = [get EXCEPT !.body = Append(get.body, file[Len(get.body) + 1])]
          /\ Len(get.body) < get.size /\ ~(Len(get.body) >= Len(file))
      BY <2>7 DEF GetCopy, Left, AtEOF, TypeOK, disk
    <3>2. file \in Seq(Block) /\ get.body \in Seq(Block) /\ get.size \in Nat
      BY <3>1 DEF TypeOK, Request
    <3>3. /\ get'.pc = "copy" /\ get'.size = get.size /\ get'.lm = get.lm
          /\ get'.stirred = get.stirred /\ get'.again = get.again
          /\ get'.body = Append(get.body, file[Len(get.body) + 1])
      BY <3>1 DEF Request
    <3>4. file[Len(get.body) + 1] \in Block
      BY <3>1, <3>2
    <3>5. /\ Len(get'.body) = Len(get.body) + 1
          /\ \A i \in 1 .. Len(get.body) : get'.body[i] = get.body[i]
          /\ get'.body[Len(get.body) + 1] = file[Len(get.body) + 1]
      BY <3>2, <3>3, <3>4
    <3>6. AnswerKnown'
      BY <3>1, <3>2, <3>3, <3>5 DEF AnswerKnown
    <3> QED
      BY <3>1, <3>3, <3>6 DEF CopyKnown, ShownIsCurrent
  <2>8. CASE GetDone
    BY <2>8, DoneKnown
  <2>9. \/ UNCHANGED <<file, mtime, get, cache>>
        \/ \E p \in Puts : PutOpen(p) \/ PutWrite(p)
        \/ Kill \/ GetStart \/ GetShort \/ GetBreaks \/ Get304 \/ GetStat \/ GetCopy
        \/ GetDone
    BY DEF Next, Main, Signals, Listens, ListenFails, ServeReturns, MainReturns, Notify,
           ShutdownReturns, Interrupt, Restart, Tick, HandlePut, PutStart, PutReadAll, PutReadErr,
           PutOpenErr, PutDone, PutWriteErr, HandleGet, vars, disk, browser
  <2> QED
    BY <2>1, <2>2, <2>3, <2>4, <2>5, <2>6, <2>7, <2>8, <2>9
<1>3. ShownInv => ShownIsCurrent
  BY DEF ShownInv
<1> QED
  BY <1>1, <1>2, <1>3, HttpdTypes, PTL DEF Spec

=============================================================================
