------------------------------- MODULE Httpd -------------------------------
(***************************************************************************)
(* network/httpd.go: the file server that lets a browser save the page it  *)
(* has loaded.  The handlers of several PUTs write one file, a browser     *)
(* with a cache reads it, main and the signal goroutine shut the server    *)
(* down, and the process may be killed and started again at any time.      *)
(*                                                                         *)
(* The file is a sequence of blocks; time counts in seconds, because that  *)
(* is what Last-Modified and If-Modified-Since resolve.                    *)
(***************************************************************************)
EXTENDS Integers, Sequences, FiniteSets

CONSTANTS
  Puts,     \* PUT requests
  Block,    \* what files are made of
  Body,     \* the blocks of each one's body
  Urls,     \* the paths they may be sent to
  AllowFp,  \* those that -f maps to the file (by default two of them do)
  Old,      \* the file before the first PUT
  Hole,     \* a block of zeros, where a file was written past its end
  MaxSec    \* the bound on the clock

ASSUME HttpdAssumption ==
  /\ Body \in [Puts -> Seq(Block)]
  /\ Old \in Seq(Block) /\ Hole \in Block
  /\ AllowFp \subseteq Urls
  /\ MaxSec \in Nat

VARIABLES
  file, mtime, now,  \* the disk
  main, sig,         \* the process: main and the signal goroutine
  put, off,          \* each PUT's handler, and how much it has written
  get, cache,        \* the browser's request, and the copy it keeps
  group              \* history: the PUTs that wrote the file together

disk == <<file, mtime>>
process == <<main, sig>>
puts == <<put, off>>
browser == <<get, cache>>
vars == <<disk, now, process, puts, browser, group>>

NoGet == [pc |-> "idle", gz |-> FALSE, size |-> 0, lm |-> 0, body |-> <<>>,
          stirred |-> FALSE, again |-> FALSE]
NoCopy == [kept |-> FALSE, body |-> <<>>, lm |-> 0, again |-> FALSE]
Saving == {"body", "stalled", "open", "write"}
Writers == {p \in Puts : put[p] = "write"}
NoHandler == (\A p \in Puts : put[p] \notin Saving) /\ get.pc \notin {"stat", "copy"}

Init ==
  /\ file = Old /\ mtime = 0 /\ now = 0
  /\ main = "listen" /\ sig = "start"
  /\ put = [p \in Puts |-> "idle"] /\ off = [p \in Puts |-> 0]
  /\ get = NoGet /\ cache = NoCopy
  /\ group = {}

-----------------------------------------------------------------------------
(* main and the signal goroutine *)

(* signal.Notify: from here on an interrupt does not kill the process. *)
Notify ==
  /\ main \notin {"exited", "killed"} /\ sig = "start"
  /\ sig' = "wait"
  /\ UNCHANGED <<disk, now, main, puts, browser, group>>

(* The goroutine calls Shutdown: no listening and no request from here on. *)
Interrupt ==
  /\ main \notin {"exited", "killed"} /\ sig = "wait"
  /\ sig' = "shutdown"
  /\ UNCHANGED <<disk, now, main, puts, browser, group>>

(* Shutdown returns once no handler runs; close(idleConnsClosed). *)
ShutdownReturns ==
  /\ main \notin {"exited", "killed"} /\ sig = "shutdown"
  /\ NoHandler
  /\ sig' = "done"
  /\ UNCHANGED <<disk, now, main, puts, browser, group>>

Accepting == sig \in {"start", "wait"}

Listens ==
  /\ main = "listen" /\ Accepting
  /\ main' = "serve"
  /\ UNCHANGED <<disk, now, sig, puts, browser, group>>

(* The port is taken, the certificate does not load, or Shutdown came first: *)
(* but for the log, startServer returns alike.                               *)
ListenFails ==
  /\ main = "listen"
  /\ main' = "wait"
  /\ UNCHANGED <<disk, now, sig, puts, browser, group>>

(* ErrServerClosed, at the beginning of Shutdown. *)
ServeReturns ==
  /\ main = "serve" /\ ~Accepting
  /\ main' = "wait"
  /\ UNCHANGED <<disk, now, sig, puts, browser, group>>

M_NoChannel == main = "wait"

(* <-idleConnsClosed *)
Closed == main = "wait" /\ sig = "done"

MainReturns ==
  /\ Closed
  /\ main' = "exited"
  /\ UNCHANGED <<disk, now, sig, puts, browser, group>>

(* Any other signal, a crash, or an interrupt before Notify. *)
Kill ==
  /\ main \notin {"exited", "killed"}
  /\ main' = "killed"
  /\ put' = [p \in Puts |-> IF put[p] \in Saving THEN "lost" ELSE put[p]]
  /\ get' = IF get.pc = "shown" THEN get ELSE NoGet
  /\ UNCHANGED <<disk, now, sig, off, cache, group>>

Restart ==
  /\ main \in {"exited", "killed"}
  /\ main' = "listen" /\ sig' = "start"
  /\ UNCHANGED <<disk, now, puts, browser, group>>

Serving == main = "serve" /\ Accepting

-----------------------------------------------------------------------------
(* The file changes: stirred and again are history, and remember it for    *)
(* the request that is under way and for the copy in the cache.            *)
FileChanges(f) ==
  /\ file' = f
  /\ mtime' = now
  /\ get' = [get EXCEPT !.stirred = get.pc \in {"copy", "shown"},
                        !.again = get.pc = "copy" /\ (@ \/ now = get.lm)]
  /\ cache' = [cache EXCEPT !.again = cache.kept /\ (@ \/ now = cache.lm)]

(* write(2) at an offset *)
WriteAt(f, at, s) ==
  LET end == at + Len(s)
  IN  [i \in 1 .. (IF Len(f) > end THEN Len(f) ELSE end) |->
         IF i \in at + 1 .. end THEN s[i - at]
         ELSE IF i <= Len(f) THEN f[i] ELSE Hole]

(* The handler of a PUT, from its request line to its answer *)

(* The client of an allowed PUT sends its body, or stops in the middle. *)
PutStart(p) ==
  /\ Serving /\ put[p] = "idle"
  /\ \E u \in Urls :
       put' \in {[put EXCEPT ![p] = pc] :
                   pc \in IF u \in AllowFp THEN {"body", "stalled"} ELSE {"403"}}
  /\ UNCHANGED <<disk, now, process, off, browser, group>>

(* ioutil.ReadAll *)
PutReadAll(p) ==
  /\ put[p] = "body"
  /\ put' = [put EXCEPT ![p] = "open"]
  /\ UNCHANGED <<disk, now, process, off, browser, group>>

M_NoReadTimeout(p) == put[p] = "body"

(* The client is gone, or ReadTimeout is over. *)
BodyCutShort(p) == put[p] \in {"body", "stalled"}

PutReadErr(p) ==
  /\ BodyCutShort(p)
  /\ put' = [put EXCEPT ![p] = "500"]
  /\ UNCHANGED <<disk, now, process, off, browser, group>>

M_NoTrunc(f) == f

(* What WriteFile's open (O_TRUNC) makes of a file *)
Opened(f) == <<>>

(* WriteFile opens the file: those who write it at that time mix with it. *)
PutOpen(p) ==
  /\ put[p] = "open"
  /\ put' = [put EXCEPT ![p] = "write"]
  /\ FileChanges(Opened(file))
  /\ group' = {p} \cup (IF Writers = {} THEN {} ELSE group)
  /\ UNCHANGED <<now, process, off>>

PutOpenErr(p) ==
  /\ put[p] = "open"
  /\ put' = [put EXCEPT ![p] = "500"]
  /\ UNCHANGED <<disk, now, process, off, browser, group>>

M_AddsTotal(p, to) == off[p] + to

Written(p, to) == to

(* A write(2) writes some of the rest. *)
PutWrite(p) ==
  /\ put[p] = "write" /\ off[p] < Len(Body[p])
  /\ \E to \in off[p] + 1 .. Len(Body[p]) :
       /\ FileChanges(WriteAt(file, off[p], SubSeq(Body[p], off[p] + 1, to)))
       /\ off' = [off EXCEPT ![p] = Written(p, to)]
  /\ UNCHANGED <<now, process, put, group>>

PutDone(p) ==
  /\ put[p] = "write" /\ off[p] = Len(Body[p])
  /\ put' = [put EXCEPT ![p] = "200"]
  /\ UNCHANGED <<disk, now, process, off, browser, group>>

(* The disk is full, or the close fails. *)
PutWriteErr(p) ==
  /\ put[p] = "write"
  /\ put' = [put EXCEPT ![p] = "500"]
  /\ UNCHANGED <<disk, now, process, off, browser, group>>

-----------------------------------------------------------------------------
(* A browser loads the page *)

M_Reuses == cache.kept

(* Cache-Control: no-cache, max-age=0, must-revalidate *)
MayReuse == FALSE

Ask(gz) == [NoGet EXCEPT !.pc = "stat", !.gz = gz]
Shown(stirred) == [NoGet EXCEPT !.pc = "shown", !.stirred = stirred]

(* The browser asks, naming its copy's Last-Modified. *)
GetStart ==
  /\ Serving /\ get.pc \in {"idle", "shown"}
  /\ get' \in {Ask(gz) : gz \in BOOLEAN}
              \cup (IF MayReuse THEN {Shown(FALSE)} ELSE {})
  /\ UNCHANGED <<disk, now, process, puts, cache, group>>

NotModified == cache.kept /\ mtime <= cache.lm

(* 304: the browser shows its copy. *)
Get304 ==
  /\ get.pc = "stat" /\ NotModified
  /\ get' = Shown(FALSE)
  /\ UNCHANGED <<disk, now, process, puts, cache, group>>

(* Open and Stat fix the size and the time that the answer names. *)
GetStat ==
  /\ get.pc = "stat" /\ ~NotModified
  /\ get' = [get EXCEPT !.pc = "copy", !.size = Len(file), !.lm = mtime]
  /\ UNCHANGED <<disk, now, process, puts, cache, group>>

Left == get.pc = "copy" /\ Len(get.body) < get.size
AtEOF == Len(get.body) >= Len(file)

(* The client takes what CopyN has read. *)
GetCopy ==
  /\ Left /\ ~AtEOF
  /\ get' = [get EXCEPT !.body = Append(@, file[Len(@) + 1])]
  /\ UNCHANGED <<disk, now, process, puts, cache, group>>

CopyEnds == get.pc = "copy" /\ (~Left \/ AtEOF)

(* The answer carries a Content-Length, which TryGzipResponse takes away: *)
(* without it a short answer looks complete.                              *)
LooksComplete == get.gz \/ Len(get.body) = get.size

GetDone ==
  /\ CopyEnds
  /\ LooksComplete
  /\ get' = Shown(get.stirred)
  /\ cache' = [kept |-> TRUE, body |-> get.body, lm |-> get.lm, again |-> get.again]
  /\ UNCHANGED <<disk, now, process, puts, group>>

(* The connection is closed before Content-Length: the browser discards. *)
GetShort ==
  /\ CopyEnds
  /\ ~LooksComplete
  /\ get' = NoGet
  /\ UNCHANGED <<disk, now, process, puts, cache, group>>

(* The client leaves. *)
GetBreaks ==
  /\ get.pc \in {"stat", "copy"}
  /\ get' = NoGet
  /\ UNCHANGED <<disk, now, process, puts, cache, group>>

-----------------------------------------------------------------------------
Tick ==
  /\ now < MaxSec
  /\ now' = now + 1
  /\ UNCHANGED <<disk, process, puts, browser, group>>

HandlePut(p) ==
  \/ PutReadAll(p) \/ PutReadErr(p)
  \/ PutOpen(p) \/ PutOpenErr(p)
  \/ PutWrite(p) \/ PutDone(p) \/ PutWriteErr(p)

HandleGet == Get304 \/ GetStat \/ GetDone \/ GetShort

Main == Listens \/ ListenFails \/ ServeReturns \/ MainReturns
Signals == Notify \/ ShutdownReturns

Next ==
  \/ Main \/ Signals \/ Interrupt
  \/ Kill \/ Restart
  \/ (\E p \in Puts : PutStart(p) \/ HandlePut(p))
  \/ GetStart \/ GetCopy \/ HandleGet \/ GetBreaks
  \/ Tick

Spec == Init /\ [][Next]_vars

(***************************************************************************)
(* The goroutines run, and ReadTimeout ends a body that stops.  No         *)
(* request, no interrupt and no kill need happen, and nothing obliges a    *)
(* client to take an answer: there is no WriteTimeout by default.          *)
(***************************************************************************)
FairSpec ==
  /\ Spec
  /\ WF_vars(Main)
  /\ WF_vars(Signals)
  /\ \A p \in Puts : WF_vars(HandlePut(p))
  /\ WF_vars(HandleGet)

-----------------------------------------------------------------------------
Request == [pc : {"idle", "stat", "copy", "shown"}, gz : BOOLEAN, size : Nat,
            lm : Nat, body : Seq(Block), stirred : BOOLEAN, again : BOOLEAN]
Copy == [kept : BOOLEAN, body : Seq(Block), lm : Nat, again : BOOLEAN]

(* The type invariant; no time is ahead of the clock. *)
TypeOK ==
  /\ file \in Seq(Block) /\ now \in 0 .. MaxSec /\ mtime \in 0 .. now
  /\ main \in {"listen", "serve", "wait", "exited", "killed"}
  /\ sig \in {"start", "wait", "shutdown", "done"}
  /\ put \in [Puts -> {"idle", "200", "403", "500", "lost"} \cup Saving]
  /\ off \in [Puts -> Nat] /\ \A p \in Puts : off[p] <= Len(Body[p])
  /\ get \in Request /\ get.lm <= mtime
  /\ cache \in Copy /\ cache.lm <= mtime
  /\ group \subseteq Puts

(* The file is the beginning of what a PUT saves. *)
IsPartOf(p) == Len(file) <= Len(Body[p]) /\ \A i \in DOMAIN file : file[i] = Body[p][i]

(***************************************************************************)
(* What is on the disk comes from the PUTs that wrote last: alone, a PUT   *)
(* leaves a prefix of its body, whatever failed or was killed, and all of  *)
(* it, nothing else, if it was answered 200; PUTs that wrote together mix  *)
(* block by block, and none that went before them shows through.           *)
(***************************************************************************)
FileIsThePuts ==
  /\ group = {} => file = Old
  /\ \A p \in Puts : group = {p} =>
       /\ IsPartOf(p)
       /\ put[p] = "200" => Len(file) = Len(Body[p])
  /\ \A i \in DOMAIN file : group # {} =>
       \/ file[i] = Hole
       \/ \E p \in group : i \in DOMAIN Body[p] /\ file[i] = Body[p][i]

(***************************************************************************)
(* A page the browser shows is the file, whether the answer was 200 or     *)
(* 304, unless the file has changed since it was looked at, or changed     *)
(* once more in the very second that the copy's Last-Modified names.       *)
(***************************************************************************)
ShownIsCurrent ==
  get.pc = "shown" /\ ~get.stirred => cache.again \/ cache.body = file

(***************************************************************************)
(* When main returns after an interrupt, no handler is running: no save is *)
(* cut off in the middle.                                                  *)
(***************************************************************************)
ExitIsGraceful == main = "exited" => NoHandler

ClientTakesAnswer == WF_vars(GetCopy)

(***************************************************************************)
(* An interrupt ends the program, also when it never came to listen, and   *)
(* whatever becomes of the PUTs, provided that whoever loads the page      *)
(* takes the answer.                                                       *)
(***************************************************************************)
InterruptEnds ==
  ClientTakesAnswer => (sig = "shutdown" ~> main \in {"exited", "killed"})

=============================================================================
