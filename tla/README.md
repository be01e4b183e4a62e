# Verification of go-smalltools

TLA+ models of the programs of this repository, the TLC runs that check them on
small instances, and TLAPS proofs of the properties that matter most.

## 1. Inventory

The repository is a collection of independent Go programs.  None has tests.

| Program | State it keeps | Operations | What is hard | What makes it correct |
|---|---|---|---|---|
| the relay: `cp` / `handleClient` in socks, jmp, raw2socks, redir2socks, httpproxy | two connections, two copying goroutines, two die channels, the shared pool `copyBuf` | Get, Read, Write, EOF, error, close(die), Put; select; Close p2, Close p1 | two goroutines, the handler and two peers interleave; half-close; blocked writers; closing with data unread | bytes arrive in order, exactly once; buffers exclusive; an ended tunnel leaves nothing behind |
| `upswdt.go` power watchdog | `ok`, `pwdTmr`, running timers | ping list, HTTP list, WAIT (arm or stop), sleep, poweroff | timers overwritten while running; failing commands | powers off in a lasting outage, and only then |
| `bruteforce/base.go` | `input`, channel `ch`, channel `end`, workers' jobs | enumerate and send, take, hash, endCh | check-then-close by several goroutines; keys left in the channel | the whole range is tried, once; the program ends |
| `socks.go` SOCKS5 server | connection, `b`, `n` | greeting, request, dial, reply, tunnel | one Read per message; stale bytes in `b`; slice panics | dials what was asked, replies once |
| `raw2socks.go`, `redir2socks.go` SOCKS5 clients | connection pair, `b[10]`, `socksReq` | dial, greeting, request, reply, tunnel | one Read per message; p2 left open on a failure | tunnels only what was granted, hands over the stream at the right byte |
| `jmp.go` and its `SpeedCtrl` | byte counts, baselines `rxt/rx0`, `die`, `dieLock` | Read, Write, Close, Set*Spd | sleep in the copier's loop, a lock that stays locked | no period exceeds its due by more than two chunks; Close wakes the sleepers |
| `echo.go` | one connection, two copiers on it | as the relay, with p1 = p2 | two goroutines read and write one connection; one ends while the other holds a chunk | every byte comes back once, in order for whoever waits |
| `httpproxy.go` | connection, `b`, `n` | first line, dial, reply or forward, tunnel | the first Read may lack the newline, or hold less or more than the head | the target gets the request once and in order, a CONNECT one answer |
| `httpd.go` | files under `dir`, the allow list, the signal goroutine, `idleConnsClosed` | GET, PUT, HEAD, OPTIONS, interrupt, Shutdown | concurrent PUTs and GETs of one file, failing and killed PUTs, caches, a shutdown that waits | the file is what the last PUTs wrote, a page shown is the file, an interrupt ends the program and cuts off no save |
| `collectd-exec/main.go` | one `TraceHttp` for all requests | httptrace callbacks, Get, PutVal | callbacks of racing dials and of redirects overwrite one another; silent servers | what is printed was measured, and a failure is unknown; reports go on |
| `sysinfo.go` | `last`, `delta` of CPU and network counters, the round counter | Update, print | CPUs and devices that come and go, unreadable files, division by a difference | difference = traffic of the interval; no division by zero |
| `bin/findhex.go`, `bin/patchbin.go` | none | find, patch | overlapping matches | all non-overlapping matches reported |

Interaction: `raw2socks` and `redir2socks` are clients of `socks.go` (or of any
SOCKS5 server) over TCP; all proxies end in the same relay; `jmp.go` may put a
`SpeedCtrl` between its relay and the client.  The other programs stand alone and
meet only the kernel, the network and other machines.  The hazards of the code,
each at its line, are listed in `PROJECT.json`.

## 2. Modules and the code

| Module | Code | What it is |
|---|---|---|
| `BytePipe` | what a relay promises of one direction | abstract specification: the receiver has a prefix of what was sent |
| `Tunnel`, `MCTunnel` | `handleClient`/`cp` (socks.go:93-119) | both copiers, handler, pool, two sockets, two peers |
| `TunnelProofs` | | six theorems about `Tunnel` |
| `TcpWire` | a TCP connection between a client and a server | external; reads return any part of what was sent, either side may shut down or leave |
| `ProxyTunnel` | socks.go:93-119 and 180-187, httpproxy.go:92-118 | what a connection of both proxies ends in: the tunnel and its target |
| `SocksServer` | socks.go:36-119 | one connection of the server |
| `SocksClient` | raw2socks.go:33-121, redir2socks.go:159-203 | one connection of either client |
| `SocksChain`, `MCSocksChain` | both programs together | composition; `BytePipe` end to end |
| `HttpProxy` | httpproxy.go:39-90 | one connection of the HTTP proxy up to its tunnel |
| `Echo` | echo.go:41-83 | one connection of the echo server |
| `AnyClient`, `MCAnyClient` | socks.go, httpproxy.go and echo.go with some client | composition with a client that keeps to the protocol but may ask for anything, and go at any moment |
| `NetworkProofs` | | eight theorems about `AnyClient` and `SocksChain`, and so about every proxy and client |
| `Httpd`, `MCHttpd` | httpd.go:36-279 | PUTs, a browser with its cache, the disk, main and the signal goroutine, kills and restarts |
| `HttpdProofs` | | four theorems about `Httpd` |
| `SpeedCtrl`, `SpeedProofs` | jmp.go:82-275 | the limiter, its callers and closers, proxyConn closing the connection below, discrete time |
| `Watchdog`, `WatchdogProofs` | upswdt.go | main loop, ping and HTTP lists, all timers, discrete time |
| `BruteForce`, `BruteForceProofs` | bruteforce/base.go | main, workers, channel, shutdown |
| `TraceHttp`, `TraceProofs` | collectd-exec/main.go | main, callbacks, net/http around them |
| `Sysinfo`, `MCSysinfo`, `SysinfoProofs` | sysinfo.go | main loop, samples, maps; the kernel around it |

Conventions.  A variable has the name of the variable of the code where there is
one; a program counter (`pc`, `spc`, `wpc`, ...) names the statement a goroutine is
at.  An action is what a goroutine does between two points at which another one can
intervene: a call of the kernel, a channel operation, a lock.  Variables marked
"history" in their comment are not in the code; no guard of the modelled code reads
them.  Operators named `M_...` are wrong variants of the definition after them: put
in its place each makes one property fail, which shows that the property can tell.

Abstractions, by module:

* `Tunnel`: a socket is what is on its way (`rcv`, `wire`), whether it is open and
  whether it is broken.  `io.CopyBuffer` is read, write until all is written or an
  error, repeat.  On Linux Go may splice instead of using the buffer; the order of
  reads and writes is the same.  Closing with data unread breaks the connection, as
  the kernel's reset does.
* `SocksServer`, `SocksClient`: bytes are real where the code computes with them
  (lengths, types, ports); the tunnel is taken by what `Tunnel` promises.  `whole`,
  chosen once, says whether every Read finds all that was sent or any part of it.
  p2 of a failed client is closed by the garbage collector (`Finalize`).
* `HttpProxy`: a request line is a byte for the method, one for the URL and the
  newline; what `fmt.Sscanf` and `net/url` make of it is a table.
* `Echo`: Go's Write holds the connection's write lock until all is written, so a chunk
  stays together; the buffers are those of `Tunnel`.
* `AnyClient`: Reads may cut up SOCKS messages (unless `whole`) and HTTP heads alike; which property
  claims nothing of a SOCKS message that is cut up, says so (`CutUp`, `OneReadIsEnough`).
* `ProxyTunnel`, `Echo`, `SocksClient`: a Write into a live connection may block for ever, if nobody
  reads at the other end; such a step is in the model and its fairness is a premise, named for
  the one who reads, of the properties that need it.
* `Httpd`: a file is a sequence of blocks, a write(2) puts some of them at the
  handler's offset (a file truncated by another handler gets a hole); time counts in
  seconds, as Last-Modified does.  The answer of `http.FileServer` is Stat, then a copy of at
  most that size.  One browser with one cached page stands for all, as GETs do not disturb
  each other.
* `SpeedCtrl`: a unit of time is what the limit grants one byte, so the rounding of
  the float arithmetic is left out.  The setters are in `Init` (proxyConn calls
  them before the copiers start).
* `Watchdog`: time passes only in attempts and in the sleep.
* `BruteForce`: at most one key has the wanted hash.
* `TraceHttp`: moments are kept as ages; an access of two goroutines to one field is
  atomic (on a 64-bit machine `time.Since` uses one word of the moment).  A losing dial is not
  waited for and may call back during the next URL (`stale`).  A URL may be one that
  `http.NewRequest` cannot parse (`panic`).
* `Sysinfo`: ten CPU counters become two sums, Rx and Tx one counter; a sample is
  taken at one moment, but may hold some of the devices only (the loop breaks off at a line it
  cannot read, sysinfo.go:385 and 392); CPU values from 2^63 on do not occur.  Every CPU that is online for a
  whole interval has counted in it, which takes a `-t` well above the 10 ms of /proc/stat.

## 3. What the runs check

| Run | Instance | Shows |
|---|---|---|
| `tunnel` | client sends 2 bytes, server 1, reads of up to 2, a wire of 2, 2 buffers | in every interleaving of peers, copiers and handler: `StreamIntegrity`, `BufferExclusive`, `EofCompletes`, `EndsForCause`, both directions implement `BytePipe`; an ended tunnel is reaped and, if the peers read, a FIN ends it (`TunnelReaped`); what was sent before it arrives (`GracefulDelivery`) |
| `chain` | a name, an IPv4 and an IPv6 address, both clients, whole and cut-up reads, 2 bytes each way | `HandshakeAgrees`: the server dials what was asked (whole reads), the client tunnels only what was granted; `EndToEnd`: the application gets the target's bytes and nothing else, the target the application's (whole reads); `SessionEnds`: handshakes come to an end, a grant is used, sessions are released if the target reads |
| `chain_dial` | the same | **violated**: a request in two segments makes the server dial something else |
| `any_client` | SOCKS, with Reads that find messages whole or cut up: greetings of 1 and 3 methods and of SOCKS4; CONNECT to an IPv4 address, a name and a wrong type, and BIND; HTTP: CONNECT and GET of URLs with and without port, IPv6, unparsable, heads and first lines longer than the array (5); echo: chunks of up to 2; 3 bytes from the client, 2 from the target | if messages arrive whole (SOCKS) or cut up (HTTP): one answer, and a fitting one (`AnswersFit`), and the right target gets the right bytes, also if the client leaves after its greeting (`TargetIsServed`); a panic takes a Read that does not hold the SOCKS message or the HTTP first line (`ServerSurvives`); every byte is echoed or still held (`EchoReturns`); nothing is kept for a client that has gone, unless a Write blocks (`LeavingReleases`) |
| `speed` | one limited direction, two closers, chunks of up to 2, 8 bytes, 7 ticks | `RateKept`, `DieClosedOnce`, `CloseEndsCalls` |
| `watchdog` | 2 ping hosts of 0-1 ticks, 1 URL of up to 2, interval 2, limit 7, commands may fail | a single failed cycle is spared, an outage never outlasts a cycle and the limit, a network that stays down powers off |
| `watchdog_recovered` | the same | **violated**: an orphaned timer powers off after the network is back |
| `brute_search` | 2 workers, keys of 0 to 2 digits, base 2 | `KeysTried` (each key once, none missed but the last few), `PanicOnlyAtTheEnd`, `Ends` |
| `brute_range` | the same | **violated**: a search can end with keys of the range untried |
| `trace` | 2 racing dials, 2 hops, dial timeout 2, ages up to 3 | `TimesHonest` (Connect is no more than a dial took that has called back since `zero()`; the total of a failed request is unknown, another's no less than its TTFB), `KeepsReporting` |
| `httpd` | a PUT of 1 block and one of 2 on a page of 2, an allowed URL and another, 2 seconds, any number of GETs, interrupts, kills and restarts | `FileIsThePuts`, `ShownIsCurrent`, `ExitIsGraceful`, `InterruptEnds` |
| `sysinfo` | all CPUs and one CPU, one device, two-bit counters, up to 3 rounds | `DeltaIsTraffic`, `RatesSane` |

All runs but `any_client` and the three that are violated also check a type invariant (`TypeOK`).

Bounds.  *Tunnel*: two bytes one way are the fewest with which a short read, a
partial write and an overtaking can be told apart, one byte the other way keeps both
copiers busy; the wire fills up, so Write blocks; the second connection of the
process is represented by the pool, which other tunnels would use.  *Chain*: the
buffer holds 24 bytes, more than the longest message (22), as 1024 does; the data
begin with 5, a byte a handshake could mistake for its own.  *Any client*: the longest SOCKS message has 10 bytes (the
22 of IPv6 can be cut up in too many ways; `chain` has them); heads of 2 to 6
bytes around an array of 5 give a head that fits, one that does not, and a first line that does
not; three bytes and chunks of up to two let two copiers hold a chunk each while a third is read.  *Speed*: with chunks of
2 and a unit rate a sleep lasts up to 4 ticks, and 7 ticks hold a sleep, an idle
time and a burst.  *Watchdog*: the limit 7 is longer than a cycle of at most 6, so that
timers of two cycles overlap.  *Brute force*: base 2 and lengths 0 to 2 contain every
kind of carry and both length changes; the channel has as many places as there are
workers, as in the code.  *Trace*: two hops are the fewest with a redirect and a kept
connection; a dial can be older than the other by 0, 1 or 2.  *Sysinfo*: three
rounds are the fewest in which a difference is written over; a device that comes back
counts from 0, so the subtraction wraps.  *Httpd*: a save shorter than the other and than the old
page leaves a tail if anything does not truncate, two blocks make a partial write, two
PUTs overlap and mix; each PUT is sent once, but the server may be killed and started again
between, during and after them; two seconds tell a change in the same second from a later one.

Fairness.  Goroutines that can run are run (weak fairness of each copier, the
handler, main, each worker, each closer): the Go scheduler is preemptive and no
runnable goroutine waits for ever.  Timers fire and time passes (`Watchdog`,
`TraceHttp`).  In `SocksChain` each program takes steps up to its tunnel, a dial ends, and the runtime
finalizes what is unreachable.  In `SpeedCtrl` a call on a closed connection fails, and time
need not pass: after Close the sleepers must not depend on it.  In `AnyClient` the goroutines of the proxies
run up to their tunnel, those of the echo server but for a Write to a live connection, and a dial ends.  What is
written before a tunnel begins is at most a few hundred bytes and fits the kernel's buffers; in a tunnel
and in the echo a Write waits for whoever is to read.  In `Httpd` main, the signal
goroutine and the handlers run and `ReadTimeout` (5 s by default) ends a body that stops; with
`-rt 0` it would not.  The specifications assume nothing of peers, clients, targets, networks
and servers; where a property needs them to act, its statement says so
(`PeersRead` in `TunnelReaped` and `GracefulDelivery`, `TargetTakes` in `SessionEnds`, `TargetReads`
and `ClientReads` in `LeavingReleases`, the disjunct of
`KeepsReporting` for silent servers and URLs that do not parse, the premises of `GrantIsUsed` and
`NoNetworkPowersOff`, and `ClientTakesAnswer` in `InterruptEnds`: there is no `WriteTimeout`
by default, so whoever does not read an answer holds Shutdown up).

Runs that allow deadlock (`CHECK_DEADLOCK FALSE`) are those of programs that end, or
whose clock is bounded; `trace` and `httpd` are checked for deadlock.

## 4. What was found

* `socks.go:69`: one Read is taken for one request; cut up by TCP, the request dials
  another address (`chain_dial`).
* `upswdt.go:67`: a failed cycle replaces the timer without stopping it; after the
  network has recovered the orphan still powers the machine off
  (`watchdog_recovered`).
* `bruteforce/base.go:79`: the last keys may be dropped from the channel untested
  (`brute_range`).  At most as many as there are workers (`KeysTried`).

Met while modelling, without a run of their own:

* upswdt's flag `pdr` defaults to -1, never power off; its help text (upswdt.go:27)
  says 30 minutes.
* base.go: if a worker finds the key just after main has put in the last one, both
  close `end` and the program panics; `PanicOnlyAtTheEnd` shows that it takes that.
* `collectd-exec/main.go:204`: two racing dials share `th.connect`; a second ConnectStart just
  before the first dial is done makes Connect too short (README line 6: "almost equal to TCP
  handshake time"), though never longer than some dial took.
* `collectd-exec/main.go:205`: the losing dial is not waited for.  If its connection is made after all
  and its ConnectDone runs after the `zero()` of the next URL, its time is printed as the Connect of that
  URL, even of one that never connected (the exception in `TimesHonest`).
* `collectd-exec/main.go:257`: the error of `http.NewRequest` is dropped; for a URL that does not parse the
  request is nil and its use at line 284 ends the program (the exception in `KeepsReporting`).
* `collectd-exec/main.go:195`: a redirect starts the clock again, so TTFB and total are
  those of the last hop; the README (line 9) says "total time for whole request".
* `sysinfo.go:149`: a CPU that is offline between two samples but at neither divides
  by zero; `RatesSane` shows that nothing else does, if `-t` is well above the 10 ms in
  which /proc/stat counts; with the 10 ms that sysinfo.go:66 allows even a CPU that is online may not
  have counted.  What a device or CPU that has
  gone last counted is printed for ever.
* `socks.go:69`: a request for a name of which a Read returns only 4 to 6 bytes makes the slice expression
  panic, and the server ends with all its tunnels (the exception in `ServerSurvives`).
* `socks.go:109`, `httpproxy.go:108`, `echo.go:65` and `:73`: a copier that is blocked in Write, because the target
  (or a client of the echo that has only shut down its side) does not read, does not notice that the
  client has gone; both connections stay (the premises of `SessionEnds` and `LeavingReleases`).
* `socks.go:94`: when a tunnel ends, bytes that have been relayed can still be lost with a connection
  that is closed with data unread, as the kernel resets it (`GracefulDelivery` excepts it); and the first FIN
  ends both directions, so the answer to a client that has shut down its side is cut off.
* `upswdt.go:71`: with a `pdr` no longer than a cycle the timer of one failed cycle may fire before the next
  cycle stops it (`IsolatedFailureSpared` is for longer ones).
* `raw2socks.go:57` reads ten bytes of reply whatever the address type; the rest of a
  longer reply would reach the raw client as data.
* `jmp.go:95`: when a tunnel ends, proxyConn closes the connection below the `SpeedCtrl`; a throttled
  copier sleeps to the end of its sleep, and then ends (`CloseEndsCalls`).
* jmp.go: the first `SpeedCtrl.Close` keeps `dieLock`; a second one would wait for
  ever.  Nothing in the repository calls it twice.
* `httpproxy.go:61`: a first line that arrives in parts, or is longer than the array of 1024, has no
  newline in `b`; the slice panics and the proxy ends with all its connections (the
  exception in `ServerSurvives`).
* `httpproxy.go:83`: of a CONNECT whose head one Read does not hold, the rest is relayed to the target
  as data (the exception in `TargetIsServed`).
* `httpproxy.go:71`: an IPv6 literal without a port has a colon, so no port is added and Dial
  always fails.
* `httpproxy.go:28`: main never calls `flag.Parse`, so its flags have no effect.
* `echo.go:79`: when one copier reads the end, the handler closes the connection under the other,
  and the chunk that one holds is lost, even for a client that only shut down its sending side
  (`EchoReturns`: at most that chunk).
* `httpd.go:88`: a PUT that fails or is killed half-way has destroyed the page; two at a time mix
  (`FileIsThePuts` says what can be left).
* `httpd.go:96`: a page loaded in the second in which it is being saved may stay in the cache as it was;
  with gzip (httpd.go:276) even a short one is kept as complete (`ShownIsCurrent`).
* `httpd.go:172`: if listening fails, the process stays, without serving, until an interrupt.
* httpd.go does not compile as committed: its copy of `SpeedCtrl` needs imports that are
  missing (net, sync, sync/atomic).  The rest is modelled as it reads.

## 5. What is proved

TLAPS proves these for every value of the constants that satisfies the modules'
assumptions; nothing else is assumed.

* `TunnelProofs`: `TypeCorrect`, `BuffersExclusive`, `StreamsIntact`,
  `EofIsComplete`, `EndsOnlyForCause`, `RelayImplementsPipes`.
  `StreamIntegrity` is nearly inductive: it needs the types, and that each end is the source of
  one copier and the destination of the other (`Routing`); cutting a stream and joining it
  again is the lemma `Cut`.  `EofCompletes` needs in addition that a copy ended by EOF
  has nothing in its chunk and that nothing can be added to a stream after its FIN.
  `RelayImplementsPipes` follows from `StreamIntegrity`: what was received is a prefix of
  what was sent, and both only grow.  `EndsOnlyForCause` needs that
  a copy ends only by EOF, which takes a FIN, or by an error, which takes a broken connection,
  as long as the handler has not closed anything.
* `WatchdogProofs`: `WatchdogTypes`, `IsolatedFailuresAreSpared`,
  `OutagesAreBounded`.  The invariants relate what every running timer has left to how
  far the cycle has come: after one failed cycle only one timer runs, and it has more left than the cycle
  has to go; in an outage either no failed WAIT has been reached yet and what remains fits
  in a cycle, or some timer runs whose rest and the outage's age add up to at
  most a cycle and its limit.
* `SpeedProofs`: `SpeedTypes`, `RateIsKept`, `DieIsClosedOnce`.  `RateKept` speaks of all
  periods, the code of one baseline; `RateInv` connects them: below the line the excess is
  at most a chunk and shrinks with the distance, a chunk raises both alike, a sleep lasts until the line
  has caught up.  `DieClosedOnce` follows because whoever has passed Lock and not yet closed `die` holds the lock
  (`LockInv`).
* `TraceProofs`: `TraceTypes`, `ConnectIsNotOverstated`, `TimesAreHonest`.  The strengthening is that
  `th.connect` is never older than any dial under way, one left over from an earlier URL included;
  and that nothing dials for a request once
  it has an answer, a failure is kept until it is reported, and the first byte lies within the time since start.
* `HttpdProofs`: `HttpdTypes`, `FilesAreThePuts`, `ShownPagesAreCurrent`, `ExitsAreGraceful`.
  `FileInv` says who has written what: whoever is writing belongs to `group`, a lone writer has
  put exactly its first `off` blocks on the disk, every block of a mixed file is a hole or the
  block some member has for that place.  What a write(2) leaves of a file is the lemma `WriteAtSeq`.
  `ShownInv` adds to `ShownIsCurrent` what the browser's copy and an answer under way know: they agree with the
  file, or name an earlier second, or the file has changed once more in the second they name.
  `ExitsAreGraceful` needs that no handler starts once Shutdown has begun and that `sig = "done"` implies
  that none runs.

* `SysinfoProofs`: `SysinfoTypes`, `TrafficIsShown`, `RatesAreSane`, for every set of CPUs and devices and
  every width of the counters that one sleep cannot go all the way around.  `DevInv`
  says that the counter of a device that is still the one of the last sample is ahead of that sample by
  what it has moved since, modulo W; `CpuInv` says the same of a CPU's two sums, that
  they have moved after a sleep unless it was offline in it, and that every difference kept is sane.
  The map comprehensions of `Update` are lemmas (`MapEntries`, `MapIntro`, `UpdatedMap`).
* `BruteForceProofs`: `BruteTypes`, `KeysAreTried`, `PanicsOnlyAtTheEnd`, for every number of workers, base and
  range of lengths.  They rest on `Successor`: `increment` with its carry yields the next key in
  the order of the enumeration (`Before`), none is between.  So the keys that have left main are those before
  its `input`, each of which is in the channel, at one worker or tested, and in the channel they
  are in order (`KeysInv`).  As no key is at two workers, at most one of them finds the wanted one;
  `EndInv` tells from that who may close `end`, and when a second one can.
* `NetworkProofs`, any client: `ProxiesSurvive`, `TargetsAreServed`, `AnswersDoFit`, `EchoesReturn`, for every
  size of the servers' arrays and all greetings, requests and heads of `ClientAssumption`: they are
  well formed (a greeting is as long as it says, an address as long as its type says, a head has a newline),
  and a SOCKS message fits the array; heads need not.  They hold however Reads cut up a head; of
  socks.go the first three are for Reads that find messages whole, which is a premise of the properties (what else
  may happen `chain_dial` and section 4 show).  The invariant has a part for each phase: what is on its way
  to and from a server that awaits a greeting, a request, a dial (`SocksInv`), a head (`HttpInv`), or
  has begun its tunnel (`TunnelInv`: the two streams cut at `tgtGot`, `up` and `answer`, `down`).
  That the server reads out of its array what the client has put into the request is a fact about bytes:
  `Encoding` and `Decoding`, over `Layout` and `PartsRead`.  `EchoInv` counts: what the client has
  said is what has come back, what is in the connection and what the copiers hold.
* `NetworkProofs`, the chain: `ChainTypes`, `BothEndsAgree`, `ChainImplementsPipes`, for all addresses whose request fits
  the server's array (`ChainAssumption`: into 1024 bytes every address and every name of the DNS does).
  `HandshakeAgrees` is far from inductive.  `ChainInv` adds which ends are open (`Ends`); all that can be on its way
  to the client in each pair of phases: the method, the rest of it that a short Read leaves, what the server has
  said of the request, and the target's bytes behind it (`Handshaking`); that the client tunnels
  just behind a granted reply, so that `rawGot \o down` is what the target has sent (`RawGets`) - all this
  however messages are cut up, as ten bytes whose second is 0 are no other than a granted
  reply; and for whole messages, that the server finds one message at a time, and in its tunnel
  `tgtGot \o up` is what the raw client has sent (`Asking`).  `ChainImplementsPipes` (`EndToEnd`) follows: each
  step puts a byte in, takes some of the missing ones out, or neither.

Only model-checked: the liveness properties (`TunnelReaped`, `GracefulDelivery`, `SessionEnds`,
`LeavingReleases`, `CloseEndsCalls`, `NoNetworkPowersOff`, `Ends`, `KeepsReporting`, `InterruptEnds`),
which are out of the prover's reach; so the theorems speak of the specifications without fairness
(`Spec`, `ChainSpec`), which those with fairness imply.  The three properties that
are violated the code does not have.

## 6. Plan

Done: the relay (first, because every network program rests on it), the SOCKS programs
and their composition, the watchdog, the brute-force search, the limiter, the HTTP
tracer, the system monitor; then the proxies and the echo server with any client, the
file server; the proofs of every type invariant and of every safety property and
refinement that the passing runs check.  Left:

1. `findhex`'s search as an operator against a reference definition.
2. Proofs of more: that the chain's `SocksServer` does for a client of this repository what
   `AnyClient` says it does for any.

## 7. What is not modelled, and why

* `reverseproxy.go`: sets up `httputil.ReverseProxy`; it has no state or decision of its own.
* `findhex.go`: planned, see above.
* `httpd.go`: `basicAuth` is not called (main has it commented out); HEAD and OPTIONS change nothing.
* `patchbin.go`: one sequential read and write of a file.
* TLS and gzip set-up, flags, logging, formatting of numbers, temperatures and
  frequencies: no state, no control that a property depends on.
* `getOrigDst` of redir2socks and the iptables scripts: system calls and
  configuration; the address they yield is an input.
* The copy of `SpeedCtrl` in httpd.go: the same text as in jmp.go.
