# Verification of mpshell-ext

This directory holds TLA+ specifications of mpshell, the multi-link network
emulator of this repository, and of the proxies that live beside it, TLC
configurations that check them on small instances, and TLAPS proofs of the
results that matter most for every value of the parameters. `PROJECT.json`
lists the runs, the source lines behind every definition, the hazards, the
findings and the theorems.

## The system

`mpshell config program` runs a program in a network namespace that is
connected to the outside by N emulated links. Each link has two processes, the
uplink and the downlink *ferry*. A ferry reads packets from its tun device,
delays them, lets them through at the rate of a trace, and writes them to its
sibling ferry over a socketpair; what it gets from the sibling goes to its tun
device. The ferries of the first link also relay DNS queries, in threads of their
own.

```
program <-> tun <-> uplink ferry <==socketpair==> downlink ferry <-> tun <-> outside
                    DelayQueue -> LinkQueue(packet queue)   (in each ferry)
```

`recordshell` and `replayshell` use the same process machinery around an HTTP
proxy that records exchanges and a CGI program that answers from the record.

| component | state | operations | hard behaviour | what makes it correct |
|---|---|---|---|---|
| packet queues (`dropping_packet_queue.cc`, `drop_*`, `infinite_*`) | a `std::queue`, two counters, two limits | `enqueue`, `dequeue`, `can_accept_one` | drops at a limit, counters kept apart from the queue, asserts that are compiled in | lossy FIFO within its limits, counters exact, no assert fails |
| CoDel, PIE | the same, and the state of a control law | the same | decisions from a clock that may be set back, shadowed variables, unsigned differences, updates made up for later | the same contract; only a standing queue is dropped from |
| `LinkQueue` | trace position, packet queue, packet in transit, output queue, log | `read_packet`, `wait_time`, `write_packets`, all but the last through `rationalize` | the link is emulated late, several opportunities at once, partial packets, wraparound of the trace, clock set back | order, rate exactly that of the trace, no capacity wasted, log complete and in order |
| `DelayQueue`, `RateDelayQueue` | packets with release times | `read_packet`, `get_next`, `wait_time` | the clock is read several times in one operation; the empty string means "none" | the delay is a lower bound, order is kept |
| ferry loop and `Poller` | poll descriptors, interest, EOF flags | wait, poll, callbacks, write | events at any time, sleep with a stale timeout, interest looked up before other callbacks run | never sleeps past its next duty; neither descriptor starves the other; everything gets through |
| two ferries | a socketpair with bounded buffers, queues without a bound | blocking write, read from the loop | mutual blocking | both keep reading |
| process tree (`packetshell.cc`, `child_process.cc`, `signalfd.cc`, `util.cc`) | children, `running_` and `terminated_`, signal mask, pending signals | fork, wait, resume, `handle_signal`, destructors | a child that dies before SIGCHLD is blocked, merged SIGCHLDs, children stopped and continued | the shell ends when a part of it ends, and leaves no child |
| `ByteStreamQueue`, DNS proxy | two ring buffers, two sockets | push, pop, relay both ways | wraparound, full and empty, short reads, writes that block the thread, a side that closes with data left | a bounded FIFO of bytes, nothing lost, the thread ends |
| HTTP recording (`http_proxy.cc`, parsers) | partial messages, queues of requests and responses | parse, pair, save | reads cut anywhere, pipelining, bodies of unknown length | the same messages however the stream is cut; right pairs |
| replay (`replayserver.cc`) | recorded pairs | match | longest-prefix choice | best match |
| address allocation (`get_address.cc`) | addresses in use | choose pairs | exhaustion | distinct unused pairs |

Components interact by calls inside a process, by datagrams between ferries, by
signals between processes, and through the wall clock, which all of them read.

## Modules

| module | models | part of the code |
|---|---|---|
| `PacketQueue` | what `enqueue` and `dequeue` of any discipline may do to the queue | `abstract_packet_queue.hh` as `link_queue.cc` uses it |
| `AbstractPacketQueue` | the contract of a queue as a specification: a lossy FIFO | the same |
| `DroppingPacketQueue` | infinite, droptail and drophead queues, with counters, limits and asserts; `queue_params` ranges over the configurations | `dropping_packet_queue.cc`, `drop_tail_packet_queue.hh`, `drop_head_packet_queue.hh`, `infinite_packet_queue.hh` |
| `CodelPacketQueue` | CoDel over `DroppingPacketQueue` | `codel_packet_queue.cc` |
| `PiePacketQueue` | PIE over `DroppingPacketQueue` | `pie_packet_queue.cc` |
| `PacketQueues` | composes the five disciplines with the clock, as `get_packet_queue()` chooses one; states the contract as a refinement | `util.cc` |
| `LinkQueue` | the link over any queue that keeps the contract | `link_queue.cc` |
| `PacketFerry` | one ferry: extends `LinkQueue` by its caller, that is the delay queue, the poller and the environment (`FerryInit`, `FerryNext`, `FerrySpec`) | `ferry.cc`, `poller.cc`, `rate_delay_queue.cc`, `delay_queue.cc`, `handle_signal` |
| `FerryPair` | two ferries, reduced to counts of packets, and the socketpair | `ferry.cc`, `make_pipe.hh`, `ezio.cc` |
| `Poller` | `poll` for loops that run until it says Exit | `poller.cc` |
| `ByteStreamQueue` | the ring buffer, as operators on a record | `bytestream_queue.cc` |
| `DnsProxy` | a relay thread: composes `Poller`, two ring buffers and two peers | `dns_proxy.cc` (`handle_tcp`) |
| `ProcessSupervisor` | a process that starts children and waits on them, with Linux's signals and `waitid` | `packetshell.cc`, `child_process.cc`, `signalfd.cc`, `util.cc` |
| `HttpParser` | requests and responses found in a stream, as operators | `http_message_sequence.hh`, `http_message.cc`, `http_request*.cc`, `http_response*.cc`, `chunked_parser.cc` |
| `HttpProxy` | a recorded connection: composes `Poller`, two parsers and two peers | `http_proxy.cc` (`handle_tcp`) |
| `*_proofs` | theorems | |
| `MC*` | traces, packets, configurations and HTTP exchanges for TLC | |

How the models correspond to the code:

* Variables have the names of the members without the trailing underscore.
  A failed assert is a state (`aborted`, `call.pc = "aborted"`), an uncaught
  `runtime_error` is `call.pc = "terminated"`.
* `rationalize` is modelled loop iteration by loop iteration. `Begin` is the
  entry of `read_packet` or `wait_time`, where the clock is read;
  `BurnOpportunity` the head of the outer loop; `SendTransit` and `SendNext`
  iterations of the inner loop, with a packet in transit or one taken from the
  queue; `EndDelivery` its end; `FinishRead` and `FinishWait` the rest of the
  call.
* A packet is a name (its place in the order of arrival) and a size. The log is
  a count of its lines by kind and the time of the last one.
* In `PacketFerry` each reading of the clock is a step of its own and `FerryTick`
  may fall between any two. `min( delay_queue_.wait_time(), link_queue_.wait_time() )`
  may evaluate its arguments in either order, so both orders are allowed.
  `poll` takes a snapshot of the ready descriptors and runs their callbacks in
  the order of `add_action`; an error or hang-up of the tun device or the sibling
  ends the loop before the descriptors that follow. `broken` says what has
  failed: either of these, or the peer behind the socketpair, which only a write
  notices. A system call on something broken throws and ends the loop
  (`SystemCallFails`).
* `wait_time()` returns an `unsigned int`; `UIntRange` is its modulus, `Never`
  stands for 2^64-1 and `EmptyWait` for 65535. TLC's values are small but in
  the same order. Each conversion is modelled: the 64-bit difference of
  `DelayQueue::wait_time` is taken modulo `UIntRange`, and the minimum of the
  two waits becomes an `int` (`AsInt`), negative from `IntMax` on. `poll` with a
  negative timeout waits for an event only. In `ferry` `UIntRange` is 4, so that
  waits do reach `IntMax` there.
* `ferry.passed` counts the packets read from the tun device while a datagram of
  the sibling waits at the head of its queue.
* In `FerryPair` nothing bounds what a ferry reads, as in the code. Packets
  arrive at a tun device (`Arrive`) while fewer than `Window` of them wait there
  or in the ferry behind it: that is an assumption about the senders, as a
  window of their transport protocol gives it, and not about the program. A
  packet that the queue drops counts as one that never arrived, and a wait in `poll`
  always ends, by an event or its timeout.
* CoDel's inner `r` shadows the outer one: the packet that `dequeue()` returns is
  the one taken first, and the packets behind it are what the loop drops. The
  model keeps that. Differences of times are taken modulo `WordRange`, as the
  `uint64_t` of the code are.
* PIE's probability is an integer in units of 1/1024. All steps of the control
  law are whole units, but the decay by 2 %, which is rounded down; the random
  number is a choice wherever it can go both ways. `calculate_drop_prob()`
  repeats the update for every period that was missed. When the clock lies
  before `last_update_` the unsigned difference makes that 2^64 / 30 rounds,
  which the model calls hanging (`PieHangs`).
* In `Poller` the interest is looked up in one step, the readiness found in a
  second, and each callback is a step of its own; peers act between any two.
* In `DnsProxy` the k-th byte a side sends is the number k, so that contents can
  be compared. A peer sends, reads, closes and resets at any time; a read may be
  short, and both are cut at the end of the ring buffer. The sockets are
  blocking: a write that finds too little room in the kernel holds the callback
  and the thread until the peer has read (`writing`, `CallbackWaits`), and returns
  short only when the connection is reset meanwhile (`WriteCutShort`). A write
  to a connection that was reset before throws, or ends the process (`killed`),
  as SIGPIPE does, when the peer had closed it.
* In `ProcessSupervisor` the supervisor is PacketShell's main process, or its
  uplink process. `life` is what a child does and `known` what the ChildProcess
  object believes. SIGHUP and SIGTERM are treated alike, as in `handle_signal`.
  `unheard` records the children whose end no SIGCHLD told: those that ended
  while SIGCHLD was still ignored, and those whose SIGCHLD was merged into a
  pending one that names another child, which is alive.
* In `HttpProxy` a line's text is one symbol, CR and LF are symbols of their own,
  and reads cut the stream between any two symbols. A *script* is a sequence of
  exchanges, each a request and a response with a first line, headers and a body;
  what is sent is their serialization. The client may pipeline, the server
  answers in order. `overtaken` records the exchanges whose request was passed on
  before an earlier one was answered, and so took its place in `current_pair`.
* A failed assert or an exception inside the parser of chunks is the state
  `FAILED`, which `ReadBody` turns into a failure of the connection's thread. Sizes
  of chunks are `uint32_t`: `UInt32Range` is their modulus.
* The loops of `parse()` and of `ChunkedBodyParser::read()` are recursive functions
  that take a bounded number of rounds (`ParseLoop`, `ReadAllChunks`). A round that
  finds nothing to do changes nothing, and each other round takes symbols
  from the buffer or completes something, so that the bound is never what ends them:
  proved as `ParsesAll`.

## Runs

| run | shows |
|---|---|
| `queues` | For all five disciplines, several limits and a clock that may be set back: no unsigned number goes below zero (`QueuesTypeOK`, over the variables of the queues, CoDel, PIE and the clock), counters describe the queue and the queue is within its limits (`HeldWithinLimits`), `can_accept_one` agrees with `enqueue` (`AcceptsWhatFits`), calls fail or hang only in two known ways (`FailsOnlyAsKnown`), CoDel drops only from a standing queue (`DropsOnlyStandingQueue`) and never its last packet (`DropLeavesAPacket`), PIE drops nothing while its rate is not known (`DropsOnlyWhenMeasured`) and makes up for exactly the updates that are due (`UpdatesKeepPace`), and each implements the contract (`IsLossyFifo`). |
| `drophead_byte_limit` | violation: a drophead queue with a byte limit aborts. |
| `link` | Order (`InOrder`), never more bytes than the opportunities allow (`RateWithinTrace`), none wasted (`WorkConserving`), the log complete and in time order, the link's time monotone. |
| `link_clock_back` | The asserts, and exactly the opportunities of the trace (`OpportunitiesMatchTrace`, against a count made from the trace itself), when the clock is set back by up to 2 ms at any time, with and without repetition, with a queue that drops at dequeue, an opportunity at offset 0 and oversized packets. |
| `ferry` | Waits and timeouts within their C++ types (`FerryTypeOK`), order from tun to sibling, the delay as a lower bound, no failing assert, no oversleeping and no sleep without a timeout (`NeverOversleeps`, for a delay that an `int` can hold), with arrivals, signals and errors at any time and one step of the clock back. |
| `ferry_live` | With up to three packets at the tun device: at most two are read before the sibling's datagram (`SiblingNotStarved`), every packet leaves or is dropped, every datagram of the sibling is relayed. |
| `pair` | No mutual blocking when the senders have little enough on the way, and never more in flight than their windows and one full direction; a full pipe is read. |
| `pair_burst` | violation: mutual blocking when they have more. |
| `dns` | Bytes arrive in order and none is lost or repeated (`RelayedInOrder`), the asserts of push and pop hold although interest is looked up before other callbacks run (`AssertsHold`), a loop that exits has relayed everything (`NothingLostAtExit`), every byte gets through unless a connection breaks (`EveryByteRelayed`), and the thread ends once both sides have closed or a connection is broken (`ThreadEnds`). |
| `processes` | A supervisor that ends has reaped all its children (`LeavesNoChild`), the destructors always come to an end (`TeardownEnds`), and every end of a child that a signal tells of, and SIGHUP, ends the supervisor (`WatchedEventsEndTheLoop`), with one exception that the property names: after a child was stopped and continued the supervisor may stay in a `wait()` that has nothing left to report, and reads no further signal. |
| `processes_lost` | violation: a child that ends earlier is missed. |
| `http` | Each message is found when its last symbol has been read and not before, wherever the reads cut the stream (`FramedAsSent`); the k-th file holds the k-th response, and its request up to the first exchange whose request overtook a response (`PairsMatch`), so also for clients that pipeline; and every exchange is stored, unless a request overtook a response or the client hung up before the last one (`EveryExchangeRecorded`). |

Bounds and why they are enough. A trace of three opportunities, two of them at
the same time, and one with offset 0 give all relations of two neighbouring
opportunities; `MaxTime` is at least two periods, so that the wraparound
happens between and within calls. Opportunities of 3 bytes and packets of 1, 2
and 3 bytes give packets that fit, that share an opportunity and that span
two; 4 is one too many. Three packets give one in transit and a queue with
something to drop. Ferries have two packets, which is what order and delay
compare, and three in `ferry_live`, one more than may be read before the sibling's
turn. `MaxLatency` bounds for how many milliseconds a runnable ferry is not
scheduled; one is enough to put a tick between any two readings of the clock.

In `queues` four packets of 1 or 3 bytes are enough for CoDel to enter its
dropping state and drop several packets in one call, and for PIE to measure a
rate, raise its probability, drop early and forget the rate again; the clock is
set back once, by up to 2 ms. In `pair` a `Window` of 3 on both sides just meets the
condition of `NoMutualWait` with 5 datagrams of capacity. In `dns` a ring of 3
bytes is full with 2, so 4 bytes of query wrap around it; `Room` is what a
peer's socket takes, and writes wait for it. In
`processes` two children are what merging SIGCHLDs needs, and two stop signals
what a stopped child under a stopped supervisor needs. In `http` four scripts have
two or three exchanges, and between them a HEAD, a POST, a body of known length,
chunks that contain CRLF, a trailer, a 204, a 304 that states a length, and
bodies that end with the connection, without any header and with a transfer
encoding that outweighs a Content-Length.

Deadlock is checked where the program cannot stop; it is not checked where the
process may abort, exit or, in the ferries, time has reached its bound.

Fairness. `ferry_live` assumes that the process runs when it can
(`WF(FerryStep)`) and that time passes (`WF(FerryTick)`); `poll` returns when a
descriptor is ready or its timeout is over. Nothing is assumed of arrivals or
signals. `FerryPair` assumes that each ferry runs when it can; a ferry blocked
in `write` cannot. In `ferry_live` packets arrive at the beginning only, so
that the bounded clock leaves time for all of them. `DnsProxy` assumes that the
thread runs when its write is not waiting, and that a peer reads what it was
sent, not that it sends or closes: the relay depends on that, as a peer that does
not read stops both directions. `ProcessSupervisor` assumes that the supervisor runs, that it is
continued when it was stopped, and that a child with a SIGHUP dies when it is
not stopped; children need not end by themselves. `HttpProxy` assumes that the
thread runs, that what was sent arrives, that the client sends the requests of
its script, and that the server closes where that is what ends its response.

## Findings

* `drop_head_packet_queue.hh:26`: the loop that drops from the head calls
  `dequeue()`, which asserts that the queue is within its limits after one
  pop. With a byte limit a large packet may need two, and the ferry aborts.
* `ferry.cc:84`: both ferries of a link write to each other with blocking
  writes and read only from their loop. When each has more packets ready than
  the socketpair takes, both block for ever. The condition is proved below; the
  delay queue has no limit, so it depends on the traffic alone.
* `packetshell.cc:142`: children are forked before SIGCHLD is blocked. The end
  of a child in between is ignored, and nothing asks about it later, although
  the comment says "wait for either child to finish".

Observations that contradict no comment:

* The last `rationalize` before a sleep is the one inside `wait_time()`, after
  `write_packets` has run. A packet that it makes ready stays in the output
  queue until the next wake-up, which `NeverOversleeps` bounds by the next
  opportunity.
* When both waits of a ferry reach 2^31 ms the timeout of `poll` is negative, and the
  ferry sleeps until something happens. It takes a packet in the delay queue and
  either a clock that is set back by 24 days, or a delay that long and a trace
  that has ended; the configuration is not checked for it.
* A supervisor whose child is stopped and continued before it reads the SIGCHLD
  may block in `wait()`, where it notices neither the end of another child nor
  SIGHUP. And a SIGCHLD that is merged into one of a living child that was stopped
  or continued leaves no trace: the end it stood for is not noticed.
* While a DNS peer does not read, the thread's blocking write stops the
  relay in both directions.
* A PIE queue stops for good when the clock is set back behind `last_update_`.
* A DNS client that resets its connection ends the ferry by SIGPIPE, not only
  the thread.
* The HTTP proxy keeps one request per connection until its response is saved.
  When a client pipelines, the second request takes the place of the first, the
  first response is stored with it, and the second response ends the thread
  ("Response ready without Request"). Nothing in the repository claims that
  pipelining is recorded. `PairsMatch` says what is still right then; from the first
  overtaken exchange on the requests in the files are wrong, and
  `EveryExchangeRecorded` promises nothing more.
* A response in `multipart/byteranges` without a length, and chunks whose size is
  not true, end the thread or the process, by an exception or a failing assert.
* A `100 Continue` uses up the request it belongs to, and a response that
  announces trailers but sends none is not complete until later headers end.
* The command runs in a child of the shell's child; a SIGHUP ends the latter
  and not the command.

## Proofs

Every theorem holds for every value of the constants that the named assumptions
of its module allow. Invariants that were new to a proof were checked with TLC
on the instances of the runs before they were proved. Nearly every proof has
one lemma per action and one step for each part of the invariant that the action
can disturb.

### Queues

* `PacketQueue_proofs`: what each outcome of `enqueue` and `dequeue` keeps of the
  queue (`EnqueueProperties`, `DequeueProperties`), and the number of bytes in a
  sequence of packets (`BytesOfAppend`, `BytesOfParts`, `BytesOfTail`). The
  library's induction theorems cannot be used, so induction on the natural
  numbers is proved here once for sets (`LeastNat`, `InductionOnNat`), and the
  recursive function that sums sizes is first shown to have a solution
  (`SumExists`).
* `PacketQueues_proofs`, for all five disciplines, every configuration and a clock
  that may be set back.
  - `ImplementsContract`: each discipline implements `AbstractPacketQueue`, the
    refinement that lets `LinkQueue` be specified over outcomes only. Each
    enqueue appends, drops the new packet or drops from the front; each dequeue
    removes from the front, several packets only for CoDel.
  - `CountersExact`: packet and byte counters describe the queue and the limits
    hold. `QueuesTypeCorrect` types these variables and those of CoDel and PIE. The
    invariant `IInv` carries both counts, and one pop makes room
    because one packet was added. `AssertsHold` and `FailuresKnown` follow: only
    drophead with a byte limit aborts, and only PIE hangs.
  - CoDel: `DropsLeaveAPacket` and `DropsFromStandingQueue`. The loop of
    `dequeue()` is a recursive function; it is shown to have a solution
    (`LoopExists`) and what holds after any number of its rounds is proved by
    induction (`LoopRounds`). That drops need a standing queue is not
    inductive; `IntervalSinceLow` adds that a running interval began after the
    queue was last low, and `TimesPast` that recorded times do not lie ahead of a
    clock that was never set back.
  - PIE: `MeasuredDrops` and `AllUpdatesMade`, with the repeated updates treated
    like CoDel's loop (`UpdatedExists`).
  - `EnqueueAgrees`: the part of `AcceptsWhatFits` that does not need ENABLED.

### Link

* `LinkQueue_proofs`, for every trace the constructor accepts, every size,
  every discipline and a clock that may be set back: `TypeCorrect`,
  `AssertsHold` (the asserts of `rationalize`) and `TimeMonotone` (the link's
  time never goes back). The asserts are not inductive: that a packet arrived
  before the opportunity that carries it follows from `QueueCarriable` and
  `TransitCarriable` (every packet held arrived no later than the *next*
  opportunity), which `FinishRead` establishes because `rationalize` has left
  the next opportunity after now, and which burning an opportunity keeps
  because the next one is not earlier (`NextOpportunityLater`, where the
  wraparound of the trace is treated). On delivery, under the same generality:
  - `ArrivalOrder`. `OrderInv` says that each part of the link (sent, in transit,
    queue) is in arrival order, that each part comes before the next, and that
    all are older than the packet that `read_packet` is adding.
  - `LogAccounts`, for disciplines that drop only at enqueue, and `LogOrdered`.
    The log has a line for every packet in every state of a call and not only
    between calls (`AccountInv`), and its time is that of the opportunity being
    used (`LogTimes`).
  - `NothingWasted`. `TimeInv` adds that the clock of a call is the one it read,
    and that what is held arrived no earlier than the last unused opportunity.
    This one and `LogOrdered` are about clocks that are not set back: otherwise
    arrival times themselves are out of order.
  - `ExactOpportunities`. `TraceInv` gives the repetition `r` the link is in and
    the set of slots of the trace used so far; the set grows by one slot for
    each opportunity logged, its cardinality is the log's count, and between
    calls it is the set of all slots whose time has come. Using a slot twice,
    skipping one, or a wrong first slot after the wraparound would break the
    equality. The clock may be set back at any time.
  - `RateLimited`. `RateInv`: the bytes sent, the sent part of the packet in
    transit and what the current opportunity can still carry fit in the
    opportunities logged.

### Ferry

* `PacketFerry_proofs`, for every trace, delay, discipline, schedule and
  environment:
  - `DrivesLink`: the ferry is a caller of the kind that `LinkQueue` is specified
    with, so that every theorem about the link holds in a ferry. The step from
    `delay_queue_` to the link needs `CallerInv`: packets are numbered
    without a gap through tun, delay queue and link, the loop calls the link only
    between its calls, and the descriptors to be called back are still ready.
  - `FerryTypeCorrect`, with the waits as unsigned ints and the timeout as an
    int, and `LinkSurvives`: no assert of the link fails and no
    packet is too large for it.
  - `WakesInTime`, until the clock is set back and for a delay that an `int` can
    hold: `poll` does not sleep without a timeout, nor beyond the next
    opportunity or release. A wait that wraps around is only shorter. `SleepInv` bounds each of the two waits,
    computed at different readings of the clock, by the time that has passed
    since (`slack`); the minimum of both is bounded by either.
  - `DelayKept`, until the clock is set back: no packet reaches the link before
    its delay is over.
    `ReleaseInv` follows a packet's release through the delay queue, the
    loop, the call and the link, although the clock is read again at each stage.
  - `KeepsOrder`: from the tun device to the sibling, by `OrderInv` of the link
    and the numbering of `CallerInv`.
  - `SiblingHasItsTurn`: between two readings of the sibling at most two packets
    are read from the tun device. The invariant relates the count to the
    descriptors that are still to be called back in this round of `poll`.
* `FerryPair_proofs`: `BoundedInFlight` and `NoMutualWait`, no mutual blocking if
  2 * Window <= Capacity + 1. The invariant counts everything between the two
  tun devices, by where the two loops are: only a ferry that finds its pipe empty
  adds to it. Two blocked ferries would need both directions full and a packet in
  each, more than there can be. TLC finds the blocking as soon as the condition
  fails.

### Relay and processes

* `DnsProxy_proofs`, for rings of any size and any cut of reads, and with writes
  that wait or are cut short.
  `PushAppends` and `PopTakesFront` compare the contents of a ring slot by slot;
  whether the positions wrap around is a case of the proof. `BytesInOrder`,
  `RingAsserts` and `ExitLosesNothing`: the invariant adds to the types and the
  order of bytes that whoever is still to be called in this round of `poll` has
  what it asked for (`StillAsserted`: only the reader fills a ring and only the
  writer empties it), that an EOF was seen after the last byte (`EofIsFinal`),
  and that the loop exits only with both streams at their end and both rings
  empty (`ExitIsFinal`).
* `ProcessSupervisor_proofs`, for any number of children: `NoChildLeft`. The
  invariant says that an object which believes its child terminated has reaped
  it, and that the objects destroyed so far are such.

### Recording proxy

`HttpProxy_proofs`, for every set of scripts of well-formed exchanges, any number of
them, with messages of any length, and for every way in which the network cuts
the two streams. The argument goes from the stream to the connection:

* *Layout.* Where each message stands in the stream of all (`StreamLayout`) and where
  each of its parts does (`SerializedLayout`). The end of message k is `End(all, k)`.
* *Chunks.* `ReadAllChunks` stops at the chunk, or the end of the last one, that the
  input does not hold yet, and what it acknowledges is exactly the body's end. The
  body is described by the set of offsets at which its chunks start (`AreStarts`),
  and a parser between two reads by the start it waits at (`WaitingForChunks`).
* *Body.* `BodyStep`: one step reads what there is of a body and nothing of the next
  message, whichever of the five kinds of body it has, and no assert of the
  parser of chunks fails on the way.
* *Parser.* `StandsAt` says at which offset of which message the parser stands.
  Every step that does not fail moves it on (`Moves`) or finds nothing to do; `Left`
  bounds the steps that can do something, and `ParsesAll` follows: after
  `parse()` the parser has found exactly the messages whose last symbol was
  read. This needs that the parser of responses is told of a request before the
  response to it arrives: `HeadsFrom` relates `requests_were_head_` to the
  requests passed on.
* *Connection.* The invariant `IInv` has four parts. `Wire`: no more is read than was
  sent, and no more sent than the script allows. `Polled`: what poll found is still so
  when its callback runs. `Parsed`: both parsers have found what the streams read
  so far hold. `Paired`: every exchange between the last response and the last request
  was overtaken, as long as none was overtaken `current_pair` is the request that
  the next response answers, and the files hold what `PairsMatch` says.

The theorems: `MessagesFramed` (`FramedAsSent`) and `RecordedPairs` (`PairsMatch`);
`ResponsesNeverFail`, that no response makes its parser throw or fail an assert, also
when requests are pipelined and when the server closes; `SavingNeverFails`, that a
response before which no request was overtaken finds the request it answers; and `RequestsFailOnlyCut`, that
the parser of requests throws only when the client ends its stream within a
request. Together they name every exception of a thread that serves such scripts.
TLC checked `IInv` on the instance of the run, with its existential quantifiers
bounded by what that instance allows.

### Assumptions

`ScheduleAssumption` is what the constructor of `LinkQueue` checks of a trace.
`ParameterAssumption` and `TimeAssumption` give the types of the parameters and
say that the clock never reaches 2^64-1 and, for PIE, stays below the modulus of
the `uint64_t` it is subtracted in. `FerryAssumption` and `CodelAssumption`
bound packets by `PACKET_SIZE`: a tun device hands over at most its MTU of 1500
bytes and 4 bytes of header, and `LinkQueue` refuses a larger packet before it
reaches the queue. `LinkQueue` itself is specified with larger packets too, and
its theorems cover the exception. `LimitAssumption` is what the constructor
of a dropping queue checks. `ScriptAssumption` says what a client and a server that
follow the protocol send, of what the code handles: GET, HEAD and POST with a
Content-Length; 200, 204 and 304; a Content-Length that is true where it counts;
chunks whose sizes are true and below 2^32 - 2, with a trailer if and only if one is
announced; no `multipart/byteranges` without its length; and a body that ends with
the connection only in the last exchange. `PairAssumption` only gives types. TLC evaluates it on the scripts of the
run.

### Only model-checked

* Liveness, which the proof system does not reach: `EveryPacketLeaves`,
  `EveryDatagramRelayed`, `FullPipeIsRead`, `EveryByteRelayed`, `ThreadEnds`,
  `TeardownEnds`, `WatchedEventsEndTheLoop` and `EveryExchangeRecorded`.
* `AcceptsWhatFits`, which uses ENABLED; its other part is `EnqueueAgrees`.

## Not modelled, and the plan

* `json.hh` is a vendored library. It holds four fifths of the repository's
  lines, so that the share of all lines that is modelled stays small whatever is
  done with the rest.
* `cell_queue.cc`, `cellshell.cc` and `delayshell.cc` belong to no program that is
  built.
* Configuration and its parsing, privileges, running of commands, temporary
  files, devices, routes, NAT and Apache, and the set-up in `recordshell.cc` and
  `replayshell.cc`: sequential system calls without state of their own. A failed
  call ends the program. `recordshell` waits on its children with the same
  `handle_signal` that `ProcessSupervisor` models.
* `replayserver.cc` scores every stored request by comparing strings, once per
  process; a model of it would be its text. `get_address.cc` searches the list
  of interfaces once.
* Sockets and TLS are thin wrappers; short reads and the blocking `write_some` are
  in `DnsProxy`, the blocking `writeall` in `FerryPair`.
* `DNSProxy::handle_udp` relays one datagram and one answer and forgets both.
* TLS and failing sockets of the HTTP proxy, the names of its files, the
  comparison of header names, MIME types other than `multipart/byteranges`, and
  malformed lines.
* The log file that all ferries open and truncate, as shared state.

What could come next: the shared log file; the choice of `replayserver.cc` as an
operator, checked against a definition of the best match; and informational
responses (`100 Continue`) in the scripts of `HttpProxy`, which today end the thread.
