------------------------------ MODULE DnsProxy ------------------------------
(***************************************************************************)
(* One thread of DNSProxy::handle_tcp (dns_proxy.cc): it relays the bytes  *)
(* of a client and of a DNS server to each other through two               *)
(* ByteStreamQueues, with four actions of a Poller, until the Poller says  *)
(* Exit or a system call throws.  The peers send, read, close their        *)
(* sending side and reset the connection at any time.  The k-th byte of a  *)
(* stream is the number k.                                                 *)
(***************************************************************************)
EXTENDS ByteStreamQueue, Poller

CONSTANTS Room,       \* bytes the kernel holds for a peer that does not read
          MaxQuery,   \* bounds of the model: the bytes the client sends
          MaxReply    \* and those the server sends

ASSUME RelayAssumption == Room \in Nat \ {0} /\ Actions = 1..4

Sides == {"client", "server"}
Other(s) == IF s = "client" THEN "server" ELSE "client"
MaxBytes(s) == IF s = "client" THEN MaxQuery ELSE MaxReply

\* server In, client In, server Out, client Out
Fd(i) == IF i \in {1, 3} THEN "server" ELSE "client"
IsIn(i) == i <= 2
\* The stream an action moves, named after the side it comes from.
StreamOf(i) == IF IsIn(i) THEN Fd(i) ELSE Other(Fd(i))

VARIABLES
    queue,      \* from_client and from_server
    fd_eof,     \* FileDescriptor::eof_ of the two sockets
    sent,       \* bytes each peer has sent
    taken,      \* bytes the proxy has read of them
    delivered,  \* the bytes of each peer that were written to the other one
    writing,    \* a write has part of its bytes in the kernel and waits for room
    unread,     \* bytes written to a peer that it has not read, by their origin
    closed,     \* the peers that have shut down their sending side
    broken      \* the peers whose connection was reset

peerVars == <<sent, unread, closed, broken>>
proxyVars == <<poller, outcome, queue, fd_eof, taken, delivered, writing>>
vars == <<poller, outcome, queue, fd_eof, taken, delivered, writing,
          sent, unread, closed, broken>>

Init ==
    /\ PollerInit
    /\ queue = [s \in Sides |-> NewQueue]
    /\ fd_eof = [s \in Sides |-> FALSE]
    /\ sent = [s \in Sides |-> 0]
    /\ taken = [s \in Sides |-> 0]
    /\ delivered = [s \in Sides |-> <<>>]
    /\ writing = FALSE
    /\ unread = [s \in Sides |-> 0]
    /\ closed = {}
    /\ broken = {}

\* The bytes from the first-th to the last-th of a peer.
Bytes(first, last) == [k \in 1..((last - first) + 1) |-> (first + k) - 1]

-----------------------------------------------------------------------------
\* What the peers may do.
Sends(s) ==
    /\ s \notin closed \cup broken /\ sent[s] < MaxBytes(s)
    /\ sent' = [sent EXCEPT ![s] = @ + 1]
    /\ UNCHANGED <<proxyVars, unread, closed, broken>>

Reads(s) ==
    /\ s \notin broken /\ unread[Other(s)] > 0
    /\ unread' = [unread EXCEPT ![Other(s)] = @ - 1]
    /\ UNCHANGED <<proxyVars, sent, closed, broken>>

Closes(s) ==
    /\ s \notin closed \cup broken
    /\ closed' = closed \cup {s}
    /\ UNCHANGED <<proxyVars, sent, unread, broken>>

Resets(s) ==
    /\ s \notin broken
    /\ broken' = broken \cup {s}
    /\ UNCHANGED <<proxyVars, sent, unread, closed>>

-----------------------------------------------------------------------------
\* Mutant of Interested: the actions of a queue look at the other queue.
InterestedSwapped ==
    {i \in Actions : IF IsIn(i)
                     THEN space_available(queue[Other(Fd(i))]) /\ ~fd_eof[Fd(i)]
                     ELSE non_empty(queue[StreamOf(i)])}

\* Mutant of Interested: nothing is popped once the source has ended.
InterestedUntilEof ==
    {i \in Actions : IF IsIn(i)
                     THEN space_available(queue[Fd(i)]) /\ ~fd_eof[Fd(i)]
                     ELSE non_empty(queue[StreamOf(i)]) /\ ~fd_eof[StreamOf(i)]}

Interested ==
    {i \in Actions : IF IsIn(i)
                     THEN space_available(queue[Fd(i)]) /\ ~fd_eof[Fd(i)]
                     ELSE non_empty(queue[StreamOf(i)])}

ReadyNow ==
    {i \in Actions : IF IsIn(i)
                     THEN sent[Fd(i)] > taken[Fd(i)] \/ Fd(i) \in closed
                     ELSE unread[StreamOf(i)] < Room}

FailedNow == {i \in Actions : Fd(i) \in broken}

LoopPolls ==
    /\ Poll(Interested)
    /\ UNCHANGED <<queue, fd_eof, taken, delivered, writing, peerVars>>

LoopWakes ==
    /\ PollReturns(ReadyNow, FailedNow)
    /\ UNCHANGED <<queue, fd_eof, taken, delivered, writing, peerVars>>

LoopEnds(i) ==
    /\ PollFails(i)
    /\ UNCHANGED <<queue, fd_eof, taken, delivered, writing, peerVars>>

\* What push and pop assert when they are called.
Assert(i) == IF IsIn(i) THEN space_available(queue[Fd(i)])
             ELSE non_empty(queue[StreamOf(i)])

\* push() of what the socket holds, as far as it fits before the buffer's end.
PushBytes(i) ==
    /\ IsIn(i) /\ Fd(i) \notin broken
    /\ Callback(i, FALSE)
    /\ LET s     == Fd(i)
           held  == sent[s] - taken[s]
           space == contiguous_space_to_push(queue[s])
           n     == IF held < space THEN held ELSE space
       IN  /\ n > 0
           /\ queue' = [queue EXCEPT ![s] = push(@, Bytes(taken[s] + 1, taken[s] + n))]
           /\ taken' = [taken EXCEPT ![s] = @ + n]
    /\ UNCHANGED <<fd_eof, delivered, writing, peerVars>>

\* Mutant of PushEof: the end of the stream goes unnoticed.
PushEofIgnored(i) ==
    /\ IsIn(i) /\ Fd(i) \notin broken
    /\ sent[Fd(i)] = taken[Fd(i)] /\ Fd(i) \in closed
    /\ Callback(i, FALSE)
    /\ UNCHANGED <<fd_eof, queue, taken, delivered, writing, peerVars>>

\* push() at the end of the stream: the action is cancelled.
PushEof(i) ==
    /\ IsIn(i) /\ Fd(i) \notin broken
    /\ sent[Fd(i)] = taken[Fd(i)] /\ Fd(i) \in closed
    /\ Callback(i, TRUE)
    /\ fd_eof' = [fd_eof EXCEPT ![Fd(i)] = TRUE]
    /\ UNCHANGED <<queue, taken, delivered, writing, peerVars>>

\* pop() to a blocking socket: its one write() returns when the kernel has all
\* the bytes up to the buffer's end.  It takes those it has room for, and the
\* callback, and the thread with it, waits until the peer has read.
PopBytes(i) ==
    /\ ~IsIn(i) /\ Fd(i) \notin broken
    /\ LET s     == StreamOf(i)
           whole == contiguous_space_to_pop(queue[s])
       IN  \E n \in 1..whole :
              /\ unread[s] + n <= Room
              /\ delivered' = [delivered EXCEPT ![s] = @ \o Front(queue[s], n)]
              /\ queue' = [queue EXCEPT ![s] = pop(@, n)]
              /\ unread' = [unread EXCEPT ![s] = @ + n]
              /\ writing' = (n < whole)
              /\ IF n < whole THEN CallbackWaits(i) ELSE Callback(i, FALSE)
    /\ UNCHANGED <<fd_eof, taken, sent, closed, broken>>

\* The connection is reset while the write waits: it returns short, and the
\* other callbacks run before poll() reports the error.
WriteCutShort(i) ==
    /\ writing /\ Fd(i) \in broken
    /\ Callback(i, FALSE)
    /\ writing' = FALSE
    /\ UNCHANGED <<queue, fd_eof, taken, delivered, peerVars>>

\* The connection is reset after poll() has returned: read() and write() fail.
\* A write on a connection that its peer had closed before also raises SIGPIPE,
\* which nothing in the program ignores.
SystemCallFails(i) ==
    /\ ~writing /\ Fd(i) \in broken
    /\ \/ CallbackThrows(i)
       \/ /\ ~IsIn(i) /\ Fd(i) \in closed
          /\ Reaches(i) /\ i \notin poller.failed
          /\ outcome' = "killed"
          /\ UNCHANGED poller
    /\ UNCHANGED <<queue, fd_eof, taken, delivered, writing, peerVars>>

Loop ==
    \/ LoopPolls
    \/ LoopWakes
    \/ \E i \in Actions : LoopEnds(i) \/ PushBytes(i) \/ PushEof(i)
                            \/ PopBytes(i) \/ WriteCutShort(i) \/ SystemCallFails(i)

Next ==
    \/ \E s \in Sides : Sends(s) \/ Reads(s) \/ Closes(s) \/ Resets(s)
    \/ Loop

\* The thread is scheduled fairly, and the peers read what is sent to them.
Fairness ==
    /\ WF_vars(Loop)
    /\ \A s \in Sides : WF_vars(Reads(s))

Spec == Init /\ [][Next]_vars /\ Fairness
-----------------------------------------------------------------------------
\* Types, the positions of the ring buffers included.
TypeOK ==
    /\ poller \in [active : SUBSET Actions, events : SUBSET Actions,
                   ready : SUBSET Actions, failed : SUBSET Actions,
                   polling : BOOLEAN]
    /\ outcome \in {"running", "exit", "error", "exception", "killed"}
    /\ queue \in [Sides -> [buffer : [Slots -> Nat], next_byte_to_push : Slots,
                            next_byte_to_pop : Slots]]
    /\ fd_eof \in [Sides -> BOOLEAN]
    /\ sent \in [Sides -> Nat]
    /\ taken \in [Sides -> Nat]
    /\ delivered \in [Sides -> Seq(Nat)]
    /\ writing \in BOOLEAN
    /\ unread \in [Sides -> Nat]
    /\ closed \subseteq Sides
    /\ broken \subseteq Sides

\* The bytes a peer gets, followed by those in the ring buffer, are those the
\* other peer sent, in order: nothing is lost, repeated or overwritten when
\* positions wrap around and reads and writes are cut at the buffer's end.
RelayedInOrder ==
    \A s \in Sides :
        delivered[s] \o Contents(queue[s]) = Bytes(1, taken[s])

\* The loop looks up space_available and non_empty before poll() and pushes or
\* pops after other callbacks have run and peers have gone on, yet the asserts
\* on them in push and pop hold.
AssertsHold ==
    \A i \in Actions : Reaches(i) /\ i \notin poller.failed => Assert(i)

\* When the loop ends because nothing is left to wait for, both peers have
\* ended their streams and each has been sent all of the other's.
NothingLostAtExit ==
    outcome = "exit" =>
        \A s \in Sides : s \in closed /\ Len(delivered[s]) = sent[s]

\* Every byte sent is relayed, unless a connection breaks, also after either
\* side has closed.
EveryByteRelayed ==
    \A s \in Sides : \A n \in 1..MaxBytes(s) :
        sent[s] >= n ~> (Len(delivered[s]) >= n \/ broken # {})

\* The thread ends once both peers have closed, or one connection is broken.
ThreadEnds == (closed = Sides \/ broken # {}) ~> outcome # "running"
=============================================================================
