-------------------------- MODULE DnsProxy_proofs --------------------------
(***************************************************************************)
(* The relay for every size of its buffers and of the kernel's: the bytes  *)
(* stay in order, the asserts of push and pop hold, and a loop that exits  *)
(* has relayed everything.  Each of its ring buffers is a bounded FIFO of  *)
(* bytes: a push appends the chunk to what is held, a pop takes the front  *)
(* away, and what is held and what is free add up to Size - 1.             *)
(***************************************************************************)
EXTENDS DnsProxy, SequenceTheorems, TLAPS
-----------------------------------------------------------------------------
(* The ring buffer                                                         *)

Queues == [buffer : [Slots -> Nat], next_byte_to_push : Slots,
           next_byte_to_pop : Slots]

\* What a push or pop may move at most.
LEMMA Available ==
    ASSUME NEW q \in Queues
    PROVE  /\ available_to_pop(q) \in Slots
           /\ available_to_push(q) \in Slots
           /\ available_to_pop(q) + available_to_push(q) = Size - 1
<1>1. q.next_byte_to_push \in Slots /\ q.next_byte_to_pop \in Slots
  BY DEF Queues
<1> QED
  BY <1>1, SizeAssumption DEF Slots, available_to_pop, available_to_push

LEMMA SpaceType ==
    ASSUME NEW q \in Queues
    PROVE  contiguous_space_to_push(q) \in Int /\ contiguous_space_to_pop(q) \in Int
<1>1. /\ q.next_byte_to_push \in Int /\ q.next_byte_to_pop \in Int
      /\ available_to_push(q) \in Int /\ available_to_pop(q) \in Int
  BY Available, SizeAssumption DEF Queues, Slots
<1>2. Size \in Int
  BY SizeAssumption
<1> QED
  BY <1>1, <1>2
  DEF contiguous_space_to_push, contiguous_space_to_pop, Contiguous

LEMMA ContentsType ==
    ASSUME NEW q \in Queues
    PROVE  /\ Contents(q) \in Seq(Nat)
           /\ Len(Contents(q)) = available_to_pop(q)
           /\ \A i \in 1..available_to_pop(q) :
                 Contents(q)[i] = q.buffer[Slot(q.next_byte_to_pop + (i - 1))]
<1>1. q.next_byte_to_pop \in Slots /\ q.buffer \in [Slots -> Nat]
  BY DEF Queues
<1>2. available_to_pop(q) \in Slots
  BY Available
<1>3. ASSUME NEW i \in 1..available_to_pop(q)
      PROVE  q.buffer[Slot(q.next_byte_to_pop + (i - 1))] \in Nat
  <2>1. Slot(q.next_byte_to_pop + (i - 1)) \in Slots
    BY <1>1, <1>2, SizeAssumption DEF Slot, Slots
  <2> QED
    BY <1>1, <2>1
<1>4. Contents(q) \in [1..available_to_pop(q) -> Nat]
  BY <1>3 DEF Contents
<1>5. available_to_pop(q) \in Nat
  BY <1>2, SizeAssumption DEF Slots
<1> QED
  BY <1>4, <1>5 DEF Contents

\* A push appends the chunk, also when it ends at the end of the buffer.
THEOREM PushAppends ==
    ASSUME NEW q \in Queues, NEW chunk \in Seq(Nat),
           1 <= Len(chunk), Len(chunk) <= contiguous_space_to_push(q)
    PROVE  /\ push(q, chunk) \in Queues
           /\ Contents(push(q, chunk)) = Contents(q) \o chunk
<1> DEFINE r == push(q, chunk)
           b == q.next_byte_to_push
           o == q.next_byte_to_pop
           n == Len(chunk)
           w == Wrap(b + n)
           held == available_to_pop(q)
           T == Contents(q) \o chunk
<1>1. b \in Slots /\ o \in Slots /\ q.buffer \in [Slots -> Nat]
  BY DEF Queues
<1>2. n \in Nat /\ n >= 1
  OBVIOUS
<1>3. b + n <= Size /\ n <= available_to_push(q)
  BY <1>1, <1>2, Available, SizeAssumption, SMTT(30)
  DEF contiguous_space_to_push, Contiguous, Slots
<1>4. /\ r.buffer = [i \in Slots |-> IF b <= i /\ i < b + n
                                     THEN chunk[(i - b) + 1] ELSE q.buffer[i]]
      /\ r.next_byte_to_push = w
      /\ r.next_byte_to_pop = o
  BY DEF push
<1>5. r \in Queues
  <2>1. \A i \in Slots : b <= i /\ i < b + n => chunk[(i - b) + 1] \in Nat
    <3> SUFFICES ASSUME NEW i \in Slots, b <= i, i < b + n
                 PROVE  chunk[(i - b) + 1] \in Nat
      OBVIOUS
    <3>1. (i - b) + 1 \in 1..n
      BY <1>1, <1>2, SizeAssumption, SMTT(30) DEF Slots
    <3> QED
      BY <3>1, ElementOfSeq
  <2>2. r.buffer \in [Slots -> Nat]
    BY <1>1, <1>4, <2>1
  <2>3. w \in Slots
    BY <1>1, <1>2, <1>3, SizeAssumption DEF Wrap, Slots
  <2> QED
    BY <1>1, <1>4, <2>2, <2>3 DEF Queues, push
<1>6. /\ held = (b - o) + (IF o > b THEN Size ELSE 0)
      /\ available_to_push(q) = (o - b - 1) + (IF o > b THEN 0 ELSE Size)
      /\ available_to_pop(r) = (w - o) + (IF o > w THEN Size ELSE 0)
      /\ w = IF b + n = Size THEN 0 ELSE b + n
  BY <1>4 DEF available_to_pop, available_to_push, Wrap
<1>7. /\ T \in Seq(Nat) /\ Len(T) = held + n /\ held \in Nat
      /\ \A i \in 1..(held + n) :
            T[i] = IF i <= held THEN q.buffer[Slot(o + (i - 1))]
                   ELSE chunk[i - held]
  <2>1. held \in Nat
    BY Available, SizeAssumption DEF Slots
  <2>2. /\ Contents(q) \in Seq(Nat) /\ Len(Contents(q)) = held
        /\ \A i \in 1..held : Contents(q)[i] = q.buffer[Slot(o + (i - 1))]
    BY ContentsType
  <2> DEFINE C == Contents(q)
  <2> HIDE DEF C, held
  <2>3. /\ C \o chunk \in Seq(Nat) /\ Len(C \o chunk) = held + n
        /\ \A i \in 1..(held + n) :
              (C \o chunk)[i] = IF i <= held THEN C[i] ELSE chunk[i - held]
    BY <2>2, ConcatProperties DEF C
  <2> QED
    BY <1>2, <2>1, <2>2, <2>3 DEF C
<1>8. available_to_pop(r) = Len(Contents(r)) /\ Contents(r) \in Seq(Nat)
      /\ \A i \in 1..available_to_pop(r) :
            Contents(r)[i] = r.buffer[Slot(o + (i - 1))]
  BY <1>4, <1>5, ContentsType
<1> HIDE DEF r, b, o, n, w, held, T
<1>9. available_to_pop(r) = held + n
  BY <1>1, <1>2, <1>3, <1>6, SizeAssumption DEF Slots
<1>10. ASSUME NEW i \in 1..(held + n)
       PROVE  Contents(r)[i] = T[i]
  <2> DEFINE slot == Slot(o + (i - 1))
  <2>1. slot \in Slots
    BY <1>1, <1>2, <1>3, <1>6, <1>7, SizeAssumption DEF Slot, Slots
  <2>2. Contents(r)[i] = IF b <= slot /\ slot < b + n
                         THEN chunk[(slot - b) + 1] ELSE q.buffer[slot]
    BY <1>4, <1>8, <1>9, <2>1
  <2>3. CASE i <= held
    <3>1. ~(b <= slot /\ slot < b + n)
      BY <1>1, <1>2, <1>3, <1>6, <1>7, <2>3, SizeAssumption DEF Slot, Slots
    <3> QED
      BY <1>7, <2>2, <2>3, <3>1
  <2>4. CASE ~(i <= held)
    <3>1. b <= slot /\ slot < b + n /\ (slot - b) + 1 = i - held
      BY <1>1, <1>2, <1>3, <1>6, <1>7, <2>4, SizeAssumption DEF Slot, Slots
    <3> QED
      BY <1>7, <2>2, <2>4, <3>1
  <2> QED
    BY <2>3, <2>4
<1>11. Contents(r) = T
  <2> DEFINE S == Contents(r)
  <2>1. S \in Seq(Nat) /\ T \in Seq(Nat) /\ Len(S) = Len(T)
        /\ \A i \in 1..Len(S) : S[i] = T[i]
    BY <1>7, <1>8, <1>9, <1>10
  <2> HIDE DEF S
  <2>2. S = T
    BY <2>1, SeqEqual
  <2> QED
    BY <2>2 DEF S
<1> QED
  BY <1>5, <1>11 DEF r, T

\* What pop() writes is the front of what is held, and the rest stays.
THEOREM PopTakesFront ==
    ASSUME NEW q \in Queues, NEW n \in 1..contiguous_space_to_pop(q)
    PROVE  /\ pop(q, n) \in Queues
           /\ Front(q, n) \in Seq(Nat) /\ Len(Front(q, n)) = n
           /\ Contents(q) = Front(q, n) \o Contents(pop(q, n))
<1> DEFINE r == pop(q, n)
           b == q.next_byte_to_push
           o == q.next_byte_to_pop
           w == Wrap(o + n)
           held == available_to_pop(q)
           left == available_to_pop(r)
           F == Front(q, n)
           C == Contents(r)
           S == Contents(q)
           T == F \o C
<1>1. b \in Slots /\ o \in Slots /\ q.buffer \in [Slots -> Nat]
  BY DEF Queues
<1>2. held \in Nat /\ held < Size
  BY Available, SizeAssumption DEF Slots
<1>3. n \in Nat /\ n >= 1 /\ o + n <= Size /\ n <= held
  BY <1>1, <1>2, SizeAssumption, Available
  DEF contiguous_space_to_pop, Contiguous, Slots
<1>4. r.buffer = q.buffer /\ r.next_byte_to_push = b
      /\ r.next_byte_to_pop = w
  BY DEF pop
<1>5. r \in Queues
  <2>1. w \in Slots
    BY <1>1, <1>3, SizeAssumption DEF Wrap, Slots
  <2> QED
    BY <1>1, <2>1 DEF Queues, pop
<1>6. /\ held = (b - o) + (IF o > b THEN Size ELSE 0)
      /\ left = (b - w) + (IF w > b THEN Size ELSE 0)
      /\ w = IF o + n = Size THEN 0 ELSE o + n
  BY <1>4 DEF available_to_pop, Wrap
<1>7. F \in Seq(Nat) /\ Len(F) = n
      /\ \A i \in 1..n : F[i] = q.buffer[o + (i - 1)]
  <2>1. \A i \in 1..n : o + (i - 1) \in Slots
    BY <1>1, <1>3, SizeAssumption DEF Slots
  <2>2. F \in [1..n -> Nat]
    BY <1>1, <2>1 DEF Front
  <2>3. \A i \in 1..n : F[i] = q.buffer[o + (i - 1)]
    BY DEF Front
  <2> HIDE DEF F
  <2> QED
    BY <1>3, <2>2, <2>3
<1>8. /\ S \in Seq(Nat) /\ Len(S) = held
      /\ \A i \in 1..held : S[i] = q.buffer[Slot(o + (i - 1))]
  BY ContentsType
<1>9. /\ C \in Seq(Nat) /\ Len(C) = left
      /\ \A i \in 1..left : C[i] = q.buffer[Slot(w + (i - 1))]
  BY <1>4, <1>5, ContentsType
<1> HIDE DEF r, b, o, w, held, left, F, C, S
<1>10. left = held - n
  BY <1>1, <1>3, <1>6, SizeAssumption DEF Slots
<1>11. T \in Seq(Nat) /\ Len(T) = held
       /\ \A i \in 1..held : T[i] = IF i <= n THEN F[i] ELSE C[i - n]
  <2>1. T \in Seq(Nat) /\ Len(T) = n + left
        /\ \A i \in 1..(n + left) : T[i] = IF i <= n THEN F[i] ELSE C[i - n]
    BY <1>7, <1>9, ConcatProperties
  <2>2. n + left = held
    BY <1>2, <1>3, <1>10
  <2> QED
    BY <2>1, <2>2
<1> HIDE DEF T
<1>12. ASSUME NEW i \in 1..held
       PROVE  S[i] = T[i]
  <2>1. CASE i <= n
    <3>1. Slot(o + (i - 1)) = o + (i - 1) /\ i \in 1..n
      BY <1>1, <1>2, <1>3, <2>1, SizeAssumption DEF Slot, Slots
    <3> QED
      BY <1>7, <1>8, <1>11, <2>1, <3>1
  <2>2. CASE ~(i <= n)
    <3>1. Slot(o + (i - 1)) = Slot(w + ((i - n) - 1)) /\ i - n \in 1..left
      BY <1>1, <1>2, <1>3, <1>6, <1>10, <2>2, SizeAssumption DEF Slot, Slots
    <3> QED
      BY <1>8, <1>9, <1>11, <2>2, <3>1
  <2> QED
    BY <2>1, <2>2
<1>13. S = T
  BY <1>8, <1>11, <1>12, SeqEqual
<1> QED
  BY <1>5, <1>7, <1>13 DEF r, F, C, S, T
-----------------------------------------------------------------------------
(* The relay                                                               *)

\* The queue positions that poll() was asked about still hold, while it waits
\* and while the callbacks run.
StillAsserted ==
    /\ poller.polling => \A i \in poller.events : Assert(i)
    /\ \A i \in poller.ready : Assert(i)

\* Only the end of a stream cancels an action, and nothing follows it.
EofIsFinal ==
    /\ \A i \in Actions : i \notin poller.active => IsIn(i) /\ fd_eof[Fd(i)]
    /\ \A s \in Sides : fd_eof[s] => s \in closed /\ taken[s] = sent[s]

\* The loop only exits with both streams at their end and the queues empty.
ExitIsFinal ==
    outcome = "exit" =>
        \A s \in Sides : fd_eof[s] /\ available_to_pop(queue[s]) = 0

IInv == TypeOK /\ RelayedInOrder /\ StillAsserted /\ EofIsFinal /\ ExitIsFinal

\* The proxy moves to TypeOK states one conjunct at a time.
LEMMA QueueType ==
    ASSUME TypeOK, NEW s \in Sides
    PROVE  /\ queue[s] \in Queues
           /\ taken[s] \in Nat /\ sent[s] \in Nat /\ unread[s] \in Nat
           /\ delivered[s] \in Seq(Nat)
BY DEF TypeOK, Queues

LEMMA ActionSides ==
    ASSUME NEW i \in Actions
    PROVE  Fd(i) \in Sides /\ StreamOf(i) \in Sides
BY DEF Fd, StreamOf, Other, Sides

LEMMA BytesType ==
    ASSUME NEW m \in Nat, NEW n \in Nat, NEW c \in Nat, c = (n - m) + 1
    PROVE  /\ Bytes(m, n) \in Seq(Nat) /\ Len(Bytes(m, n)) = c
           /\ \A k \in 1..c : Bytes(m, n)[k] = (m + k) - 1
<1>1. Bytes(m, n) = [k \in 1..c |-> (m + k) - 1]
  BY DEF Bytes
<1>2. \A k \in 1..c : (m + k) - 1 \in Nat
  OBVIOUS
<1>3. Bytes(m, n) \in [1..c -> Nat]
  BY <1>1, <1>2
<1> QED
  BY <1>1, <1>3

\* The bytes up to t, followed by the n next ones.
LEMMA BytesAppend ==
    ASSUME NEW t \in Nat, NEW n \in Nat
    PROVE  Bytes(1, t) \o Bytes(t + 1, t + n) = Bytes(1, t + n)
<1> DEFINE A == Bytes(1, t)
           B == Bytes(t + 1, t + n)
           C == Bytes(1, t + n)
           D == A \o B
<1>1. /\ A \in Seq(Nat) /\ Len(A) = t
      /\ \A k \in 1..t : A[k] = (1 + k) - 1
  <2>1. t = (t - 1) + 1
    OBVIOUS
  <2> QED
    BY <2>1, BytesType
<1>2. /\ B \in Seq(Nat) /\ Len(B) = n
      /\ \A k \in 1..n : B[k] = ((t + 1) + k) - 1
  <2>1. n = ((t + n) - (t + 1)) + 1 /\ t + 1 \in Nat /\ t + n \in Nat
    OBVIOUS
  <2> QED
    BY <2>1, BytesType
<1>3. /\ C \in Seq(Nat) /\ Len(C) = t + n
      /\ \A k \in 1..(t + n) : C[k] = (1 + k) - 1
  <2>1. t + n = ((t + n) - 1) + 1 /\ t + n \in Nat
    OBVIOUS
  <2> QED
    BY <2>1, BytesType
<1> HIDE DEF A, B, C
<1>4. /\ D \in Seq(Nat) /\ Len(D) = t + n
      /\ \A k \in 1..(t + n) : D[k] = IF k <= t THEN A[k] ELSE B[k - t]
  BY <1>1, <1>2, ConcatProperties
<1> HIDE DEF D
<1>5. ASSUME NEW k \in 1..(t + n)
      PROVE  D[k] = C[k]
  <2>1. CASE k <= t
    BY <1>1, <1>3, <1>4, <2>1
  <2>2. CASE ~(k <= t)
    <3>1. k - t \in 1..n
      BY <2>2
    <3> QED
      BY <1>2, <1>3, <1>4, <2>2, <3>1
  <2> QED
    BY <2>1, <2>2
<1>6. D = C
  BY <1>3, <1>4, <1>5, SeqEqual
<1> QED
  BY <1>6 DEF A, B, C, D

LEMMA InitLemma == Init => IInv
<1> SUFFICES ASSUME Init PROVE IInv
  OBVIOUS
<1>1. NewQueue \in Queues /\ available_to_pop(NewQueue) = 0
  BY SizeAssumption DEF NewQueue, Queues, Slots, available_to_pop
<1>2. TypeOK
  <2>1. queue \in [Sides -> Queues]
    BY <1>1 DEF Init
  <2>2. <<>> \in Seq(Nat)
    OBVIOUS
  <2>3. delivered \in [Sides -> Seq(Nat)]
    BY <2>2 DEF Init
  <2> QED
    BY <2>1, <2>3 DEF Init, PollerInit, TypeOK, Queues
<1>3. RelayedInOrder
  <2>1. Contents(NewQueue) \in Seq(Nat) /\ Len(Contents(NewQueue)) = 0
    BY <1>1, ContentsType
  <2>2. Bytes(1, 0) \in Seq(Nat) /\ Len(Bytes(1, 0)) = 0
    <3>1. 0 = (0 - 1) + 1
      OBVIOUS
    <3> QED
      BY <3>1, BytesType
  <2>3. Contents(NewQueue) = <<>> /\ Bytes(1, 0) = <<>>
    BY <2>1, <2>2, EmptySeq
  <2>4. <<>> \o <<>> = <<>>
    BY EmptySeq, ConcatEmptySeq
  <2> QED
    BY <2>3, <2>4 DEF Init, RelayedInOrder
<1>4. StillAsserted /\ EofIsFinal /\ ExitIsFinal
  BY DEF Init, PollerInit, StillAsserted, EofIsFinal, ExitIsFinal
<1> QED
  BY <1>2, <1>3, <1>4 DEF IInv

\* What the peers do leaves the proxy alone and never goes behind its back.
LEMMA PeerLemma ==
    ASSUME IInv, NEW s \in Sides,
           Sends(s) \/ Reads(s) \/ Closes(s) \/ Resets(s)
    PROVE  IInv'
<1>1. UNCHANGED proxyVars
  BY DEF Sends, Reads, Closes, Resets
<1>2. Other(s) \in Sides
  BY DEF Other, Sides
<1>3. TypeOK'
  <2>1. sent' \in [Sides -> Nat]
    <3>1. sent \in [Sides -> Nat]
      BY DEF IInv, TypeOK
    <3>2. sent' = sent \/ sent' = [sent EXCEPT ![s] = @ + 1]
      BY DEF Sends, Reads, Closes, Resets
    <3> QED
      BY <3>1, <3>2
  <2>2. unread' \in [Sides -> Nat]
    <3>1. unread \in [Sides -> Nat]
      BY DEF IInv, TypeOK
    <3>2. \/ unread' = unread
          \/ /\ unread[Other(s)] > 0
             /\ unread' = [unread EXCEPT ![Other(s)] = @ - 1]
      BY DEF Sends, Reads, Closes, Resets
    <3>3. unread[Other(s)] > 0 => unread[Other(s)] - 1 \in Nat
      BY <1>2, <3>1
    <3> QED
      BY <1>2, <3>1, <3>2, <3>3
  <2>3. closed' \subseteq Sides /\ broken' \subseteq Sides
    BY DEF IInv, TypeOK, Sends, Reads, Closes, Resets
  <2> QED
    BY <1>1, <2>1, <2>2, <2>3 DEF IInv, TypeOK, proxyVars
<1>4. RelayedInOrder' /\ StillAsserted' /\ ExitIsFinal'
  BY <1>1 DEF IInv, RelayedInOrder, StillAsserted, ExitIsFinal, Assert,
              proxyVars
<1>5. EofIsFinal'
  <2>1. \A r \in Sides : fd_eof[r] => r \in closed' /\ sent'[r] = sent[r]
    <3> SUFFICES ASSUME NEW r \in Sides, fd_eof[r]
                 PROVE  r \in closed' /\ sent'[r] = sent[r]
      OBVIOUS
    <3>1. r \in closed
      BY DEF IInv, EofIsFinal
    <3>2. r \in closed'
      BY <3>1 DEF Sends, Reads, Closes, Resets
    <3>3. sent'[r] = sent[r]
      BY <3>1 DEF IInv, TypeOK, Sends, Reads, Closes, Resets
    <3> QED
      BY <3>2, <3>3
  <2> QED
    BY <1>1, <2>1 DEF IInv, EofIsFinal, proxyVars
<1> QED
  BY <1>3, <1>4, <1>5 DEF IInv

\* The actions of the loop that leave the queues and the peers alone.
LEMMA PollLemma ==
    ASSUME IInv,
           LoopPolls \/ LoopWakes
               \/ \E i \in Actions : LoopEnds(i) \/ SystemCallFails(i)
    PROVE  IInv'
<1>1. UNCHANGED <<queue, fd_eof, taken, delivered, writing, peerVars>>
  BY DEF LoopPolls, LoopWakes, LoopEnds, SystemCallFails
<1>2. /\ RelayedInOrder'
      /\ \A i \in Actions : Assert(i)' = Assert(i)
  BY <1>1 DEF IInv, RelayedInOrder, Assert
<1>3. /\ poller.active \subseteq Actions /\ poller.events \subseteq Actions
      /\ poller.ready \subseteq Actions /\ poller.failed \subseteq Actions
      /\ poller.polling \in BOOLEAN
  BY DEF IInv, TypeOK
<1>4. SUFFICES /\ poller' \in [active : SUBSET Actions, events : SUBSET Actions,
                               ready : SUBSET Actions, failed : SUBSET Actions,
                               polling : BOOLEAN]
               /\ outcome' \in {"running", "exit", "error", "exception",
                                "killed"}
               /\ StillAsserted' /\ ExitIsFinal'
               /\ poller'.active = poller.active
  <2>1. TypeOK'
    BY <1>1, <1>4 DEF IInv, TypeOK, peerVars
  <2>2. EofIsFinal'
    BY <1>1, <1>4 DEF IInv, EofIsFinal, peerVars
  <2> QED
    BY <1>2, <1>4, <2>1, <2>2 DEF IInv
<1>5. CASE \E i \in Actions : LoopEnds(i) \/ SystemCallFails(i)
  <2>1. poller' = poller /\ outcome' \in {"error", "exception", "killed"}
    BY <1>5 DEF LoopEnds, SystemCallFails, PollFails, CallbackThrows
  <2> QED
    BY <1>2, <1>3, <2>1 DEF IInv, TypeOK, StillAsserted, ExitIsFinal
<1>6. CASE LoopWakes
  <2>1. /\ poller.polling /\ outcome' = outcome /\ outcome = "running"
        /\ poller' = [poller EXCEPT !.ready = poller.events \cap ReadyNow,
                                    !.failed = FailedNow, !.polling = FALSE]
    BY <1>6 DEF LoopWakes, PollReturns
  <2>2. FailedNow \subseteq Actions
    BY DEF FailedNow
  <2>3. poller' \in [active : SUBSET Actions, events : SUBSET Actions,
                     ready : SUBSET Actions, failed : SUBSET Actions,
                     polling : BOOLEAN]
        /\ poller'.ready \subseteq poller.events /\ ~poller'.polling
        /\ poller'.active = poller.active
    BY <1>3, <2>1, <2>2 DEF IInv, TypeOK
  <2>4. \A i \in poller.events : Assert(i)
    BY <2>1 DEF IInv, StillAsserted
  <2>5. StillAsserted'
    BY <1>2, <1>3, <2>3, <2>4 DEF StillAsserted
  <2> QED
    BY <2>1, <2>3, <2>5 DEF ExitIsFinal
<1>7. CASE LoopPolls
  <2> DEFINE events == poller.active \cap Interested
  <2>1. CASE events = {} /\ outcome' = "exit" /\ poller' = poller
    <3>1. StillAsserted'
      BY <1>2, <1>3, <2>1 DEF IInv, StillAsserted
    <3>2. ASSUME NEW s \in Sides
          PROVE  fd_eof[s] /\ available_to_pop(queue[s]) = 0
      <4>1. PICK i \in Actions : IsIn(i) /\ Fd(i) = s
        BY RelayAssumption DEF IsIn, Fd, Sides
      <4>2. PICK j \in Actions : ~IsIn(j) /\ StreamOf(j) = s
        BY RelayAssumption DEF IsIn, Fd, Sides, StreamOf, Other
      <4>3. j \in poller.active /\ j \notin Interested
        BY <2>1, <4>2 DEF IInv, EofIsFinal
      <4>4. ~non_empty(queue[s])
        BY <4>2, <4>3 DEF Interested
      <4>5. available_to_pop(queue[s]) = 0 /\ available_to_push(queue[s]) > 0
        BY <4>4, QueueType, Available, SizeAssumption
        DEF IInv, non_empty, Slots
      <4>6. space_available(queue[s])
        BY <4>5 DEF space_available
      <4>7. i \notin poller.active => fd_eof[s]
        BY <4>1 DEF IInv, EofIsFinal
      <4>8. i \notin Interested => fd_eof[s]
        BY <4>1, <4>6 DEF Interested
      <4> QED
        BY <2>1, <4>5, <4>7, <4>8
    <3>3. ExitIsFinal'
      BY <1>1, <3>2 DEF ExitIsFinal
    <3> QED
      BY <2>1, <3>1, <3>3 DEF IInv, TypeOK
  <2>2. CASE events # {} /\ outcome' = outcome /\ outcome = "running"
             /\ poller' = [poller EXCEPT !.events = events, !.polling = TRUE]
    <3>1. \A i \in events : Assert(i)
      BY <1>3 DEF Interested, Assert
    <3>2. poller' \in [active : SUBSET Actions, events : SUBSET Actions,
                       ready : SUBSET Actions, failed : SUBSET Actions,
                       polling : BOOLEAN]
          /\ poller'.active = poller.active /\ poller'.events = events
          /\ poller'.ready = poller.ready
      BY <1>3, <2>2 DEF IInv, TypeOK
    <3>3. StillAsserted'
      BY <1>2, <1>3, <3>1, <3>2 DEF IInv, StillAsserted
    <3> QED
      BY <2>2, <3>2, <3>3 DEF ExitIsFinal
  <2> QED
    BY <1>7, <2>1, <2>2 DEF LoopPolls, Poll
<1> QED
  BY <1>5, <1>6, <1>7

\* A callback that the loop over the descriptors has come to.
LEMMA CallbackLemma ==
    ASSUME IInv, NEW i \in Actions, NEW cancel \in BOOLEAN, Callback(i, cancel)
    PROVE  /\ poller' \in [active : SUBSET Actions, events : SUBSET Actions,
                           ready : SUBSET Actions, failed : SUBSET Actions,
                           polling : BOOLEAN]
           /\ outcome = "running" /\ outcome' = outcome
           /\ ~poller.polling /\ ~poller'.polling
           /\ i \in poller.ready /\ Assert(i)
           /\ poller'.ready = poller.ready \ {i}
           /\ poller'.active
                = IF cancel THEN poller.active \ {i} ELSE poller.active
<1>1. /\ poller.active \subseteq Actions /\ poller.events \subseteq Actions
      /\ poller.ready \subseteq Actions /\ poller.failed \subseteq Actions
      /\ poller.polling \in BOOLEAN
  BY DEF IInv, TypeOK
<1>2. /\ outcome = "running" /\ ~poller.polling /\ outcome' = outcome
      /\ i \in poller.ready
      /\ poller' = [poller EXCEPT !.ready = @ \ {i},
                                  !.active = IF cancel THEN @ \ {i} ELSE @]
  BY DEF Callback, Reaches
<1>3. Assert(i)
  BY <1>2 DEF IInv, StillAsserted
<1> QED
  BY <1>1, <1>2, <1>3 DEF IInv, TypeOK

\* Bytes read into a queue go behind those it holds.
LEMMA PushLemma ==
    ASSUME IInv, NEW i \in Actions, PushBytes(i)
    PROVE  IInv'
<1> DEFINE s == Fd(i)
           q == queue[s]
           held == sent[s] - taken[s]
           space == contiguous_space_to_push(q)
           n == IF held < space THEN held ELSE space
           chunk == Bytes(taken[s] + 1, taken[s] + n)
<1>1. /\ Callback(i, FALSE) /\ IsIn(i) /\ n > 0
      /\ queue' = [queue EXCEPT ![s] = push(@, chunk)]
      /\ taken' = [taken EXCEPT ![s] = @ + n]
      /\ UNCHANGED <<fd_eof, delivered, writing, sent, unread, closed, broken>>
  BY DEF PushBytes, peerVars
<1>2. /\ poller' \in [active : SUBSET Actions, events : SUBSET Actions,
                      ready : SUBSET Actions, failed : SUBSET Actions,
                      polling : BOOLEAN]
      /\ outcome = "running" /\ outcome' = outcome
      /\ ~poller.polling /\ ~poller'.polling
      /\ poller'.ready = poller.ready \ {i}
      /\ poller'.active = poller.active
  BY <1>1, CallbackLemma
<1>3. /\ s \in Sides /\ q \in Queues /\ taken[s] \in Nat /\ sent[s] \in Nat
      /\ delivered[s] \in Seq(Nat)
  BY ActionSides, QueueType DEF IInv
<1>4. space \in Int
  BY <1>3, SpaceType
<1>5. n \in Nat /\ 1 <= n /\ n <= space /\ n <= held
  BY <1>1, <1>3, <1>4
<1> HIDE DEF n
<1>6. chunk \in Seq(Nat) /\ Len(chunk) = n
  <2>1. /\ taken[s] + 1 \in Nat /\ taken[s] + n \in Nat
        /\ n = ((taken[s] + n) - (taken[s] + 1)) + 1
    BY <1>3, <1>5
  <2> QED
    BY <1>5, <2>1, BytesType
<1>7. push(q, chunk) \in Queues /\ Contents(push(q, chunk)) = Contents(q) \o chunk
  BY <1>3, <1>5, <1>6, PushAppends
<1>8. queue \in [Sides -> Queues] /\ taken \in [Sides -> Nat]
  BY DEF IInv, TypeOK, Queues
<1> HIDE DEF chunk
<1>9. /\ queue'[s] = push(q, chunk) /\ taken'[s] = taken[s] + n
      /\ \A r \in Sides \ {s} : queue'[r] = queue[r] /\ taken'[r] = taken[r]
  BY <1>1, <1>3, <1>8
<1>10. TypeOK'
  <2>1. queue' \in [Sides -> Queues]
    BY <1>1, <1>7, <1>8
  <2>2. taken' \in [Sides -> Nat]
    BY <1>1, <1>3, <1>5, <1>8
  <2> QED
    BY <1>1, <1>2, <2>1, <2>2 DEF IInv, TypeOK, Queues
<1>11. RelayedInOrder'
  <2>1. delivered[s] \o Contents(q) = Bytes(1, taken[s])
    BY <1>3 DEF IInv, RelayedInOrder
  <2>2. Contents(q) \in Seq(Nat)
    BY <1>3, ContentsType
  <2>3. delivered[s] \o (Contents(q) \o chunk)
          = (delivered[s] \o Contents(q)) \o chunk
    <3> DEFINE d == delivered[s]
               C == Contents(q)
    <3>1. d \in Seq(Nat) /\ C \in Seq(Nat) /\ chunk \in Seq(Nat)
      BY <1>3, <1>6, <2>2
    <3> HIDE DEF d, C
    <3>2. (d \o C) \o chunk = d \o (C \o chunk)
      BY ONLY <3>1, ConcatAssociative, SMTT(60)
    <3> QED
      BY <3>2 DEF d, C
  <2>4. Bytes(1, taken[s]) \o chunk = Bytes(1, taken[s] + n)
    BY <1>3, <1>5, BytesAppend DEF chunk
  <2>5. delivered[s] \o Contents(push(q, chunk)) = Bytes(1, taken[s] + n)
    BY <1>7, <2>1, <2>3, <2>4
  <2> QED
    BY <1>1, <1>9, <2>5 DEF IInv, RelayedInOrder
<1>12. StillAsserted'
  <2> SUFFICES ASSUME NEW j \in poller'.ready
               PROVE  Assert(j)'
    BY <1>2 DEF StillAsserted
  <2>1. j \in Actions /\ j # i /\ Assert(j)
    BY <1>2 DEF IInv, TypeOK, StillAsserted
  <2>2. CASE IsIn(j)
    <3>1. Fd(j) # s /\ Fd(j) \in Sides
      BY <1>1, <2>1, <2>2, RelayAssumption DEF IsIn, Fd, Sides
    <3> QED
      BY <1>9, <2>1, <2>2, <3>1 DEF Assert
  <2>3. CASE ~IsIn(j) /\ StreamOf(j) # s
    BY <1>9, <2>1, <2>3, ActionSides DEF Assert
  <2>4. CASE ~IsIn(j) /\ StreamOf(j) = s
    <3>1. Len(Contents(push(q, chunk))) = Len(Contents(q)) + n
      BY <1>3, <1>6, <1>7, ContentsType, ConcatProperties
    <3>2. available_to_pop(push(q, chunk)) = available_to_pop(q) + n
      BY <1>3, <1>7, <3>1, ContentsType
    <3>3. available_to_pop(q) \in Nat
      BY <1>3, Available, SizeAssumption DEF Slots
    <3>4. non_empty(push(q, chunk))
      BY <1>5, <3>2, <3>3 DEF non_empty
    <3> QED
      BY <1>9, <2>4, <3>4 DEF Assert
  <2> QED
    BY <2>2, <2>3, <2>4
<1>13. EofIsFinal'
  <2>1. ~fd_eof[s]
    BY <1>3, <1>5 DEF IInv, EofIsFinal
  <2> QED
    BY <1>1, <1>2, <1>9, <2>1 DEF IInv, EofIsFinal
<1>14. ExitIsFinal'
  BY <1>2 DEF ExitIsFinal
<1> QED
  BY <1>10, <1>11, <1>12, <1>13, <1>14 DEF IInv

\* The end of a stream only cancels the action.
LEMMA EofLemma ==
    ASSUME IInv, NEW i \in Actions, PushEof(i)
    PROVE  IInv'
<1>1. /\ Callback(i, TRUE) /\ IsIn(i)
      /\ sent[Fd(i)] = taken[Fd(i)] /\ Fd(i) \in closed
      /\ fd_eof' = [fd_eof EXCEPT ![Fd(i)] = TRUE]
      /\ UNCHANGED <<queue, taken, delivered, writing, sent, unread, closed, broken>>
  BY DEF PushEof, peerVars
<1>2. /\ poller' \in [active : SUBSET Actions, events : SUBSET Actions,
                      ready : SUBSET Actions, failed : SUBSET Actions,
                      polling : BOOLEAN]
      /\ outcome = "running" /\ outcome' = outcome
      /\ ~poller.polling /\ ~poller'.polling
      /\ poller'.ready = poller.ready \ {i}
      /\ poller'.active = poller.active \ {i}
  BY <1>1, CallbackLemma
<1>3. Fd(i) \in Sides /\ fd_eof \in [Sides -> BOOLEAN]
  BY ActionSides DEF IInv, TypeOK
<1>4. TypeOK'
  <2>1. fd_eof' \in [Sides -> BOOLEAN]
    BY <1>1, <1>3
  <2> QED
    BY <1>1, <1>2, <2>1 DEF IInv, TypeOK
<1>5. RelayedInOrder' /\ StillAsserted' /\ ExitIsFinal'
  BY <1>1, <1>2 DEF IInv, RelayedInOrder, StillAsserted, ExitIsFinal, Assert
<1>6. EofIsFinal'
  <2>1. fd_eof'[Fd(i)]
    BY <1>1, <1>3
  <2>2. \A r \in Sides : fd_eof[r] => fd_eof'[r]
    BY <1>1, <1>3
  <2>3. \A r \in Sides : fd_eof'[r] => r = Fd(i) \/ fd_eof[r]
    BY <1>1, <1>3
  <2>4. \A j \in Actions : j \notin poller'.active => IsIn(j) /\ fd_eof'[Fd(j)]
    BY <1>1, <1>2, <2>1, <2>2, ActionSides DEF IInv, EofIsFinal
  <2>5. \A r \in Sides : fd_eof'[r] => r \in closed' /\ taken'[r] = sent'[r]
    BY <1>1, <2>3 DEF IInv, EofIsFinal
  <2> QED
    BY <2>4, <2>5 DEF EofIsFinal
<1> QED
  BY <1>4, <1>5, <1>6 DEF IInv

\* A write that a reset cuts short leaves the rest in the queue.
LEMMA CutShortLemma ==
    ASSUME IInv, NEW i \in Actions, WriteCutShort(i)
    PROVE  IInv'
<1>1. /\ Callback(i, FALSE) /\ writing' \in BOOLEAN
      /\ UNCHANGED <<queue, fd_eof, taken, delivered, sent, unread, closed, broken>>
  BY DEF WriteCutShort, peerVars
<1>2. /\ poller' \in [active : SUBSET Actions, events : SUBSET Actions,
                      ready : SUBSET Actions, failed : SUBSET Actions,
                      polling : BOOLEAN]
      /\ outcome = "running" /\ outcome' = outcome
      /\ ~poller.polling /\ ~poller'.polling
      /\ poller'.ready = poller.ready \ {i}
      /\ poller'.active = poller.active
  BY <1>1, CallbackLemma
<1>3. TypeOK'
  BY <1>1, <1>2 DEF IInv, TypeOK
<1>4. RelayedInOrder' /\ StillAsserted' /\ ExitIsFinal'
  BY <1>1, <1>2 DEF IInv, RelayedInOrder, StillAsserted, ExitIsFinal, Assert
<1>5. EofIsFinal'
  BY <1>1, <1>2 DEF IInv, EofIsFinal
<1> QED
  BY <1>3, <1>4, <1>5 DEF IInv

\* What a write that waits has not passed on is still there to be popped.
LEMMA RestStays ==
    ASSUME NEW q \in Queues, NEW n \in 1..contiguous_space_to_pop(q),
           n < contiguous_space_to_pop(q)
    PROVE  non_empty(pop(q, n))
<1>1. /\ pop(q, n) \in Queues
      /\ Front(q, n) \in Seq(Nat) /\ Len(Front(q, n)) = n
      /\ Contents(q) = Front(q, n) \o Contents(pop(q, n))
  BY PopTakesFront
<1>2. available_to_pop(q) = n + available_to_pop(pop(q, n))
  BY <1>1, ContentsType, ConcatProperties
<1>3. contiguous_space_to_pop(q) <= available_to_pop(q)
  <2>1. /\ available_to_pop(q) \in Nat /\ q.next_byte_to_pop \in Nat
        /\ q.next_byte_to_pop < Size
    BY Available, SizeAssumption DEF Slots, Queues
  <2> QED
    BY <2>1, SizeAssumption DEF contiguous_space_to_pop, Contiguous
<1>4. available_to_pop(q) \in Int /\ available_to_pop(pop(q, n)) \in Int
      /\ n \in Int /\ contiguous_space_to_pop(q) \in Int
  BY <1>1, Available, SpaceType, SizeAssumption DEF Slots
<1>5. available_to_pop(pop(q, n)) > 0
  BY ONLY <1>2, <1>3, <1>4, n < contiguous_space_to_pop(q)
<1> QED
  BY <1>5 DEF non_empty

\* Bytes written to a peer are the oldest ones of the queue.
LEMMA PopLemma ==
    ASSUME IInv, NEW i \in Actions, PopBytes(i)
    PROVE  IInv'
<1> DEFINE s == StreamOf(i)
           q == queue[s]
<1>1. PICK n \in 1..contiguous_space_to_pop(q) :
         /\ delivered' = [delivered EXCEPT ![s] = @ \o Front(q, n)]
         /\ queue' = [queue EXCEPT ![s] = pop(@, n)]
         /\ unread' = [unread EXCEPT ![s] = @ + n]
         /\ writing' = (n < contiguous_space_to_pop(q))
         /\ IF n < contiguous_space_to_pop(q)
            THEN CallbackWaits(i) ELSE Callback(i, FALSE)
  BY DEF PopBytes
<1>2. ~IsIn(i) /\ UNCHANGED <<fd_eof, taken, sent, closed, broken>>
  BY DEF PopBytes
<1>3. /\ poller' \in [active : SUBSET Actions, events : SUBSET Actions,
                      ready : SUBSET Actions, failed : SUBSET Actions,
                      polling : BOOLEAN]
      /\ outcome = "running" /\ outcome' = outcome
      /\ ~poller.polling /\ ~poller'.polling
      /\ poller'.ready \subseteq poller.ready
      /\ i \in poller'.ready => n < contiguous_space_to_pop(q)
      /\ poller'.active = poller.active
  <2>1. CASE n < contiguous_space_to_pop(q)
    BY <1>1, <2>1 DEF CallbackWaits, Reaches, IInv, TypeOK
  <2>2. CASE ~(n < contiguous_space_to_pop(q))
    BY <1>1, <2>2, CallbackLemma
  <2> QED
    BY <2>1, <2>2
<1>4. /\ s \in Sides /\ q \in Queues /\ taken[s] \in Nat
      /\ delivered[s] \in Seq(Nat) /\ unread[s] \in Nat
  BY ActionSides, QueueType DEF IInv
<1>5. /\ pop(q, n) \in Queues
      /\ Front(q, n) \in Seq(Nat) /\ Len(Front(q, n)) = n
      /\ Contents(q) = Front(q, n) \o Contents(pop(q, n))
  BY <1>4, PopTakesFront
<1>6. /\ queue \in [Sides -> Queues] /\ delivered \in [Sides -> Seq(Nat)]
      /\ unread \in [Sides -> Nat]
  BY DEF IInv, TypeOK, Queues
<1>7. /\ queue'[s] = pop(q, n) /\ delivered'[s] = delivered[s] \o Front(q, n)
      /\ \A r \in Sides \ {s} :
            queue'[r] = queue[r] /\ delivered'[r] = delivered[r]
  BY <1>1, <1>4, <1>6
<1>8. TypeOK'
  <2>1. queue' \in [Sides -> Queues]
    BY <1>1, <1>5, <1>6
  <2>2. delivered[s] \o Front(q, n) \in Seq(Nat)
    BY <1>4, <1>5, ConcatProperties
  <2>3. delivered' \in [Sides -> Seq(Nat)]
    BY <1>1, <1>6, <2>2
  <2>4. n \in Nat
    BY <1>5
  <2>5. unread' \in [Sides -> Nat]
    BY <1>1, <1>4, <1>6, <2>4
  <2>6. writing' \in BOOLEAN
    BY <1>1
  <2> QED
    BY <1>2, <1>3, <2>1, <2>3, <2>5, <2>6 DEF IInv, TypeOK, Queues
<1>9. RelayedInOrder'
  <2>1. delivered[s] \o Contents(q) = Bytes(1, taken[s])
    BY <1>4 DEF IInv, RelayedInOrder
  <2>2. Contents(pop(q, n)) \in Seq(Nat)
    BY <1>5, ContentsType
  <2>3. (delivered[s] \o Front(q, n)) \o Contents(pop(q, n))
          = delivered[s] \o (Front(q, n) \o Contents(pop(q, n)))
    <3> DEFINE d == delivered[s]
               f == Front(q, n)
               C == Contents(pop(q, n))
    <3>1. d \in Seq(Nat) /\ f \in Seq(Nat) /\ C \in Seq(Nat)
      BY <1>4, <1>5, <2>2
    <3> HIDE DEF d, f, C
    <3>2. (d \o f) \o C = d \o (f \o C)
      BY ONLY <3>1, ConcatAssociative, SMTT(60)
    <3> QED
      BY <3>2 DEF d, f, C
  <2>4. delivered'[s] \o Contents(queue'[s]) = Bytes(1, taken[s])
    BY <1>5, <1>7, <2>1, <2>3
  <2> QED
    BY <1>2, <1>7, <2>4 DEF IInv, RelayedInOrder
<1>10. StillAsserted'
  <2> SUFFICES ASSUME NEW j \in poller'.ready
               PROVE  Assert(j)'
    BY <1>3 DEF StillAsserted
  <2>1. j \in Actions /\ Assert(j)
    BY <1>3 DEF IInv, TypeOK, StillAsserted
  <2>5. CASE j = i
    <3>1. n < contiguous_space_to_pop(q)
      BY <1>3, <2>5
    <3>2. non_empty(pop(q, n))
      BY <1>4, <3>1, RestStays
    <3> QED
      BY <1>2, <1>7, <2>5, <3>2 DEF Assert
  <2>2. CASE ~IsIn(j) /\ j # i
    <3>1. StreamOf(j) # s /\ StreamOf(j) \in Sides
      BY <1>2, <2>1, <2>2, RelayAssumption DEF IsIn, Fd, Sides, StreamOf, Other
    <3> QED
      BY <1>7, <2>1, <2>2, <3>1 DEF Assert
  <2>3. CASE IsIn(j) /\ Fd(j) # s
    BY <1>7, <2>1, <2>3, ActionSides DEF Assert
  <2>4. CASE IsIn(j) /\ Fd(j) = s
    <3>1. Len(Contents(q)) = n + Len(Contents(pop(q, n)))
      BY <1>5, ContentsType, ConcatProperties
    <3>2. available_to_pop(q) = n + available_to_pop(pop(q, n))
      BY <1>4, <1>5, <3>1, ContentsType
    <3>n. n \in Nat
      BY <1>5
    <3>3. /\ available_to_pop(q) + available_to_push(q) = Size - 1
          /\ available_to_pop(q) \in Slots /\ available_to_push(q) \in Slots
      BY <1>4, Available
    <3>4. /\ available_to_pop(pop(q, n)) + available_to_push(pop(q, n)) = Size - 1
          /\ available_to_pop(pop(q, n)) \in Slots
          /\ available_to_push(pop(q, n)) \in Slots
      BY <1>5, Available
    <3>5. space_available(pop(q, n))
      <4>1. available_to_push(q) > 0
        BY <2>1, <2>4 DEF Assert, space_available
      <4> QED
        BY <3>2, <3>3, <3>4, <3>n, <4>1, SizeAssumption DEF space_available, Slots
    <3> QED
      BY <1>7, <2>4, <3>5 DEF Assert
  <2> QED
    BY <2>2, <2>3, <2>4, <2>5
<1>11. EofIsFinal' /\ ExitIsFinal'
  BY <1>2, <1>3 DEF IInv, EofIsFinal, ExitIsFinal
<1> QED
  BY <1>8, <1>9, <1>10, <1>11 DEF IInv

LEMMA NextLemma == IInv /\ [Next]_vars => IInv'
<1> SUFFICES ASSUME IInv, [Next]_vars PROVE IInv'
  OBVIOUS
<1>1. CASE \E s \in Sides : Sends(s) \/ Reads(s) \/ Closes(s) \/ Resets(s)
  BY <1>1, PeerLemma
<1>2. CASE Loop
  BY <1>2, PollLemma, PushLemma, EofLemma, PopLemma, CutShortLemma DEF Loop
<1>3. CASE UNCHANGED vars
  BY <1>3 DEF vars, IInv, TypeOK, RelayedInOrder, StillAsserted, EofIsFinal,
              ExitIsFinal, Assert
<1> QED
  BY <1>1, <1>2, <1>3 DEF Next

\* The bytes a peer gets are the other peer's, in order, whatever the size of
\* the ring buffer and however the reads and writes are cut.
THEOREM BytesInOrder == Spec => []RelayedInOrder
<1>1. IInv => RelayedInOrder
  BY DEF IInv
<1> QED
  BY InitLemma, NextLemma, <1>1, PTL DEF Spec

\* Interest that was looked up before poll() is still justified when the
\* callback runs: the asserts of push and pop never fail.
THEOREM RingAsserts == Spec => []AssertsHold
<1>1. IInv => AssertsHold
  BY DEF IInv, StillAsserted, AssertsHold, Reaches
<1> QED
  BY InitLemma, NextLemma, <1>1, PTL DEF Spec

\* A loop that exits by itself has relayed both streams to their end.
THEOREM ExitLosesNothing == Spec => []NothingLostAtExit
<1>1. IInv => NothingLostAtExit
  <2> SUFFICES ASSUME IInv, outcome = "exit", NEW s \in Sides
               PROVE  s \in closed /\ Len(delivered[s]) = sent[s]
    BY DEF NothingLostAtExit
  <2>1. fd_eof[s] /\ available_to_pop(queue[s]) = 0
    BY DEF IInv, ExitIsFinal
  <2>2. s \in closed /\ taken[s] = sent[s]
    BY <2>1 DEF IInv, EofIsFinal
  <2>3. /\ queue[s] \in Queues /\ delivered[s] \in Seq(Nat)
        /\ taken[s] \in Nat
    BY QueueType DEF IInv
  <2>4. Contents(queue[s]) \in Seq(Nat) /\ Len(Contents(queue[s])) = 0
    BY <2>1, <2>3, ContentsType
  <2>5. Len(delivered[s] \o Contents(queue[s])) = Len(delivered[s])
    <3> DEFINE d == delivered[s]
               C == Contents(queue[s])
    <3>1. d \in Seq(Nat) /\ C \in Seq(Nat) /\ Len(C) = 0
      BY <2>3, <2>4
    <3> HIDE DEF d, C
    <3>2. Len(d \o C) = Len(d) + Len(C)
      BY <3>1, ConcatProperties
    <3>3. Len(d \o C) = Len(d)
      BY <3>1, <3>2
    <3> QED
      BY <3>3 DEF d, C
  <2>6. taken[s] = (taken[s] - 1) + 1
    BY <2>3
  <2>7. Len(Bytes(1, taken[s])) = taken[s]
    BY <2>3, <2>6, BytesType
  <2> QED
    BY <2>2, <2>5, <2>7 DEF IInv, RelayedInOrder
<1> QED
  BY InitLemma, NextLemma, <1>1, PTL DEF Spec
=============================================================================
