-------------------------- MODULE ByteStreamQueue --------------------------
(***************************************************************************)
(* ByteStreamQueue (bytestream_queue.cc): a ring buffer of Size bytes      *)
(* between two sockets.  One slot stays free, so that a full buffer is not *)
(* taken for an empty one, and a push or pop ends at the end of the buffer *)
(* at the latest.  The code's size_t differences wrap around and back, as  *)
(* their sums lie in 0..(Size - 1).                                        *)
(***************************************************************************)
EXTENDS Integers, Sequences

CONSTANT Size     \* ezio::read_chunk_size, 256 KB

\* assert( size > 1 )
ASSUME SizeAssumption == Size \in Nat /\ Size > 1

Slots == 0..(Size - 1)

NewQueue == [buffer |-> [i \in Slots |-> 0],
             next_byte_to_push |-> 0, next_byte_to_pop |-> 0]

available_to_pop(q) ==
    (q.next_byte_to_push - q.next_byte_to_pop)
        + (IF q.next_byte_to_pop > q.next_byte_to_push THEN Size ELSE 0)

\* Mutant of available_to_push: no slot stays free.
available_to_push_all(q) ==
    (q.next_byte_to_pop - q.next_byte_to_push)
        + (IF q.next_byte_to_pop > q.next_byte_to_push THEN 0 ELSE Size)

available_to_push(q) ==
    (q.next_byte_to_pop - q.next_byte_to_push - 1)
        + (IF q.next_byte_to_pop > q.next_byte_to_push THEN 0 ELSE Size)

space_available(q) == available_to_push(q) > 0
non_empty(q) == available_to_pop(q) > 0

\* The part of n bytes from position start on that lies before the end.
Contiguous(start, n) == IF start + n >= Size THEN Size - start ELSE n

contiguous_space_to_push(q) ==
    Contiguous(q.next_byte_to_push, available_to_push(q))
contiguous_space_to_pop(q) ==
    Contiguous(q.next_byte_to_pop, available_to_pop(q))

Wrap(n) == IF n = Size THEN 0 ELSE n

\* push() once the read has returned a chunk.
push(q, chunk) ==
    LET start == q.next_byte_to_push IN
    [buffer |-> [i \in Slots |->
                    IF start <= i /\ i < start + Len(chunk)
                    THEN chunk[(i - start) + 1] ELSE q.buffer[i]],
     next_byte_to_push |-> Wrap(start + Len(chunk)),
     next_byte_to_pop |-> q.next_byte_to_pop]

\* The n bytes that pop() writes from, and pop() once they have been written.
Front(q, n) == [i \in 1..n |-> q.buffer[q.next_byte_to_pop + (i - 1)]]

pop(q, n) ==
    [buffer |-> q.buffer,
     next_byte_to_push |-> q.next_byte_to_push,
     next_byte_to_pop |-> Wrap(q.next_byte_to_pop + n)]

\* The bytes held, in the order they will be popped.
Slot(n) == IF n >= Size THEN n - Size ELSE n
Contents(q) ==
    [i \in 1..available_to_pop(q) |->
        q.buffer[Slot(q.next_byte_to_pop + (i - 1))]]
=============================================================================
