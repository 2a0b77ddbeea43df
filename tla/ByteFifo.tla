------------------------------ MODULE ByteFifo ------------------------------
(***************************************************************************)
(* The byte FIFO and the array FIFO of the middleware (emf_byte_fifo.c,    *)
(* emf_array_fifo.c) as operations on a record: a ring of storage with an  *)
(* index to write at and one to read from, and in the first a count of     *)
(* what is used, in the second a flag for full.                            *)
(***************************************************************************)
EXTENDS Integers, Sequences

\* EMF_byteFifo_init(), over storage of any content.
NewFifo(size, filler) ==
  [storage |-> [i \in 0..(size - 1) |-> filler], size |-> size, head |-> 0, tail |-> 0, used |-> 0]

advanceIndex(f, index, offset) ==
  IF index + offset >= f.size THEN (index + offset) % f.size ELSE index + offset

getFree(f) == f.size - f.used
isEmpty(f) == f.used = 0
isFull(f) == f.used = f.size

readBytes(f, start, len) == [i \in 1..len |-> f.storage[advanceIndex(f, start, i - 1)]]

\* Mutant: what does not fit before the end of the storage is dropped.
writeBytesToEnd(f, start, data) ==
  [i \in DOMAIN f.storage |->
     IF i >= start /\ i - start < Len(data) THEN data[i - start + 1] ELSE f.storage[i]]

\* The distance of a slot from where the writing starts tells which byte it gets.
writeBytes(f, start, data) ==
  [i \in DOMAIN f.storage |->
     LET n == ((i - start + f.size) % f.size) + 1 IN
     IF n <= Len(data) THEN data[n] ELSE f.storage[i]]

CanPush(f, data) == Len(data) <= getFree(f)
Push(f, data) ==
  [f EXCEPT !.storage = writeBytes(f, f.head, data),
            !.head = advanceIndex(f, f.head, Len(data)),
            !.used = @ + Len(data)]

CanPeek(f, offset, len) == offset <= f.used /\ len <= f.used - offset
PeekAt(f, offset, len) == readBytes(f, advanceIndex(f, f.tail, offset), len)
Peek(f, len) == PeekAt(f, 0, len)

Pop(f, len) ==
  [bytes |-> readBytes(f, f.tail, len),
   fifo |-> [f EXCEPT !.tail = advanceIndex(f, f.tail, len), !.used = @ - len]]
Drop(f, len) == [f EXCEPT !.tail = advanceIndex(f, f.tail, len), !.used = @ - len]
Flush(f) == [f EXCEPT !.head = 0, !.tail = 0, !.used = 0]

-----------------------------------------------------------------------------
\* The array FIFO, of slots.
NewArray(slots, filler) ==
  [storage |-> [i \in 0..(slots - 1) |-> filler], size |-> slots,
   head |-> 0, tail |-> 0, full |-> FALSE]

ArrayIsEmpty(a) == ~a.full /\ a.head = a.tail

ArrayUsed(a) ==
  IF a.full THEN a.size
  ELSE IF a.head >= a.tail THEN a.head - a.tail ELSE a.size - (a.tail - a.head)

ArrayPush(a, slot) ==
  LET head == advanceIndex(a, a.head, 1) IN
  [a EXCEPT !.storage[a.head] = slot, !.head = head, !.full = @ \/ head = a.tail]

ArrayPeek(a) == a.storage[a.tail]
ArrayDrop(a) == [a EXCEPT !.tail = advanceIndex(a, a.tail, 1), !.full = FALSE]
ArrayFlush(a) == [a EXCEPT !.head = 0, !.tail = 0, !.full = FALSE]
=============================================================================
