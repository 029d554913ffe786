----------------------------- MODULE RingBuffer -----------------------------
(***************************************************************************)
(* The ring buffer of the drivers (src/components/drivers/src/ringbuffer.c)*)
(* as operators on a record.  A mirror bit beside each index tells a full  *)
(* ring from an empty one.                                                 *)
(***************************************************************************)
EXTENDS Integers, Sequences

CONSTANTS buffer_size

ASSUME RingAssumption == buffer_size \in Nat \ {0}

EmptyRing ==
    [buf |-> [i \in 0 .. buffer_size - 1 |-> 0],
     read_index |-> 0, read_mirror |-> 0, write_index |-> 0, write_mirror |-> 0]

\* rt_ringbuffer_data_len with rt_ringbuffer_status.
DataLen(rb) ==
    IF rb.read_index = rb.write_index
    THEN IF rb.read_mirror = rb.write_mirror THEN 0 ELSE buffer_size
    ELSE IF rb.write_index > rb.read_index THEN rb.write_index - rb.read_index
    ELSE buffer_size - (rb.read_index - rb.write_index)

SpaceLen(rb) == buffer_size - DataLen(rb)

Lesser(a, b) == IF a < b THEN a ELSE b

\* The place of slot i counted from slot "from", around the ring.
Offset(i, from) == IF i >= from THEN i - from ELSE i + buffer_size - from
Slot(from, k) == IF from + k < buffer_size THEN from + k ELSE from + k - buffer_size

\* The two memcpy: the n first bytes of data, around the end of the buffer.
Copied(rb, data, n) ==
    [i \in 0 .. buffer_size - 1 |->
        IF Offset(i, rb.write_index) < n THEN data[Offset(i, rb.write_index) + 1] ELSE rb.buf[i]]

\* An index that moves n slots on, and its mirror bit: it changes when the
\* end of the buffer is reached.
Turns(index, n) == buffer_size - index <= n
Moved(index, n) == IF Turns(index, n) THEN n - (buffer_size - index) ELSE index + n
Mirror(mirror, index, n) == IF Turns(index, n) THEN 1 - mirror ELSE mirror

\* What put stores and get returns.
PutLen(rb, n) == Lesser(SpaceLen(rb), n)
GetLen(rb, n) == Lesser(DataLen(rb), n)

\* Mutant of Put: what does not fit is dropped only beyond the whole buffer.
PutOver(rb, data) ==
    LET n == Lesser(buffer_size, Len(data)) IN
    [rb EXCEPT !.buf = Copied(rb, data, n),
               !.write_index = Moved(rb.write_index, n),
               !.write_mirror = Mirror(rb.write_mirror, rb.write_index, n)]

\* rt_ringbuffer_put, which drops what does not fit.
Put(rb, data) ==
    LET n == PutLen(rb, Len(data)) IN
    [rb EXCEPT !.buf = Copied(rb, data, n),
               !.write_index = Moved(rb.write_index, n),
               !.write_mirror = Mirror(rb.write_mirror, rb.write_index, n)]

\* rt_ringbuffer_get: the bytes, and the ring without them.
Got(rb, n) == [k \in 1 .. GetLen(rb, n) |-> rb.buf[Slot(rb.read_index, k - 1)]]

Get(rb, n) ==
    LET m == GetLen(rb, n) IN
    [rb EXCEPT !.read_index = Moved(rb.read_index, m),
               !.read_mirror = Mirror(rb.read_mirror, rb.read_index, m)]

\* Mutant of PutForce: the mirror bit of the read index stays.
PutForceNoTurn(rb, data) ==
    LET n == Lesser(buffer_size, Len(data))
        last == SubSeq(data, Len(data) - n + 1, Len(data))
        written == [rb EXCEPT !.buf = Copied(rb, last, n),
                              !.write_index = Moved(rb.write_index, n),
                              !.write_mirror = Mirror(rb.write_mirror, rb.write_index, n)]
    IN  IF n <= SpaceLen(rb) THEN written
        ELSE [written EXCEPT !.read_index = written.write_index]

\* rt_ringbuffer_put_force: of data that is longer than the buffer the end.
PutForce(rb, data) ==
    LET n == Lesser(buffer_size, Len(data))
        last == SubSeq(data, Len(data) - n + 1, Len(data))
        written == [rb EXCEPT !.buf = Copied(rb, last, n),
                              !.write_index = Moved(rb.write_index, n),
                              !.write_mirror = Mirror(rb.write_mirror, rb.write_index, n)]
    IN  IF n <= SpaceLen(rb) THEN written
        ELSE [written EXCEPT !.read_index = written.write_index,
                             !.read_mirror = Mirror(rb.read_mirror, rb.write_index, n)]

\* rt_ringbuffer_putchar_force.
PutCharForce(rb, ch) ==
    LET written == [rb EXCEPT !.buf[rb.write_index] = ch,
                              !.write_index = Moved(rb.write_index, 1),
                              !.write_mirror = Mirror(rb.write_mirror, rb.write_index, 1)]
    IN  IF DataLen(rb) < buffer_size THEN written
        ELSE [written EXCEPT !.read_index = written.write_index,
                             !.read_mirror = Mirror(rb.read_mirror, rb.write_index, 1)]

\* The bytes in the ring, oldest first.
Contents(rb) == Got(rb, buffer_size)

Index == 0 .. buffer_size - 1

\* The states a ring can be in: its write index is ahead of its read index, in
\* the same mirror or, not farther than the read index, in the other one.
IsRing(rb, Byte) ==
    /\ rb \in [buf : [Index -> Byte], read_index : Index, read_mirror : {0, 1},
               write_index : Index, write_mirror : {0, 1}]
    /\ rb.read_mirror = rb.write_mirror => rb.read_index <= rb.write_index
    /\ rb.read_mirror # rb.write_mirror => rb.write_index <= rb.read_index
=============================================================================
