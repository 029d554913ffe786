----------------------------- MODULE PipeProofs -----------------------------
(***************************************************************************)
(* Pipes, for a buffer of any size, bytes of any set and any readers,      *)
(* writers and counts.  First the ring alone: rt_ringbuffer_put appends to *)
(* its contents, rt_ringbuffer_get takes from their front and put_force    *)
(* pushes the oldest bytes out, across the end of the buffer and for a     *)
(* ring that is full.  Then what all services that use Waiting share: the  *)
(* lists of waiting threads.  The lemmas say what a step that calls,       *)
(* suspends, resumes or times out does to the invariant WaitInv, and to    *)
(* the number of threads that were resumed and are on their way to try     *)
(* again.  Last the pipe: the ring holds the bytes written and not yet     *)
(* read, in order, and no wake-up of a reader or of a writer is lost.  The *)
(* theorems that follow from the invariant PipeIndInv are in DriverProofs. *)
(***************************************************************************)
EXTENDS Pipe, TLAPS

-----------------------------------------------------------------------------
(* The ring buffer.                                                        *)

\* The mirror bits tell how far the write index is ahead.
Ahead(rb) ==
    IF rb.read_mirror = rb.write_mirror THEN rb.write_index - rb.read_index
    ELSE buffer_size + rb.write_index - rb.read_index

\* The types of the fields of a ring.
LEMMA RingTypes ==
    ASSUME NEW B, NEW rb, IsRing(rb, B)
    PROVE  /\ rb.buf \in [Index -> B]
           /\ rb.read_index \in Index /\ rb.write_index \in Index
           /\ rb.read_mirror \in {0, 1} /\ rb.write_mirror \in {0, 1}
           /\ rb \in [buf : [Index -> B], read_index : Index, read_mirror : {0, 1},
                      write_index : Index, write_mirror : {0, 1}]
           /\ rb.read_mirror = rb.write_mirror => rb.read_index <= rb.write_index
           /\ rb.read_mirror # rb.write_mirror => rb.write_index <= rb.read_index
  BY DEF IsRing

\* How full a ring is.
LEMMA RingLen ==
    ASSUME NEW B, NEW rb, IsRing(rb, B)
    PROVE  /\ DataLen(rb) = Ahead(rb)
           /\ DataLen(rb) \in 0 .. buffer_size
           /\ SpaceLen(rb) \in 0 .. buffer_size
  <1> DEFINE r == rb.read_index
             w == rb.write_index
  <1>1. /\ r \in Index /\ w \in Index
        /\ rb.read_mirror = rb.write_mirror => r <= w
        /\ rb.read_mirror # rb.write_mirror => w <= r
    BY RingTypes
  <1>2. DataLen(rb) = Ahead(rb) /\ DataLen(rb) \in 0 .. buffer_size
    <2>1. CASE rb.read_mirror = rb.write_mirror
      BY <1>1, <2>1, RingAssumption DEF DataLen, Ahead, Index
    <2>2. CASE rb.read_mirror # rb.write_mirror
      BY <1>1, <2>2, RingAssumption DEF DataLen, Ahead, Index
    <2> QED
      BY <2>1, <2>2
  <1> QED
    BY <1>2, RingAssumption DEF SpaceLen

\* What put stores fits, and is not more than was asked.
LEMMA PutLenOK ==
    ASSUME NEW B, NEW rb, IsRing(rb, B), NEW n \in Nat
    PROVE  /\ PutLen(rb, n) \in Nat /\ PutLen(rb, n) <= n
           /\ DataLen(rb) + PutLen(rb, n) <= buffer_size
           /\ GetLen(rb, n) \in Nat /\ GetLen(rb, n) <= n
           /\ GetLen(rb, n) <= DataLen(rb)
  BY RingAssumption, RingLen DEF PutLen, GetLen, Lesser, SpaceLen

\* Slots counted around the ring are slots.
LEMMA SlotOK ==
    ASSUME NEW from \in Index, NEW k \in 0 .. buffer_size - 1
    PROVE  Slot(from, k) \in Index
  BY RingAssumption DEF Slot, Index

\* Every slot of the buffer has one place.
LEMMA SlotOffset ==
    ASSUME NEW r \in Index, NEW w \in Index, NEW n \in 0 .. buffer_size,
           NEW k \in 0 .. buffer_size - 1,
           w = Slot(r, n) \/ (n = buffer_size /\ w = r)
    PROVE  Offset(Slot(r, k), w) = IF k >= n THEN k - n ELSE k - n + buffer_size
  BY RingAssumption, Z3 DEF Slot, Offset, Index

\* The write index is DataLen slots behind the read index.
LEMMA WriteSlot ==
    ASSUME NEW B, NEW rb, IsRing(rb, B)
    PROVE  \/ rb.write_index = Slot(rb.read_index, DataLen(rb))
           \/ DataLen(rb) = buffer_size /\ rb.write_index = rb.read_index
  <1> DEFINE r == rb.read_index
             w == rb.write_index
  <1>1. /\ r \in Index /\ w \in Index
        /\ rb.read_mirror = rb.write_mirror => r <= w
        /\ rb.read_mirror # rb.write_mirror => w <= r
        /\ DataLen(rb) = Ahead(rb)
    BY RingTypes, RingLen
  <1>2. CASE rb.read_mirror = rb.write_mirror
    BY <1>1, <1>2, RingAssumption DEF Ahead, Slot, Index
  <1>3. CASE rb.read_mirror # rb.write_mirror
    BY <1>1, <1>3, RingAssumption DEF Ahead, Slot, Index
  <1> QED
    BY <1>2, <1>3

\* How far w in mirror b is ahead of r in mirror a.
Gap(a, b, r, w) == IF a = b THEN w - r ELSE buffer_size + w - r

\* Ahead and not farther than the buffer is long.
InOrder(a, b, r, w) == (a = b => r <= w) /\ (a # b => w <= r)

\* The write index moves n slots on into free space.
LEMMA WriteMoves ==
    ASSUME NEW a \in {0, 1}, NEW b \in {0, 1}, NEW r \in Index, NEW w \in Index, NEW n \in Nat,
           InOrder(a, b, r, w), Gap(a, b, r, w) + n <= buffer_size
    PROVE  /\ Moved(w, n) \in Index /\ Mirror(b, w, n) \in {0, 1}
           /\ InOrder(a, Mirror(b, w, n), r, Moved(w, n))
           /\ Gap(a, Mirror(b, w, n), r, Moved(w, n)) = Gap(a, b, r, w) + n
  <1>1. CASE Turns(w, n)
    <2>1. Moved(w, n) = n - (buffer_size - w) /\ Mirror(b, w, n) = 1 - b /\ buffer_size - w <= n
      BY <1>1 DEF Moved, Mirror, Turns
    <2>2. CASE a = b
      <3>1. 1 - b \in {0, 1} /\ a # 1 - b
        BY <2>2
      <3>2. r <= w /\ w - r + n <= buffer_size
        BY <2>2 DEF InOrder, Gap
      <3>3. n - (buffer_size - w) \in Index /\ n - (buffer_size - w) <= r
            /\ buffer_size + (n - (buffer_size - w)) - r = w - r + n
        BY <2>1, <3>2, RingAssumption DEF Index
      <3> QED
        BY <2>1, <2>2, <3>1, <3>3 DEF InOrder, Gap
    <2>3. CASE a # b
      <3>1. w <= r /\ buffer_size + w - r + n <= buffer_size
        BY <2>3 DEF InOrder, Gap
      <3> QED
        BY <2>1, <3>1, RingAssumption DEF Index
    <2> QED
      BY <2>2, <2>3
  <1>2. CASE ~Turns(w, n)
    <2>1. Moved(w, n) = w + n /\ Mirror(b, w, n) = b /\ ~(buffer_size - w <= n)
      BY <1>2 DEF Moved, Mirror, Turns
    <2>2. w + n \in Index /\ w <= w + n
      BY <2>1, RingAssumption DEF Index
    <2>3. CASE a = b
      <3>1. r <= w + n /\ w + n - r = w - r + n
        BY <2>3, RingAssumption DEF InOrder, Index
      <3> QED
        <4>1. InOrder(a, b, r, w + n)
          BY <2>3, <3>1 DEF InOrder
        <4>2. Gap(a, b, r, w + n) = Gap(a, b, r, w) + n
          BY <2>3, <3>1, RingAssumption DEF Gap, Index
        <4> QED
          BY <2>1, <2>2, <4>1, <4>2
    <2>4. CASE a # b
      <3>1. buffer_size + w - r + n <= buffer_size
        BY <2>4 DEF Gap
      <3>2. w + n <= r /\ buffer_size + (w + n) - r = buffer_size + w - r + n
        BY <3>1, RingAssumption DEF Index
      <3> QED
        BY <2>1, <2>2, <2>4, <3>2 DEF InOrder, Gap
    <2> QED
      BY <2>3, <2>4
  <1> QED
    BY <1>1, <1>2

\* The read index moves n slots on over data.
LEMMA ReadMoves ==
    ASSUME NEW a \in {0, 1}, NEW b \in {0, 1}, NEW r \in Index, NEW w \in Index, NEW n \in Nat,
           InOrder(a, b, r, w), n <= Gap(a, b, r, w)
    PROVE  /\ Moved(r, n) \in Index /\ Mirror(a, r, n) \in {0, 1}
           /\ InOrder(Mirror(a, r, n), b, Moved(r, n), w)
           /\ Gap(Mirror(a, r, n), b, Moved(r, n), w) = Gap(a, b, r, w) - n
  <1>1. CASE Turns(r, n)
    <2>1. Moved(r, n) = n - (buffer_size - r) /\ Mirror(a, r, n) = 1 - a /\ buffer_size - r <= n
      BY <1>1 DEF Moved, Mirror, Turns
    <2>2. CASE a = b
      <3>1. n <= w - r
        BY <2>2 DEF Gap
      <3> QED
        BY <2>1, <3>1, RingAssumption DEF Index
    <2>3. CASE a # b
      <3>1. 1 - a \in {0, 1} /\ 1 - a = b
        BY <2>3
      <3>2. n <= buffer_size + w - r
        BY <2>3 DEF Gap
      <3>3. n - (buffer_size - r) \in Index /\ n - (buffer_size - r) <= w
            /\ w - (n - (buffer_size - r)) = buffer_size + w - r - n
        BY <2>1, <3>2, RingAssumption DEF Index
      <3> QED
        <4> DEFINE x == n - (buffer_size - r)
        <4>1. InOrder(1 - a, b, x, w)
          BY <3>1, <3>3 DEF InOrder
        <4>2. Gap(1 - a, b, x, w) = Gap(a, b, r, w) - n
          <5>1. Gap(1 - a, b, x, w) = w - x
            BY <3>1 DEF Gap
          <5>2. Gap(a, b, r, w) = buffer_size + w - r
            BY <2>3 DEF Gap
          <5> QED
            BY <3>3, <5>1, <5>2, RingAssumption DEF Index
        <4>3. x \in Index
          BY <3>3
        <4> HIDE DEF x
        <4>4. Moved(r, n) = x
          BY <2>1 DEF x
        <4> QED
          BY <2>1, <3>1, <4>1, <4>2, <4>3, <4>4
    <2> QED
      BY <2>2, <2>3
  <1>2. CASE ~Turns(r, n)
    <2>1. Moved(r, n) = r + n /\ Mirror(a, r, n) = a /\ ~(buffer_size - r <= n)
      BY <1>2 DEF Moved, Mirror, Turns
    <2>2. r + n \in Index /\ r <= r + n
      BY <2>1, RingAssumption DEF Index
    <2>3. CASE a = b
      <3>1. n <= w - r
        BY <2>3 DEF Gap
      <3>2. r + n <= w /\ w - (r + n) = w - r - n
        BY <3>1, RingAssumption DEF Index
      <3> QED
        BY <2>1, <2>2, <2>3, <3>2 DEF InOrder, Gap
    <2>4. CASE a # b
      <3>1. w <= r
        BY <2>4 DEF InOrder
      <3>2. w <= r + n /\ buffer_size + w - (r + n) = buffer_size + w - r - n
        BY <3>1, RingAssumption DEF Index
      <3> QED
        <4>1. InOrder(a, b, r + n, w)
          BY <2>4, <3>2 DEF InOrder
        <4>2. Gap(a, b, r + n, w) = Gap(a, b, r, w) - n
          BY <2>4, <3>2, RingAssumption DEF Gap, Index
        <4> QED
          BY <2>1, <2>2, <4>1, <4>2
    <2> QED
      BY <2>3, <2>4
  <1> QED
    BY <1>1, <1>2

\* What put does to the record.
LEMMA PutRing ==
    ASSUME NEW B, NEW rb, IsRing(rb, B), NEW data \in Seq(B)
    PROVE  LET q == Put(rb, data)  n == PutLen(rb, Len(data)) IN
           /\ IsRing(q, B)
           /\ DataLen(q) = DataLen(rb) + n
           /\ q.read_index = rb.read_index
           /\ \A k \in 0 .. DataLen(rb) - 1 :
                q.buf[Slot(rb.read_index, k)] = rb.buf[Slot(rb.read_index, k)]
           /\ \A k \in DataLen(rb) .. DataLen(rb) + n - 1 :
                q.buf[Slot(rb.read_index, k)] = data[k - DataLen(rb) + 1]
  <1> DEFINE q == Put(rb, data)
             n == PutLen(rb, Len(data))
             r == rb.read_index
             w == rb.write_index
             buf == Copied(rb, data, n)
  <1> USE RingAssumption
  <1>1. /\ n \in Nat /\ n <= Len(data) /\ DataLen(rb) + n <= buffer_size
        /\ DataLen(rb) \in 0 .. buffer_size /\ DataLen(rb) = Ahead(rb)
    BY PutLenOK, RingLen
  <1>2. /\ r \in Index /\ w \in Index /\ rb.read_mirror \in {0, 1}
        /\ rb.write_mirror \in {0, 1} /\ rb.buf \in [Index -> B]
        /\ rb.read_mirror = rb.write_mirror => r <= w
        /\ rb.read_mirror # rb.write_mirror => w <= r
    BY RingTypes
  <1>3. /\ q.buf = buf /\ q.read_index = r /\ q.read_mirror = rb.read_mirror
        /\ q.write_index = Moved(w, n) /\ q.write_mirror = Mirror(rb.write_mirror, w, n)
    BY RingTypes DEF Put
  <1>4. buf \in [Index -> B]
    <2> SUFFICES ASSUME NEW i \in Index, Offset(i, w) < n
                 PROVE  data[Offset(i, w) + 1] \in B
      BY <1>2 DEF Copied, Index
    <2>1. Offset(i, w) + 1 \in 1 .. Len(data)
      <3>1. Offset(i, w) \in Nat /\ Len(data) \in Nat
        BY <1>2 DEF Offset, Index
      <3> QED
        BY <1>1, <3>1
    <2> QED
      BY <2>1
  <1> HIDE DEF q, n, r, w, buf
  <1> DEFINE a == rb.read_mirror
             b == rb.write_mirror
  <1>5. /\ Moved(w, n) \in Index /\ Mirror(b, w, n) \in {0, 1}
        /\ InOrder(a, Mirror(b, w, n), r, Moved(w, n))
        /\ Gap(a, Mirror(b, w, n), r, Moved(w, n)) = Gap(a, b, r, w) + n
    <2>1. InOrder(a, b, r, w) /\ Gap(a, b, r, w) + n <= buffer_size
      BY <1>1, <1>2 DEF InOrder, Gap, Ahead, r, w
    <2> HIDE DEF a, b
    <2>2. a \in {0, 1} /\ b \in {0, 1}
      BY <1>2 DEF a, b
    <2> QED
      BY <1>1, <1>2, <2>1, <2>2, WriteMoves
  <1>6. IsRing(q, B)
    <2>1. q = [rb EXCEPT !.buf = buf, !.write_index = Moved(w, n),
                         !.write_mirror = Mirror(rb.write_mirror, w, n)]
      BY DEF Put, q, buf, n, w
    <2> QED
      BY <1>2, <1>3, <1>4, <1>5, <2>1, ZenonT(60) DEF IsRing, InOrder
  <1>7. DataLen(q) = DataLen(rb) + n
    <2>1. DataLen(q) = Ahead(q)
      BY <1>6, RingLen
    <2>2. Ahead(q) = Ahead(rb) + n
      BY <1>3, <1>5 DEF Ahead, Gap, r, w
    <2> QED
      BY <1>1, <2>1, <2>2
  <1>8. \A k \in 0 .. buffer_size - 1 :
            Offset(Slot(r, k), w) = IF k >= DataLen(rb) THEN k - DataLen(rb)
                                    ELSE k - DataLen(rb) + buffer_size
    <2>1. w = Slot(r, DataLen(rb)) \/ (DataLen(rb) = buffer_size /\ w = r)
      BY WriteSlot DEF r, w
    <2> QED
      BY <1>1, <1>2, <2>1, SlotOffset
  <1>9. \A k \in 0 .. buffer_size - 1 :
            buf[Slot(r, k)] = IF Offset(Slot(r, k), w) < n
                              THEN data[Offset(Slot(r, k), w) + 1] ELSE rb.buf[Slot(r, k)]
    BY <1>2, SlotOK, ZenonT(60) DEF buf, Copied, Index, r, w
  <1>10. ASSUME NEW k \in 0 .. DataLen(rb) - 1
         PROVE  q.buf[Slot(r, k)] = rb.buf[Slot(r, k)]
    <2>1. k \in 0 .. buffer_size - 1 /\ ~(k - DataLen(rb) + buffer_size < n)
          /\ ~(k >= DataLen(rb))
      BY <1>1
    <2> QED
      BY <1>3, <1>8, <1>9, <2>1
  <1>11. ASSUME NEW k \in DataLen(rb) .. DataLen(rb) + n - 1
         PROVE  q.buf[Slot(r, k)] = data[k - DataLen(rb) + 1]
    <2>1. k \in 0 .. buffer_size - 1 /\ k - DataLen(rb) < n /\ k >= DataLen(rb)
      BY <1>1
    <2> QED
      BY <1>3, <1>8, <1>9, <2>1
  <1> QED
    BY <1>3, <1>6, <1>7, <1>10, <1>11 DEF q, n, r

\* What get does to the record.
LEMMA GetRing ==
    ASSUME NEW B, NEW rb, IsRing(rb, B), NEW n \in Nat
    PROVE  LET q == Get(rb, n)  m == GetLen(rb, n) IN
           /\ IsRing(q, B)
           /\ DataLen(q) = DataLen(rb) - m
           /\ \A k \in 0 .. DataLen(rb) - m - 1 :
                q.buf[Slot(q.read_index, k)] = rb.buf[Slot(rb.read_index, m + k)]
  <1> DEFINE q == Get(rb, n)
             m == GetLen(rb, n)
             r == rb.read_index
             w == rb.write_index
  <1> USE RingAssumption
  <1>1. /\ m \in Nat /\ m <= DataLen(rb)
        /\ DataLen(rb) \in 0 .. buffer_size /\ DataLen(rb) = Ahead(rb)
    BY PutLenOK, RingLen
  <1>2. /\ r \in Index /\ w \in Index /\ rb.read_mirror \in {0, 1}
        /\ rb.write_mirror \in {0, 1} /\ rb.buf \in [Index -> B]
        /\ rb.read_mirror = rb.write_mirror => r <= w
        /\ rb.read_mirror # rb.write_mirror => w <= r
    BY RingTypes
  <1>3. /\ q.buf = rb.buf /\ q.write_index = w /\ q.write_mirror = rb.write_mirror
        /\ q.read_index = Moved(r, m) /\ q.read_mirror = Mirror(rb.read_mirror, r, m)
    BY RingTypes DEF Get
  <1> HIDE DEF q, m, r, w
  <1> DEFINE a == rb.read_mirror
             b == rb.write_mirror
  <1>4. /\ Moved(r, m) \in Index /\ Mirror(a, r, m) \in {0, 1}
        /\ InOrder(Mirror(a, r, m), b, Moved(r, m), w)
        /\ Gap(Mirror(a, r, m), b, Moved(r, m), w) = Gap(a, b, r, w) - m
    <2>1. InOrder(a, b, r, w) /\ m <= Gap(a, b, r, w)
      BY <1>1, <1>2 DEF InOrder, Gap, Ahead, r, w
    <2> HIDE DEF a, b
    <2>2. a \in {0, 1} /\ b \in {0, 1}
      BY <1>2 DEF a, b
    <2> QED
      BY <1>1, <1>2, <2>1, <2>2, ReadMoves
  <1>5. IsRing(q, B)
    <2>1. q = [rb EXCEPT !.read_index = Moved(r, m),
                         !.read_mirror = Mirror(rb.read_mirror, r, m)]
      BY DEF Get, q, m, r
    <2> QED
      BY <1>2, <1>3, <1>4, <2>1, ZenonT(60) DEF IsRing, InOrder
  <1>6. DataLen(q) = DataLen(rb) - m
    <2>1. DataLen(q) = Ahead(q)
      BY <1>5, RingLen
    <2>2. Ahead(q) = Ahead(rb) - m
      BY <1>3, <1>4 DEF Ahead, Gap, r, w
    <2> QED
      BY <1>1, <2>1, <2>2
  <1>7. ASSUME NEW k \in 0 .. DataLen(rb) - m - 1
        PROVE  Slot(Moved(r, m), k) = Slot(r, m + k)
    <2>1. r \in Nat /\ r < buffer_size /\ k \in Nat /\ m + k < buffer_size
      BY <1>1, <1>2 DEF Index
    <2>2. CASE Turns(r, m)
      BY <1>1, <2>1, <2>2 DEF Slot, Moved, Turns
    <2>3. CASE ~Turns(r, m)
      BY <1>1, <2>1, <2>3 DEF Slot, Moved
    <2> QED
      BY <2>2, <2>3
  <1> QED
    BY <1>3, <1>5, <1>6, <1>7 DEF q, m, r

-----------------------------------------------------------------------------
\* Concatenation, element by element.
LEMMA ConcatDef ==
    ASSUME NEW S, NEW s \in Seq(S), NEW t \in Seq(S)
    PROVE  s \o t = [k \in 1 .. Len(s) + Len(t) |-> IF k <= Len(s) THEN s[k] ELSE t[k - Len(s)]]
  <1> DEFINE e == s \o t
  <1>1. /\ e \in Seq(S) /\ Len(e) = Len(s) + Len(t)
        /\ \A k \in 1 .. Len(s) + Len(t) :
             e[k] = IF k <= Len(s) THEN s[k] ELSE t[k - Len(s)]
    OBVIOUS
  <1> HIDE DEF e
  <1>2. e = [k \in 1 .. Len(e) |-> e[k]]
    BY <1>1
  <1>3. e = [k \in 1 .. Len(s) + Len(t) |-> IF k <= Len(s) THEN s[k] ELSE t[k - Len(s)]]
    BY <1>1, <1>2
  <1> QED
    BY <1>3 DEF e

\* The contents are as long as the ring is full.
LEMMA ContentsLen ==
    ASSUME NEW B, NEW rb, IsRing(rb, B)
    PROVE  Contents(rb) = [k \in 1 .. DataLen(rb) |-> rb.buf[Slot(rb.read_index, k - 1)]]
  <1>1. GetLen(rb, buffer_size) = DataLen(rb)
    BY RingAssumption, RingLen DEF GetLen, Lesser
  <1> QED
    BY <1>1 DEF Contents, Got

\* The contents are a sequence.
LEMMA ContentsSeq ==
    ASSUME NEW B, NEW rb, IsRing(rb, B)
    PROVE  Contents(rb) \in Seq(B) /\ Len(Contents(rb)) = DataLen(rb)
  <1>1. DataLen(rb) \in 0 .. buffer_size /\ rb.read_index \in Index /\ rb.buf \in [Index -> B]
    BY RingLen, RingTypes
  <1>2. \A k \in 1 .. DataLen(rb) : rb.buf[Slot(rb.read_index, k - 1)] \in B
    BY <1>1, SlotOK, RingAssumption
  <1> QED
    BY <1>1, <1>2, ContentsLen, RingAssumption

\* rt_ringbuffer_put appends the bytes that fit, also when they wrap around.
THEOREM PutAppends ==
    ASSUME NEW B, NEW rb, IsRing(rb, B), NEW data \in Seq(B)
    PROVE  /\ IsRing(Put(rb, data), B)
           /\ Contents(Put(rb, data))
                = Contents(rb) \o SubSeq(data, 1, PutLen(rb, Len(data)))
  <1> DEFINE q == Put(rb, data)
             n == PutLen(rb, Len(data))
             d == DataLen(rb)
             s == Contents(rb)
  <1>1. /\ IsRing(q, B) /\ DataLen(q) = d + n /\ q.read_index = rb.read_index
        /\ \A k \in 0 .. d - 1 : q.buf[Slot(rb.read_index, k)] = rb.buf[Slot(rb.read_index, k)]
        /\ \A k \in d .. d + n - 1 : q.buf[Slot(rb.read_index, k)] = data[k - d + 1]
    BY PutRing
  <1>2. n \in Nat /\ n <= Len(data) /\ d \in Nat
    BY PutLenOK, RingLen
  <1>3. s = [k \in 1 .. d |-> rb.buf[Slot(rb.read_index, k - 1)]] /\ s \in Seq(B) /\ Len(s) = d
    BY ContentsLen, ContentsSeq
  <1>4. Contents(q) = [k \in 1 .. d + n |-> q.buf[Slot(rb.read_index, k - 1)]]
    BY <1>1, ContentsLen
  <1> HIDE DEF q, n, d, s
  <1>5. \A k \in 1 .. d + n : q.buf[Slot(rb.read_index, k - 1)]
                               = IF k <= d THEN s[k] ELSE data[k - d]
    <2> SUFFICES ASSUME NEW k \in 1 .. d + n
                 PROVE  q.buf[Slot(rb.read_index, k - 1)] = IF k <= d THEN s[k] ELSE data[k - d]
      OBVIOUS
    <2>1. CASE k <= d
      <3>1. k - 1 \in 0 .. d - 1 /\ k \in 1 .. d
        BY <1>2, <2>1
      <3> QED
        BY <1>1, <1>3, <2>1, <3>1
    <2>2. CASE ~(k <= d)
      <3>1. k - 1 \in d .. d + n - 1 /\ (k - 1) - d + 1 = k - d
        BY <1>2, <2>2
      <3> QED
        BY <1>1, <2>2, <3>1
    <2> QED
      BY <2>1, <2>2
  <1>6. s \o SubSeq(data, 1, n) = [k \in 1 .. d + n |-> IF k <= d THEN s[k] ELSE data[k - d]]
    <2>1. SubSeq(data, 1, n) \in Seq(B) /\ Len(SubSeq(data, 1, n)) = n
          /\ \A j \in 1 .. n : SubSeq(data, 1, n)[j] = data[j]
      BY <1>2
    <2> QED
      BY <1>2, <1>3, <2>1
  <1>7. Contents(q) = s \o SubSeq(data, 1, n)
    BY <1>4, <1>5, <1>6, ZenonT(60)
  <1> QED
    BY <1>1, <1>7 DEF q, n, s

\* rt_ringbuffer_get returns the oldest bytes and leaves the others, in order.
THEOREM GetTakesOldest ==
    ASSUME NEW B, NEW rb, IsRing(rb, B), NEW n \in Nat
    PROVE  /\ IsRing(Get(rb, n), B)
           /\ Got(rb, n) \o Contents(Get(rb, n)) = Contents(rb)
  <1> DEFINE q == Get(rb, n)
             m == GetLen(rb, n)
             d == DataLen(rb)
             s == Contents(rb)
             g == Got(rb, n)
             c == Contents(q)
  <1>1. /\ IsRing(q, B) /\ DataLen(q) = d - m
        /\ \A k \in 0 .. d - m - 1 : q.buf[Slot(q.read_index, k)] = rb.buf[Slot(rb.read_index, m + k)]
    BY GetRing
  <1>2. m \in Nat /\ m <= d /\ d \in Nat /\ d <= buffer_size /\ buffer_size \in Nat
    BY PutLenOK, RingLen, RingAssumption
  <1>3. s = [k \in 1 .. d |-> rb.buf[Slot(rb.read_index, k - 1)]] /\ s \in Seq(B) /\ Len(s) = d
    BY ContentsLen, ContentsSeq
  <1>4. /\ c = [k \in 1 .. d - m |-> q.buf[Slot(q.read_index, k - 1)]]
        /\ c \in Seq(B) /\ Len(c) = d - m
    BY <1>1, ContentsLen, ContentsSeq
  <1>5. g = [k \in 1 .. m |-> rb.buf[Slot(rb.read_index, k - 1)]]
    BY DEF Got
  <1> HIDE DEF q, m, d, s, g, c
  <1>6. \A k \in 1 .. m : g[k] = s[k]
    BY <1>2, <1>3, <1>5
  <1>7. \A k \in 1 .. d - m : c[k] = s[m + k]
    <2> SUFFICES ASSUME NEW k \in 1 .. d - m PROVE c[k] = s[m + k]
      OBVIOUS
    <2>1. k - 1 \in 0 .. d - m - 1 /\ m + k \in 1 .. d /\ m + (k - 1) = (m + k) - 1
      BY <1>2
    <2> QED
      BY <1>1, <1>3, <1>4, <2>1
  <1>8. g \in Seq(B) /\ Len(g) = m
    <2>1. \A k \in 1 .. m : rb.buf[Slot(rb.read_index, k - 1)] \in B
      BY <1>2, <1>3
    <2> QED
      BY <1>2, <1>5, <2>1
  <1>9. g \o c = s
    <2>1. g \o c = [k \in 1 .. d |-> IF k <= m THEN g[k] ELSE c[k - m]]
      <3> DEFINE e == d - m
      <3>1. e \in Nat /\ d = m + e /\ Len(c) = e
        BY <1>2, <1>4
      <3> HIDE DEF e
      <3>2. g \o c = [k \in 1 .. m + e |-> IF k <= m THEN g[k] ELSE c[k - m]]
        <4>1. g \o c = [k \in 1 .. Len(g) + Len(c) |-> IF k <= Len(g) THEN g[k] ELSE c[k - Len(g)]]
          <5>1. g \in Seq(B) /\ c \in Seq(B)
            BY <1>4, <1>8
          <5> QED
            BY <5>1, ConcatDef, Zenon
        <4>2. Len(g) = m /\ Len(c) = e
          BY <1>8, <3>1
        <4> QED
          BY <4>1, <4>2, Zenon
      <3> QED
        BY <3>1, <3>2
    <2>2. ASSUME NEW k \in 1 .. d
          PROVE  s[k] = IF k <= m THEN g[k] ELSE c[k - m]
      <3>1. CASE k <= m
        BY <1>6, <3>1
      <3>2. CASE ~(k <= m)
        <4>1. k - m \in 1 .. d - m /\ m + (k - m) = k
          BY <1>2, <3>2
        <4> QED
          BY <1>7, <3>2, <4>1
      <3> QED
        BY <3>1, <3>2
    <2>3. s = [k \in 1 .. d |-> s[k]]
      BY <1>3
    <2> QED
      BY <2>1, <2>2, <2>3
  <1> QED
    BY <1>1, <1>9 DEF q, g, s, c

-----------------------------------------------------------------------------
\* What of data longer than the buffer counts: its end.
Last(data) == LET n == Lesser(buffer_size, Len(data)) IN SubSeq(data, Len(data) - n + 1, Len(data))

LEMMA LastDef ==
    ASSUME NEW B, NEW data \in Seq(B)
    PROVE  LET n == Lesser(buffer_size, Len(data)) IN
           /\ n \in 0 .. buffer_size /\ n <= Len(data) /\ Len(data) \in Nat
           /\ Last(data) \in Seq(B) /\ Len(Last(data)) = n
           /\ \A j \in 1 .. n : Last(data)[j] = data[Len(data) - n + j]
<1> DEFINE n == Lesser(buffer_size, Len(data))
           a == Len(data) - n + 1
<1>1. n \in 0 .. buffer_size /\ n <= Len(data) /\ Len(data) \in Nat
  BY RingAssumption DEF Lesser
<1>2. Last(data) = SubSeq(data, a, Len(data))
  BY DEF Last
<1>3. a \in 1 .. Len(data) + 1 /\ Len(data) - a + 1 = n
  BY <1>1, RingAssumption
<1>4. /\ SubSeq(data, a, Len(data)) \in Seq(B) /\ Len(SubSeq(data, a, Len(data))) = n
      /\ \A j \in 1 .. n : SubSeq(data, a, Len(data))[j] = data[a + j - 1]
  <2> HIDE DEF a, n
  <2> QED
    BY <1>1, <1>3
<1>5. \A j \in 1 .. n : a + j - 1 = Len(data) - n + j
  BY <1>1, RingAssumption
<1> QED
  BY <1>1, <1>2, <1>4, <1>5, ZenonT(60)

\* The last m of the bytes in s and in the n bytes that follow them.
LastOf(s, next, n, m) ==
    [k \in 1 .. m |-> IF n - m + k <= 0 THEN s[Len(s) + n - m + k] ELSE next[n - m + k]]

\* Of p bytes, n fit.
Fit(n, p) == n = Lesser(buffer_size, p)

\* The newest bytes of a ring's contents and what is forced in.
LEMMA NewestDef ==
    ASSUME NEW B, NEW s \in Seq(B), NEW data \in Seq(B),
           NEW n, Fit(n, Len(data)), NEW m, Fit(m, Len(s) + n)
    PROVE  Newest(s \o data) = LastOf(s, Last(data), n, m)
<1> DEFINE e == s \o data
           t == Len(s) + Len(data)
<1>1. n \in 0 .. buffer_size /\ n <= Len(data) /\ Len(data) \in Nat /\ Len(s) \in Nat
  BY LastDef, ZenonT(60) DEF Fit
<1>2. m \in 0 .. buffer_size /\ m <= Len(s) + n /\ t \in Nat
  BY <1>1, RingAssumption DEF Lesser, Fit
<1>3. /\ e \in Seq(B) /\ Len(e) = t
      /\ \A j \in 1 .. Len(s) : e[j] = s[j]
      /\ \A j \in 1 .. Len(data) : e[Len(s) + j] = data[j]
  BY <1>1
<1>4. Lesser(buffer_size, t) = m
  BY <1>1, RingAssumption DEF Lesser, Fit
<1>5. Newest(e) = SubSeq(e, t - m + 1, t)
  BY <1>3, <1>4, ZenonT(60) DEF Newest
<1>6. n < Len(data) => n = buffer_size /\ m = buffer_size
  BY <1>1, RingAssumption DEF Lesser, Fit
<1>7. Newest(e) = [k \in 1 .. m |-> e[t - m + k]]
  <2> DEFINE a == t - m + 1
  <2>1. a \in 1 .. t + 1 /\ t - a + 1 = m
    BY <1>1, <1>2, RingAssumption
  <2>2. \A k \in 1 .. m : a + k - 1 = t - m + k
    BY <1>2, RingAssumption
  <2> HIDE DEF a, e, t
  <2>3. SubSeq(e, a, t) = [k \in 1 .. t - a + 1 |-> e[a + k - 1]]
    BY <1>2, <1>3, <2>1
  <2>4. Newest(e) = SubSeq(e, a, t)
    BY <1>5 DEF a
  <2> QED
    BY <2>1, <2>2, <2>3, <2>4
<1>8. ASSUME NEW k \in 1 .. m
      PROVE  e[t - m + k] = IF n - m + k <= 0 THEN s[Len(s) + n - m + k]
                            ELSE Last(data)[n - m + k]
  <2>1. CASE n - m + k <= 0
    <3>1. n = Len(data)
      BY <1>1, <1>2, <1>6, <2>1, RingAssumption
    <3>2. t - m + k \in 1 .. Len(s) /\ t - m + k = Len(s) + n - m + k
      BY <1>1, <1>2, <2>1, <3>1, RingAssumption
    <3> HIDE DEF e, t
    <3>3. e[t - m + k] = s[t - m + k]
      BY <1>3, <3>2, ZenonT(60)
    <3> QED
      BY <2>1, <3>2, <3>3, ZenonT(60)
  <2>2. CASE ~(n - m + k <= 0)
    <3>1. n - m + k \in 1 .. n
      BY <1>1, <1>2, <2>2, RingAssumption
    <3> DEFINE j == Len(data) - n + (n - m + k)
    <3>2. j \in 1 .. Len(data) /\ t - m + k = Len(s) + j
      <4>1. /\ Len(s) \in Nat /\ Len(data) \in Nat /\ n <= Len(data)
            /\ n \in Nat /\ m \in Nat /\ k \in Nat
        BY <1>1, <1>2, RingAssumption
      <4> QED
        BY <3>1, <4>1
    <3>3. Last(data)[n - m + k] = data[j]
      BY <3>1, LastDef, ZenonT(60) DEF Fit
    <3> HIDE DEF e, t, j
    <3>4. e[t - m + k] = data[j]
      BY <1>3, <3>2, ZenonT(60)
    <3> QED
      BY <2>2, <3>3, <3>4, ZenonT(60)
  <2> QED
    BY <2>1, <2>2, ZenonT(60)
<1> QED
  BY <1>7, <1>8, ZenonT(60) DEF LastOf

\* Where the bytes are after the write index moved n slots on in a ring of d
\* bytes that they overrun.
LEMMA ForcedSlot ==
    ASSUME NEW r \in Index, NEW w \in Index, NEW d \in 0 .. buffer_size,
           NEW n \in 0 .. buffer_size, NEW k \in 1 .. buffer_size,
           w = Slot(r, d) \/ (d = buffer_size /\ w = r), d + n > buffer_size
    PROVE  LET i == Slot(Moved(w, n), k - 1) IN
           /\ i \in Index /\ Moved(w, n) \in Index
           /\ n - buffer_size + k <= 0 => /\ Offset(i, w) >= n
                                          /\ i = Slot(r, d + n - buffer_size + k - 1)
           /\ n - buffer_size + k > 0 => Offset(i, w) = n - buffer_size + k - 1
<1> DEFINE v == Moved(w, n)
           i == Slot(v, k - 1)
<1> USE RingAssumption
<1>1. \/ w = r + d /\ r + d < buffer_size
      \/ w = r + d - buffer_size /\ r + d >= buffer_size
  BY DEF Slot, Index
<1>2. \/ v = w + n /\ w + n < buffer_size
      \/ v = w + n - buffer_size /\ w + n >= buffer_size
  BY DEF Moved, Turns, Index
<1>3. \/ i = v + k - 1 /\ v + k - 1 < buffer_size
      \/ i = v + k - 1 - buffer_size /\ v + k - 1 >= buffer_size
  BY <1>2 DEF Slot, Index
<1> HIDE DEF v, i
<1>4. v \in Index /\ i \in Index
  BY <1>2, <1>3 DEF Index
<1>5. ASSUME n - buffer_size + k <= 0
      PROVE  Offset(i, w) >= n /\ i = Slot(r, d + n - buffer_size + k - 1)
  <2>1. Offset(i, w) >= n
    BY <1>2, <1>3, <1>5 DEF Offset, Index
  <2>2. i = Slot(r, d + n - buffer_size + k - 1)
    BY <1>1, <1>2, <1>3, <1>5 DEF Slot, Index
  <2> QED
    BY <2>1, <2>2
<1>6. ASSUME n - buffer_size + k > 0
      PROVE  Offset(i, w) = n - buffer_size + k - 1
  BY <1>2, <1>3, <1>6 DEF Offset, Index
<1> QED
  BY <1>4, <1>5, <1>6 DEF v, i

\* The fields that a put_force writes.
LEMMA ForceFields ==
    ASSUME NEW B, NEW rb, IsRing(rb, B), NEW data \in Seq(B)
    PROVE  LET q == PutForce(rb, data)  n == Lesser(buffer_size, Len(data))  w == rb.write_index IN
           /\ q.buf = Copied(rb, Last(data), n)
           /\ q.write_index = Moved(w, n) /\ q.write_mirror = Mirror(rb.write_mirror, w, n)
           /\ n > SpaceLen(rb) => /\ q.read_index = Moved(w, n)
                                  /\ q.read_mirror = Mirror(rb.read_mirror, w, n)
           /\ n <= SpaceLen(rb) => q = Put(rb, Last(data))
<1> DEFINE n == Lesser(buffer_size, Len(data))
           w == rb.write_index
           written == [rb EXCEPT !.buf = Copied(rb, Last(data), n),
                                 !.write_index = Moved(w, n),
                                 !.write_mirror = Mirror(rb.write_mirror, w, n)]
<1>1. rb \in [buf : [Index -> B], read_index : Index, read_mirror : {0, 1},
              write_index : Index, write_mirror : {0, 1}]
  BY RingTypes
<1>2. n \in Nat /\ SpaceLen(rb) \in Nat /\ Len(Last(data)) = n
  BY LastDef, RingLen, RingAssumption
<1>3. PutForce(rb, data) =
          IF n <= SpaceLen(rb) THEN written
          ELSE [written EXCEPT !.read_index = written.write_index,
                               !.read_mirror = Mirror(rb.read_mirror, w, n)]
  BY DEF PutForce, Last
<1>4. n <= SpaceLen(rb) => written = Put(rb, Last(data))
  <2>1. n <= SpaceLen(rb) => PutLen(rb, Len(Last(data))) = n
    BY <1>2 DEF PutLen, Lesser
  <2> QED
    BY <2>1 DEF Put
<1>5. /\ written.buf = Copied(rb, Last(data), n) /\ written.write_index = Moved(w, n)
      /\ written.write_mirror = Mirror(rb.write_mirror, w, n)
      /\ DOMAIN written = {"buf", "read_index", "read_mirror", "write_index", "write_mirror"}
  BY <1>1
<1> HIDE DEF n, w, written
<1>6. CASE n <= SpaceLen(rb)
  BY <1>2, <1>3, <1>4, <1>5, <1>6 DEF n, w
<1>7. CASE ~(n <= SpaceLen(rb))
  BY <1>2, <1>3, <1>5, <1>7, ZenonT(60) DEF n, w
<1> QED
  BY <1>6, <1>7, ZenonT(60)

\* rt_ringbuffer_put_force into a ring of any state.
THEOREM ForceDropsOldest ==
    ASSUME NEW B, NEW rb, IsRing(rb, B), NEW data \in Seq(B)
    PROVE  IF rb.read_mirror = rb.write_mirror /\ Lesser(Len(data), buffer_size) > SpaceLen(rb)
           THEN DataLen(PutForce(rb, data)) = 0
           ELSE Contents(PutForce(rb, data)) = Newest(Contents(rb) \o data)
<1> DEFINE q == PutForce(rb, data)
           n == Lesser(buffer_size, Len(data))
           d == DataLen(rb)
           m == Lesser(buffer_size, d + n)
           s == Contents(rb)
           last == Last(data)
           r == rb.read_index
           w == rb.write_index
           f == [k \in 1 .. m |-> IF n - m + k <= 0 THEN s[Len(s) + n - m + k]
                                  ELSE last[n - m + k]]
<1> USE RingAssumption
<1>1. /\ n \in 0 .. buffer_size /\ last \in Seq(B) /\ Len(last) = n
      /\ Lesser(Len(data), buffer_size) = n
  <2>1. n \in 0 .. buffer_size /\ last \in Seq(B) /\ Len(last) = n
    BY LastDef, ZenonT(60)
  <2>2. Lesser(Len(data), buffer_size) = n
    BY DEF Lesser
  <2> QED
    BY <2>1, <2>2
<1>2. /\ d \in 0 .. buffer_size /\ SpaceLen(rb) = buffer_size - d
      /\ s \in Seq(B) /\ Len(s) = d
      /\ s = [k \in 1 .. d |-> rb.buf[Slot(r, k - 1)]]
  BY RingLen, ContentsLen, ContentsSeq DEF SpaceLen
<1>3. Newest(s \o data) = f
  <2>1. s \in Seq(B) /\ Len(s) = d
    BY <1>2
  <2> HIDE DEF s, d
  <2>2. Fit(n, Len(data)) /\ Fit(m, Len(s) + n)
    BY <2>1, ZenonT(60) DEF Fit
  <2> HIDE DEF m
  <2>3. Newest(s \o data) = LastOf(s, last, n, m)
    BY <2>1, <2>2, NewestDef, ZenonT(60)
  <2> QED
    BY <2>3, ZenonT(60) DEF LastOf
<1>4. /\ r \in Index /\ w \in Index /\ rb.buf \in [Index -> B]
      /\ rb.read_mirror \in {0, 1} /\ rb.write_mirror \in {0, 1}
      /\ w = Slot(r, d) \/ (d = buffer_size /\ w = r)
  BY RingTypes, WriteSlot, ZenonT(60)
<1>5. /\ q.buf = Copied(rb, last, n)
      /\ q.write_index = Moved(w, n) /\ q.write_mirror = Mirror(rb.write_mirror, w, n)
      /\ n > SpaceLen(rb) => /\ q.read_index = Moved(w, n)
                             /\ q.read_mirror = Mirror(rb.read_mirror, w, n)
      /\ n <= SpaceLen(rb) => q = Put(rb, last)
  BY ForceFields, ZenonT(60)
<1> HIDE DEF q, n, d, s, last, r, w
<1>6. CASE n <= SpaceLen(rb)
  <2>1. PutLen(rb, n) = n /\ m = d + n
    BY <1>1, <1>2, <1>6 DEF PutLen, Lesser
  <2>2. SubSeq(last, 1, n) = last
    BY <1>1
  <2>3. Contents(q) = s \o last
    <3>1. Contents(Put(rb, last)) = s \o SubSeq(last, 1, PutLen(rb, Len(last)))
      BY <1>1, PutAppends, ZenonT(60) DEF s
    <3>2. q = Put(rb, last)
      BY <1>5, <1>6
    <3>3. SubSeq(last, 1, PutLen(rb, Len(last))) = last
      BY <1>1, <2>1, <2>2, ZenonT(60)
    <3> QED
      BY <3>1, <3>2, <3>3, ZenonT(60)
  <2>4. s \o last = [k \in 1 .. d + n |-> IF k <= d THEN s[k] ELSE last[k - d]]
    <3>1. s \o last = [k \in 1 .. Len(s) + Len(last) |->
                          IF k <= Len(s) THEN s[k] ELSE last[k - Len(s)]]
      <4>1. s \in Seq(B) /\ last \in Seq(B)
        BY <1>1, <1>2
      <4> QED
        BY <4>1, ConcatDef, ZenonT(60)
    <3>2. Len(s) = d /\ Len(last) = n
      BY <1>1, <1>2, ZenonT(60)
    <3> QED
      BY <3>1, <3>2, ZenonT(60)
  <2>5. ASSUME NEW k \in 1 .. d + n
        PROVE  /\ k <= d <=> n - m + k <= 0
               /\ Len(s) + n - m + k = k /\ n - m + k = k - d
    <3> HIDE DEF m
    <3> QED
      BY <1>1, <1>2, <2>1
  <2>6. f = s \o last
    <3>1. ASSUME NEW k \in 1 .. d + n
          PROVE  (IF n - m + k <= 0 THEN s[Len(s) + n - m + k] ELSE last[n - m + k])
                   = IF k <= d THEN s[k] ELSE last[k - d]
      <4>1. /\ k <= d <=> n - m + k <= 0
            /\ Len(s) + n - m + k = k /\ n - m + k = k - d
        BY <2>5
      <4> HIDE DEF m
      <4> QED
        BY <4>1, ZenonT(60)
    <3>2. 1 .. m = 1 .. d + n
      BY <2>1, ZenonT(60)
    <3> DEFINE g == [k \in 1 .. d + n |-> IF n - m + k <= 0 THEN s[Len(s) + n - m + k]
                                           ELSE last[n - m + k]]
    <3> HIDE DEF m
    <3>3. f = g
      BY <3>2, ZenonT(60)
    <3>4. g = [k \in 1 .. d + n |-> IF k <= d THEN s[k] ELSE last[k - d]]
      BY <3>1, ZenonT(60)
    <3> QED
      BY <2>4, <3>3, <3>4, ZenonT(60)
  <2>7. ~(Lesser(Len(data), buffer_size) > SpaceLen(rb))
    BY <1>1, <1>2, <1>6
  <2> QED
    BY <1>3, <2>3, <2>6, <2>7, ZenonT(60) DEF q, s
<1>7. CASE n > SpaceLen(rb) /\ rb.read_mirror = rb.write_mirror
  <2>1. DataLen(q) = 0
    BY <1>5, <1>7, ZenonT(60) DEF DataLen
  <2> QED
    BY <1>1, <1>7, <2>1, ZenonT(60) DEF q
<1>8. CASE n > SpaceLen(rb) /\ rb.read_mirror # rb.write_mirror
  <2>1. m = buffer_size /\ d + n > buffer_size
    BY <1>1, <1>2, <1>8 DEF Lesser
  <2>2. Mirror(rb.read_mirror, w, n) # Mirror(rb.write_mirror, w, n)
    BY <1>4, <1>8 DEF Mirror
  <2>3. DataLen(q) = buffer_size /\ q.read_index = Moved(w, n)
    BY <1>5, <1>8, <2>2, ZenonT(60) DEF DataLen
  <2>4. Contents(q) = [k \in 1 .. buffer_size |-> q.buf[Slot(Moved(w, n), k - 1)]]
    BY <2>3, ZenonT(60) DEF Contents, Got, GetLen, Lesser
  <2>5. ASSUME NEW k \in 1 .. buffer_size
        PROVE  q.buf[Slot(Moved(w, n), k - 1)]
                 = IF n - m + k <= 0 THEN s[Len(s) + n - m + k] ELSE last[n - m + k]
    <3> DEFINE i == Slot(Moved(w, n), k - 1)
    <3>1. /\ i \in Index
          /\ n - buffer_size + k <= 0 => /\ Offset(i, w) >= n
                                         /\ i = Slot(r, d + n - buffer_size + k - 1)
          /\ n - buffer_size + k > 0 => Offset(i, w) = n - buffer_size + k - 1
      BY <1>1, <1>2, <1>4, <2>1, ForcedSlot
    <3> HIDE DEF i
    <3>2. q.buf[i] = IF Offset(i, w) < n THEN last[Offset(i, w) + 1] ELSE rb.buf[i]
      BY <1>5, <3>1, ZenonT(60) DEF Copied, Index, w
    <3>3. CASE n - buffer_size + k <= 0
      <4>1. PICK j \in 1 .. d : j = Len(s) + n - buffer_size + k
                                /\ j - 1 = d + n - buffer_size + k - 1
        BY <1>1, <1>2, <2>1, <3>3
      <4>2. s[Len(s) + n - buffer_size + k] = rb.buf[i]
        <5>1. s[j] = rb.buf[Slot(r, j - 1)]
          BY <1>2
        <5>2. i = Slot(r, j - 1)
          BY <3>1, <3>3, <4>1, ZenonT(60)
        <5> QED
          BY <4>1, <5>1, <5>2, ZenonT(60)
      <4>3. ~(Offset(i, w) < n)
        <5>1. Offset(i, w) \in Int
          BY <1>4, <3>1 DEF Offset, Index
        <5> QED
          BY <1>1, <3>1, <3>3, <5>1
      <4> QED
        BY <2>1, <3>2, <3>3, <4>2, <4>3, ZenonT(60) DEF i
    <3>4. CASE n - buffer_size + k > 0
      <4>1. Offset(i, w) = n - buffer_size + k - 1 /\ Offset(i, w) < n
            /\ Offset(i, w) + 1 = n - buffer_size + k /\ ~(n - buffer_size + k <= 0)
        BY <1>1, <3>1, <3>4
      <4> QED
        BY <2>1, <3>2, <4>1, ZenonT(60) DEF i
    <3>5. n - buffer_size + k <= 0 \/ n - buffer_size + k > 0
      BY <1>1
    <3> QED
      BY <3>3, <3>4, <3>5, ZenonT(60) DEF i
  <2>6. Contents(q) = f
    BY <2>1, <2>4, <2>5, ZenonT(60)
  <2> QED
    BY <1>3, <1>8, <2>6, ZenonT(60) DEF q, s
<1>9. n <= SpaceLen(rb) \/ n > SpaceLen(rb)
  BY <1>1, <1>2
<1> QED
  BY <1>6, <1>7, <1>8, <1>9, ZenonT(60)

\* rt_ringbuffer_putchar_force is put_force of one byte: a full ring has its
\* two indices in different mirrors.
LEMMA ForceOneByte ==
    ASSUME NEW B, NEW rb, IsRing(rb, B), NEW ch \in B
    PROVE  /\ PutCharForce(rb, ch) = PutForce(rb, <<ch>>)
           /\ ~(rb.read_mirror = rb.write_mirror
                /\ Lesser(Len(<<ch>>), buffer_size) > SpaceLen(rb))
<1> USE RingAssumption
<1>1. /\ Lesser(buffer_size, Len(<<ch>>)) = 1 /\ Lesser(Len(<<ch>>), buffer_size) = 1
      /\ Last(<<ch>>) = <<ch>>
  <2>1. Len(<<ch>>) = 1
    OBVIOUS
  <2>2. Lesser(buffer_size, 1) = 1 /\ Lesser(1, buffer_size) = 1
    BY DEF Lesser
  <2>3. SubSeq(<<ch>>, 1 - 1 + 1, 1) = <<ch>>
    <3>1. <<ch>> \in Seq(B)
      OBVIOUS
    <3>2. \A s \in Seq(B) : SubSeq(s, 1, Len(s)) = s
      OBVIOUS
    <3>3. 1 - 1 + 1 = 1
      OBVIOUS
    <3> QED
      BY <2>1, <3>1, <3>2, <3>3, ZenonT(60)
  <2> QED
    BY <2>1, <2>2, <2>3, ZenonT(60) DEF Last
<1>2. DataLen(rb) \in 0 .. buffer_size /\ SpaceLen(rb) \in Int
      /\ (1 <= SpaceLen(rb) <=> DataLen(rb) < buffer_size)
  BY RingLen DEF SpaceLen
<1>3. rb \in [buf : [Index -> B], read_index : Index, read_mirror : {0, 1},
              write_index : Index, write_mirror : {0, 1}]
  BY RingTypes
<1>4. Copied(rb, <<ch>>, 1) = [rb.buf EXCEPT ![rb.write_index] = ch]
  <2>1. rb.buf \in [Index -> B] /\ rb.write_index \in Index
    BY RingTypes
  <2>2. \A i \in Index : Offset(i, rb.write_index) \in Nat
                         /\ (Offset(i, rb.write_index) < 1 <=> i = rb.write_index)
                         /\ (i = rb.write_index => Offset(i, rb.write_index) = 0)
    BY <2>1 DEF Offset, Index
  <2>3. Copied(rb, <<ch>>, 1) = [i \in Index |-> IF i = rb.write_index THEN ch ELSE rb.buf[i]]
    BY <2>2 DEF Copied, Index
  <2> QED
    BY <2>1, <2>3
<1>5. [rb EXCEPT !.buf = Copied(rb, <<ch>>, 1)]
        = [rb EXCEPT !.buf[rb.write_index] = ch]
  BY <1>3, <1>4
<1>6. PutCharForce(rb, ch) = PutForce(rb, <<ch>>)
  <2> DEFINE b == Copied(rb, <<ch>>, 1)
             written == [rb EXCEPT !.buf = b,
                            !.write_index = Moved(rb.write_index, 1),
                            !.write_mirror = Mirror(rb.write_mirror, rb.write_index, 1)]
  <2>1. written = [rb EXCEPT !.buf[rb.write_index] = ch,
                            !.write_index = Moved(rb.write_index, 1),
                            !.write_mirror = Mirror(rb.write_mirror, rb.write_index, 1)]
    BY <1>3, <1>4, ZenonT(60)
  <2>2. PutForce(rb, <<ch>>)
          = IF 1 <= SpaceLen(rb) THEN written
            ELSE [written EXCEPT !.read_index = written.write_index,
                                 !.read_mirror = Mirror(rb.read_mirror, rb.write_index, 1)]
    <3> DEFINE n == Lesser(buffer_size, Len(<<ch>>))
               last == Last(<<ch>>)
               w == [rb EXCEPT !.buf = Copied(rb, last, n),
                        !.write_index = Moved(rb.write_index, n),
                        !.write_mirror = Mirror(rb.write_mirror, rb.write_index, n)]
    <3>1. PutForce(rb, <<ch>>)
            = IF n <= SpaceLen(rb) THEN w
              ELSE [w EXCEPT !.read_index = w.write_index,
                             !.read_mirror = Mirror(rb.read_mirror, rb.write_index, n)]
      BY DEF PutForce, Last
    <3>2. n = 1 /\ last = <<ch>>
      BY <1>1
    <3> HIDE DEF n, last
    <3> QED
      BY <3>1, <3>2, ZenonT(60)
  <2>3. PutCharForce(rb, ch)
          = IF DataLen(rb) < buffer_size THEN written
            ELSE [written EXCEPT !.read_index = written.write_index,
                                 !.read_mirror = Mirror(rb.read_mirror, rb.write_index, 1)]
    BY <2>1, ZenonT(60) DEF PutCharForce
  <2> HIDE DEF written
  <2> QED
    BY <1>2, <2>2, <2>3, ZenonT(60)
<1>7. ~(rb.read_mirror = rb.write_mirror /\ DataLen(rb) = buffer_size)
  <2> SUFFICES ASSUME rb.read_mirror = rb.write_mirror
               PROVE  DataLen(rb) # buffer_size
    OBVIOUS
  <2>1. rb.read_index \in Index /\ rb.write_index \in Index /\ DataLen(rb) = Ahead(rb)
    BY RingTypes, RingLen
  <2>2. Ahead(rb) = rb.write_index - rb.read_index
    BY DEF Ahead
  <2> QED
    BY <2>1, <2>2 DEF Index
<1> QED
  BY <1>1, <1>2, <1>6, <1>7

-----------------------------------------------------------------------------
(* Lists without repetitions.                                              *)

\* A sequence is empty when it has no members.
LEMMA EmptyRange ==
    ASSUME NEW S, NEW s \in Seq(S)
    PROVE  s = <<>> <=> Range(s) = {}
BY DEF Range

\* The head of a non-empty list is one of its members.
LEMMA HeadInRange ==
    ASSUME NEW S, NEW s \in Seq(S), s # <<>>
    PROVE  Head(s) \in S /\ Head(s) \in Range(s)
BY DEF Range

\* The members of a list of elements of S are elements of S.
LEMMA RangeSubset ==
    ASSUME NEW S, NEW s \in Seq(S)
    PROVE  Range(s) \subseteq S
BY DEF Range

\* Linking an element at the tail.
LEMMA AppendLemma ==
    ASSUME NEW S, NEW s \in Seq(S), NEW e \in S
    PROVE  /\ Append(s, e) \in Seq(S)
           /\ Append(s, e) # <<>>
           /\ Range(Append(s, e)) = Range(s) \cup {e}
           /\ IsInjective(s) /\ e \notin Range(s) => IsInjective(Append(s, e))
<1>1. Append(s, e) \in Seq(S) /\ Len(Append(s, e)) = Len(s) + 1
  OBVIOUS
<1>2. \A j \in 1 .. Len(s) + 1 : Append(s, e)[j] = IF j = Len(s) + 1 THEN e ELSE s[j]
  OBVIOUS
<1>3. Range(Append(s, e)) \subseteq Range(s) \cup {e}
  BY <1>1, <1>2 DEF Range
<1>4. Range(s) \subseteq Range(Append(s, e))
  BY <1>1, <1>2 DEF Range
<1>5. e \in Range(Append(s, e))
  BY <1>1, <1>2 DEF Range
<1>6. ASSUME IsInjective(s), e \notin Range(s) PROVE IsInjective(Append(s, e))
  BY <1>1, <1>2, <1>6 DEF IsInjective, Range
<1> QED
  BY <1>1, <1>3, <1>4, <1>5, <1>6

\* Where the elements are when the i-th has been unlinked.
LEMMA RemovePlaces ==
    ASSUME NEW S, NEW s \in Seq(S), NEW i \in 1 .. Len(s)
    PROVE  /\ NodeRemoveAt(s, i) \in Seq(S)
           /\ Len(NodeRemoveAt(s, i)) = Len(s) - 1
           /\ \A j \in 1 .. Len(s) - 1 :
                 NodeRemoveAt(s, i)[j] = IF j < i THEN s[j] ELSE s[j + 1]
<1> DEFINE r == NodeRemoveAt(s, i)
             a == SubSeq(s, 1, i - 1)
             b == SubSeq(s, i + 1, Len(s))
<1>a. a \in Seq(S) /\ Len(a) = i - 1 /\ \A j \in 1 .. i - 1 : a[j] = s[j]
  OBVIOUS
<1>b. b \in Seq(S) /\ Len(b) = Len(s) - i /\ \A j \in 1 .. Len(b) : b[j] = s[i + j]
  OBVIOUS
<1>c. r = a \o b
  BY DEF NodeRemoveAt
<1> HIDE DEF r, a, b
<1>1. r \in Seq(S) /\ Len(r) = Len(s) - 1
  BY <1>a, <1>b, <1>c
<1>2. \A j \in 1 .. Len(s) - 1 : r[j] = IF j < i THEN s[j] ELSE s[j + 1]
  <2> TAKE j \in 1 .. Len(s) - 1
  <2>1. CASE j < i
    BY <1>a, <1>b, <1>c, <2>1
  <2>2. CASE j >= i
    <3>1. r[j] = b[j - (i - 1)] /\ j - (i - 1) \in 1 .. Len(b)
      BY <1>a, <1>b, <1>c, <2>2, SMTT(30)
    <3>2. b[j - (i - 1)] = s[i + (j - (i - 1))] /\ i + (j - (i - 1)) = j + 1
      BY <1>b, <3>1
    <3> QED
      BY <2>2, <3>1, <3>2
  <2> QED
    BY <2>1, <2>2
<1> QED
  BY <1>1, <1>2 DEF r

\* Unlinking the element at position i.
LEMMA RemoveAtLemma ==
    ASSUME NEW S, NEW s \in Seq(S), NEW i \in 1 .. Len(s), IsInjective(s)
    PROVE  /\ NodeRemoveAt(s, i) \in Seq(S)
           /\ Range(NodeRemoveAt(s, i)) = Range(s) \ {s[i]}
           /\ IsInjective(NodeRemoveAt(s, i))
<1> DEFINE r == NodeRemoveAt(s, i)
<1>1. r \in Seq(S) /\ Len(r) = Len(s) - 1
  BY RemovePlaces
<1>2. \A j \in 1 .. Len(s) - 1 : r[j] = IF j < i THEN s[j] ELSE s[j + 1]
  BY RemovePlaces
<1> HIDE DEF r
<1>3. Range(r) \subseteq Range(s) \ {s[i]}
  BY <1>1, <1>2 DEF Range, IsInjective
<1>4. ASSUME NEW k \in 1 .. Len(s), k # i PROVE s[k] \in Range(r)
  <2>1. CASE k < i
    BY <1>1, <1>2, <2>1 DEF Range
  <2>2. CASE ~(k < i)
    <3>1. k - 1 \in 1 .. Len(s) - 1 /\ r[k - 1] = s[k]
      BY <1>1, <1>2, <1>4, <2>2
    <3> QED
      BY <1>1, <3>1 DEF Range
  <2> QED
    BY <2>1, <2>2
<1>5. Range(s) \ {s[i]} \subseteq Range(r)
  BY <1>4 DEF Range
<1>6. IsInjective(r)
  <2>1. \A j, k \in 1 .. Len(s) : s[j] = s[k] => j = k
    BY DEF IsInjective
  <2>2. SUFFICES ASSUME NEW j \in 1 .. Len(s) - 1, NEW k \in 1 .. Len(s) - 1, j < k
                 PROVE  r[j] # r[k]
    BY <1>1, <2>2 DEF IsInjective
  <2> QED
    BY <1>2, <2>1, <2>2
<1> QED
  BY <1>1, <1>3, <1>5, <1>6 DEF r

\* The place of a member.
LEMMA NodePlace ==
    ASSUME NEW S, NEW s \in Seq(S), NEW e, IsInjective(s), NodePlaces(s, e) # {}
    PROVE  Min(NodePlaces(s, e)) \in 1 .. Len(s) /\ s[Min(NodePlaces(s, e))] = e
<1>1. PICK i \in 1 .. Len(s) : NodePlaces(s, e) = {i} /\ s[i] = e
  BY DEF NodePlaces, IsInjective
<1>2. Min({i}) = i
  BY DEF Min
<1> QED
  BY <1>1, <1>2

\* Unlinking an element, wherever it is.
LEMMA NodeRemoveLemma ==
    ASSUME NEW S, NEW s \in Seq(S), NEW e, IsInjective(s)
    PROVE  /\ NodeRemove(s, e) \in Seq(S)
           /\ Range(NodeRemove(s, e)) = Range(s) \ {e}
           /\ IsInjective(NodeRemove(s, e))
           /\ e \notin Range(s) => NodeRemove(s, e) = s
<1>1. CASE NodePlaces(s, e) # {}
  <2> DEFINE m == Min(NodePlaces(s, e))
  <2>3. NodeRemove(s, e) = NodeRemoveAt(s, m)
    BY <1>1 DEF NodeRemove
  <2>4. m \in 1 .. Len(s) /\ s[m] = e
    BY <1>1, NodePlace
  <2> HIDE DEF m
  <2>5. e \in Range(s)
    BY <2>4 DEF Range
  <2>6. /\ NodeRemoveAt(s, m) \in Seq(S)
        /\ Range(NodeRemoveAt(s, m)) = Range(s) \ {s[m]}
        /\ IsInjective(NodeRemoveAt(s, m))
    BY <2>4, RemoveAtLemma
  <2> QED
    BY <2>3, <2>4, <2>5, <2>6
<1>2. CASE NodePlaces(s, e) = {}
  <2>1. NodeRemove(s, e) = s /\ e \notin Range(s)
    BY <1>2 DEF NodeRemove, NodePlaces, Range
  <2> QED
    BY <2>1
<1> QED
  BY <1>1, <1>2

\* Unlinking the first element.
LEMMA TailLemma ==
    ASSUME NEW S, NEW s \in Seq(S), s # <<>>, IsInjective(s)
    PROVE  /\ Tail(s) \in Seq(S) /\ IsInjective(Tail(s))
           /\ Len(Tail(s)) = Len(s) - 1
           /\ Range(Tail(s)) = Range(s) \ {Head(s)}
<1>1. /\ Tail(s) \in Seq(S) /\ Len(Tail(s)) = Len(s) - 1 /\ Len(s) \in Nat \ {0}
      /\ \A i \in 1 .. Len(s) - 1 : Tail(s)[i] = s[i + 1]
      /\ Head(s) = s[1]
  OBVIOUS
<1>2. \A i, j \in 1 .. Len(s) : s[i] = s[j] => i = j
  BY DEF IsInjective
<1>3. IsInjective(Tail(s))
  <2> SUFFICES ASSUME NEW i \in 1 .. Len(s) - 1, NEW j \in 1 .. Len(s) - 1,
                      Tail(s)[i] = Tail(s)[j]
               PROVE  i = j
    BY <1>1 DEF IsInjective
  <2> QED
    BY <1>1, <1>2
<1> DEFINE r == Tail(s)
<1>4. /\ DOMAIN r = 1 .. Len(s) - 1 /\ DOMAIN s = 1 .. Len(s) /\ 1 \in DOMAIN s
      /\ \A i \in DOMAIN r : i + 1 \in DOMAIN s /\ r[i] = s[i + 1] /\ r[i] # s[1]
      /\ \A i \in DOMAIN s : i # 1 => i - 1 \in DOMAIN r /\ r[i - 1] = s[i]
  <2>1. DOMAIN r = 1 .. Len(s) - 1 /\ DOMAIN s = 1 .. Len(s) /\ 1 \in DOMAIN s
    BY <1>1
  <2>2. ASSUME NEW i \in DOMAIN r
        PROVE  i + 1 \in DOMAIN s /\ r[i] = s[i + 1] /\ r[i] # s[1]
    BY <1>1, <1>2, <2>1
  <2>3. ASSUME NEW i \in DOMAIN s, i # 1
        PROVE  i - 1 \in DOMAIN r /\ r[i - 1] = s[i]
    <3>1. i - 1 \in DOMAIN r /\ (i - 1) + 1 = i
      BY <1>1, <2>1, <2>3
    <3> QED
      BY <1>1, <2>1, <3>1
  <2> QED
    BY <2>1, <2>2, <2>3
<1> HIDE DEF r
<1>5. ASSUME NEW i \in DOMAIN r PROVE r[i] \in Range(s) \ {s[1]}
  BY <1>4 DEF Range
<1>6. ASSUME NEW i \in DOMAIN s, i # 1 PROVE s[i] \in Range(r)
  BY <1>4, <1>6, ZenonT(60) DEF Range
<1>7. Range(r) = Range(s) \ {s[1]}
  <2>1. ASSUME NEW x \in Range(r) PROVE x \in Range(s) \ {s[1]}
    BY <1>5 DEF Range
  <2>2. ASSUME NEW x \in Range(s), x # s[1] PROVE x \in Range(r)
    BY <1>6, <2>2 DEF Range
  <2> QED
    BY <2>1, <2>2
<1> QED
  BY <1>1, <1>3, <1>7 DEF r

-----------------------------------------------------------------------------
(* The waiting threads.                                                    *)

\* The operation in which a thread waits in a list.
WaitOp(l) ==
    CASE l = "pool" -> "alloc" [] l = "completion" -> "wait"
      [] l = "push" -> "push" [] l = "pop" -> "pop" [] l = "cancel" -> "cancel"
      [] l = "reader" -> "readWoken" [] l = "writer" -> "writeWoken"

\* A list of threads, each once.
IsQueue(s) == s \in Seq(Thread) /\ IsInjective(s)

\* The waiting threads: the inductive invariant that all services share.
WaitInv ==
    /\ timer \in [Thread -> BOOLEAN]
    /\ error \in [Thread -> {"EOK", "ETIMEOUT", "ERROR"}]
    /\ DOMAIN call = Thread
    /\ DOMAIN suspended = Lists /\ suspended = [l \in Lists |-> suspended[l]]
    /\ \A l \in Lists : IsQueue(suspended[l])
    /\ \A l \in Lists : \A t \in Range(suspended[l]) : call[t].op = WaitOp(l)
    /\ \A t \in Thread : timer[t] => Waits(t)

-----------------------------------------------------------------------------
\* The lists have different operations, and none is that of an idle thread.
LEMMA WaitOpLemma ==
    /\ \A l, m \in Lists : WaitOp(l) = WaitOp(m) => l = m
    /\ \A l \in Lists : WaitOp(l) # "none"
    /\ WaitOp("pool") = "alloc" /\ WaitOp("completion") = "wait"
    /\ WaitOp("push") = "push" /\ WaitOp("pop") = "pop" /\ WaitOp("cancel") = "cancel"
    /\ WaitOp("reader") = "readWoken" /\ WaitOp("writer") = "writeWoken"
  <1>1. /\ WaitOp("pool") = "alloc" /\ WaitOp("completion") = "wait"
        /\ WaitOp("push") = "push" /\ WaitOp("pop") = "pop" /\ WaitOp("cancel") = "cancel"
        /\ WaitOp("reader") = "readWoken" /\ WaitOp("writer") = "writeWoken"
    BY DEF WaitOp
  <1> QED
    BY <1>1 DEF Lists

\* A thread that is not in the list of its operation does not wait.
LEMMA NotWaiting ==
    ASSUME WaitInv, NEW t \in Thread, \A l \in Lists : call[t].op # WaitOp(l)
    PROVE  ~Waits(t)
  BY DEF WaitInv, Waits

\* An idle thread does not wait.
LEMMA IdleRuns == ASSUME WaitInv, NEW t \in Thread, call[t] = Idle PROVE ~Waits(t)
  <1>1. call[t].op = "none"
    BY DEF Idle
  <1> QED
    BY <1>1, NotWaiting, WaitOpLemma

\* A step of a running thread that leaves the lists alone.
LEMMA RunStep ==
    ASSUME WaitInv, NEW t \in Thread, ~Waits(t), UNCHANGED <<suspended, timer, error>>,
           \/ call' = call
           \/ \E c : call' = [call EXCEPT ![t] = c]
    PROVE  WaitInv'
<1>1. DOMAIN call' = Thread /\ \A u \in Thread : u # t => call'[u] = call[u]
  BY DEF WaitInv
<1>2. ASSUME NEW l \in Lists, NEW u \in Range(suspended[l])
      PROVE  call'[u].op = WaitOp(l)
  <2>1. u \in Thread /\ u # t
    BY RangeSubset DEF WaitInv, IsQueue, Waits
  <2> QED
    BY <1>1, <2>1 DEF WaitInv
<1> QED
  BY <1>1, <1>2 DEF WaitInv, Waits

\* A step that leaves the waiting threads alone.
LEMMA WaitSame == ASSUME WaitInv, UNCHANGED waitVars PROVE WaitInv'
  BY DEF waitVars, WaitInv, Waits

\* A running thread suspends itself.
LEMMA SuspendStep ==
    ASSUME WaitInv, NEW t \in Thread, ~Waits(t), NEW l \in Lists, NEW s, NEW time, NEW c,
           SuspendOn(t, l, s, time), call' = [call EXCEPT ![t] = c],
           IsQueue(s), Range(s) = Range(suspended[l]) \cup {t},
           c.op = WaitOp(l)
    PROVE  WaitInv'
<1>1. /\ timer' \in [Thread -> BOOLEAN]
      /\ error' \in [Thread -> {"EOK", "ETIMEOUT", "ERROR"}]
      /\ DOMAIN call' = Thread
      /\ \A u \in Thread : call'[u] = IF u = t THEN c ELSE call[u]
      /\ \A u \in Thread : u # t => timer'[u] = timer[u]
      /\ timer'[t] = (time = "ticks")
  BY DEF WaitInv, SuspendOn
<1>2. /\ DOMAIN suspended' = Lists /\ suspended' = [m \in Lists |-> suspended'[m]]
      /\ suspended'[l] = s
      /\ \A m \in Lists : m # l => suspended'[m] = suspended[m]
  BY DEF WaitInv, SuspendOn
<1>3. \A m \in Lists : IsQueue(suspended'[m])
  BY <1>2 DEF WaitInv
<1>4. ASSUME NEW m \in Lists, NEW u \in Range(suspended'[m])
      PROVE  call'[u].op = WaitOp(m)
  <2>1. u \in Thread
    BY <1>3, RangeSubset DEF IsQueue
  <2>2. CASE u = t
    <3>1. m = l
      BY <1>2, <2>2 DEF Waits
    <3> QED
      BY <1>1, <2>2, <3>1
  <2>3. CASE u # t
    <3>1. u \in Range(suspended[m])
      BY <1>2, <2>3
    <3> QED
      BY <1>1, <2>1, <2>3, <3>1 DEF WaitInv
  <2> QED
    BY <2>2, <2>3
<1>6. ASSUME NEW u \in Thread, timer'[u] PROVE \E m \in Lists : u \in Range(suspended'[m])
  <2>1. CASE u = t
    BY <1>2, <2>1
  <2>2. CASE u # t
    <3>1. Waits(u)
      BY <1>1, <1>6, <2>2 DEF WaitInv
    <3> QED
      BY <1>2, <3>1 DEF Waits
  <2> QED
    BY <2>1, <2>2
<1> QED
  BY <1>1, <1>2, <1>3, <1>4, <1>6 DEF WaitInv, Waits

\* The empty list.
LEMMA EmptyQueue == IsQueue(<<>>) /\ Range(<<>>) = {}
  BY DEF IsQueue, IsInjective, Range

\* The initial states.
LEMMA WaitInitInv == WaitingInit => WaitInv
<1> SUFFICES ASSUME WaitingInit PROVE WaitInv
  OBVIOUS
<1>1. /\ suspended = [l \in Lists |-> <<>>] /\ timer = [t \in Thread |-> FALSE]
      /\ error = [t \in Thread |-> "EOK"] /\ call = [t \in Thread |-> Idle]
  BY DEF WaitingInit
<1>2. \A l \in Lists : suspended[l] = <<>>
  BY <1>1
<1>3. \A l \in Lists : IsQueue(suspended[l]) /\ Range(suspended[l]) = {}
  BY <1>2, EmptyQueue
<1> QED
  BY <1>1, <1>2, <1>3 DEF WaitInv

\* The first thread of a list.
LEMMA FirstWaiter ==
    ASSUME WaitInv, NEW l \in Lists, suspended[l] # <<>>
    PROVE  /\ Head(suspended[l]) \in Thread /\ Head(suspended[l]) \in Range(suspended[l])
           /\ IsQueue(Tail(suspended[l])) /\ Len(Tail(suspended[l])) = Len(suspended[l]) - 1
           /\ Range(Tail(suspended[l])) = Range(suspended[l]) \ {Head(suspended[l])}
<1>1. suspended[l] \in Seq(Thread) /\ IsInjective(suspended[l])
  BY DEF WaitInv, IsQueue
<1>2. Head(suspended[l]) \in Range(suspended[l]) /\ Range(suspended[l]) \subseteq Thread
  BY <1>1, HeadInRange, RangeSubset
<1> QED
  BY <1>1, <1>2, TailLemma DEF IsQueue

\* A running thread resumes the first thread of a list.
LEMMA ResumeStep ==
    ASSUME WaitInv, NEW t \in Thread, ~Waits(t), NEW l \in Lists, suspended[l] # <<>>,
           ResumeFirst(l),
           error' \in [Thread -> {"EOK", "ETIMEOUT", "ERROR"}],
           \/ call' = call
           \/ \E c : call' = [call EXCEPT ![t] = c]
    PROVE  WaitInv'
<1> DEFINE h == Head(suspended[l])
<1>1. /\ h \in Thread /\ h \in Range(suspended[l]) /\ IsQueue(Tail(suspended[l]))
      /\ Range(Tail(suspended[l])) = Range(suspended[l]) \ {h}
  BY FirstWaiter
<1>2. /\ timer' \in [Thread -> BOOLEAN] /\ DOMAIN call' = Thread
      /\ \A u \in Thread : u # t => call'[u] = call[u]
      /\ \A u \in Thread : timer'[u] => u # h /\ timer[u]
  BY <1>1 DEF WaitInv, ResumeFirst
<1>3. /\ DOMAIN suspended' = Lists /\ suspended' = [m \in Lists |-> suspended'[m]]
      /\ suspended'[l] = Tail(suspended[l])
      /\ \A m \in Lists : m # l => suspended'[m] = suspended[m]
  BY ZenonT(60) DEF WaitInv, ResumeFirst
<1> HIDE DEF h
<1>4. \A m \in Lists : IsQueue(suspended'[m])
  BY <1>1, <1>3, ZenonT(60) DEF WaitInv
<1>5. \A m \in Lists : /\ Range(suspended'[m]) \subseteq Range(suspended[m])
                       /\ Range(suspended[m]) \ {h} \subseteq Range(suspended'[m])
                       /\ suspended'[m] # <<>> => suspended[m] # <<>>
  BY <1>1, <1>3, ZenonT(60)
<1>6. ASSUME NEW m \in Lists, NEW u \in Range(suspended'[m])
      PROVE  call'[u].op = WaitOp(m)
  <2>1. u \in Range(suspended[m])
    BY <1>5
  <2>2. u \in Thread /\ u # t
    BY <2>1, RangeSubset DEF WaitInv, IsQueue, Waits
  <2> QED
    BY <1>2, <2>1, <2>2 DEF WaitInv
<1>8. ASSUME NEW u \in Thread, timer'[u] PROVE \E m \in Lists : u \in Range(suspended'[m])
  <2>1. Waits(u) /\ u # h
    BY <1>2, <1>8 DEF WaitInv
  <2> QED
    BY <1>5, <2>1 DEF Waits
<1> QED
  BY <1>2, <1>3, <1>4, <1>6, <1>8 DEF WaitInv, Waits

\* A timer fires: its thread leaves the list it waits in.
LEMMA TimeoutStep ==
    ASSUME WaitInv, NEW t \in Thread, Timeout(t)
    PROVE  /\ WaitInv' /\ Waits(t)
           /\ \A l \in Lists : Range(suspended'[l]) = Range(suspended[l]) \ {t}
           /\ \A l \in Lists : suspended[l] = <<>> => suspended'[l] = <<>>
<1>1. /\ timer[t] /\ call' = call
      /\ timer' \in [Thread -> BOOLEAN]
      /\ error' \in [Thread -> {"EOK", "ETIMEOUT", "ERROR"}]
      /\ \A u \in Thread : timer'[u] => u # t /\ timer[u]
  BY DEF WaitInv, Timeout
<1>2. Waits(t)
  BY <1>1 DEF WaitInv
<1>3. /\ DOMAIN suspended' = Lists /\ suspended' = [m \in Lists |-> suspended'[m]]
      /\ \A m \in Lists : suspended'[m] = NodeRemove(suspended[m], t)
  BY DEF Timeout
<1>4. ASSUME NEW m \in Lists
      PROVE  IsQueue(suspended'[m]) /\ Range(suspended'[m]) = Range(suspended[m]) \ {t}
  <2>1. suspended[m] \in Seq(Thread) /\ IsInjective(suspended[m])
    BY DEF WaitInv, IsQueue
  <2> QED
    BY <1>3, <2>1, NodeRemoveLemma DEF IsQueue
<1>5. ASSUME NEW m \in Lists, suspended[m] = <<>> PROVE suspended'[m] = <<>>
  <2>1. Range(suspended'[m]) = {} /\ suspended'[m] \in Seq(Thread)
    BY <1>4, <1>5, EmptyQueue, ZenonT(60) DEF IsQueue
  <2> QED
    BY <2>1, EmptyRange
<1>6. \A m \in Lists : \A u \in Range(suspended'[m]) : call'[u].op = WaitOp(m)
  BY <1>1, <1>4 DEF WaitInv
<1>8. ASSUME NEW u \in Thread, timer'[u] PROVE \E m \in Lists : u \in Range(suspended'[m])
  <2>1. Waits(u) /\ u # t
    BY <1>1, <1>8 DEF WaitInv
  <2> QED
    BY <1>4, <2>1 DEF Waits
<1>9. DOMAIN call' = Thread
  BY <1>1 DEF WaitInv
<1> QED
  BY <1>1, <1>2, <1>3, <1>4, <1>5, <1>6, <1>8, <1>9 DEF WaitInv, Waits

\* The lists of waiting threads are well formed.
LEMMA ListsOK == WaitInv => WaitingTypeOK /\ OneListEach
<1> SUFFICES ASSUME WaitInv PROVE WaitingTypeOK /\ OneListEach
  OBVIOUS
<1>1. \A l \in Lists : suspended[l] \in Seq(Thread) /\ IsInjective(suspended[l])
  BY DEF WaitInv, IsQueue
<1>2. WaitingTypeOK
  BY <1>1 DEF WaitInv, WaitingTypeOK
<1>3. ASSUME NEW l \in Lists, NEW m \in Lists,
             NEW i \in DOMAIN suspended[l], NEW j \in DOMAIN suspended[m],
             suspended[l][i] = suspended[m][j]
      PROVE  l = m /\ i = j
  <2>1. suspended[l][i] \in Range(suspended[l]) /\ suspended[l][i] \in Range(suspended[m])
    BY <1>3 DEF Range
  <2>2. l = m
    BY <2>1, WaitOpLemma DEF WaitInv
  <2> QED
    BY <1>1, <1>3, <2>2 DEF IsInjective
<1> QED
  BY <1>2, <1>3 DEF WaitInv, OneListEach

-----------------------------------------------------------------------------
\* What is used of the number of threads in a set.  ThreadsCount proves it.
Counting ==
    \A A, B \in SUBSET Thread : A \subseteq B =>
        /\ Cardinality(A) \in Nat /\ Cardinality(B) \in Nat
        /\ Cardinality(A) <= Cardinality(B)
        /\ \A t \in Thread : t \notin A => Cardinality(A \cup {t}) = Cardinality(A) + 1
        /\ \A t \in Thread : Cardinality(A \ {t}) >= Cardinality(A) - 1

\* Two sets of threads.
LEMMA ThreadSets ==
    ASSUME Counting, NEW A, NEW B, A \subseteq B, B \subseteq Thread
    PROVE  /\ Cardinality(A) \in Nat /\ Cardinality(B) \in Nat
           /\ Cardinality(A) <= Cardinality(B)
           /\ \A t \in Thread : t \notin A => Cardinality(A \cup {t}) = Cardinality(A) + 1
           /\ \A t \in Thread : Cardinality(A \ {t}) >= Cardinality(A) - 1
<1>1. A \in SUBSET Thread /\ B \in SUBSET Thread
  OBVIOUS
<1> QED
  BY <1>1, ZenonT(60) DEF Counting

\* How many were resumed is a number.
LEMMA WokenCount == ASSUME Counting, NEW op PROVE Cardinality(Woken(op)') \in Nat
<1>1. Woken(op)' \subseteq Thread
  BY DEF Woken
<1> QED
  BY <1>1, ThreadSets

\* One thread less.
LEMMA WokenLess ==
    ASSUME Counting, NEW A, NEW B, NEW t \in Thread, A \ {t} \subseteq B, A \subseteq Thread, B \subseteq Thread
    PROVE  /\ Cardinality(A) \in Nat /\ Cardinality(B) \in Nat
           /\ Cardinality(B) >= Cardinality(A) - 1
           /\ t \notin A => Cardinality(B) >= Cardinality(A)
<1>1. Cardinality(A) \in Nat /\ Cardinality(A \ {t}) >= Cardinality(A) - 1
  BY ThreadSets
<1>2. Cardinality(B) \in Nat /\ Cardinality(A \ {t}) \in Nat /\ Cardinality(A \ {t}) <= Cardinality(B)
  BY ThreadSets
<1>3. t \notin A => A \ {t} = A
  OBVIOUS
<1> QED
  BY <1>1, <1>2, <1>3

\* The threads resumed in an operation, in terms of its list, ...
LEMMA WokenLemma ==
    ASSUME WaitInv, NEW l \in Lists
    PROVE  Woken(WaitOp(l)) = {u \in Thread : /\ call[u].op = WaitOp(l) /\ error[u] = "EOK"
                                             /\ u \notin Range(suspended[l])}
  BY WaitOpLemma DEF WaitInv, Woken, At, Waits

\* ... and after a step.
LEMMA WokenNext ==
    ASSUME WaitInv', NEW l \in Lists
    PROVE  Woken(WaitOp(l))' = {u \in Thread : /\ call'[u].op = WaitOp(l) /\ error'[u] = "EOK"
                                              /\ u \notin Range(suspended'[l])}
  BY WaitOpLemma DEF WaitInv, Woken, At, Waits

-----------------------------------------------------------------------------
\* After a step of t, the threads resumed before are still on their way, all but t.
LEMMA WokenStep ==
    ASSUME Counting, WaitInv, WaitInv', NEW l \in Lists, NEW op, op = WaitOp(l), NEW t \in Thread,
           \A u \in Thread : u # t => call'[u] = call[u],
           \A u \in Thread : u # t /\ ~Waits(u) => error'[u] = error[u],
           Range(suspended'[l]) \subseteq Range(suspended[l]) \cup {t}
    PROVE  /\ Woken(op) \ {t} \subseteq Woken(op)'
           /\ Woken(op) \subseteq Thread /\ Woken(op)' \subseteq Thread
           /\ Cardinality(Woken(op)) \in Nat /\ Cardinality(Woken(op)') \in Nat
           /\ Cardinality(Woken(op)') >= Cardinality(Woken(op)) - 1
           /\ t \notin Woken(op) => Cardinality(Woken(op)') >= Cardinality(Woken(op))
<1>1. Woken(op) = {u \in Thread : /\ call[u].op = op /\ error[u] = "EOK"
                                 /\ u \notin Range(suspended[l])}
  BY WokenLemma
<1>2. Woken(op)' = {u \in Thread : /\ call'[u].op = op /\ error'[u] = "EOK"
                                  /\ u \notin Range(suspended'[l])}
  BY WokenNext
<1>3. \A u \in Woken(op) : ~Waits(u)
  BY DEF Woken, At
<1>4. /\ Woken(op) \ {t} \subseteq Woken(op)'
      /\ Woken(op) \subseteq Thread /\ Woken(op)' \subseteq Thread
  BY <1>1, <1>2, <1>3
<1> QED
  BY <1>4, WokenLess, ZenonT(60)

\* A thread that t has resumed without an error is one more.
LEMMA WokenGrows ==
    ASSUME Counting, WaitInv, WaitInv', NEW l \in Lists, NEW op, op = WaitOp(l), NEW t \in Thread,
           \A u \in Thread : u # t => call'[u] = call[u],
           \A u \in Thread : u # t /\ ~Waits(u) => error'[u] = error[u],
           NEW h \in Range(suspended[l]), h # t, error'[h] = "EOK",
           Range(suspended'[l]) = Range(suspended[l]) \ {h}
    PROVE  /\ Cardinality(Woken(op)) \in Nat /\ Cardinality(Woken(op)') \in Nat
           /\ Cardinality(Woken(op)') >= Cardinality(Woken(op))
           /\ t \notin Woken(op) => Cardinality(Woken(op)') >= Cardinality(Woken(op)) + 1
<1>1. /\ Woken(op) \ {t} \subseteq Woken(op)'
      /\ Woken(op) \subseteq Thread /\ Woken(op)' \subseteq Thread
  BY WokenStep
<1>2. h \in Thread /\ call[h].op = op
  BY RangeSubset DEF WaitInv, IsQueue
<1>3. h \notin Woken(op) /\ h \in Woken(op)'
  BY <1>2, WokenLemma, WokenNext
<1> DEFINE A == Woken(op) \cup {h}
<1>4. Cardinality(A) = Cardinality(Woken(op)) + 1 /\ Cardinality(Woken(op)) \in Nat
  BY <1>1, <1>2, <1>3, ThreadSets
<1>5. A \ {t} \subseteq Woken(op)' /\ A \subseteq Thread /\ (t \notin Woken(op) => t \notin A)
  BY <1>1, <1>2, <1>3
<1> HIDE DEF A
<1>6. /\ Cardinality(Woken(op)') \in Nat /\ Cardinality(Woken(op)') >= Cardinality(A) - 1
      /\ t \notin A => Cardinality(Woken(op)') >= Cardinality(A)
  BY <1>1, <1>5, WokenLess
<1> QED
  BY <1>4, <1>5, <1>6

\* A thread in another operation is not one that was resumed.
LEMMA NotWoken == ASSUME NEW t \in Thread, NEW op, call[t].op # op PROVE t \notin Woken(op)
  BY DEF Woken, At

-----------------------------------------------------------------------------
(* The pipe.                                                               *)

\* The calls a thread makes on a pipe.
PipeCall ==
    {Idle}
    \cup [op : {"read", "readWake", "readWait", "readWoken"}, count : Nat]
    \cup [op : {"write", "writeWake", "writeWait", "writeWoken", "writeEnd"},
          count : Nat, begun : BOOLEAN]

\* The bytes between got and sent.
Unread(n, m) == [k \in 1 .. n - m |-> m + k]

\* The inductive invariant.
PipeInv ==
    /\ sent \in Nat /\ got \in Nat /\ got <= sent
    /\ IsRing(fifo, Int)
    /\ Contents(fifo) = Unread(sent, got)
    /\ opened = {} => got = sent
    /\ call \in [Thread -> PipeCall]

\* The ring that rt_ringbuffer_init makes is one, and is empty.
LEMMA EmptyRingOK == IsRing(EmptyRing, Int) /\ Contents(EmptyRing) = << >>
  <1>1. IsRing(EmptyRing, Int)
    BY RingAssumption DEF IsRing, EmptyRing, Index
  <1>2. DataLen(EmptyRing) = 0
    BY RingAssumption DEF EmptyRing, DataLen
  <1> QED
    BY <1>1, <1>2, ContentsLen

\* When all bytes are read, none is unread.
LEMMA NothingUnread == ASSUME NEW n \in Nat PROVE Unread(n, n) = << >>
  BY DEF Unread

\* The invariant holds initially.
LEMMA PipeInitInv == WaitingInit /\ PipeInit => PipeInv
  <1> SUFFICES ASSUME WaitingInit, PipeInit PROVE PipeInv
    OBVIOUS
  <1>1. sent = 0 /\ got = 0 /\ fifo = EmptyRing /\ call = [t \in Thread |-> Idle]
    BY DEF PipeInit, WaitingInit
  <1>2. call \in [Thread -> PipeCall]
    BY <1>1 DEF PipeCall
  <1> QED
    BY <1>1, <1>2, EmptyRingOK, NothingUnread DEF PipeInv

\* What a write leaves in the ring, ...
LEMMA WriteStep ==
    ASSUME PipeInv, NEW left \in Nat
    PROVE  LET data == [i \in 1 .. left |-> sent + i]
               n == PutLen(fifo, left)
           IN  /\ n \in Nat /\ n <= left
               /\ IsRing(Put(fifo, data), Int)
               /\ Contents(Put(fifo, data)) = Unread(sent + n, got)
  <1> DEFINE data == [i \in 1 .. left |-> sent + i]
             n == PutLen(fifo, left)
             old == Contents(fifo)
  <1>1. sent \in Nat /\ got \in Nat /\ got <= sent /\ IsRing(fifo, Int) /\ old = Unread(sent, got)
    BY DEF PipeInv
  <1>2. data \in Seq(Int) /\ Len(data) = left
    BY <1>1
  <1>3. n \in Nat /\ n <= left
    BY <1>1, PutLenOK
  <1>4. IsRing(Put(fifo, data), Int) /\ Contents(Put(fifo, data)) = old \o SubSeq(data, 1, n)
    BY <1>1, <1>2, PutAppends, ZenonT(60)
  <1>5. SubSeq(data, 1, n) = [i \in 1 .. n |-> sent + i]
    BY <1>1, <1>3
  <1> HIDE DEF data, n, old
  <1>6. old \o SubSeq(data, 1, n) = Unread(sent + n, got)
    <2> DEFINE d == sent - got
               new == [i \in 1 .. n |-> sent + i]
    <2>1. d \in Nat /\ sent = got + d /\ (sent + n) - got = d + n
      BY <1>1, <1>3
    <2>2. old = [k \in 1 .. d |-> got + k]
      BY <1>1 DEF Unread
    <2> HIDE DEF d
    <2>3. old \in Seq(Int) /\ Len(old) = d /\ new \in Seq(Int) /\ Len(new) = n
      BY <1>1, <1>3, <2>1, <2>2
    <2>4. old \o new = [k \in 1 .. d + n |-> IF k <= d THEN old[k] ELSE new[k - d]]
      <3> HIDE DEF new
      <3>1. old \o new = [k \in 1 .. Len(old) + Len(new) |->
                             IF k <= Len(old) THEN old[k] ELSE new[k - Len(old)]]
        BY <2>3, ConcatDef, Zenon
      <3> QED
        BY <2>3, <3>1
    <2>5. ASSUME NEW k \in 1 .. d + n
          PROVE  got + k = IF k <= d THEN old[k] ELSE new[k - d]
      <3>1. CASE k <= d
        BY <2>1, <2>2, <3>1
      <3>2. CASE ~(k <= d)
        <4>1. k - d \in 1 .. n
          BY <1>3, <2>1, <3>2
        <4>2. new[k - d] = sent + (k - d)
          BY <4>1
        <4> QED
          BY <1>1, <1>3, <2>1, <3>2, <4>2
      <3> QED
        BY <3>1, <3>2
    <2>6. old \o new = [k \in 1 .. d + n |-> got + k]
      BY <2>4, <2>5, ZenonT(60)
    <2> QED
      BY <1>5, <2>1, <2>6, ZenonT(60) DEF Unread
  <1> QED
    BY <1>3, <1>4, <1>6, ZenonT(60) DEF data, n

\* ... and a read.
LEMMA ReadStep ==
    ASSUME PipeInv, NEW n \in Nat
    PROVE  LET m == GetLen(fifo, n)
           IN  /\ m \in Nat /\ m <= sent - got
               /\ IsRing(Get(fifo, n), Int)
               /\ Contents(Get(fifo, n)) = Unread(sent, got + m)
  <1> DEFINE m == GetLen(fifo, n)
             q == Get(fifo, n)
             old == Contents(fifo)
             d == sent - got
  <1>1. sent \in Nat /\ got \in Nat /\ got <= sent /\ IsRing(fifo, Int) /\ old = Unread(sent, got)
    BY DEF PipeInv
  <1>2. old = [k \in 1 .. d |-> got + k] /\ d \in Nat
    BY <1>1 DEF Unread
  <1>3. DataLen(fifo) = d
    <2>1. Len(old) = DataLen(fifo)
      BY <1>1, ContentsSeq
    <2> QED
      BY <1>2, <2>1
  <1>4. m \in Nat /\ m <= d
    BY <1>1, <1>3, PutLenOK
  <1>5. /\ IsRing(q, Int) /\ DataLen(q) = d - m
        /\ \A k \in 0 .. d - m - 1 : q.buf[Slot(q.read_index, k)] = fifo.buf[Slot(fifo.read_index, m + k)]
    BY <1>1, <1>3, GetRing
  <1>6. /\ Contents(q) = [k \in 1 .. d - m |-> q.buf[Slot(q.read_index, k - 1)]]
        /\ old = [k \in 1 .. d |-> fifo.buf[Slot(fifo.read_index, k - 1)]]
    BY <1>1, <1>3, <1>5, ContentsLen
  <1> HIDE DEF m, q, old, d
  <1>7. ASSUME NEW k \in 1 .. d - m
        PROVE  q.buf[Slot(q.read_index, k - 1)] = (got + m) + k
    <2>1. k - 1 \in 0 .. d - m - 1 /\ m + k \in 1 .. d /\ m + (k - 1) = (m + k) - 1
      BY <1>2, <1>4
    <2>2. q.buf[Slot(q.read_index, k - 1)] = old[m + k]
      BY <1>5, <1>6, <2>1
    <2>3. old[m + k] = got + (m + k)
      BY <1>2, <2>1
    <2> QED
      BY <1>1, <1>4, <2>2, <2>3
  <1>8. Contents(q) = [k \in 1 .. d - m |-> (got + m) + k]
    BY <1>6, <1>7
  <1>9. d - m = sent - (got + m)
    BY <1>1, <1>4 DEF d
  <1> QED
    BY <1>4, <1>5, <1>8, <1>9 DEF Unread, m, q, d

-----------------------------------------------------------------------------
\* Where a call can go on.
LEMMA CallStep ==
    ASSUME call \in [Thread -> PipeCall], NEW t \in Thread, NEW c \in PipeCall,
           call' = [call EXCEPT ![t] = c]
    PROVE  call' \in [Thread -> PipeCall]
  OBVIOUS

\* A turn of pipe_fops_read keeps it.
LEMMA ReadCall ==
    ASSUME NEW c \in PipeCall, c.op \in {"read", "readWake", "readWait", "readWoken"}
    PROVE  /\ c.count \in Nat
           /\ \A op \in {"read", "readWake", "readWait", "readWoken"} :
                [c EXCEPT !.op = op] \in PipeCall
  BY DEF PipeCall, Idle

\* A turn of pipe_fops_write keeps it.
LEMMA WriteCall ==
    ASSUME NEW c \in PipeCall,
           c.op \in {"write", "writeWake", "writeWait", "writeWoken", "writeEnd"}
    PROVE  /\ c.count \in Nat
           /\ \A op \in {"write", "writeWake", "writeWait", "writeWoken", "writeEnd"} :
                [c EXCEPT !.op = op] \in PipeCall
  BY DEF PipeCall, Idle

\* The numbers of open readers and writers are zero when there are none.
\* OpenCounted proves it.
Counted ==
    /\ writers > 0 <=> opened \cap Writer # {}
    /\ writers = 0 <=> opened \cap Writer = {}
    /\ readers > 0 <=> opened \cap Reader # {}
    /\ readers = 0 <=> opened \cap Reader = {}

\* One step per action of the pipe.
LEMMA PipeNextInv ==
    ASSUME Counted, PipeInv, PipeNext
    PROVE  PipeInv'
  <1>1. call \in [Thread -> PipeCall]
    BY DEF PipeInv
  <1>2. PICK t \in Thread :
        \/ Open(t) \/ Close(t)
        \/ (\E n \in Counts : Read(t, n)) \/ ReadEof(t) \/ ReadData(t) \/ ReadNothing(t)
        \/ ReadWake(t) \/ ReadWait(t) \/ ReadWoken(t)
        \/ (\E n \in Counts : Write(t, n)) \/ WriteBroken(t) \/ WriteData(t)
        \/ WriteWake(t) \/ WriteWait(t) \/ WriteWoken(t) \/ WriteEnd(t)
    BY DEF PipeNext
  <1>3. call[t] \in PipeCall /\ Idle \in PipeCall
    BY <1>1 DEF PipeCall
  \* Steps that leave the ring alone.
  <1>4. ASSUME UNCHANGED <<fifo, opened, sent, got>>, NEW c \in PipeCall,
               call' = [call EXCEPT ![t] = c]
        PROVE  PipeInv'
    <2>1. call' \in [Thread -> PipeCall]
      BY <1>1, <1>4, CallStep
    <2> QED
      BY <1>4, <2>1 DEF PipeInv
  <1>5. CASE Open(t)
    <2>1. /\ fifo' = IF opened = {} THEN EmptyRing ELSE fifo
          /\ opened' # {} /\ sent' = sent /\ got' = got /\ call' = call
      BY <1>5 DEF Open, waitVars
    <2>2. CASE opened = {}
      BY <2>1, <2>2, EmptyRingOK, NothingUnread DEF PipeInv
    <2>3. CASE opened # {}
      BY <2>1, <2>3 DEF PipeInv
    <2> QED
      BY <2>2, <2>3
  <1>6. CASE Close(t)
    <2>1. /\ got' = IF opened' = {} THEN sent ELSE got
          /\ fifo' = IF opened' = {} THEN EmptyRing ELSE fifo
          /\ sent' = sent /\ call' = call
      BY <1>6 DEF Close
    <2>2. CASE opened' = {}
      BY <2>1, <2>2, EmptyRingOK, NothingUnread DEF PipeInv
    <2>3. CASE opened' # {}
      BY <2>1, <2>3 DEF PipeInv
    <2> QED
      BY <2>2, <2>3
  <1>7. ASSUME NEW n \in Counts, Read(t, n) PROVE PipeInv'
    <2>1. [op |-> "read", count |-> n] \in PipeCall
      BY PipeAssumption DEF PipeCall
    <2> QED
      BY <1>4, <1>7, <2>1, ZenonT(60) DEF Read, Enter, pipeVars
  <1>8. ASSUME NEW n \in Counts, Write(t, n) PROVE PipeInv'
    <2>1. [op |-> "write", count |-> n, begun |-> FALSE] \in PipeCall
      BY PipeAssumption DEF PipeCall
    <2> QED
      BY <1>4, <1>8, <2>1, ZenonT(60) DEF Write, Enter, pipeVars
  <1>9. CASE ReadEof(t)
    BY <1>3, <1>4, <1>9, ZenonT(60) DEF ReadEof, Finish, pipeVars
  <1>10. CASE ReadData(t)
    <2>1. call[t].count \in Nat
      BY <1>3, <1>10, ReadCall, ZenonT(60) DEF ReadData, At
    <2> DEFINE m == GetLen(fifo, call[t].count)
    <2>2. /\ m \in Nat /\ m <= sent - got
          /\ IsRing(Get(fifo, call[t].count), Int)
          /\ Contents(Get(fifo, call[t].count)) = Unread(sent, got + m)
      BY <2>1, ReadStep
    <2>3. /\ fifo' = Get(fifo, call[t].count) /\ got' = got + m
          /\ sent' = sent /\ opened' = opened /\ opened # {}
          /\ call' = [call EXCEPT ![t] = Idle]
      <3>1. opened # {}
        BY <1>10 DEF ReadData, Counted
      <3> QED
        BY <1>10, <3>1 DEF ReadData, Finish
    <2>4. call' \in [Thread -> PipeCall]
      BY <1>1, <1>3, <2>3, CallStep
    <2> HIDE DEF m
    <2> QED
      BY <2>2, <2>3, <2>4 DEF PipeInv
  <1>11. CASE ReadNothing(t)
    <2>1. [call[t] EXCEPT !.op = "readWake"] \in PipeCall
      BY <1>3, <1>11, ReadCall, ZenonT(60) DEF ReadNothing, At
    <2> QED
      BY <1>3, <1>4, <1>11, <2>1 DEF ReadNothing, Finish, Enter, pipeVars
  <1>12. CASE ReadWake(t)
    <2>1. [call[t] EXCEPT !.op = "readWait"] \in PipeCall
      BY <1>3, <1>12, ReadCall, ZenonT(60) DEF ReadWake, At
    <2> QED
      BY <1>4, <1>12, <2>1, ZenonT(60) DEF ReadWake, Enter
  <1>13. CASE ReadWait(t)
    <2>1. [call[t] EXCEPT !.op = "readWoken"] \in PipeCall /\ [call[t] EXCEPT !.op = "read"] \in PipeCall
      BY <1>3, <1>13, ReadCall, ZenonT(60) DEF ReadWait, At
    <2> QED
      BY <1>4, <1>13, <2>1 DEF ReadWait, WaitOn, Enter
  <1>14. CASE ReadWoken(t)
    <2>1. [call[t] EXCEPT !.op = "read"] \in PipeCall
      BY <1>3, <1>14, ReadCall, ZenonT(60) DEF ReadWoken, At
    <2> QED
      BY <1>4, <1>14, <2>1, ZenonT(60) DEF ReadWoken, Resumed, Enter
  <1>15. CASE WriteBroken(t)
    <2>1. [call[t] EXCEPT !.op = "writeEnd"] \in PipeCall
      BY <1>3, <1>15, WriteCall, ZenonT(60) DEF WriteBroken, At
    <2> QED
      BY <1>3, <1>4, <1>15, <2>1 DEF WriteBroken, Finish, Enter, pipeVars
  <1>16. CASE WriteData(t)
    <2> DEFINE left == call[t].count
               n == PutLen(fifo, left)
               q == Put(fifo, [i \in 1 .. left |-> sent + i])
    <2>1. left \in Nat
      BY <1>3, <1>16, WriteCall, ZenonT(60) DEF WriteData, At
    <2>2. n \in Nat /\ n <= left /\ IsRing(q, Int) /\ Contents(q) = Unread(sent + n, got)
      BY <2>1, WriteStep
    <2>3. opened # {}
      BY <1>16, ZenonT(60) DEF WriteData, Counted
    <2>4. /\ fifo' = q /\ sent' = sent + n /\ got' = got /\ opened' = opened
          /\ \/ call' = [call EXCEPT ![t] = [op |-> "writeEnd", count |-> left - n, begun |-> TRUE]]
             \/ call' = [call EXCEPT ![t] = [op |-> "writeWake", count |-> left - n, begun |-> TRUE]]
      BY <1>16 DEF WriteData, Enter
    <2> HIDE DEF left, n, q
    <2>5. /\ [op |-> "writeEnd", count |-> left - n, begun |-> TRUE] \in PipeCall
          /\ [op |-> "writeWake", count |-> left - n, begun |-> TRUE] \in PipeCall
      <3> DEFINE c == left - n
      <3>1. c \in Nat
        BY <2>1, <2>2
      <3> HIDE DEF c
      <3>2. /\ [op |-> "writeEnd", count |-> c, begun |-> TRUE] \in PipeCall
            /\ [op |-> "writeWake", count |-> c, begun |-> TRUE] \in PipeCall
        BY <3>1 DEF PipeCall
      <3> QED
        BY <3>2 DEF c
    <2>6. call' \in [Thread -> PipeCall]
      BY <1>1, <2>4, <2>5, CallStep, ZenonT(60)
    <2> QED
      BY <2>2, <2>3, <2>4, <2>6 DEF PipeInv
  <1>17. CASE WriteWake(t)
    <2>1. [call[t] EXCEPT !.op = "writeWait"] \in PipeCall
      BY <1>3, <1>17, WriteCall, ZenonT(60) DEF WriteWake, At
    <2> QED
      BY <1>4, <1>17, <2>1, ZenonT(60) DEF WriteWake, Enter
  <1>18. CASE WriteWait(t)
    <2>1. [call[t] EXCEPT !.op = "writeWoken"] \in PipeCall /\ [call[t] EXCEPT !.op = "write"] \in PipeCall
      BY <1>3, <1>18, WriteCall, ZenonT(60) DEF WriteWait, At
    <2> QED
      BY <1>4, <1>18, <2>1 DEF WriteWait, WaitOn, Enter
  <1>19. CASE WriteWoken(t)
    <2>1. [call[t] EXCEPT !.op = "write"] \in PipeCall
      BY <1>3, <1>19, WriteCall, ZenonT(60) DEF WriteWoken, At
    <2> QED
      BY <1>4, <1>19, <2>1, ZenonT(60) DEF WriteWoken, Resumed, Enter
  <1>20. CASE WriteEnd(t)
    BY <1>3, <1>4, <1>20, ZenonT(60) DEF WriteEnd, Finish
  <1> QED
    BY <1>2, <1>5, <1>6, <1>7, <1>8, <1>9, <1>10, <1>11, <1>12, <1>13, <1>14, <1>15, <1>16,
       <1>17, <1>18, <1>19, <1>20

-----------------------------------------------------------------------------
\* The calls on a pipe are records, and nobody waits with a timer.
OpInv == \A t \in Thread : "op" \in DOMAIN call[t]
PipeTimerInv == \A t \in Thread : ~timer[t]

\* pipe_fops_close.
LEMMA CloseStep ==
    ASSUME WaitInv, NEW t \in Thread, Close(t)
    PROVE  /\ PipeTimerInv => WaitInv'
           /\ \A l \in Lists : Range(suspended'[l]) \subseteq Range(suspended[l])
<1>1. UNCHANGED <<timer, error, call>>
  BY DEF Close
<1>2. /\ DOMAIN suspended' = Lists /\ suspended' = [m \in Lists |-> suspended'[m]]
      /\ \A m \in Lists : \/ suspended'[m] = suspended[m]
                          \/ suspended[m] # <<>> /\ suspended'[m] = Tail(suspended[m])
  BY DEF Close
<1>3. ASSUME NEW m \in Lists
      PROVE  /\ IsQueue(suspended'[m]) /\ Range(suspended'[m]) \subseteq Range(suspended[m])
             /\ suspended'[m] # <<>> => suspended[m] # <<>>
  <2>1. CASE suspended'[m] = suspended[m]
    BY <2>1 DEF WaitInv
  <2>2. CASE suspended[m] # <<>> /\ suspended'[m] = Tail(suspended[m])
    BY <2>2, FirstWaiter, ZenonT(60)
  <2> QED
    BY <1>2, <2>1, <2>2
<1>4. ASSUME PipeTimerInv PROVE WaitInv'
  BY <1>1, <1>2, <1>3, <1>4, ZenonT(60) DEF WaitInv, PipeTimerInv
<1> QED
  BY <1>3, <1>4

\* A call that goes on to another step.
LEMMA NextOp ==
    ASSUME NEW c, "op" \in DOMAIN c, NEW o
    PROVE  "op" \in DOMAIN [c EXCEPT !.op = o] /\ [c EXCEPT !.op = o].op = o
  OBVIOUS

\* rt_wqueue_wakeup.
LEMMA WakeupStep ==
    ASSUME WaitInv, NEW t \in Thread, ~Waits(t), NEW q \in {"reader", "writer"}, Wakeup(q),
           error' = error, NEW c, call' = [call EXCEPT ![t] = c]
    PROVE  WaitInv'
<1>1. q \in Lists
  BY DEF Lists
<1>2. CASE suspended[q] # <<>>
  BY <1>1, <1>2, ResumeStep, ZenonT(60) DEF Wakeup, WaitInv
<1>3. CASE suspended[q] = <<>>
  BY <1>3, RunStep, ZenonT(60) DEF Wakeup
<1> QED
  BY <1>2, <1>3

\* rt_wqueue_wait without time-out.
LEMMA WaitOnStep ==
    ASSUME WaitInv, PipeTimerInv, NEW t \in Thread, ~Waits(t),
           NEW q \in {"reader", "writer"}, NEW woken, NEW next, WaitOn(t, q, woken, next),
           woken.op = WaitOp(q)
    PROVE  WaitInv'
<1>1. q \in Lists
  BY DEF Lists
<1>2. CASE wakeup[q] /\ UNCHANGED <<suspended, timer, error>>
  BY <1>2, RunStep DEF WaitOn, Enter
<1>3. CASE ~wakeup[q]
  <2> DEFINE s == Append(suspended[q], t)
  <2>1. /\ suspended' = [suspended EXCEPT ![q] = s] /\ UNCHANGED <<timer, error>>
        /\ call' = [call EXCEPT ![t] = woken]
    BY <1>3 DEF WaitOn, Enter
  <2>2. /\ IsQueue(s) /\ Range(s) = Range(suspended[q]) \cup {t}
    BY <1>1, AppendLemma DEF WaitInv, IsQueue, Waits
  <2>3. /\ DOMAIN suspended' = Lists /\ suspended' = [m \in Lists |-> suspended'[m]]
        /\ suspended'[q] = s
        /\ \A m \in Lists : m # q => suspended'[m] = suspended[m]
    BY <1>1, <2>1, ZenonT(60) DEF WaitInv
  <2>4. /\ DOMAIN call' = Thread /\ call'[t] = woken
        /\ \A u \in Thread : u # t => call'[u] = call[u]
    BY <2>1 DEF WaitInv
  <2> HIDE DEF s
  <2>5. ASSUME NEW m \in Lists, NEW u \in Range(suspended'[m]) PROVE call'[u].op = WaitOp(m)
    <3>1. u \in Thread
      BY <2>2, <2>3, RangeSubset, ZenonT(60) DEF IsQueue, WaitInv
    <3>2. CASE u = t
      <4>1. m = q
        BY <2>3, <3>2 DEF Waits
      <4> QED
        BY <2>4, <3>2, <4>1, ZenonT(60)
    <3>3. CASE u # t
      <4>1. u \in Range(suspended[m])
        BY <2>2, <2>3, <3>3
      <4> QED
        BY <2>4, <3>1, <3>3, <4>1 DEF WaitInv
    <3> QED
      BY <3>2, <3>3
  <2> QED
    BY <1>1, <2>1, <2>2, <2>3, <2>4, <2>5, ZenonT(60) DEF WaitInv, PipeTimerInv
<1> QED
  BY <1>2, <1>3 DEF WaitOn

\* No step starts a timer.
LEMMA PipeTimers == ASSUME WaitInv, PipeTimerInv, PipeNext PROVE PipeTimerInv'
<1>1. ASSUME NEW q, Wakeup(q) PROVE PipeTimerInv'
  BY <1>1, ZenonT(60) DEF Wakeup, ResumeFirst, PipeTimerInv, WaitInv
<1>2. ASSUME timer' = timer PROVE PipeTimerInv'
  BY <1>2 DEF PipeTimerInv
<1> QED
  BY <1>1, <1>2, ZenonT(60)
     DEF PipeNext, Open, Close, Read, ReadEof, ReadData, ReadNothing, ReadWake, ReadWait, ReadWoken,
         Write, WriteBroken, WriteData, WriteWake, WriteWait, WriteWoken, WriteEnd, WaitOn, Resumed,
         waitVars

\* A step of a pipe.
LEMMA PipeStep ==
    ASSUME WaitInv, PipeTimerInv, OpInv, PipeNext
    PROVE  WaitInv' /\ OpInv'
<1>1. PICK t \in Thread :
        \/ Open(t) \/ Close(t)
        \/ (\E n \in Counts : Read(t, n)) \/ ReadEof(t) \/ ReadData(t) \/ ReadNothing(t)
        \/ ReadWake(t) \/ ReadWait(t) \/ ReadWoken(t)
        \/ (\E n \in Counts : Write(t, n)) \/ WriteBroken(t) \/ WriteData(t)
        \/ WriteWake(t) \/ WriteWait(t) \/ WriteWoken(t) \/ WriteEnd(t)
  BY DEF PipeNext
<1>2. /\ "op" \in DOMAIN call[t] /\ "op" \in DOMAIN Idle
      /\ \A op : /\ "op" \in DOMAIN [call[t] EXCEPT !.op = op]
                 /\ [call[t] EXCEPT !.op = op].op = op
  BY NextOp DEF OpInv, Idle
<1>3. ASSUME NEW c, "op" \in DOMAIN c, call' = [call EXCEPT ![t] = c] PROVE OpInv'
  BY <1>3 DEF OpInv, WaitInv
<1>4. ASSUME ~Waits(t), NEW c, "op" \in DOMAIN c, call' = [call EXCEPT ![t] = c],
             UNCHANGED <<suspended, timer, error>>
      PROVE  WaitInv' /\ OpInv'
  BY <1>3, <1>4, RunStep, ZenonT(60)
<1>5. ASSUME ~Waits(t), NEW c, "op" \in DOMAIN c, call' = [call EXCEPT ![t] = c],
             NEW q \in {"reader", "writer"}, Wakeup(q), error' = error
      PROVE  WaitInv' /\ OpInv'
  BY <1>3, <1>5, WakeupStep, ZenonT(60)
<1>6. ASSUME ~Waits(t), NEW q \in {"reader", "writer"}, NEW next,
             WaitOn(t, q, [call[t] EXCEPT !.op = WaitOp(q)], [call[t] EXCEPT !.op = next])
      PROVE  WaitInv' /\ OpInv'
  <2>1. OpInv'
    BY <1>2, <1>3, <1>6 DEF WaitOn, Enter
  <2> QED
    BY <1>2, <1>6, <2>1, WaitOnStep
<1>7. CASE Open(t)
  <2>1. UNCHANGED waitVars /\ ~Waits(t)
    BY <1>7, IdleRuns DEF Open
  <2> QED
    BY <2>1, RunStep DEF waitVars, OpInv
<1>8. CASE Close(t)
  BY <1>8, CloseStep, ZenonT(60) DEF Close, OpInv
<1>9. ASSUME NEW n \in Counts, Read(t, n) \/ Write(t, n) PROVE WaitInv' /\ OpInv'
  <2>1. ~Waits(t)
    BY <1>9, IdleRuns, ZenonT(60) DEF Read, Write
  <2>2. CASE Read(t, n)
    <3>1. "op" \in DOMAIN [op |-> "read", count |-> n]
      OBVIOUS
    <3> QED
      BY <1>4, <2>1, <2>2, <3>1, ZenonT(60) DEF Read, Enter
  <2>3. CASE Write(t, n)
    <3>1. "op" \in DOMAIN [op |-> "write", count |-> n, begun |-> FALSE]
      OBVIOUS
    <3> QED
      BY <1>4, <2>1, <2>3, <3>1, ZenonT(60) DEF Write, Enter
  <2> QED
    BY <1>9, <2>2, <2>3
<1>10. CASE ReadEof(t) \/ ReadNothing(t)
  BY <1>2, <1>4, <1>10 DEF ReadEof, ReadNothing, Finish, Enter, At
<1>11. CASE ReadData(t)
  BY <1>2, <1>5, <1>11, ZenonT(60) DEF ReadData, Finish, At
<1>12. CASE ReadWake(t)
  BY <1>2, <1>5, <1>12, ZenonT(60) DEF ReadWake, Enter, At
<1>13. CASE ReadWait(t)
  BY <1>6, <1>13, WaitOpLemma DEF ReadWait, At
<1>14. CASE ReadWoken(t)
  BY <1>2, <1>4, <1>14, ZenonT(60) DEF ReadWoken, Resumed, Enter, At
<1>15. CASE WriteBroken(t)
  BY <1>2, <1>4, <1>15 DEF WriteBroken, Finish, Enter, At
<1>16. CASE WriteData(t)
  <2> DEFINE n == call[t].count - PutLen(fifo, call[t].count)
  <2>1. /\ \/ call' = [call EXCEPT ![t] = [op |-> "writeEnd", count |-> n, begun |-> TRUE]]
           \/ call' = [call EXCEPT ![t] = [op |-> "writeWake", count |-> n, begun |-> TRUE]]
        /\ ~Waits(t) /\ UNCHANGED <<suspended, timer, error>>
    BY <1>16 DEF WriteData, Enter, At
  <2> HIDE DEF n
  <2>2. /\ "op" \in DOMAIN [op |-> "writeEnd", count |-> n, begun |-> TRUE]
        /\ "op" \in DOMAIN [op |-> "writeWake", count |-> n, begun |-> TRUE]
    OBVIOUS
  <2> QED
    BY <1>4, <2>1, <2>2, ZenonT(60)
<1>17. CASE WriteWake(t)
  BY <1>2, <1>5, <1>17, ZenonT(60) DEF WriteWake, Enter, At
<1>18. CASE WriteWait(t)
  BY <1>6, <1>18, WaitOpLemma DEF WriteWait, At
<1>19. CASE WriteWoken(t)
  BY <1>2, <1>4, <1>19, ZenonT(60) DEF WriteWoken, Resumed, Enter, At
<1>20. CASE WriteEnd(t)
  BY <1>2, <1>5, <1>20, ZenonT(60) DEF WriteEnd, Finish, At
<1> QED
  BY <1>1, <1>7, <1>8, <1>9, <1>10, <1>11, <1>12, <1>13, <1>14, <1>15, <1>16, <1>17, <1>18, <1>19, <1>20, ZenonT(60)

-----------------------------------------------------------------------------
\* Some thread is at a step of a call.
Runs(op) == \E t \in Thread : At(t, op)

ReadOps == {"read", "readWake", "readWait", "readWoken"}
WriteOps == {"write", "writeWake", "writeWait", "writeWoken"}

\* A thread reads a pipe it has open as a reader, and writes one it has open as
\* a writer; a write that is not over has bytes left.
Role(t, c, o) ==
    /\ c.op \in ReadOps => t \in o \cap Reader
    /\ c.op \in WriteOps \cup {"writeEnd"} => t \in o \cap Writer
    /\ c.op \in WriteOps => c.count > 0

RolesInv == \A t \in Thread : Role(t, call[t], opened)

\* A flag is left set while a thread waits only if another one is on its way.
FlagInv ==
    /\ wakeup \in [{"reader", "writer"} -> BOOLEAN]
    /\ \A q \in {"reader", "writer"} : suspended[q] # <<>> /\ wakeup[q] => Runs(WaitOp(q))

\* While a reader is about to wait, or waits, and a writer too, either the next
\* turn of a writer is sure or there are bytes and the next turn of a reader is.
ReaderStuck == suspended["reader"] # <<>> \/ Runs("readWait")
WriterStuck == suspended["writer"] # <<>> \/ Runs("writeWake") \/ Runs("writeWait")
WriterComes == wakeup["writer"] \/ Runs("write") \/ Runs("writeWoken")
ReaderComes ==
    \/ wakeup["reader"] \/ Runs("read") \/ Runs("readWake") \/ Runs("readWoken")
    \/ Runs("writeWake") \/ Runs("writeEnd")

TurnInv ==
    ReaderStuck /\ WriterStuck => WriterComes \/ (DataLen(fifo) > 0 /\ ReaderComes)

\* The only reader that has found the pipe empty and is not told of bytes yet
\* misses none.
OneReaderInv ==
    /\ \E r : Reader = {r}
    /\ \/ suspended["reader"] # <<>>
       \/ ~wakeup["reader"] /\ (Runs("readWake") \/ Runs("readWait"))
    => /\ opened \cap Writer # {}
       /\ DataLen(fifo) = 0 \/ Runs("writeWake") \/ Runs("writeEnd")

PipeWaitInv == RolesInv /\ FlagInv /\ TurnInv /\ OneReaderInv

\* The operations in which threads wait.
LEMMA PipeOps ==
    /\ "reader" \in Lists /\ "writer" \in Lists
    /\ \A op \in (ReadOps \cup WriteOps \cup {"writeEnd", "none"}) \ {"readWoken", "writeWoken"} :
        \A l \in Lists : op # WaitOp(l)
  BY WaitOpLemma DEF Lists, ReadOps, WriteOps

\* A step of thread t leaves the others where they are, except those it resumes.
LEMMA RunsStep ==
    ASSUME WaitInv, WaitInv', NEW t \in Thread, ~Waits(t),
           \A u \in Thread : u # t => call'[u] = call[u],
           \A l \in Lists : Range(suspended'[l]) \subseteq Range(suspended[l]) \cup {t}
    PROVE  /\ \A op : Runs(op) /\ call[t].op # op => Runs(op)'
           /\ \A op : (\A l \in Lists : op # WaitOp(l)) /\ Runs(op)' /\ call'[t].op # op => Runs(op)
           /\ \A op : (\A l \in Lists : op # WaitOp(l)) /\ call'[t].op = op => Runs(op)'
<1>1. ASSUME NEW op, Runs(op), call[t].op # op PROVE Runs(op)'
  <2>1. PICK u \in Thread : call[u].op = op /\ ~Waits(u)
    BY <1>1, ZenonT(60) DEF Runs, At
  <2>2. u # t /\ call'[u].op = op
    BY <1>1, <2>1, ZenonT(60)
  <2>3. ~(\E l \in Lists : u \in Range(suspended'[l]))
    BY <2>1, <2>2 DEF Waits
  <2> QED
    BY <2>2, <2>3 DEF Runs, At, Waits
<1>2. ASSUME NEW op, \A l \in Lists : op # WaitOp(l), Runs(op)', call'[t].op # op PROVE Runs(op)
  <2>1. PICK u \in Thread : call'[u].op = op
    BY <1>2, ZenonT(60) DEF Runs, At
  <2>2. call[u].op = op
    BY <1>2, <2>1
  <2>3. ~Waits(u)
    BY <1>2, <2>2, NotWaiting
  <2> QED
    BY <2>2, <2>3 DEF Runs, At
<1>3. ASSUME NEW op, \A l \in Lists : op # WaitOp(l), call'[t].op = op PROVE Runs(op)'
  <2>1. \A l \in Lists : \A u \in Range(suspended'[l]) : call'[u].op = WaitOp(l)
    BY DEF WaitInv
  <2>2. ~(\E l \in Lists : t \in Range(suspended'[l]))
    BY <1>3, <2>1
  <2> QED
    BY <1>3, <2>2 DEF Runs, At, Waits
<1> QED
  BY <1>1, <1>2, <1>3, ZenonT(60)

\* A thread that is resumed runs.
LEMMA ResumedRuns ==
    ASSUME WaitInv, WaitInv', NEW q \in Lists, suspended[q] # <<>>,
           suspended'[q] = Tail(suspended[q]),
           \A u \in Thread : Waits(u) => call'[u] = call[u]
    PROVE  Runs(WaitOp(q))'
<1> DEFINE h == Head(suspended[q])
<1>1. h \in Thread /\ h \in Range(suspended[q]) /\ h \notin Range(suspended'[q])
  BY FirstWaiter
<1>2. call'[h].op = WaitOp(q)
  BY <1>1 DEF WaitInv, Waits
<1> HIDE DEF h
<1>3. ASSUME NEW l \in Lists, h \in Range(suspended'[l]) PROVE FALSE
  <2>1. call'[h].op = WaitOp(l)
    BY <1>3 DEF WaitInv
  <2> QED
    BY <1>1, <1>2, <1>3, <2>1, WaitOpLemma, ZenonT(60)
<1> QED
  BY <1>1, <1>2, <1>3 DEF Runs, At, Waits

-----------------------------------------------------------------------------
\* What a thread does to a pipe.
PipeAct(t) ==
    \/ Open(t) \/ Close(t)
    \/ (\E n \in Counts : Read(t, n)) \/ ReadEof(t) \/ ReadData(t) \/ ReadNothing(t)
    \/ ReadWake(t) \/ ReadWait(t) \/ ReadWoken(t)
    \/ (\E n \in Counts : Write(t, n)) \/ WriteBroken(t) \/ WriteData(t)
    \/ WriteWake(t) \/ WriteWait(t) \/ WriteWoken(t) \/ WriteEnd(t)

\* It runs, and changes no call but its own and no list but by resuming first
\* threads and by adding itself.
LEMMA PipeFrame ==
    ASSUME WaitInv, NEW t \in Thread, PipeAct(t)
    PROVE  /\ ~Waits(t)
           /\ \A u \in Thread : u # t => call'[u] = call[u]
           /\ \A l \in Lists : Range(suspended'[l]) \subseteq Range(suspended[l]) \cup {t}
<1>1. ~Waits(t)
  BY IdleRuns, ZenonT(60) DEF PipeAct, Open, Close, Read, ReadEof, ReadData, ReadNothing, ReadWake, ReadWait,
                  ReadWoken, Write, WriteBroken, WriteData, WriteWake, WriteWait, WriteWoken,
                  WriteEnd, At
<1>2. call' = call \/ \E c : call' = [call EXCEPT ![t] = c]
  BY ZenonT(60) DEF PipeAct, Open, Close, Read, ReadEof, ReadData, ReadNothing, ReadWake, ReadWait,
         ReadWoken, Write, WriteBroken, WriteData, WriteWake, WriteWait, WriteWoken,
         WriteEnd, WaitOn, Resumed, Enter, Finish, waitVars
<1>3. \A u \in Thread : u # t => call'[u] = call[u]
  BY <1>2 DEF WaitInv
<1>4. ASSUME NEW q \in Lists, Wakeup(q), NEW l \in Lists
      PROVE  Range(suspended'[l]) \subseteq Range(suspended[l]) \cup {t}
  <2>1. \/ suspended'[l] = suspended[l]
        \/ l = q /\ suspended[q] # <<>> /\ suspended'[l] = Tail(suspended[l])
    BY <1>4, ZenonT(60) DEF Wakeup, ResumeFirst, WaitInv
  <2> QED
    BY <2>1, FirstWaiter, ZenonT(60)
<1>5. ASSUME NEW q \in Lists, NEW c, NEW d, WaitOn(t, q, c, d), NEW l \in Lists
      PROVE  Range(suspended'[l]) \subseteq Range(suspended[l]) \cup {t}
  <2>1. suspended'[l] = suspended[l] \/ suspended'[l] = Append(suspended[l], t)
    BY <1>5, ZenonT(60) DEF WaitOn, WaitInv
  <2>2. suspended[l] \in Seq(Thread) /\ IsInjective(suspended[l]) /\ t \notin Range(suspended[l])
    BY <1>1 DEF WaitInv, IsQueue, Waits
  <2>3. Range(Append(suspended[l], t)) = Range(suspended[l]) \cup {t}
    BY <2>2, AppendLemma
  <2> QED
    BY <2>1, <2>3, ZenonT(60)
<1>6. \/ suspended' = suspended
      \/ Close(t)
      \/ Wakeup("reader") \/ Wakeup("writer")
      \/ \E c, d : WaitOn(t, "reader", c, d) \/ WaitOn(t, "writer", c, d)
  BY ZenonT(60) DEF PipeAct, Open, Read, ReadEof, ReadData, ReadNothing, ReadWake, ReadWait,
         ReadWoken, Write, WriteBroken, WriteData, WriteWake, WriteWait, WriteWoken,
         WriteEnd, Resumed, waitVars
<1>7. \A l \in Lists : Range(suspended'[l]) \subseteq Range(suspended[l]) \cup {t}
  BY <1>4, <1>5, <1>6, PipeOps, CloseStep, ZenonT(60)
<1> QED
  BY <1>1, <1>3, <1>7

\* A call that goes on keeps its count.
LEMMA CountKept ==
    ASSUME NEW c \in PipeCall, c.op \in ReadOps \cup WriteOps \cup {"writeEnd"}, NEW op
    PROVE  /\ [c EXCEPT !.op = op].op = op /\ [c EXCEPT !.op = op].count = c.count
           /\ c.count \in Nat
  BY DEF PipeCall, ReadOps, WriteOps, Idle

\* Every step keeps the roles.
LEMMA RolesStep ==
    ASSUME WaitInv, PipeInv, RolesInv, 
           NEW t \in Thread, PipeAct(t)
    PROVE  RolesInv'
<1>1. /\ ~Waits(t) /\ \A u \in Thread : u # t => call'[u] = call[u]
      /\ call[t] \in PipeCall /\ DOMAIN call = Thread
  BY PipeFrame DEF PipeInv, WaitInv
<1>2. opened' = opened \/ opened' = opened \cup {t} \/ opened' = opened \ {t}
  BY ZenonT(60) DEF PipeAct, Open, Close, Read, ReadEof, ReadData, ReadNothing, ReadWake, ReadWait,
         ReadWoken, Write, WriteBroken, WriteData, WriteWake, WriteWait, WriteWoken,
         WriteEnd, pipeVars
<1>3. ASSUME Role(t, call'[t], opened') PROVE RolesInv'
  <2> SUFFICES ASSUME NEW u \in Thread, u # t PROVE Role(u, call'[u], opened')
    BY <1>3 DEF RolesInv
  <2>1. Role(u, call[u], opened) /\ call'[u] = call[u] /\ (u \in opened <=> u \in opened')
    BY <1>1, <1>2, ZenonT(60) DEF RolesInv
  <2> QED
    BY <2>1 DEF Role
<1>4. /\ Role(t, call[t], opened)
      /\ \A o : Role(t, Idle, o)
  BY ZenonT(60) DEF RolesInv, Role, Idle, ReadOps, WriteOps
<1>5. ASSUME call[t] = Idle, call' = call PROVE RolesInv'
  BY <1>3, <1>4, <1>5
<1>6. ASSUME Finish(t) PROVE RolesInv'
  BY <1>1, <1>3, <1>4, <1>6 DEF Finish
<1>7. ASSUME opened' = opened, NEW op, call[t].op \in ReadOps, op \in ReadOps,
             Enter(t, [call[t] EXCEPT !.op = op])
      PROVE  RolesInv'
  <2>1. call'[t].op = op
    BY <1>1, <1>7, CountKept DEF Enter
  <2>2. op \notin WriteOps \cup {"writeEnd"}
    BY <1>7 DEF ReadOps, WriteOps
  <2> QED
    BY <1>3, <1>4, <1>7, <2>1, <2>2 DEF Role
<1>8. ASSUME opened' = opened, NEW op, call[t].op \in WriteOps, op \in WriteOps \cup {"writeEnd"},
             Enter(t, [call[t] EXCEPT !.op = op])
      PROVE  RolesInv'
  <2>1. call'[t].op = op /\ call'[t].count = call[t].count
    BY <1>1, <1>8, CountKept DEF Enter
  <2>2. op \notin ReadOps
    BY <1>8 DEF ReadOps, WriteOps
  <2> QED
    BY <1>3, <1>4, <1>8, <2>1, <2>2 DEF Role
<1>9. CASE Open(t) \/ Close(t)
  BY <1>5, <1>9 DEF Open, Close, waitVars
<1>10. CASE \E n \in Counts : Read(t, n)
  <2>1. PICK n \in Counts : Read(t, n)
    BY <1>10
  <2>2. call'[t].op = "read" /\ t \in opened' \cap Reader
    BY <1>1, <2>1 DEF Read, Enter, pipeVars
  <2> QED
    BY <1>3, <2>2, ZenonT(60) DEF Role, WriteOps
<1>11. CASE \E n \in Counts : Write(t, n)
  <2>1. PICK n \in Counts : Write(t, n)
    BY <1>11
  <2>2. call'[t].op = "write" /\ t \in opened' \cap Writer /\ call'[t].count = n /\ n > 0
    BY <1>1, <2>1, PipeAssumption DEF Write, Enter, pipeVars
  <2> QED
    BY <1>3, <2>2 DEF Role, ReadOps
<1>12. CASE ReadEof(t) \/ ReadData(t) \/ WriteEnd(t)
  BY <1>6, <1>12 DEF ReadEof, ReadData, WriteEnd
<1>13. CASE ReadNothing(t)
  BY <1>6, <1>7, <1>13 DEF ReadNothing, ReadOps, At, pipeVars
<1>14. CASE ReadWake(t) \/ ReadWait(t) \/ ReadWoken(t)
  BY <1>7, <1>14, ZenonT(60) DEF ReadWake, ReadWait, ReadWoken, WaitOn, Resumed, ReadOps, At
<1>15. CASE WriteBroken(t)
  BY <1>6, <1>8, <1>15 DEF WriteBroken, WriteOps, At, pipeVars
<1>16. CASE WriteWake(t) \/ WriteWait(t) \/ WriteWoken(t)
  BY <1>8, <1>16, ZenonT(60) DEF WriteWake, WriteWait, WriteWoken, WaitOn, Resumed, WriteOps, At
<1>17. CASE WriteData(t)
  <2> DEFINE left == call[t].count
             n == PutLen(fifo, left)
  <2>1. call[t].op = "write" /\ opened' = opened
    BY <1>17, ZenonT(60) DEF WriteData, At
  <2>2. left \in Nat /\ t \in opened \cap Writer
    BY <1>1, <1>4, <2>1, CountKept DEF Role, WriteOps
  <2>3. n \in Nat
    BY <2>2, WriteStep, ZenonT(60)
  <2>4. \/ call'[t].op = "writeEnd"
        \/ call'[t].op = "writeWake" /\ call'[t].count = left - n /\ n < left
    BY <1>1, <1>17 DEF WriteData, Enter
  <2> HIDE DEF left, n
  <2>5. call'[t].op \in {"writeEnd", "writeWake"} /\ (call'[t].op = "writeWake" => call'[t].count > 0)
    BY <2>2, <2>3, <2>4
  <2> QED
    BY <1>3, <2>1, <2>2, <2>5, ZenonT(60) DEF Role, ReadOps, WriteOps
<1> QED
  BY <1>9, <1>10, <1>11, <1>12, <1>13, <1>14, <1>15, <1>16, <1>17, ZenonT(60) DEF PipeAct

\* The same step, as far as the flags, the lists, the length of the ring and
\* those who have the pipe open are concerned: where the thread goes, ...
Goes(t, from, to) == call[t].op = from /\ call'[t].op \in to

\* ... and what it does to a wait queue and to the other one.
Other(q) == IF q = "reader" THEN "writer" ELSE "reader"
Quiet == UNCHANGED <<suspended, wakeup>>
Woke(q) ==
    /\ wakeup' = [wakeup EXCEPT ![q] = TRUE] /\ suspended'[Other(q)] = suspended[Other(q)]
    /\ \/ suspended[q] = <<>> /\ suspended'[q] = <<>>
       \/ suspended[q] # <<>> /\ suspended'[q] = Tail(suspended[q])
Cleared(q) == suspended' = suspended /\ wakeup' = [wakeup EXCEPT ![q] = FALSE]
Slept(q) == ~wakeup[q] /\ wakeup' = wakeup /\ suspended'[Other(q)] = suspended[Other(q)]

ReadMove(t) ==
    \/ Goes(t, "none", {"read"}) /\ Quiet /\ UNCHANGED fifo
    \/ Goes(t, "read", {"none"}) /\ opened \cap Writer = {} /\ Quiet /\ UNCHANGED fifo
    \/ Goes(t, "read", {"none"}) /\ Woke("writer")
    \/ /\ Goes(t, "read", {"none", "readWake"}) /\ opened \cap Writer # {} /\ DataLen(fifo) = 0
       /\ Quiet /\ UNCHANGED fifo
    \/ Goes(t, "readWake", {"readWait"}) /\ Woke("writer") /\ UNCHANGED fifo
    \/ Goes(t, "readWait", {"read"}) /\ Cleared("reader") /\ UNCHANGED fifo
    \/ Goes(t, "readWait", {"readWoken"}) /\ Slept("reader") /\ UNCHANGED fifo
    \/ Goes(t, "readWoken", {"read"}) /\ Cleared("reader") /\ UNCHANGED fifo

WriteMove(t) ==
    \/ Goes(t, "none", {"write"}) /\ Quiet /\ UNCHANGED fifo
    \/ Goes(t, "write", {"none", "writeEnd"}) /\ opened \cap Reader = {} /\ Quiet /\ UNCHANGED fifo
    \/ Goes(t, "write", {"writeEnd", "writeWake"}) /\ DataLen(fifo') > 0 /\ Quiet
    \/ Goes(t, "writeWake", {"writeWait"}) /\ Woke("reader") /\ UNCHANGED fifo
    \/ Goes(t, "writeWait", {"write"}) /\ Cleared("writer") /\ UNCHANGED fifo
    \/ Goes(t, "writeWait", {"writeWoken"}) /\ Slept("writer") /\ UNCHANGED fifo
    \/ Goes(t, "writeWoken", {"write"}) /\ Cleared("writer") /\ UNCHANGED fifo
    \/ Goes(t, "writeEnd", {"none"}) /\ Woke("reader") /\ UNCHANGED fifo

\* A write leaves bytes in the ring.
LEMMA WrittenLen ==
    ASSUME PipeInv, NEW left \in Nat, left > 0
    PROVE  DataLen(Put(fifo, [i \in 1 .. left |-> sent + i])) > 0
<1> DEFINE data == [i \in 1 .. left |-> sent + i]
           n == PutLen(fifo, left)
<1>1. IsRing(fifo, Int) /\ data \in Seq(Int) /\ Len(data) = left
  BY DEF PipeInv
<1>2. DataLen(fifo) \in Nat /\ n \in Nat /\ DataLen(fifo) + n > 0
  BY <1>1, RingLen, RingAssumption DEF PutLen, SpaceLen, Lesser
<1> HIDE DEF data
<1>3. DataLen(Put(fifo, data)) = DataLen(fifo) + n
  BY <1>1, PutRing, ZenonT(60)
<1> QED
  BY <1>2, <1>3 DEF data

\* rt_wqueue_wakeup and rt_wqueue_wait do that to a wait queue.
LEMMA QueueMoves ==
    ASSUME WaitInv, NEW q \in {"reader", "writer"}
    PROVE  /\ Wakeup(q) => Woke(q)
           /\ \A t, c, d : WaitOn(t, q, c, d) =>
                \/ Cleared(q) /\ Enter(t, d)
                \/ Slept(q) /\ Enter(t, c)
           /\ \A t, d : Resumed(t, q, d) => Cleared(q) /\ Enter(t, d)
<1>1. q \in Lists /\ Other(q) \in Lists /\ Other(q) # q /\ DOMAIN suspended = Lists
  BY PipeOps DEF Other, WaitInv
<1>2. ASSUME Wakeup(q) PROVE Woke(q)
  BY <1>1, <1>2 DEF Wakeup, ResumeFirst, Woke
<1>3. ASSUME NEW t, NEW c, NEW d, WaitOn(t, q, c, d)
      PROVE  (Cleared(q) /\ Enter(t, d)) \/ (Slept(q) /\ Enter(t, c))
  BY <1>1, <1>3 DEF WaitOn, Cleared, Slept
<1> QED
  BY <1>2, <1>3 DEF Resumed, Cleared

\* Every action of a pipe but opening and closing moves like that.
LEMMA PipeMoves ==
    ASSUME Counted, WaitInv, PipeInv, RolesInv, NEW t \in Thread, PipeAct(t)
    PROVE  Open(t) \/ Close(t) \/ (opened' = opened /\ (ReadMove(t) \/ WriteMove(t)))
<1>1. call[t] \in PipeCall /\ DOMAIN call = Thread /\ Role(t, call[t], opened)
  BY DEF PipeInv, WaitInv, RolesInv
<1>2. ASSUME Finish(t) PROVE call'[t].op = "none"
  BY <1>1, <1>2 DEF Finish, Idle
<1>3. ASSUME NEW op, NEW new, Enter(t, [call[t] EXCEPT !.op = new]),
             call[t].op = op, op \in ReadOps \cup WriteOps \cup {"writeEnd"}
      PROVE  Goes(t, op, {new})
  BY <1>1, <1>3, CountKept DEF Enter, Goes
<1>4. /\ writers > 0 <=> opened \cap Writer # {}
      /\ writers = 0 <=> opened \cap Writer = {}
      /\ readers = 0 <=> opened \cap Reader = {}
  BY DEF Counted
<1>5. CASE \E n \in Counts : Read(t, n)
  <2>1. PICK n \in Counts : Read(t, n)
    BY <1>5
  <2>2. /\ call[t] = Idle /\ call' = [call EXCEPT ![t] = [op |-> "read", count |-> n]]
        /\ Quiet /\ UNCHANGED <<fifo, opened>>
    BY <2>1 DEF Read, Enter, Quiet, pipeVars
  <2>3. call[t].op = "none" /\ call'[t].op = "read"
    BY <1>1, <2>2 DEF Idle
  <2> QED
    BY <2>2, <2>3, ZenonT(60) DEF ReadMove, Goes
<1>6. CASE ReadEof(t)
  <2>1. /\ call[t].op = "read" /\ call'[t].op = "none" /\ opened \cap Writer = {}
        /\ Quiet /\ UNCHANGED <<fifo, opened>>
    BY <1>2, <1>4, <1>6, ZenonT(60) DEF ReadEof, At, Quiet, pipeVars
  <2> QED
    BY <2>1, ZenonT(60) DEF ReadMove, Goes
<1>7. CASE ReadData(t)
  <2>1. call[t].op = "read" /\ call'[t].op = "none" /\ Woke("writer") /\ opened' = opened
    BY <1>2, <1>7, QueueMoves, ZenonT(60) DEF ReadData, At
  <2> QED
    BY <2>1 DEF ReadMove, Goes
<1>8. CASE ReadNothing(t)
  <2>1. /\ call[t].op = "read" /\ opened \cap Writer # {} /\ DataLen(fifo) = 0
        /\ Quiet /\ UNCHANGED <<fifo, opened>>
    BY <1>4, <1>8 DEF ReadNothing, At, Quiet, pipeVars
  <2>2. Goes(t, "read", {"none"}) \/ Goes(t, "read", {"readWake"})
    BY <1>2, <1>3, <1>8 DEF ReadNothing, At, Goes, ReadOps
  <2>3. Goes(t, "read", {"none", "readWake"})
    BY <2>2 DEF Goes
  <2> QED
    BY <2>1, <2>3, ZenonT(60) DEF ReadMove
<1>9. CASE ReadWake(t)
  <2>1. Woke("writer") /\ UNCHANGED <<fifo, opened>>
    BY <1>9, QueueMoves DEF ReadWake
  <2>2. Goes(t, "readWake", {"readWait"})
    BY <1>3, <1>9 DEF ReadWake, At, ReadOps
  <2> QED
    BY <2>1, <2>2 DEF ReadMove
<1>10. CASE ReadWait(t)
  <2>1. call[t].op = "readWait" /\ UNCHANGED <<fifo, opened>>
    BY <1>10 DEF ReadWait, At
  <2>2. \/ Cleared("reader") /\ Enter(t, [call[t] EXCEPT !.op = "read"])
        \/ Slept("reader") /\ Enter(t, [call[t] EXCEPT !.op = "readWoken"])
    BY <1>10, QueueMoves DEF ReadWait
  <2>3. \/ Cleared("reader") /\ Goes(t, "readWait", {"read"})
        \/ Slept("reader") /\ Goes(t, "readWait", {"readWoken"})
    BY <1>3, <2>1, <2>2 DEF ReadOps
  <2> QED
    BY <2>1, <2>3, ZenonT(60) DEF ReadMove
<1>11. CASE ReadWoken(t)
  <2>1. Cleared("reader") /\ UNCHANGED <<fifo, opened>>
    BY <1>11, QueueMoves DEF ReadWoken
  <2>2. Goes(t, "readWoken", {"read"})
    BY <1>3, <1>11 DEF ReadWoken, Resumed, At, ReadOps
  <2> QED
    BY <2>1, <2>2 DEF ReadMove
<1>12. CASE \E n \in Counts : Write(t, n)
  <2>1. PICK n \in Counts : Write(t, n)
    BY <1>12
  <2>2. /\ call[t] = Idle /\ call' = [call EXCEPT ![t] = [op |-> "write", count |-> n, begun |-> FALSE]]
        /\ Quiet /\ UNCHANGED <<fifo, opened>>
    BY <2>1 DEF Write, Enter, Quiet, pipeVars
  <2>3. call[t].op = "none" /\ call'[t].op = "write"
    BY <1>1, <2>2 DEF Idle
  <2> QED
    BY <2>2, <2>3, ZenonT(60) DEF WriteMove, Goes
<1>13. CASE WriteBroken(t)
  <2>1. call[t].op = "write" /\ opened \cap Reader = {} /\ Quiet /\ UNCHANGED <<fifo, opened>>
    BY <1>4, <1>13 DEF WriteBroken, At, Quiet, pipeVars
  <2>2. Goes(t, "write", {"none"}) \/ Goes(t, "write", {"writeEnd"})
    BY <1>2, <1>3, <1>13 DEF WriteBroken, At, Goes, WriteOps
  <2>3. Goes(t, "write", {"none", "writeEnd"})
    BY <2>2 DEF Goes
  <2> QED
    BY <2>1, <2>3, ZenonT(60) DEF WriteMove
<1>14. CASE WriteData(t)
  <2>1. call[t].op = "write" /\ Quiet /\ opened' = opened
    BY <1>14, ZenonT(60) DEF WriteData, At, Quiet
  <2>2. call[t].count \in Nat /\ call[t].count > 0
    BY <1>1, <2>1, CountKept DEF Role, WriteOps
  <2>3. DataLen(fifo') > 0
    BY <1>14, <2>2, WrittenLen, ZenonT(60) DEF WriteData
  <2>4. call'[t].op \in {"writeEnd", "writeWake"}
    BY <1>1, <1>14 DEF WriteData, Enter
  <2> QED
    BY <2>1, <2>3, <2>4, ZenonT(60) DEF WriteMove, Goes
<1>15. CASE WriteWake(t)
  <2>1. Woke("reader") /\ UNCHANGED <<fifo, opened>>
    BY <1>15, QueueMoves DEF WriteWake
  <2>2. Goes(t, "writeWake", {"writeWait"})
    BY <1>3, <1>15 DEF WriteWake, At, WriteOps
  <2> QED
    BY <2>1, <2>2, ZenonT(60) DEF WriteMove
<1>16. CASE WriteWait(t)
  <2>1. call[t].op = "writeWait" /\ UNCHANGED <<fifo, opened>>
    BY <1>16 DEF WriteWait, At
  <2>2. \/ Cleared("writer") /\ Enter(t, [call[t] EXCEPT !.op = "write"])
        \/ Slept("writer") /\ Enter(t, [call[t] EXCEPT !.op = "writeWoken"])
    BY <1>16, QueueMoves DEF WriteWait
  <2>3. \/ Cleared("writer") /\ Goes(t, "writeWait", {"write"})
        \/ Slept("writer") /\ Goes(t, "writeWait", {"writeWoken"})
    BY <1>3, <2>1, <2>2, ZenonT(60) DEF WriteOps
  <2> QED
    BY <2>1, <2>3, ZenonT(60) DEF WriteMove
<1>17. CASE WriteWoken(t)
  <2>1. Cleared("writer") /\ UNCHANGED <<fifo, opened>>
    BY <1>17, QueueMoves DEF WriteWoken
  <2>2. Goes(t, "writeWoken", {"write"})
    BY <1>3, <1>17 DEF WriteWoken, Resumed, At, WriteOps
  <2> QED
    BY <2>1, <2>2 DEF WriteMove
<1>18. CASE WriteEnd(t)
  <2>1. call[t].op = "writeEnd" /\ call'[t].op = "none" /\ Woke("reader") /\ UNCHANGED <<fifo, opened>>
    BY <1>2, <1>18, QueueMoves, ZenonT(60) DEF WriteEnd, At
  <2> QED
    BY <2>1, ZenonT(60) DEF WriteMove, Goes
<1> QED
  BY <1>5, <1>6, <1>7, <1>8, <1>9, <1>10, <1>11, <1>12, <1>13, <1>14, <1>15, <1>16, <1>17, <1>18, ZenonT(60)
     DEF PipeAct

\* The flags: a step clears one, resumes the first thread, or leaves both alone.
LEMMA FlagKept ==
    ASSUME WaitInv, WaitInv', FlagInv, NEW t \in Thread, ~Waits(t),
           wakeup' \in [{"reader", "writer"} -> BOOLEAN],
           \A u \in Thread : u # t => call'[u] = call[u],
           \A l \in Lists : Range(suspended'[l]) \subseteq Range(suspended[l]) \cup {t},
           \A q \in {"reader", "writer"} :
              \/ ~wakeup'[q]
              \/ suspended'[q] = <<>>
              \/ suspended[q] # <<>> /\ suspended'[q] = Tail(suspended[q])
              \/ suspended'[q] = suspended[q] /\ wakeup'[q] = wakeup[q] /\ call[t].op # WaitOp(q)
    PROVE  FlagInv'
<1> SUFFICES ASSUME NEW q \in {"reader", "writer"}, suspended'[q] # <<>>, wakeup'[q]
             PROVE  Runs(WaitOp(q))'
  BY ZenonT(60) DEF FlagInv
<1>1. q \in Lists
  BY PipeOps, ZenonT(60)
<1>2. CASE suspended[q] # <<>> /\ suspended'[q] = Tail(suspended[q])
  <2>1. \A u \in Thread : Waits(u) => call'[u] = call[u]
    OBVIOUS
  <2> QED
    BY <1>1, <1>2, <2>1, ResumedRuns, ZenonT(60)
<1>3. CASE suspended'[q] = suspended[q] /\ wakeup'[q] = wakeup[q] /\ call[t].op # WaitOp(q)
  <2>1. Runs(WaitOp(q))
    BY <1>3, ZenonT(60) DEF FlagInv
  <2> QED
    BY <1>3, <2>1, RunsStep, ZenonT(60)
<1> QED
  BY <1>2, <1>3, ZenonT(60)

LEMMA FlagStep ==
    ASSUME Counted, WaitInv, WaitInv', PipeInv, RolesInv, FlagInv,
           NEW t \in Thread, PipeAct(t)
    PROVE  FlagInv'
<1> DEFINE Kept(q) ==
              \/ ~wakeup'[q]
              \/ suspended'[q] = <<>>
              \/ suspended[q] # <<>> /\ suspended'[q] = Tail(suspended[q])
              \/ suspended'[q] = suspended[q] /\ wakeup'[q] = wakeup[q] /\ call[t].op # WaitOp(q)
<1>1. /\ ~Waits(t) /\ \A u \in Thread : u # t => call'[u] = call[u]
      /\ \A l \in Lists : Range(suspended'[l]) \subseteq Range(suspended[l]) \cup {t}
  BY PipeFrame
<1>2. /\ wakeup \in [{"reader", "writer"} -> BOOLEAN]
      /\ WaitOp("reader") = "readWoken" /\ WaitOp("writer") = "writeWoken"
      /\ Other("reader") = "writer" /\ Other("writer") = "reader"
  BY WaitOpLemma, ZenonT(60) DEF FlagInv, Other
<1>3. ASSUME wakeup' \in [{"reader", "writer"} -> BOOLEAN], Kept("reader"), Kept("writer")
      PROVE  FlagInv'
  BY <1>1, <1>3, FlagKept, ZenonT(60)
<1>4. ASSUME Quiet, call[t].op \notin {"readWoken", "writeWoken"} PROVE FlagInv'
  BY <1>2, <1>3, <1>4, ZenonT(60) DEF Quiet
<1>5. ASSUME NEW q \in {"reader", "writer"}, Woke(q), call[t].op \notin {"readWoken", "writeWoken"}
      PROVE FlagInv'
  <2>1. wakeup' \in [{"reader", "writer"} -> BOOLEAN] /\ wakeup'[Other(q)] = wakeup[Other(q)]
    BY <1>2, <1>5, ZenonT(60) DEF Woke
  <2>2. Kept(q) /\ Kept(Other(q))
    BY <1>2, <1>5, <2>1, ZenonT(60) DEF Woke
  <2> QED
    BY <1>2, <1>3, <2>1, <2>2, ZenonT(60)
<1>6. ASSUME NEW q \in {"reader", "writer"}, Cleared(q) \/ Slept(q), call[t].op # WaitOp(Other(q))
      PROVE  FlagInv'
  <2>1. /\ wakeup' \in [{"reader", "writer"} -> BOOLEAN] /\ ~wakeup'[q]
        /\ wakeup'[Other(q)] = wakeup[Other(q)] /\ suspended'[Other(q)] = suspended[Other(q)]
    BY <1>2, <1>6, ZenonT(60) DEF Cleared, Slept
  <2>2. Kept(q) /\ Kept(Other(q))
    BY <1>6, <2>1, ZenonT(60)
  <2> QED
    BY <1>2, <1>3, <2>1, <2>2, ZenonT(60)
<1>7. CASE Open(t)
  BY <1>4, <1>7 DEF Open, Idle, Quiet, waitVars
<1>8. CASE Close(t)
  <2> DEFINE wakes == {q \in {"reader", "writer"} :
                        opened' \cap (IF q = "reader" THEN Writer ELSE Reader) = {}}
  <2>1. /\ wakeup' = [q \in {"reader", "writer"} |-> wakeup[q] \/ q \in wakes]
        /\ suspended' = [l \in Lists |-> IF l \in wakes /\ suspended[l] # <<>>
                                         THEN Tail(suspended[l]) ELSE suspended[l]]
        /\ call[t].op = "none"
    BY <1>8 DEF Close, Idle
  <2> HIDE DEF wakes
  <2>2. /\ wakeup' \in [{"reader", "writer"} -> BOOLEAN]
        /\ \A q \in {"reader", "writer"} : q \notin wakes => wakeup'[q] = wakeup[q]
        /\ \A q \in {"reader", "writer"} :
              suspended'[q] = IF q \in wakes /\ suspended[q] # <<>> THEN Tail(suspended[q])
                              ELSE suspended[q]
    BY <1>2, <2>1, PipeOps, ZenonT(60)
  <2>3. ASSUME NEW q \in {"reader", "writer"} PROVE Kept(q)
    <3>1. CASE q \in wakes
      BY <1>2, <2>1, <2>2, <3>1
    <3>2. CASE q \notin wakes
      BY <1>2, <2>1, <2>2, <3>2, ZenonT(60)
    <3> QED
      BY <3>1, <3>2
  <2> QED
    BY <1>3, <2>2, <2>3, ZenonT(60)
<1>9. CASE ReadMove(t)
  BY <1>2, <1>4, <1>5, <1>6, <1>9, ZenonT(60) DEF ReadMove, Goes
<1>10. CASE WriteMove(t)
  BY <1>2, <1>4, <1>5, <1>6, <1>10, ZenonT(60) DEF WriteMove, Goes
<1> QED
  BY <1>7, <1>8, <1>9, <1>10, PipeMoves, ZenonT(60)

\* Without readers no thread reads, and without writers none writes.
LEMMA NobodyReads ==
    ASSUME WaitInv', RolesInv'
    PROVE  /\ opened' \cap Reader = {} => suspended'["reader"] = <<>> /\ \A op \in ReadOps : ~Runs(op)'
           /\ opened' \cap Writer = {} => suspended'["writer"] = <<>> /\ \A op \in WriteOps : ~Runs(op)'
<1>1. \A u \in Thread : /\ call'[u].op \in ReadOps => u \in opened' \cap Reader
                        /\ call'[u].op \in WriteOps => u \in opened' \cap Writer
  BY DEF RolesInv, Role
<1>2. ASSUME NEW q \in {"reader", "writer"}, suspended'[q] # <<>>
      PROVE  \E u \in Thread : call'[u].op = WaitOp(q)
  <2>1. suspended'[q] \in Seq(Thread) /\ \A u \in Range(suspended'[q]) : call'[u].op = WaitOp(q)
    BY PipeOps DEF WaitInv, IsQueue
  <2> QED
    BY <1>2, <2>1, HeadInRange, RangeSubset
<1>3. "readWoken" \in ReadOps /\ "writeWoken" \in WriteOps
  BY DEF ReadOps, WriteOps
<1> QED
  BY <1>1, <1>2, <1>3, WaitOpLemma DEF Runs, At

\* Readers and writers: the next turn of one of them stays sure.
LEMMA TurnStep ==
    ASSUME Counted, WaitInv, WaitInv', PipeInv, RolesInv, RolesInv', FlagInv, TurnInv,
           NEW t \in Thread, PipeAct(t)
    PROVE  TurnInv'
<1> DEFINE from == call[t].op
           to == call'[t].op
           Ops == {"read", "readWake", "readWait", "write", "writeWake", "writeWait", "writeEnd"}
<1>1. /\ \A op : Runs(op) /\ from # op => Runs(op)'
      /\ \A op \in Ops : Runs(op)' /\ to # op => Runs(op)
      /\ \A op \in Ops : to = op => Runs(op)'
      /\ Runs(from)
  <2>1. /\ ~Waits(t) /\ \A u \in Thread : u # t => call'[u] = call[u]
        /\ \A l \in Lists : Range(suspended'[l]) \subseteq Range(suspended[l]) \cup {t}
    BY PipeFrame, ZenonT(60)
  <2>2. \A op \in Ops : \A l \in Lists : op # WaitOp(l)
    BY PipeOps DEF ReadOps, WriteOps
  <2>3. Runs(from)
    BY <2>1, ZenonT(60) DEF Runs, At
  <2> QED
    BY <2>1, <2>2, <2>3, RunsStep, ZenonT(60)
<1>2. /\ wakeup \in [{"reader", "writer"} -> BOOLEAN]
      /\ Other("reader") = "writer" /\ Other("writer") = "reader"
  BY DEF FlagInv, Other
<1>3. ASSUME WriterComes' \/ ~ReaderStuck' \/ ~WriterStuck' PROVE TurnInv'
  BY <1>3 DEF TurnInv
<1>4. CASE opened' = opened /\ ReadMove(t)
  <2>1. CASE Goes(t, "none", {"read"}) /\ Quiet /\ UNCHANGED fifo
    BY <1>1, <2>1, ZenonT(60)
       DEF Goes, Quiet, TurnInv, ReaderStuck, WriterStuck, WriterComes, ReaderComes
  <2>2. CASE Goes(t, "read", {"none"}) /\ opened \cap Writer = {} /\ opened' = opened
    <3>1. ~WriterStuck'
      BY <2>2, NobodyReads DEF WriterStuck, WriteOps
    <3> QED
      BY <1>3, <3>1
  <2>3. CASE Woke("writer")
    <3>1. WriterComes'
      BY <1>2, <2>3, ZenonT(60) DEF Woke, WriterComes
    <3> QED
      BY <1>3, <3>1
  <2>4. CASE Goes(t, "read", {"none", "readWake"}) /\ DataLen(fifo) = 0 /\ Quiet /\ UNCHANGED fifo
    BY <1>1, <2>4
       DEF Goes, Quiet, TurnInv, ReaderStuck, WriterStuck, WriterComes, ReaderComes
  <2>5. CASE Goes(t, "readWait", {"read"}) /\ Cleared("reader") /\ UNCHANGED fifo
    <3>1. wakeup'["writer"] = wakeup["writer"]
      BY <1>2, <2>5 DEF Cleared
    <3> QED
      BY <1>1, <2>5, <3>1
         DEF Goes, Cleared, TurnInv, ReaderStuck, WriterStuck, WriterComes, ReaderComes
  <2>6. CASE Goes(t, "readWait", {"readWoken"}) /\ Slept("reader") /\ UNCHANGED fifo
    BY <1>1, <1>2, <2>6, ZenonT(60)
       DEF Goes, Slept, TurnInv, ReaderStuck, WriterStuck, WriterComes, ReaderComes
  <2>7. CASE Goes(t, "readWoken", {"read"}) /\ Cleared("reader") /\ UNCHANGED fifo
    <3>1. wakeup'["writer"] = wakeup["writer"]
      BY <1>2, <2>7 DEF Cleared
    <3> QED
      BY <1>1, <2>7, <3>1
         DEF Goes, Cleared, TurnInv, ReaderStuck, WriterStuck, WriterComes, ReaderComes
  <2> QED
    BY <1>4, <2>1, <2>2, <2>3, <2>4, <2>5, <2>6, <2>7 DEF ReadMove, Quiet
<1>5. CASE opened' = opened /\ WriteMove(t)
  <2>1. CASE to = "write"
    <3>1. WriterComes'
      BY <1>1, <2>1, ZenonT(60) DEF WriterComes
    <3> QED
      BY <1>3, <3>1
  <2>2. CASE opened \cap Reader = {}
    <3>1. ~ReaderStuck'
      BY <1>5, <2>2, NobodyReads DEF ReaderStuck, ReadOps
    <3> QED
      BY <1>3, <3>1
  <2>3. CASE Goes(t, "write", {"writeEnd", "writeWake"}) /\ DataLen(fifo') > 0
    <3>1. ReaderComes'
      BY <1>1, <2>3 DEF Goes, ReaderComes
    <3> QED
      BY <2>3, <3>1 DEF TurnInv
  <2>4. CASE /\ Goes(t, "writeWake", {"writeWait"}) \/ Goes(t, "writeEnd", {"none"})
             /\ Woke("reader") /\ UNCHANGED fifo
    <3>1. /\ wakeup'["writer"] = wakeup["writer"] /\ wakeup'["reader"]
          /\ suspended'["writer"] = suspended["writer"]
          /\ suspended'["reader"] # <<>> => suspended["reader"] # <<>>
      BY <1>2, <2>4 DEF Woke
    <3>2. (ReaderStuck' => ReaderStuck) /\ (WriterStuck' => WriterStuck)
      BY <1>1, <2>4, <3>1 DEF Goes, ReaderStuck, WriterStuck
    <3>3. (WriterComes => WriterComes') /\ ReaderComes'
      BY <1>1, <2>4, <3>1 DEF Goes, WriterComes, ReaderComes
    <3> QED
      BY <2>4, <3>2, <3>3 DEF TurnInv
  <2>5. CASE Goes(t, "writeWait", {"writeWoken"}) /\ Slept("writer") /\ UNCHANGED fifo
    BY <1>1, <1>2, <2>5
       DEF Goes, Slept, TurnInv, ReaderStuck, WriterStuck, WriterComes, ReaderComes
  <2> QED
    BY <1>5, <2>1, <2>2, <2>3, <2>4, <2>5, ZenonT(60) DEF WriteMove, Goes
<1>6. CASE Open(t) \/ Close(t)
  <2>1. from = "none" /\ to = "none"
    BY <1>6 DEF Open, Close, Idle, waitVars
  <2>2. /\ wakeup["reader"] => wakeup'["reader"]
        /\ wakeup["writer"] => wakeup'["writer"]
        /\ suspended'["reader"] # <<>> => suspended["reader"] # <<>>
        /\ suspended'["writer"] # <<>> => suspended["writer"] # <<>>
    BY <1>6, PipeOps, ZenonT(60) DEF Open, Close, waitVars
  <2>3. CASE UNCHANGED fifo
    <3>1. (ReaderStuck' => ReaderStuck) /\ (WriterStuck' => WriterStuck)
      BY <1>1, <2>1, <2>2, ZenonT(60) DEF ReaderStuck, WriterStuck
    <3>2. (WriterComes => WriterComes') /\ (ReaderComes => ReaderComes')
      BY <1>1, <2>1, <2>2 DEF WriterComes, ReaderComes
    <3> QED
      BY <2>3, <3>1, <3>2 DEF TurnInv
  <2>4. CASE opened' \subseteq {t}
    <3>1. opened' \cap Reader = {} \/ opened' \cap Writer = {}
      BY <2>4, PipeAssumption
    <3>2. ~ReaderStuck' \/ ~WriterStuck'
      BY <3>1, NobodyReads DEF ReaderStuck, WriterStuck, ReadOps, WriteOps
    <3> QED
      BY <1>3, <3>2
  <2> QED
    BY <1>6, <2>3, <2>4, ZenonT(60) DEF Open, Close
<1> QED
  BY <1>4, <1>5, <1>6, PipeMoves

\* The only reader waits in no list unless it is in rt_wqueue_wait.
LEMMA OneReader ==
    ASSUME WaitInv', RolesInv', NEW t, Reader = {t}
    PROVE  /\ call'[t].op # "readWoken" => suspended'["reader"] = <<>>
           /\ \A op \in ReadOps : call'[t].op # op => ~Runs(op)'
<1>1. \A u \in Thread : call'[u].op \in ReadOps => u = t
  BY DEF RolesInv, Role
<1>2. ASSUME suspended'["reader"] # <<>> PROVE call'[t].op = "readWoken"
  <2>1. /\ suspended'["reader"] \in Seq(Thread)
        /\ \A u \in Range(suspended'["reader"]) : call'[u].op = "readWoken"
    BY PipeOps, WaitOpLemma DEF WaitInv, IsQueue
  <2>2. PICK u \in Thread : call'[u].op = "readWoken"
    BY <1>2, <2>1, HeadInRange, RangeSubset
  <2> QED
    BY <1>1, <2>2 DEF ReadOps
<1> QED
  BY <1>1, <1>2 DEF Runs, At

\* When it is resumed, no reader is left in the list.
LEMMA OneWaiter ==
    ASSUME WaitInv, RolesInv, NEW r, Reader = {r}, suspended["reader"] # <<>>
    PROVE  Tail(suspended["reader"]) = <<>>
<1> DEFINE s == suspended["reader"]
<1>1. /\ Head(s) \in Range(s) /\ IsQueue(Tail(s)) /\ Range(Tail(s)) = Range(s) \ {Head(s)}
  BY PipeOps, FirstWaiter
<1>2. \A u \in Range(s) : u \in Thread /\ call[u].op = "readWoken"
  BY PipeOps, WaitOpLemma, RangeSubset DEF WaitInv, IsQueue
<1>3. \A u \in Range(s) : u = r
  BY <1>2 DEF RolesInv, Role, ReadOps
<1>4. Range(Tail(s)) = {}
  BY <1>1, <1>3
<1> QED
  BY <1>1, <1>4, EmptyRange, ZenonT(60) DEF IsQueue

\* The only reader misses no bytes.
LEMMA OneReaderStep ==
    ASSUME Counted, WaitInv, WaitInv', PipeInv, RolesInv, RolesInv', FlagInv, OneReaderInv,
           NEW t \in Thread, PipeAct(t)
    PROVE  OneReaderInv'
<1> DEFINE from == call[t].op
           to == call'[t].op
           Ops == {"read", "readWake", "readWait", "write", "writeWake", "writeWait", "writeEnd"}
           Stuck == \/ suspended["reader"] # <<>>
                    \/ ~wakeup["reader"] /\ (Runs("readWake") \/ Runs("readWait"))
           Told == DataLen(fifo) = 0 \/ Runs("writeWake") \/ Runs("writeEnd")
<1> SUFFICES ASSUME NEW r, Reader = {r}, Stuck' PROVE opened' \cap Writer # {} /\ Told'
  BY ZenonT(60) DEF OneReaderInv
<1>1. /\ \A op : Runs(op) /\ from # op => Runs(op)'
      /\ \A op \in Ops : Runs(op)' /\ to # op => Runs(op)
      /\ \A op \in Ops : to = op => Runs(op)'
      /\ Runs(from)
  <2>1. /\ ~Waits(t) /\ \A u \in Thread : u # t => call'[u] = call[u]
        /\ \A l \in Lists : Range(suspended'[l]) \subseteq Range(suspended[l]) \cup {t}
    BY PipeFrame
  <2>2. \A op \in Ops : \A l \in Lists : op # WaitOp(l)
    BY PipeOps, ZenonT(60) DEF ReadOps, WriteOps
  <2>3. Runs(from)
    BY <2>1 DEF Runs, At
  <2> QED
    BY <2>1, <2>2, <2>3, RunsStep, ZenonT(60)
<1>2. /\ wakeup \in [{"reader", "writer"} -> BOOLEAN]
      /\ Other("reader") = "writer" /\ Other("writer") = "reader"
  BY DEF FlagInv, Other
<1>3. Stuck => opened \cap Writer # {} /\ Told
  BY ZenonT(60) DEF OneReaderInv
<1>4. ASSUME t = r, to \in {"none", "read"} PROVE FALSE
  BY <1>4, OneReader DEF ReadOps
<1>5. ASSUME suspended'["reader"] = <<>>, wakeup'["reader"] PROVE FALSE
  BY <1>5
<1>6. ASSUME opened' \cap Reader = {} PROVE FALSE
  BY <1>6, NobodyReads DEF ReadOps
<1>7. ASSUME Stuck, opened' = opened, UNCHANGED fifo, from \notin {"writeWake", "writeEnd"}
      PROVE  opened' \cap Writer # {} /\ Told'
  BY <1>1, <1>3, <1>7, ZenonT(60)
<1>8. CASE opened' = opened /\ ReadMove(t)
  <2>1. t = r
    <3>1. from \in ReadOps \/ to \in ReadOps
      BY <1>8 DEF ReadMove, Goes, ReadOps
    <3>2. t \in Reader
      BY <1>8, <3>1, ZenonT(60) DEF RolesInv, Role
    <3> QED
      BY <3>2, ZenonT(60)
  <2>2. CASE Goes(t, "read", {"none", "readWake"}) /\ opened \cap Writer # {} /\ DataLen(fifo) = 0
             /\ UNCHANGED fifo
    BY <1>8, <2>2, ZenonT(60)
  <2>3. CASE Goes(t, "readWake", {"readWait"}) /\ Woke("writer") /\ UNCHANGED fifo
    <3>1. suspended'["reader"] = <<>> /\ wakeup'["reader"] = wakeup["reader"]
      BY <1>2, <2>1, <2>3, OneReader, ZenonT(60) DEF Goes, Woke
    <3>2. Stuck
      BY <1>1, <1>2, <1>5, <2>3, <3>1, ZenonT(60) DEF Goes
    <3> QED
      BY <1>7, <1>8, <2>3, <3>2, ZenonT(60) DEF Goes
  <2>4. CASE Goes(t, "readWait", {"readWoken"}) /\ Slept("reader") /\ UNCHANGED fifo
    <3>1. Stuck
      BY <1>1, <2>4, ZenonT(60) DEF Goes, Slept
    <3> QED
      BY <1>7, <1>8, <2>4, <3>1, ZenonT(60) DEF Goes
  <2> QED
    BY <1>4, <1>8, <2>1, <2>2, <2>3, <2>4, ZenonT(60) DEF ReadMove, Goes
<1>9. CASE opened' = opened /\ WriteMove(t)
  <2>1. CASE /\ from \in {"none", "writeWait", "writeWoken"} /\ to \in {"write", "writeWoken"}
             /\ Quiet \/ Cleared("writer") \/ Slept("writer")
             /\ UNCHANGED fifo
    <3>1. wakeup'["reader"] = wakeup["reader"] /\ suspended'["reader"] = suspended["reader"]
      BY <1>2, <2>1, ZenonT(60) DEF Quiet, Cleared, Slept
    <3>2. Stuck
      BY <1>1, <2>1, <3>1, ZenonT(60)
    <3> QED
      BY <1>7, <1>9, <2>1, <3>2, ZenonT(60)
  <2>2. CASE opened \cap Reader = {}
    BY <1>6, <1>9, <2>2
  <2>3. CASE Goes(t, "write", {"writeEnd", "writeWake"})
    <3>1. t \in opened \cap Writer
      BY <2>3 DEF Goes, RolesInv, Role, WriteOps
    <3>2. Runs("writeEnd")' \/ Runs("writeWake")'
      BY <1>1, <2>3 DEF Goes
    <3> QED
      BY <1>9, <3>1, <3>2
  <2>4. CASE Woke("reader")
    <3>1. suspended'["reader"] = <<>> /\ wakeup'["reader"]
      BY <1>2, <2>4, OneWaiter, ZenonT(60) DEF Woke
    <3> QED
      BY <1>5, <3>1
  <2> QED
    BY <1>9, <2>1, <2>2, <2>3, <2>4, ZenonT(60) DEF WriteMove, Goes
<1>10. CASE Open(t)
  <2>1. from = "none" /\ to = "none" /\ Quiet
    BY <1>10 DEF Open, Idle, Quiet, waitVars
  <2>2. CASE opened = {}
    <3>1. opened' = {t} /\ t \in Reader \cup Writer
      BY <1>10, <2>2 DEF Open
    <3>2. t = r \/ opened' \cap Reader = {}
      BY <3>1
    <3> QED
      BY <1>4, <1>6, <2>1, <3>2
  <2>3. CASE opened # {}
    <3>1. Stuck
      BY <1>1, <2>1 DEF Quiet
    <3>2. UNCHANGED fifo /\ opened \subseteq opened'
      BY <1>10, <2>3 DEF Open
    <3> QED
      BY <1>1, <1>3, <2>1, <3>1, <3>2, ZenonT(60)
  <2> QED
    BY <2>2, <2>3
<1>11. CASE Close(t)
  <2>1. from = "none" /\ to = "none"
    BY <1>11 DEF Close, Idle
  <2>2. /\ suspended'["reader"] # <<>> => suspended["reader"] # <<>>
        /\ ~wakeup'["reader"] => ~wakeup["reader"]
        /\ opened' # {} => UNCHANGED fifo
    BY <1>11, PipeOps, ZenonT(60) DEF Close
  <2>3. CASE opened' \cap Writer = {}
    <3>1. /\ wakeup'["reader"]
          /\ suspended["reader"] # <<>> => suspended'["reader"] = Tail(suspended["reader"])
      BY <1>11, <2>3, PipeOps, ZenonT(60) DEF Close
    <3>2. suspended'["reader"] = <<>>
      BY <2>2, <3>1, OneWaiter, ZenonT(60)
    <3> QED
      BY <1>5, <3>1, <3>2
  <2>4. CASE opened' \cap Writer # {}
    <3>1. Stuck
      BY <1>1, <2>1, <2>2
    <3> QED
      BY <1>1, <1>3, <2>1, <2>2, <2>4, <3>1, ZenonT(60)
  <2> QED
    BY <2>3, <2>4, ZenonT(60)
<1> QED
  BY <1>8, <1>9, <1>10, <1>11, PipeMoves, ZenonT(60)

\* Initially nobody has called.
LEMMA PipeWaitInit == WaitingInit /\ PipeInit => PipeWaitInv
<1> SUFFICES ASSUME WaitingInit, PipeInit PROVE PipeWaitInv
  OBVIOUS
<1>1. /\ \A l \in Lists : suspended[l] = <<>>
      /\ \A t \in Thread : call[t].op = "none"
      /\ wakeup = [q \in {"reader", "writer"} |-> FALSE]
  BY DEF WaitingInit, PipeInit, Idle
<1>2. suspended["reader"] = <<>> /\ suspended["writer"] = <<>>
  BY <1>1, PipeOps
<1>3. \A op \in ReadOps \cup WriteOps : ~Runs(op)
  BY <1>1 DEF ReadOps, WriteOps, Runs, At
<1>4. RolesInv
  BY <1>1 DEF RolesInv, Role, ReadOps, WriteOps
<1>5. FlagInv
  BY <1>1, <1>2 DEF FlagInv
<1>6. TurnInv
  BY <1>2, <1>3 DEF TurnInv, ReaderStuck, ReadOps
<1>7. OneReaderInv
  BY <1>2, <1>3 DEF OneReaderInv, ReadOps
<1> QED
  BY <1>4, <1>5, <1>6, <1>7 DEF PipeWaitInv

-----------------------------------------------------------------------------
\* The inductive invariant.
PipeIndInv == PipeInv /\ WaitInv /\ PipeTimerInv /\ OpInv /\ PipeWaitInv

\* It holds initially.
LEMMA PipeIndInit == WaitingInit /\ PipeInit => PipeIndInv
<1> SUFFICES ASSUME WaitingInit, PipeInit PROVE PipeIndInv
  OBVIOUS
<1>1. PipeInv /\ WaitInv /\ PipeWaitInv
  BY PipeInitInv, WaitInitInv, PipeWaitInit
<1>2. PipeTimerInv /\ OpInv
  BY DEF WaitingInit, PipeTimerInv, OpInv, Idle
<1> QED
  BY <1>1, <1>2 DEF PipeIndInv

\* Every step keeps it.
LEMMA PipeIndNext ==
    Counted => (PipeIndInv /\ [PipeNext]_<<waitVars, pipeVars>> => PipeIndInv')
<1> SUFFICES ASSUME Counted, PipeInv, WaitInv, PipeTimerInv, OpInv, PipeWaitInv,
                    [PipeNext]_<<waitVars, pipeVars>>
             PROVE  PipeInv' /\ WaitInv' /\ PipeTimerInv' /\ OpInv' /\ PipeWaitInv'
  BY ZenonT(60) DEF PipeIndInv
<1>1. RolesInv /\ FlagInv /\ TurnInv /\ OneReaderInv
  BY DEF PipeWaitInv
<1>2. CASE PipeNext
  <2>1. PICK t \in Thread : PipeAct(t)
    BY <1>2 DEF PipeNext, PipeAct
  <2>2. PipeInv' /\ WaitInv' /\ PipeTimerInv' /\ OpInv'
    BY <1>2, PipeNextInv, PipeStep, PipeTimers
  <2>3. RolesInv'
    BY <1>1, <2>1, RolesStep
  <2> QED
    BY <1>1, <2>1, <2>2, <2>3, FlagStep, TurnStep, OneReaderStep, ZenonT(60) DEF PipeWaitInv
<1>3. CASE UNCHANGED <<waitVars, pipeVars>>
  <2>1. UNCHANGED <<suspended, timer, error, call, fifo, opened, wakeup, sent, got>>
    BY <1>3 DEF waitVars, pipeVars
  <2>2. \A op : Runs(op)' <=> Runs(op)
    BY <2>1 DEF Runs, At, Waits
  <2>3. PipeInv' /\ WaitInv' /\ PipeTimerInv' /\ OpInv'
    BY <1>3, <2>1, WaitSame DEF PipeInv, PipeTimerInv, OpInv
  <2>4. PipeWaitInv'
    BY <1>1, <2>1, <2>2, ZenonT(60) DEF PipeWaitInv, RolesInv, FlagInv, TurnInv, OneReaderInv,
          ReaderStuck, WriterStuck, WriterComes, ReaderComes
  <2> QED
    BY <2>3, <2>4
<1> QED
  BY <1>2, <1>3
=============================================================================
