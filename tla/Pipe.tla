-------------------------------- MODULE Pipe --------------------------------
(***************************************************************************)
(* Pipes (src/components/drivers/src/pipe.c, the file operations) over a   *)
(* ring buffer and two wait queues (src/components/drivers/src/            *)
(* waitqueue.c).  What a call does between taking and releasing the        *)
(* pipe's mutex is one step; it never waits in between.                    *)
(***************************************************************************)
EXTENDS Waiting, RingBuffer

CONSTANTS Reader, Writer,    \* the threads that open the pipe O_RDONLY, O_WRONLY
          Counts,            \* how many bytes a call asks for
          MaxBytes           \* bound: the bytes written

ASSUME PipeAssumption ==
    /\ Reader \cup Writer \subseteq Thread /\ Reader \cap Writer = {}
    /\ Counts \subseteq Nat \ {0} /\ MaxBytes \in Nat

VARIABLES fifo, opened,      \* the threads that have the pipe open
          wakeup,            \* the flag of each wait queue
          sent, got          \* history: bytes 1 .. sent were written, 1 .. got were read

pipeVars == <<fifo, opened, wakeup, sent, got>>

readers == Cardinality(opened \cap Reader)
writers == Cardinality(opened \cap Writer)

PipeInit ==
    /\ fifo = EmptyRing /\ opened = {}
    /\ wakeup = [q \in {"reader", "writer"} |-> FALSE]
    /\ sent = 0 /\ got = 0

\* rt_wqueue_wakeup: set the flag and resume the first thread, if there is one.
Wakeup(q) ==
    /\ wakeup' = [wakeup EXCEPT ![q] = TRUE]
    /\ IF suspended[q] # <<>> THEN ResumeFirst(q) ELSE UNCHANGED <<suspended, timer>>

\* Mutant of WaitOn: the flag is not tested.
WaitOnBlind(t, q, woken, next) ==
    /\ suspended' = [suspended EXCEPT ![q] = Append(@, t)]
    /\ Enter(t, woken)
    /\ UNCHANGED <<timer, error, wakeup>>

\* rt_wqueue_wait without time-out: not at all if the flag is set,
WaitOn(t, q, woken, next) ==
    \/ /\ wakeup[q]
       /\ wakeup' = [wakeup EXCEPT ![q] = FALSE]
       /\ Enter(t, next)
       /\ UNCHANGED <<suspended, timer, error>>
    \/ /\ ~wakeup[q]
       /\ suspended' = [suspended EXCEPT ![q] = Append(@, t)]
       /\ Enter(t, woken)
       /\ UNCHANGED <<timer, error, wakeup>>

\* ... and the flag is cleared once the thread runs again.
Resumed(t, q, next) ==
    /\ wakeup' = [wakeup EXCEPT ![q] = FALSE]
    /\ Enter(t, next)
    /\ UNCHANGED <<suspended, timer, error>>

-----------------------------------------------------------------------------
\* pipe_fops_open: the first one makes the ring.
Open(t) ==
    /\ call[t] = Idle /\ t \in (Reader \cup Writer) \ opened
    /\ fifo' = IF opened = {} THEN EmptyRing ELSE fifo
    /\ opened' = opened \cup {t}
    /\ UNCHANGED <<waitVars, wakeup, sent, got>>

\* pipe_fops_close: the last writer wakes a reader, the last reader a writer;
\* the last one destroys the ring, with the bytes in it.
Close(t) ==
    /\ call[t] = Idle /\ t \in opened
    /\ opened' = opened \ {t}
    /\ LET wakes == {q \in {"reader", "writer"} :
                        opened' \cap (IF q = "reader" THEN Writer ELSE Reader) = {}}
       IN  /\ wakeup' = [q \in {"reader", "writer"} |-> wakeup[q] \/ q \in wakes]
           /\ suspended' = [l \in Lists |-> IF l \in wakes /\ suspended[l] # <<>>
                                            THEN Tail(suspended[l]) ELSE suspended[l]]
    /\ got' = IF opened' = {} THEN sent ELSE got
    /\ fifo' = IF opened' = {} THEN EmptyRing ELSE fifo
    /\ UNCHANGED <<timer, error, call, sent>>

\* pipe_fops_read: without a writer it returns at once (148),
Read(t, n) ==
    /\ call[t] = Idle /\ t \in opened \cap Reader
    /\ writers > 0
    /\ Enter(t, [op |-> "read", count |-> n])
    /\ UNCHANGED <<suspended, timer, error, pipeVars>>

\* ... a turn of its loop with the lock: end of file,
ReadEof(t) ==
    /\ At(t, "read") /\ writers = 0
    /\ Finish(t)
    /\ UNCHANGED <<suspended, timer, error, pipeVars>>

\* ... data,
ReadData(t) ==
    /\ At(t, "read") /\ writers > 0 /\ DataLen(fifo) > 0
    /\ fifo' = Get(fifo, call[t].count)
    /\ got' = got + GetLen(fifo, call[t].count)
    /\ Wakeup("writer")
    /\ Finish(t)
    /\ UNCHANGED <<error, opened, sent>>

\* ... or nothing: return (O_NONBLOCK), or wake a writer and wait.
ReadNothing(t) ==
    /\ At(t, "read") /\ writers > 0 /\ DataLen(fifo) = 0
    /\ Finish(t) \/ Enter(t, [call[t] EXCEPT !.op = "readWake"])
    /\ UNCHANGED <<suspended, timer, error, pipeVars>>

ReadWake(t) ==
    /\ At(t, "readWake")
    /\ Wakeup("writer")
    /\ Enter(t, [call[t] EXCEPT !.op = "readWait"])
    /\ UNCHANGED <<error, fifo, opened, sent, got>>

ReadWait(t) ==
    /\ At(t, "readWait")
    /\ WaitOn(t, "reader", [call[t] EXCEPT !.op = "readWoken"], [call[t] EXCEPT !.op = "read"])
    /\ UNCHANGED <<fifo, opened, sent, got>>

ReadWoken(t) ==
    /\ At(t, "readWoken")
    /\ Resumed(t, "reader", [call[t] EXCEPT !.op = "read"])
    /\ UNCHANGED <<fifo, opened, sent, got>>

-----------------------------------------------------------------------------
\* pipe_fops_write of n bytes: without a reader it returns at once (199),
Write(t, n) ==
    /\ call[t] = Idle /\ t \in opened \cap Writer
    /\ readers > 0
    /\ Enter(t, [op |-> "write", count |-> n, begun |-> FALSE])
    /\ UNCHANGED <<suspended, timer, error, pipeVars>>

\* ... a turn of its loop with the lock: no reader left,
WriteBroken(t) ==
    /\ At(t, "write") /\ readers = 0
    /\ IF call[t].begun THEN Enter(t, [call[t] EXCEPT !.op = "writeEnd"]) ELSE Finish(t)
    /\ UNCHANGED <<suspended, timer, error, pipeVars>>

\* ... or as many bytes as there is space for; then it ends (all is written, or
\* O_NONBLOCK), or wakes a reader and waits.
WriteData(t) ==
    /\ At(t, "write") /\ readers > 0
    /\ LET left == call[t].count
           n == PutLen(fifo, left)
       IN  /\ sent + n <= MaxBytes
           /\ fifo' = Put(fifo, [i \in 1 .. left |-> sent + i])
           /\ sent' = sent + n
           /\ \/ Enter(t, [op |-> "writeEnd", count |-> left - n, begun |-> TRUE])
              \/ n < left /\ Enter(t, [op |-> "writeWake", count |-> left - n, begun |-> TRUE])
    /\ UNCHANGED <<suspended, timer, error, opened, wakeup, got>>

WriteWake(t) ==
    /\ At(t, "writeWake")
    /\ Wakeup("reader")
    /\ Enter(t, [call[t] EXCEPT !.op = "writeWait"])
    /\ UNCHANGED <<error, fifo, opened, sent, got>>

WriteWait(t) ==
    /\ At(t, "writeWait")
    /\ WaitOn(t, "writer", [call[t] EXCEPT !.op = "writeWoken"], [call[t] EXCEPT !.op = "write"])
    /\ UNCHANGED <<fifo, opened, sent, got>>

WriteWoken(t) ==
    /\ At(t, "writeWoken")
    /\ Resumed(t, "writer", [call[t] EXCEPT !.op = "write"])
    /\ UNCHANGED <<fifo, opened, sent, got>>

WriteEnd(t) ==
    /\ At(t, "writeEnd")
    /\ Wakeup("reader")
    /\ Finish(t)
    /\ UNCHANGED <<error, fifo, opened, sent, got>>

PipeNext ==
    \E t \in Thread :
        \/ Open(t) \/ Close(t)
        \/ (\E n \in Counts : Read(t, n)) \/ ReadEof(t) \/ ReadData(t) \/ ReadNothing(t)
        \/ ReadWake(t) \/ ReadWait(t) \/ ReadWoken(t)
        \/ (\E n \in Counts : Write(t, n)) \/ WriteBroken(t) \/ WriteData(t)
        \/ WriteWake(t) \/ WriteWait(t) \/ WriteWoken(t) \/ WriteEnd(t)

\* A pipe and the threads that use it.
PipeSpec == WaitingInit /\ PipeInit /\ [][PipeNext]_<<waitVars, pipeVars>>

-----------------------------------------------------------------------------
\* The ring holds exactly the bytes that were written and not yet read, in
\* order, however reads and writes wrap around its end.
PipeInOrder == Contents(fifo) = [k \in 1 .. sent - got |-> got + k]

\* Bytes about to be announced.
Announcing == {t \in Thread : At(t, "writeWake") \/ At(t, "writeEnd")}

\* A pipe with one reader: the reader sleeps only while a writer has the pipe
\* open, and while the ring is empty or a writer is about to wake it up.
NoReaderStranded ==
    Cardinality(Reader) = 1 /\ suspended["reader"] # <<>> =>
        /\ writers > 0
        /\ DataLen(fifo) = 0 \/ Announcing # {}

\* Reader and writers never all wait for each other.
NoMutualWait ==
    suspended["reader"] # <<>> /\ suspended["writer"] # <<>> =>
        \E t \in Thread : call[t] # Idle /\ ~Waits(t)

\* Both: no wake-up of the pipe is lost.
NoPipeStranded == NoReaderStranded /\ NoMutualWait

\* What is forced into a ring of any state pushes out the oldest bytes and no
\* others, except by a put_force that overruns a ring whose two indices are in
\* the same mirror: it leaves the ring empty.
Newest(s) == SubSeq(s, Len(s) - Lesser(buffer_size, Len(s)) + 1, Len(s))

ForceKeepsNewest ==
    /\ Contents(PutCharForce(fifo, 0)) = Newest(Append(Contents(fifo), 0))
    /\ \A n \in 1 .. buffer_size + 1 :
        LET data == [i \in 1 .. n |-> -i] IN
        IF fifo.read_mirror = fifo.write_mirror /\ Lesser(n, buffer_size) > SpaceLen(fifo)
        THEN DataLen(PutForce(fifo, data)) = 0
        ELSE Contents(PutForce(fifo, data)) = Newest(Contents(fifo) \o data)
=============================================================================
