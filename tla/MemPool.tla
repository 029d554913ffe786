------------------------------ MODULE MemPool -------------------------------
(* Memory pools: src/src/mempool.c.                                        *)
EXTENDS Waiting

CONSTANTS block_total_count,
          Holds,                \* bound: the blocks a thread holds
          MaxCount              \* bound: suspend_thread_count

ASSUME PoolAssumption == block_total_count \in Nat /\ Holds \in Nat /\ MaxCount \in Nat

Block == 1 .. block_total_count

VARIABLES block_list, block_free_count, suspend_thread_count,
          held,                 \* the blocks of each thread
          mp_stray              \* the head of the empty list was taken for a thread

poolVars == <<block_list, block_free_count, suspend_thread_count, held, mp_stray>>

PoolInit ==
    /\ block_list = [i \in Block |-> i]
    /\ block_free_count = block_total_count
    /\ suspend_thread_count = 0
    /\ held = [t \in Thread |-> {}]
    /\ mp_stray = FALSE

\* rt_mp_alloc from the head of its loop on: take a block,
AllocBlock(t) ==
    /\ block_free_count > 0
    /\ block_free_count' = block_free_count - 1
    /\ block_list' = Tail(block_list)
    /\ held' = [held EXCEPT ![t] = @ \cup {Head(block_list)}]
    /\ Finish(t)
    /\ UNCHANGED <<suspended, timer, error, suspend_thread_count, mp_stray>>

\* ... return without one,
AllocNone(t, time) ==
    /\ block_free_count = 0 /\ time = "no"
    /\ Finish(t)
    /\ UNCHANGED <<suspended, timer, error, poolVars>>

\* ... or wait, before those that wait already.
AllocWait(t, time) ==
    /\ block_free_count = 0 /\ time # "no"
    /\ suspend_thread_count < MaxCount
    /\ SuspendOn(t, "pool", <<t>> \o suspended["pool"], time)
    /\ suspend_thread_count' = suspend_thread_count + 1
    /\ Enter(t, [op |-> "alloc", time |-> time])
    /\ UNCHANGED <<block_list, block_free_count, held, mp_stray>>

AllocLoop(t, time) == AllocBlock(t) \/ AllocNone(t, time) \/ AllocWait(t, time)

Alloc(t) ==
    /\ call[t] = Idle /\ Cardinality(held[t]) < Holds
    /\ \E time \in Time : AllocLoop(t, time)

AllocAgain(t) ==
    /\ At(t, "alloc") /\ error[t] = "EOK"
    /\ \E time \in TimeLeft(call[t].time) : AllocLoop(t, time)

\* After a time-out or a detach; suspend_thread_count stays as it is.
AllocFails(t) ==
    /\ At(t, "alloc") /\ error[t] # "EOK"
    /\ Finish(t)
    /\ UNCHANGED <<suspended, timer, error, poolVars>>

\* Mutant of Free: threads are resumed only when the pool was empty.
FreeIfEmpty(t, b) ==
    /\ call[t] = Idle /\ b \in held[t]
    /\ held' = [held EXCEPT ![t] = @ \ {b}]
    /\ block_list' = <<b>> \o block_list
    /\ block_free_count' = block_free_count + 1
    /\ IF suspend_thread_count > 0 /\ suspended["pool"] # <<>> /\ block_free_count = 0
       THEN /\ suspend_thread_count' = suspend_thread_count - 1
            /\ error' = [error EXCEPT ![Head(suspended["pool"])] = "EOK"]
            /\ ResumeFirst("pool")
       ELSE UNCHANGED <<suspended, timer, error, suspend_thread_count>>
    /\ UNCHANGED <<call, mp_stray>>

\* rt_mp_free: link the block and resume a thread that waits.  When
\* suspend_thread_count is not zero and the list is empty, the head of the
\* list is written and resumed as if it were a thread; nothing is modelled
\* after that.
Free(t, b) ==
    /\ call[t] = Idle /\ b \in held[t]
    /\ held' = [held EXCEPT ![t] = @ \ {b}]
    /\ block_list' = <<b>> \o block_list
    /\ block_free_count' = block_free_count + 1
    /\ \/ /\ suspend_thread_count = 0
          /\ UNCHANGED <<suspended, timer, error, suspend_thread_count, mp_stray>>
       \/ /\ suspend_thread_count > 0 /\ suspended["pool"] # <<>>
          /\ suspend_thread_count' = suspend_thread_count - 1
          /\ error' = [error EXCEPT ![Head(suspended["pool"])] = "EOK"]
          /\ ResumeFirst("pool")
          /\ UNCHANGED mp_stray
       \/ /\ suspend_thread_count > 0 /\ suspended["pool"] = <<>>
          /\ mp_stray' = TRUE
          /\ UNCHANGED <<suspended, timer, error, suspend_thread_count>>
    /\ UNCHANGED call

PoolNext ==
    \E t \in Thread :
        /\ ~mp_stray
        /\ \/ Alloc(t) \/ AllocAgain(t) \/ AllocFails(t)
           \/ \E b \in Block : Free(t, b)

\* A pool and the threads that use it.
PoolSystem == PoolNext \/ \E t \in Thread : Timeout(t) /\ UNCHANGED poolVars

PoolSpec == WaitingInit /\ PoolInit /\ [][PoolSystem]_<<waitVars, poolVars>>

-----------------------------------------------------------------------------
\* Every block is in the free list or with one thread, and the free counter,
\* on which the loop in rt_mp_alloc decides, is the length of the list.
BlocksConserved ==
    /\ block_free_count = Len(block_list)
    /\ IsInjective(block_list)
    /\ (UNION {held[t] : t \in Thread}) \cup Range(block_list) = Block
    /\ \A t \in Thread : held[t] \cap Range(block_list) = {}
    /\ \A t, u \in Thread : t # u => held[t] \cap held[u] = {}

\* While threads wait for a block, at least as many have been resumed and are
\* about to try again as there are free blocks, whoever takes a block first.
NoBlockStranded ==
    ~mp_stray /\ suspended["pool"] # <<>> => Cardinality(Woken("alloc")) >= block_free_count

\* Both; suspend_thread_count, on which rt_mp_free decides, never misses a
\* thread that waits (it also counts those that gave up); and no thread is in
\* two lists.
PoolInv ==
    /\ WaitingTypeOK /\ OneListEach
    /\ BlocksConserved /\ NoBlockStranded
    /\ suspend_thread_count >= Len(suspended["pool"])
=============================================================================
