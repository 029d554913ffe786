---------------------------- MODULE DriverProofs ----------------------------
(***************************************************************************)
(* The memory pool, the completion, the data queue and the work queue keep *)
(* their promises, for any number of threads, of blocks and of works and   *)
(* any capacity of the queue.  Each service has an invariant of its own on *)
(* top of WaitInv, which PipeProofs has the lemmas about.  The theorems    *)
(* are at the end, those about pipes included: they need the number of     *)
(* threads in a set.                                                       *)
(***************************************************************************)
EXTENDS MemPool, Completion, DataQueue, WorkQueue, PipeProofs

\* Linking an element at the head.
LEMMA ConsLemma ==
    ASSUME NEW S, NEW s \in Seq(S), NEW e \in S
    PROVE  /\ <<e>> \o s \in Seq(S) /\ Len(<<e>> \o s) = Len(s) + 1
           /\ Range(<<e>> \o s) = Range(s) \cup {e}
           /\ IsInjective(s) /\ e \notin Range(s) => IsInjective(<<e>> \o s)
<1> DEFINE r == <<e>> \o s
<1>1. /\ r \in Seq(S) /\ Len(r) = Len(s) + 1 /\ Len(s) \in Nat
      /\ r[1] = e /\ \A i \in 1 .. Len(s) : r[i + 1] = s[i]
  OBVIOUS
<1> HIDE DEF r
<1>2. \A i \in 1 .. Len(s) + 1 : r[i] = IF i = 1 THEN e ELSE s[i - 1]
  <2> TAKE i \in 1 .. Len(s) + 1
  <2>1. CASE i = 1
    BY <1>1, <2>1
  <2>2. CASE i # 1
    <3>1. i - 1 \in 1 .. Len(s) /\ (i - 1) + 1 = i
      BY <1>1, <2>2
    <3> QED
      BY <1>1, <2>2, <3>1
  <2> QED
    BY <2>1, <2>2
<1>3. Range(r) \subseteq Range(s) \cup {e}
  <2> SUFFICES ASSUME NEW i \in 1 .. Len(s) + 1 PROVE r[i] \in Range(s) \cup {e}
    BY <1>1 DEF Range
  <2>1. i = 1 \/ i - 1 \in 1 .. Len(s)
    BY <1>1
  <2> QED
    BY <1>2, <2>1 DEF Range
<1>4. Range(s) \subseteq Range(r) /\ e \in Range(r)
  <2>1. ASSUME NEW i \in 1 .. Len(s) PROVE s[i] \in Range(r)
    <3>1. i + 1 \in DOMAIN r /\ r[i + 1] = s[i]
      BY <1>1
    <3> QED
      BY <3>1, ZenonT(60) DEF Range
  <2>2. e \in Range(r)
    BY <1>1 DEF Range
  <2> QED
    BY <2>1, <2>2 DEF Range
<1>5. ASSUME IsInjective(s), e \notin Range(s) PROVE IsInjective(r)
  <2>1. \A i, j \in 1 .. Len(s) : s[i] = s[j] => i = j
    BY <1>5 DEF IsInjective
  <2>2. \A i \in 1 .. Len(s) : s[i] # e
    BY <1>5 DEF Range
  <2> SUFFICES ASSUME NEW i \in 1 .. Len(s) + 1, NEW j \in 1 .. Len(s) + 1, i < j
               PROVE  r[i] # r[j]
    BY <1>1 DEF IsInjective
  <2> QED
    BY <1>1, <1>2, <2>1, <2>2
<1> QED
  BY <1>1, <1>3, <1>4, <1>5 DEF r

\* Unlinking does not make a list longer.
LEMMA NodeRemoveLen ==
    ASSUME NEW S, NEW s \in Seq(S), NEW e, IsInjective(s)
    PROVE  Len(NodeRemove(s, e)) \in Nat /\ Len(NodeRemove(s, e)) <= Len(s)
<1>1. CASE NodePlaces(s, e) # {}
  <2>1. Min(NodePlaces(s, e)) \in 1 .. Len(s)
    BY <1>1, NodePlace
  <2> QED
    BY <1>1, <2>1 DEF NodeRemove, NodeRemoveAt
<1>2. CASE NodePlaces(s, e) = {}
  BY <1>2 DEF NodeRemove
<1> QED
  BY <1>1, <1>2

-----------------------------------------------------------------------------
(* The services.                                                           *)

\* The completion: at most one thread waits.
CompletionInv == Len(suspended["completion"]) <= 1 /\ NoWaiterWhileDone

\* The pool: where its blocks are, ...
BlocksInv ==
    /\ block_list \in Seq(Block) /\ held \in [Thread -> SUBSET Block]
    /\ block_free_count = Len(block_list) /\ IsInjective(block_list)
    /\ \A b \in Block : b \in Range(block_list) \/ \E t \in Thread : b \in held[t]
    /\ \A t \in Thread : held[t] \cap Range(block_list) = {}
    /\ \A t, u \in Thread : t # u => held[t] \cap held[u] = {}

\* ... and who waits for them.
PoolWaitInv ==
    /\ suspend_thread_count \in Nat /\ suspend_thread_count >= Len(suspended["pool"])
    /\ NoBlockStranded

\* The data queue: what is in it, ...
QueueDataInv ==
    /\ pushed \in Nat /\ queue \in [0 .. Size - 1 -> Nat]
    /\ pushed < IndexMod =>
        /\ put_index = pushed /\ get_index = popped /\ popped \in Nat
        /\ popped <= pushed /\ pushed - popped <= Size
        /\ \A j \in popped .. pushed - 1 : queue[j % Size] = j + 1

\* ... and who waits.
QueueWaitInv ==
    /\ \A l \in {"push", "pop"} : \A t \in Range(suspended[l]) : error[t] = "EOK"
    /\ NoDataStranded

\* A reset is at one of the two lists.
ResetInv == \A t \in Thread : call[t].op = "reset" => call[t].list \in {"push", "pop"}

\* The work queue: nobody waits with a timer.
WorkTimerInv == \A t \in Thread : ~timer[t]

WorkIndInv ==
    /\ work_list \in Seq(Work)
    /\ work_current \in Work \cup {NoWork}
    /\ work_current # NoWork => worker = "run"
    /\ urgent /\ worker = "suspend" => work_list = <<>>
    /\ WorkInv

-----------------------------------------------------------------------------
\* Less than n places apart, two items have different places in a ring of n.
LEMMA ModDiffers ==
    ASSUME NEW n \in Nat \ {0}, NEW a \in Nat, NEW b \in Nat, a < b, b - a < n
    PROVE  a % n # b % n
<1> DEFINE p == a \div n
           q == b \div n
<1>1. p \in Int /\ q \in Int /\ a = n * p + (a % n) /\ b = n * q + (b % n)
  OBVIOUS
<1> HIDE DEF p, q
<1>2. SUFFICES ASSUME a % n = b % n PROVE FALSE
  OBVIOUS
<1>3. b - a = n * (q - p)
  BY <1>1, <1>2
<1>4. q - p \in Int /\ (q - p >= 1 => n * (q - p) >= n) /\ (q - p <= 0 => n * (q - p) <= 0)
  BY <1>1
<1> QED
  BY <1>3, <1>4

\* An item goes in behind the others, ...
LEMMA PushData ==
    ASSUME QueueDataInv, ~QueueFull,
           queue' = [queue EXCEPT ![put_index % Size] = pushed + 1],
           put_index' = (put_index + 1) % IndexMod, pushed' = pushed + 1,
           UNCHANGED <<get_index, popped>>
    PROVE  QueueDataInv' /\ (pushed' < IndexMod => Items' = Items + 1)
<1>1. pushed \in Nat /\ pushed' \in Nat /\ IndexMod \in Nat /\ Size \in Nat \ {0}
  BY DataQueueAssumption DEF QueueDataInv
<1>2. queue' \in [0 .. Size - 1 -> Nat]
  BY <1>1, ZenonT(60) DEF QueueDataInv
<1>3. ASSUME pushed' < IndexMod
      PROVE  /\ put_index' = pushed' /\ get_index' = popped' /\ popped' \in Nat
             /\ popped' <= pushed' /\ pushed' - popped' <= Size
             /\ \A j \in popped' .. pushed' - 1 : queue'[j % Size] = j + 1
             /\ Items' = Items + 1
  <2>1. /\ put_index = pushed /\ get_index = popped /\ popped \in Nat
        /\ popped <= pushed /\ pushed - popped <= Size
        /\ \A j \in popped .. pushed - 1 : queue[j % Size] = j + 1
    BY <1>1, <1>3 DEF QueueDataInv
  <2>2. put_index' = pushed'
    BY <1>1, <1>3, <2>1
  <2>3. pushed - popped < Size
    BY <1>1, <2>1 DEF QueueFull
  <2>4. DOMAIN queue = 0 .. Size - 1 /\ pushed % Size \in 0 .. Size - 1
    BY <1>1 DEF QueueDataInv
  <2>5. ASSUME NEW j \in popped .. pushed - 1 PROVE queue'[j % Size] = j + 1
    <3>1. j \in Nat /\ j < pushed /\ pushed - j < Size
      BY <1>1, <2>1, <2>3
    <3>2. j % Size # pushed % Size
      BY <1>1, <3>1, ModDiffers, ZenonT(60)
    <3>3. j % Size \in 0 .. Size - 1
      BY <1>1, <3>1
    <3> QED
      BY <2>1, <2>4, <3>2, <3>3
  <2>6. queue'[pushed % Size] = pushed + 1
    BY <2>1, <2>4
  <2>7. ASSUME NEW j \in popped' .. pushed' - 1 PROVE queue'[j % Size] = j + 1
    <3>1. j \in popped .. pushed - 1 \/ j = pushed
      BY <1>1, <2>1
    <3> QED
      BY <2>5, <2>6, <3>1, ZenonT(60)
  <2>8. /\ get_index' = popped' /\ popped' \in Nat /\ popped' <= pushed'
        /\ pushed' - popped' <= Size /\ Items' = Items + 1
    BY <1>1, <2>1, <2>2, <2>3 DEF Items
  <2> QED
    BY <2>2, <2>7, <2>8
<1> QED
  BY <1>1, <1>2, <1>3 DEF QueueDataInv

\* ... and comes out first.
LEMMA PopData ==
    ASSUME QueueDataInv, ~QueueEmpty,
           popped' = queue[get_index % Size], get_index' = (get_index + 1) % IndexMod,
           UNCHANGED <<put_index, queue, pushed>>
    PROVE  QueueDataInv' /\ (pushed < IndexMod => Items' = Items - 1)
<1>1. pushed \in Nat /\ IndexMod \in Nat
  BY DataQueueAssumption DEF QueueDataInv
<1>2. ASSUME pushed < IndexMod
      PROVE  /\ put_index' = pushed' /\ get_index' = popped' /\ popped' = popped + 1
             /\ popped \in Nat /\ popped' <= pushed /\ pushed - popped <= Size
             /\ Items' = Items - 1
             /\ \A j \in popped .. pushed - 1 : queue[j % Size] = j + 1
  <2>1. /\ put_index = pushed /\ get_index = popped /\ popped \in Nat
        /\ popped <= pushed /\ pushed - popped <= Size
        /\ \A j \in popped .. pushed - 1 : queue[j % Size] = j + 1
    BY <1>2 DEF QueueDataInv
  <2>2. popped < pushed
    BY <1>1, <2>1 DEF QueueEmpty
  <2>3. popped' = popped + 1 /\ get_index' = popped + 1
    BY <1>1, <1>2, <2>1, <2>2
  <2> QED
    BY <1>1, <2>1, <2>2, <2>3 DEF Items
<1>3. ASSUME pushed < IndexMod
      PROVE  \A j \in popped' .. pushed' - 1 : queue'[j % Size] = j + 1
  <2>1. \A j \in popped' .. pushed - 1 : j \in popped .. pushed - 1
    BY <1>1, <1>2, <1>3
  <2> QED
    BY <1>2, <1>3, <2>1, ZenonT(60)
<1>4. ASSUME pushed < IndexMod
      PROVE  /\ put_index' = pushed' /\ get_index' = popped' /\ popped' \in Nat
             /\ popped' <= pushed' /\ pushed' - popped' <= Size
  BY <1>1, <1>2, <1>4, DataQueueAssumption
<1>5. Items' = Items - 1 \/ ~(pushed < IndexMod)
  BY <1>2
<1> QED
  BY <1>1, <1>3, <1>4, <1>5, ZenonT(60) DEF QueueDataInv

\* How many items there are.
LEMMA ItemsRange ==
    ASSUME QueueDataInv, pushed < IndexMod PROVE Items \in 0 .. Size
  BY DataQueueAssumption DEF QueueDataInv, Items

\* The two lists of a data queue.
LEMMA QueueLists ==
    /\ "push" \in Lists /\ WaitOp("push") = "push"
    /\ "pop" \in Lists /\ WaitOp("pop") = "pop"
    /\ "push" # "pop"
  BY WaitOpLemma DEF Lists

\* rt_data_queue_push finds room.
LEMMA PushItemStep ==
    ASSUME Counting, WaitInv, QueueDataInv, QueueWaitInv, ~dq_stray,
           NEW t \in Thread, ~Waits(t), call[t].op # "pop", PushItem(t)
    PROVE  WaitInv' /\ QueueDataInv' /\ QueueWaitInv'
<1>1. /\ call' = [call EXCEPT ![t] = Idle] /\ error' = error /\ pushed' = pushed + 1
      /\ \A u \in Thread : u # t => call'[u] = call[u]
  BY DEF PushItem, Finish, WaitInv
<1>2. QueueDataInv' /\ (pushed' < IndexMod => Items' = Items + 1)
  BY PushData DEF PushItem
<1>3. ASSUME pushed' < IndexMod PROVE pushed < IndexMod /\ Items \in Nat
  <2>1. pushed < IndexMod
    BY <1>1, <1>3, DataQueueAssumption DEF QueueDataInv
  <2> QED
    BY <2>1, ItemsRange, DataQueueAssumption
<1>4. t \notin Woken("pop")
  BY NotWoken
<1>5. CASE suspended["pop"] # <<>>
  <2> DEFINE h == Head(suspended["pop"])
  <2>1. ResumeFirst("pop")
    BY <1>5 DEF PushItem
  <2>2. WaitInv'
    BY <1>1, <1>5, <2>1, QueueLists, ResumeStep, ZenonT(60) DEF WaitInv
  <2>3. /\ h \in Range(suspended["pop"]) /\ h # t /\ error[h] = "EOK"
        /\ Range(Tail(suspended["pop"])) = Range(suspended["pop"]) \ {h}
    BY <1>5, QueueLists, FirstWaiter DEF Waits, QueueWaitInv
  <2>4. suspended'["pop"] = Tail(suspended["pop"]) /\ suspended'["push"] = suspended["push"]
    BY <2>1, QueueLists DEF ResumeFirst, WaitInv
  <2> HIDE DEF h
  <2>5. /\ Cardinality(Woken("pop")) \in Nat /\ Cardinality(Woken("pop")') \in Nat
        /\ Cardinality(Woken("pop")') >= Cardinality(Woken("pop")) + 1
    BY <1>1, <1>4, <2>2, <2>3, <2>4, QueueLists, WokenGrows, ZenonT(60)
  <2>6. /\ Cardinality(Woken("push")) \in Nat /\ Cardinality(Woken("push")') \in Nat
        /\ Cardinality(Woken("push")') >= Cardinality(Woken("push")) - 1
    BY <1>1, <2>2, <2>4, QueueLists, WokenStep
  <2>7. \A l \in {"push", "pop"} : \A u \in Range(suspended'[l]) : error'[u] = "EOK"
    BY <1>1, <2>3, <2>4 DEF QueueWaitInv
  <2>8. ASSUME pushed' < IndexMod
        PROVE  /\ Cardinality(Woken("pop")') >= Items'
               /\ suspended["push"] # <<>> => Items' + Cardinality(Woken("push")') > Lwm
    BY <1>2, <1>3, <1>5, <2>5, <2>6, <2>8, DataQueueAssumption DEF QueueWaitInv, NoDataStranded
  <2> QED
    BY <1>2, <2>2, <2>4, <2>7, <2>8 DEF QueueWaitInv, NoDataStranded
<1>6. CASE suspended["pop"] = <<>>
  <2>1. UNCHANGED <<suspended, timer>>
    BY <1>6 DEF PushItem
  <2>2. WaitInv'
    BY <1>1, <2>1, RunStep, ZenonT(60)
  <2>3. /\ Cardinality(Woken("push")) \in Nat /\ Cardinality(Woken("push")') \in Nat
        /\ Cardinality(Woken("push")') >= Cardinality(Woken("push")) - 1
    BY <1>1, <2>1, <2>2, QueueLists, WokenStep
  <2>4. ASSUME pushed' < IndexMod, suspended["push"] # <<>>
        PROVE  Items' + Cardinality(Woken("push")') > Lwm
    BY <1>2, <1>3, <2>3, <2>4, DataQueueAssumption DEF QueueWaitInv, NoDataStranded
  <2> QED
    BY <1>1, <1>2, <1>6, <2>1, <2>2, <2>4 DEF QueueWaitInv, NoDataStranded
<1> QED
  BY <1>5, <1>6

\* rt_data_queue_pop finds an item.
LEMMA PopItemStep ==
    ASSUME Counting, WaitInv, QueueDataInv, QueueWaitInv, ~dq_stray,
           NEW t \in Thread, ~Waits(t), call[t].op # "push", PopItem(t)
    PROVE  WaitInv' /\ QueueDataInv' /\ QueueWaitInv'
<1>1. /\ call' = [call EXCEPT ![t] = Idle] /\ error' = error /\ pushed' = pushed
      /\ \A u \in Thread : u # t => call'[u] = call[u]
  BY DEF PopItem, Finish, WaitInv
<1>2. QueueDataInv' /\ (pushed < IndexMod => Items' = Items - 1)
  BY PopData DEF PopItem
<1>3. ASSUME pushed < IndexMod PROVE Items \in Nat /\ Items' \in Int
  <2>1. Items \in Nat
    BY <1>3, ItemsRange, DataQueueAssumption
  <2> QED
    BY <1>2, <1>3, <2>1
<1>4. t \notin Woken("push")
  BY NotWoken
<1>5. CASE put_index - get_index' <= Lwm /\ suspended["push"] # <<>>
  <2> DEFINE h == Head(suspended["push"])
  <2>1. ResumeFirst("push")
    BY <1>5 DEF PopItem
  <2>2. WaitInv'
    BY <1>1, <1>5, <2>1, QueueLists, ResumeStep, ZenonT(60) DEF WaitInv
  <2>3. /\ h \in Range(suspended["push"]) /\ h # t /\ error[h] = "EOK"
        /\ Range(Tail(suspended["push"])) = Range(suspended["push"]) \ {h}
    BY <1>5, QueueLists, FirstWaiter DEF Waits, QueueWaitInv
  <2>4. suspended'["push"] = Tail(suspended["push"]) /\ suspended'["pop"] = suspended["pop"]
    BY <2>1, QueueLists DEF ResumeFirst, WaitInv
  <2> HIDE DEF h
  <2>5. /\ Cardinality(Woken("push")) \in Nat /\ Cardinality(Woken("push")') \in Nat
        /\ Cardinality(Woken("push")') >= Cardinality(Woken("push")) + 1
    BY <1>1, <1>4, <2>2, <2>3, <2>4, QueueLists, WokenGrows
  <2>6. /\ Cardinality(Woken("pop")) \in Nat /\ Cardinality(Woken("pop")') \in Nat
        /\ Cardinality(Woken("pop")') >= Cardinality(Woken("pop")) - 1
    BY <1>1, <2>2, <2>4, QueueLists, WokenStep
  <2>7. \A l \in {"push", "pop"} : \A u \in Range(suspended'[l]) : error'[u] = "EOK"
    BY <1>1, <2>3, <2>4 DEF QueueWaitInv
  <2>8. ASSUME pushed < IndexMod
        PROVE  /\ Items' + Cardinality(Woken("push")') > Lwm
               /\ suspended["pop"] # <<>> => Cardinality(Woken("pop")') >= Items'
    <3>1. /\ Items + Cardinality(Woken("push")) > Lwm
          /\ suspended["pop"] # <<>> => Cardinality(Woken("pop")) >= Items
      BY <1>5, <2>8 DEF QueueWaitInv, NoDataStranded
    <3>2. Items \in Nat /\ Items' = Items - 1 /\ Lwm \in Nat
      BY <1>2, <1>3, <2>8, DataQueueAssumption
    <3> QED
      BY <2>5, <2>6, <3>1, <3>2
  <2> QED
    BY <1>1, <1>2, <2>2, <2>4, <2>7, <2>8 DEF QueueWaitInv, NoDataStranded
<1>6. CASE ~(put_index - get_index' <= Lwm /\ suspended["push"] # <<>>)
  <2>1. UNCHANGED <<suspended, timer>> /\ put_index' = put_index
    BY <1>6 DEF PopItem
  <2>2. WaitInv'
    BY <1>1, <2>1, RunStep, ZenonT(60)
  <2>3. /\ Cardinality(Woken("pop")) \in Nat /\ Cardinality(Woken("pop")') \in Nat
        /\ Cardinality(Woken("pop")') >= Cardinality(Woken("pop")) - 1
    BY <1>1, <2>1, <2>2, QueueLists, WokenStep
  <2>4. Cardinality(Woken("push")') \in Nat
    BY <1>1, <2>1, <2>2, QueueLists, WokenStep
  <2>5. ASSUME pushed < IndexMod, suspended["push"] # <<>>
        PROVE  Items' + Cardinality(Woken("push")') > Lwm
    <3>1. Items' = put_index - get_index'
      BY <2>1 DEF Items
    <3>2. ~(Items' <= Lwm)
      BY <1>6, <2>5, <3>1
    <3> QED
      BY <1>3, <2>4, <2>5, <3>2, DataQueueAssumption
  <2>6. ASSUME pushed < IndexMod, suspended["pop"] # <<>>
        PROVE  Cardinality(Woken("pop")') >= Items'
    <3>1. Cardinality(Woken("pop")) >= Items
      BY <2>6 DEF QueueWaitInv, NoDataStranded
    <3> QED
      BY <1>2, <1>3, <2>3, <2>6, <3>1
  <2> QED
    BY <1>1, <1>2, <2>1, <2>2, <2>5, <2>6 DEF QueueWaitInv, NoDataStranded
<1> QED
  BY <1>5, <1>6

\* A thread waits in list l of a data queue: a pusher when the queue is full, a
\* popper when it is empty.
LEMMA QueueSuspendStep ==
    ASSUME Counting, WaitInv, QueueDataInv, QueueWaitInv, 
           NEW t \in Thread, ~Waits(t), NEW time, NEW l \in {"push", "pop"},
           SuspendOn(t, l, Append(suspended[l], t), time),
           call' = [call EXCEPT ![t] = [op |-> l, time |-> time]],
           UNCHANGED queueVars, call[t].op \in {"none", l},
           l = "push" => QueueFull, l = "pop" => QueueEmpty
    PROVE  WaitInv' /\ QueueDataInv' /\ QueueWaitInv'
<1>1. l \in Lists /\ WaitOp(l) = l
  BY QueueLists
<1>2. /\ IsQueue(Append(suspended[l], t))
      /\ Range(Append(suspended[l], t)) = Range(suspended[l]) \cup {t}
  BY <1>1, AppendLemma DEF WaitInv, IsQueue, Waits
<1>3. WaitInv'
  BY <1>1, <1>2, SuspendStep, ZenonT(60)
<1>4. QueueDataInv' /\ Items' = Items /\ UNCHANGED <<pushed, dq_stray>>
  BY DEF queueVars, QueueDataInv, Items
<1>5. /\ \A u \in Thread : u # t => call'[u] = call[u] /\ error'[u] = error[u]
      /\ error'[t] = "EOK"
      /\ suspended'[l] = Append(suspended[l], t)
      /\ \A m \in {"push", "pop"} : m # l => suspended'[m] = suspended[m]
  BY <1>1, QueueLists DEF SuspendOn, WaitInv
<1>6. ASSUME NEW m \in {"push", "pop"}, NEW u \in Range(suspended'[m]) PROVE error'[u] = "EOK"
  <2>1. u = t \/ u \in Range(suspended[m])
    BY <1>2, <1>5, ZenonT(60)
  <2>2. u \in Thread
    <3>1. m \in Lists
      BY QueueLists
    <3> QED
      BY <2>1, <3>1, RangeSubset DEF WaitInv, IsQueue
  <2> QED
    BY <1>5, <2>1, <2>2, ZenonT(60) DEF QueueWaitInv
<1>7. ASSUME NEW m \in {"push", "pop"}
      PROVE  /\ Cardinality(Woken(m)) \in Nat /\ Cardinality(Woken(m)') \in Nat
             /\ m # l => Cardinality(Woken(m)') >= Cardinality(Woken(m))
  <2>1. m \in Lists /\ m = WaitOp(m)
    BY QueueLists
  <2>2. Range(suspended'[m]) \subseteq Range(suspended[m]) \cup {t}
    BY <1>2, <1>5, ZenonT(60)
  <2>3. m # l => t \notin Woken(m)
    BY NotWoken
  <2> QED
    BY <1>3, <1>5, <2>1, <2>2, <2>3, WokenStep, ZenonT(60)
<1>8. CASE l = "push"
  <2>1. Items = Size
    BY <1>8 DEF QueueFull, Items
  <2>2. Items' + Cardinality(Woken("push")') > Lwm
    BY <1>4, <1>7, <2>1, DataQueueAssumption
  <2>3. ASSUME ~dq_stray, pushed < IndexMod, suspended["pop"] # <<>>
        PROVE  Cardinality(Woken("pop")') >= Items'
    <3>1. Cardinality(Woken("pop")) >= Items
      BY <2>3, ZenonT(60) DEF QueueWaitInv, NoDataStranded
    <3> QED
      BY <1>4, <1>7, <1>8, <2>1, <3>1, DataQueueAssumption
  <2>4. suspended'["pop"] = suspended["pop"]
    BY <1>5, <1>8
  <2> QED
    BY <1>3, <1>4, <1>6, <2>2, <2>3, <2>4, ZenonT(60) DEF QueueWaitInv, NoDataStranded
<1>9. CASE l = "pop"
  <2>1. ASSUME pushed < IndexMod PROVE Items = 0
    BY <1>9, <2>1 DEF QueueEmpty, Items, QueueDataInv
  <2>2. ASSUME pushed < IndexMod PROVE Cardinality(Woken("pop")') >= Items'
    BY <1>4, <1>7, <2>1, <2>2
  <2>3. ASSUME ~dq_stray, pushed < IndexMod, suspended["push"] # <<>>
        PROVE  Items' + Cardinality(Woken("push")') > Lwm
    <3>1. Items + Cardinality(Woken("push")) > Lwm
      BY <2>3 DEF QueueWaitInv, NoDataStranded
    <3> QED
      BY <1>4, <1>7, <1>9, <2>1, <2>3, <3>1, DataQueueAssumption
  <2>4. suspended'["push"] = suspended["push"]
    BY <1>5, <1>9
  <2> QED
    BY <1>3, <1>4, <1>6, <2>2, <2>3, <2>4 DEF QueueWaitInv, NoDataStranded
<1> QED
  BY <1>8, <1>9

\* A step that leaves the items alone and loses no thread on its way to try again.
LEMMA QueueWaitKept ==
    ASSUME QueueWaitInv, Items' = Items, UNCHANGED <<pushed, dq_stray>>,
           pushed < IndexMod => Items \in Nat,
           \A m \in {"push", "pop"} :
              /\ \A u \in Range(suspended'[m]) : error'[u] = "EOK"
              /\ suspended'[m] # <<>> => suspended[m] # <<>>
              /\ Cardinality(Woken(m)) \in Nat /\ Cardinality(Woken(m)') \in Nat
              /\ Cardinality(Woken(m)') >= Cardinality(Woken(m))
    PROVE  QueueWaitInv'
<1> SUFFICES ASSUME ~dq_stray, pushed < IndexMod
             PROVE  /\ suspended'["pop"] # <<>> => Cardinality(Woken("pop")') >= Items
                    /\ suspended'["push"] # <<>> => Items + Cardinality(Woken("push")') > Lwm
  BY DEF QueueWaitInv, NoDataStranded
<1>1. /\ suspended'["pop"] # <<>> => Cardinality(Woken("pop")) >= Items
      /\ suspended'["push"] # <<>> => Items + Cardinality(Woken("push")) > Lwm
  BY DEF QueueWaitInv, NoDataStranded
<1> QED
  BY <1>1, DataQueueAssumption

\* Steps that leave the queue and its lists alone, by a thread that is not on its
\* way to try again.
LEMMA QueueRunStep ==
    ASSUME Counting, WaitInv, QueueDataInv, QueueWaitInv, 
           NEW t \in Thread, ~Waits(t), NEW c, call' = [call EXCEPT ![t] = c],
           UNCHANGED <<suspended, timer, error, queueVars>>,
           t \notin Woken("push"), t \notin Woken("pop")
    PROVE  WaitInv' /\ QueueDataInv' /\ QueueWaitInv'
<1>1. WaitInv'
  BY RunStep, ZenonT(60)
<1>2. QueueDataInv' /\ Items' = Items /\ UNCHANGED <<pushed, dq_stray>>
  BY DEF queueVars, QueueDataInv, Items
<1>3. \A u \in Thread : u # t => call'[u] = call[u]
  BY DEF WaitInv
<1>4. ASSUME NEW m \in {"push", "pop"}
      PROVE  /\ Cardinality(Woken(m)) \in Nat /\ Cardinality(Woken(m)') \in Nat
             /\ Cardinality(Woken(m)') >= Cardinality(Woken(m))
  <2>1. m \in Lists /\ m = WaitOp(m) /\ t \notin Woken(m)
    BY QueueLists
  <2> QED
    BY <1>1, <1>3, <2>1, WokenStep
<1>5. ASSUME pushed < IndexMod PROVE Items \in Nat
  BY <1>5, ItemsRange, DataQueueAssumption
<1>6. \A m \in {"push", "pop"} : \A u \in Range(suspended'[m]) : error'[u] = "EOK"
  BY DEF QueueWaitInv
<1> QED
  BY <1>1, <1>2, <1>4, <1>5, <1>6, QueueWaitKept, ZenonT(60)

\* rt_data_queue_reset resumes the first thread of a list, with an error.
LEMMA ResetWakeStep ==
    ASSUME Counting, WaitInv, QueueDataInv, QueueWaitInv, 
           NEW t \in Thread, NEW l \in {"push", "pop"}, call[t].list = l, ResetWake(t)
    PROVE  WaitInv' /\ QueueDataInv' /\ QueueWaitInv'
<1>1. ~Waits(t) /\ call[t].op = "reset"
  BY DEF ResetWake, At
<1>2. CASE suspended[l] # <<>>
  <2> DEFINE h == Head(suspended[l])
  <2>1. /\ error' = [error EXCEPT ![h] = "ERROR"] /\ ResumeFirst(l)
        /\ call' = [call EXCEPT ![t] = Resetting(l, "test")]
        /\ UNCHANGED queueVars
    BY <1>2 DEF ResetWake, Enter
  <2>2. l \in Lists /\ h \in Thread /\ h \in Range(suspended[l])
        /\ Range(Tail(suspended[l])) = Range(suspended[l]) \ {h}
    BY <1>2, QueueLists, FirstWaiter, ZenonT(60)
  <2>3. /\ error' \in [Thread -> {"EOK", "ETIMEOUT", "ERROR"}]
        /\ \A u \in Thread : u # h => error'[u] = error[u]
    BY <2>1, <2>2 DEF WaitInv
  <2>4. WaitInv'
    BY <1>1, <1>2, <2>1, <2>2, <2>3, ResumeStep, ZenonT(60)
  <2>5. /\ suspended'[l] = Tail(suspended[l])
        /\ \A m \in {"push", "pop"} : m # l => suspended'[m] = suspended[m]
    BY <2>1, <2>2, QueueLists DEF ResumeFirst, WaitInv
  <2>6. \A u \in Thread : u # t => call'[u] = call[u]
    BY <2>1 DEF WaitInv
  <2> HIDE DEF h
  <2>7. /\ QueueDataInv' /\ Items' = Items /\ UNCHANGED <<pushed, dq_stray>>
        /\ \A u \in Thread : ~Waits(u) => error'[u] = error[u]
    BY <2>1, <2>2, <2>3 DEF queueVars, QueueDataInv, Items, Waits
  <2>8. ASSUME NEW m \in {"push", "pop"}
        PROVE  /\ Cardinality(Woken(m)) \in Nat /\ Cardinality(Woken(m)') \in Nat
               /\ Cardinality(Woken(m)') >= Cardinality(Woken(m))
               /\ suspended'[m] # <<>> => suspended[m] # <<>>
               /\ Range(suspended'[m]) \subseteq Range(suspended[m]) \ {h}
    <3>1. m \in Lists /\ m = WaitOp(m) /\ t \notin Woken(m)
      BY <1>1, QueueLists, NotWoken
    <3>2. Range(suspended'[m]) \subseteq Range(suspended[m]) \ {h}
      <4>1. CASE m = l
        BY <2>2, <2>5, <4>1
      <4>2. CASE m # l
        <5>1. call[h].op = l
          BY <2>2, QueueLists DEF WaitInv
        <5>2. h \notin Range(suspended[m])
          BY <3>1, <4>2, <5>1 DEF WaitInv
        <5> QED
          BY <2>5, <4>2, <5>2
      <4> QED
        BY <4>1, <4>2
    <3>3. /\ Cardinality(Woken(m)) \in Nat /\ Cardinality(Woken(m)') \in Nat
          /\ Cardinality(Woken(m)') >= Cardinality(Woken(m))
      BY <2>4, <2>6, <2>7, <3>1, <3>2, WokenStep, ZenonT(60)
    <3>4. suspended'[m] # <<>> => suspended[m] # <<>>
      BY <1>2, <2>5
    <3> QED
      BY <3>2, <3>3, <3>4, ZenonT(60)
  <2>9. ASSUME NEW m \in {"push", "pop"}, NEW u \in Range(suspended'[m]) PROVE error'[u] = "EOK"
    <3>1. u \in Thread
      BY <2>4, QueueLists, RangeSubset DEF WaitInv, IsQueue
    <3> QED
      BY <2>3, <2>8, <3>1, ZenonT(60) DEF QueueWaitInv
  <2>10. ASSUME pushed < IndexMod PROVE Items \in Nat
    BY <2>10, ItemsRange, DataQueueAssumption
  <2> QED
    BY <2>4, <2>7, <2>8, <2>9, <2>10, QueueWaitKept, ZenonT(60)
<1>3. CASE suspended[l] = <<>>
  <2>1. dq_stray' /\ UNCHANGED <<waitVars, put_index, get_index, queue, pushed, popped>>
    BY <1>3 DEF ResetWake
  <2>2. WaitInv'
    BY <1>1, <2>1, RunStep DEF waitVars
  <2> QED
    BY <2>1, <2>2 DEF waitVars, QueueDataInv, QueueWaitInv, NoDataStranded
<1> QED
  BY <1>2, <1>3

\* rt_data_queue_reset goes from the list of the poppers to that of the pushers.
LEMMA ResetStep ==
    ASSUME DOMAIN call = Thread, ResetInv, QueueNext
    PROVE  DOMAIN call' = Thread /\ ResetInv'
<1>1. PICK t \in Thread :
        \/ Push(t) \/ PushAgain(t) \/ Pop(t) \/ PopAgain(t) \/ QueueFails(t)
        \/ ResetBegin(t) \/ Handler(t) \/ ResetTest(t) \/ ResetWake(t)
  BY DEF QueueNext
<1>2. ASSUME NEW c, call' = [call EXCEPT ![t] = c],
             c.op = "reset" => c.list \in {"push", "pop"}
      PROVE  DOMAIN call' = Thread /\ ResetInv'
  BY <1>2 DEF ResetInv
<1>3. Idle.op # "reset"
  BY DEF Idle
<1>4. CASE PushItem(t) \/ PopItem(t) \/ QueueFails(t)
  BY <1>2, <1>3, <1>4, ZenonT(60) DEF PushItem, PopItem, QueueFails, Finish
<1>5. ASSUME NEW time, PushFull(t, time) \/ PopEmpty(t, time)
      PROVE  DOMAIN call' = Thread /\ ResetInv'
  BY <1>2, <1>5, ZenonT(60) DEF PushFull, PopEmpty, Enter
<1>6. CASE ResetBegin(t)
  BY <1>2, <1>6, ZenonT(60) DEF ResetBegin, Resetting, Enter
<1>7. CASE ResetTest(t) \/ ResetWake(t)
  <2>1. call[t].list \in {"push", "pop"}
    BY <1>7, ZenonT(60) DEF ResetTest, ResetWake, At, ResetInv
  <2>2. CASE call' = call
    BY <2>2 DEF ResetInv
  <2>3. CASE Finish(t)
    BY <1>2, <1>3, <2>3, ZenonT(60) DEF Finish
  <2>4. ASSUME NEW step, NEW l \in {"push", "pop"}, Enter(t, Resetting(l, step))
        PROVE  DOMAIN call' = Thread /\ ResetInv'
    BY <1>2, <2>4, ZenonT(60) DEF Enter, Resetting
  <2> QED
    BY <1>7, <2>1, <2>2, <2>3, <2>4 DEF ResetTest, ResetWake, waitVars
<1> QED
  BY <1>1, <1>4, <1>5, <1>6, <1>7 DEF Push, Pop, PushAgain, PopAgain, Handler

\* A step of a data queue.
LEMMA QueueStep ==
    ASSUME Counting, WaitInv, QueueDataInv, QueueWaitInv, ResetInv, QueueNext
    PROVE  WaitInv' /\ QueueDataInv' /\ QueueWaitInv' /\ ResetInv'
<1> DEFINE Kept == WaitInv' /\ QueueDataInv' /\ QueueWaitInv'
<1>1. PICK t \in Thread :
        \/ Push(t) \/ PushAgain(t) \/ Pop(t) \/ PopAgain(t) \/ QueueFails(t)
        \/ ResetBegin(t) \/ Handler(t) \/ ResetTest(t) \/ ResetWake(t)
  BY DEF QueueNext
<1>2. ~dq_stray
  BY DEF QueueNext
<1>3. ResetInv'
  BY ResetStep DEF WaitInv
<1>4. Idle.op = "none"
  BY DEF Idle
<1>5. ASSUME PushItem(t), ~Waits(t), call[t].op # "pop" PROVE Kept
  BY <1>2, <1>5, PushItemStep
<1>6. ASSUME PopItem(t), ~Waits(t), call[t].op # "push" PROVE Kept
  BY <1>2, <1>6, PopItemStep
<1>7. ASSUME NEW time, PushFull(t, time), ~Waits(t), call[t].op \in {"none", "push"} PROVE Kept
  BY <1>7, QueueSuspendStep, ZenonT(60) DEF PushFull, Enter
<1>8. ASSUME NEW time, PopEmpty(t, time), ~Waits(t), call[t].op \in {"none", "pop"} PROVE Kept
  BY <1>8, QueueSuspendStep, ZenonT(60) DEF PopEmpty, Enter
<1>9. CASE Push(t) \/ Pop(t) \/ Handler(t)
  <2>1. ~Waits(t) /\ call[t].op = "none"
    BY <1>4, <1>9, IdleRuns DEF Push, Pop, Handler
  <2> QED
    BY <1>3, <1>5, <1>6, <1>7, <1>8, <1>9, <2>1 DEF Push, Pop, Handler
<1>10. CASE PushAgain(t) \/ PopAgain(t)
  BY <1>3, <1>5, <1>6, <1>7, <1>8, <1>10 DEF PushAgain, PopAgain, At
<1>11. CASE QueueFails(t)
  <2>1. /\ ~Waits(t) /\ call' = [call EXCEPT ![t] = Idle]
        /\ t \notin Woken("push") /\ t \notin Woken("pop")
        /\ UNCHANGED <<suspended, timer, error, queueVars>>
    BY <1>11 DEF QueueFails, At, Finish, Woken
  <2> QED
    BY <1>3, <2>1, QueueRunStep, ZenonT(60)
<1>12. CASE ResetBegin(t)
  <2>1. /\ ~Waits(t) /\ call' = [call EXCEPT ![t] = Resetting("pop", "test")]
        /\ t \notin Woken("push") /\ t \notin Woken("pop")
        /\ UNCHANGED <<suspended, timer, error, queueVars>>
    BY <1>4, <1>12, IdleRuns, NotWoken DEF ResetBegin, Enter
  <2> QED
    BY <1>3, <2>1, QueueRunStep, ZenonT(60)
<1>13. CASE ResetTest(t)
  <2>1. /\ ~Waits(t) /\ call[t].op = "reset"
        /\ UNCHANGED <<suspended, timer, error, queueVars>>
        /\ \E c : call' = [call EXCEPT ![t] = c]
    BY <1>13 DEF ResetTest, At, Enter, Finish
  <2>2. t \notin Woken("push") /\ t \notin Woken("pop")
    BY <2>1, NotWoken
  <2> QED
    BY <1>3, <2>1, <2>2, QueueRunStep, ZenonT(60)
<1>14. CASE ResetWake(t)
  <2>1. call[t].list \in {"push", "pop"}
    BY <1>14, ZenonT(60) DEF ResetWake, At, ResetInv
  <2> QED
    BY <1>3, <1>14, <2>1, ResetWakeStep
<1> QED
  BY <1>1, <1>9, <1>10, <1>11, <1>12, <1>13, <1>14

\* A time-out in a data queue.
LEMMA QueueTimeout ==
    ASSUME Counting, WaitInv, QueueDataInv, QueueWaitInv, ResetInv, UNCHANGED queueVars,
           NEW t \in Thread, Timeout(t)
    PROVE  QueueDataInv' /\ QueueWaitInv' /\ ResetInv'
<1>1. /\ WaitInv' /\ Waits(t)
      /\ \A l \in Lists : Range(suspended'[l]) = Range(suspended[l]) \ {t}
      /\ \A l \in Lists : suspended[l] = <<>> => suspended'[l] = <<>>
  BY TimeoutStep
<1>2. call' = call /\ \A u \in Thread : u # t => error'[u] = error[u]
  BY DEF WaitInv, Timeout
<1>3. QueueDataInv' /\ ResetInv' /\ Items' = Items /\ UNCHANGED <<pushed, dq_stray>>
  BY <1>2 DEF queueVars, QueueDataInv, ResetInv, Items
<1>4. ASSUME NEW m \in {"push", "pop"}
      PROVE  /\ Cardinality(Woken(m)) \in Nat /\ Cardinality(Woken(m)') \in Nat
             /\ Cardinality(Woken(m)') >= Cardinality(Woken(m))
             /\ suspended[m] = <<>> => suspended'[m] = <<>>
             /\ \A u \in Range(suspended'[m]) : error'[u] = "EOK"
  <2>1. m \in Lists /\ m = WaitOp(m) /\ t \notin Woken(m)
    BY <1>1, QueueLists, ZenonT(60) DEF Woken, At
  <2>2. Range(suspended[m]) \subseteq Thread
    BY <2>1, RangeSubset DEF WaitInv, IsQueue
  <2>3. \A u \in Range(suspended'[m]) : error'[u] = "EOK"
    BY <1>1, <1>2, <2>1, <2>2, ZenonT(60) DEF QueueWaitInv
  <2>4. /\ Cardinality(Woken(m)) \in Nat /\ Cardinality(Woken(m)') \in Nat
        /\ Cardinality(Woken(m)') >= Cardinality(Woken(m))
    BY <1>1, <1>2, <2>1, WokenStep, ZenonT(60)
  <2> QED
    BY <1>1, <2>1, <2>3, <2>4, ZenonT(60)
<1>5. ASSUME pushed < IndexMod PROVE Items \in Nat
  BY <1>5, ItemsRange, DataQueueAssumption
<1> QED
  BY <1>3, <1>4, <1>5, DataQueueAssumption DEF QueueWaitInv, NoDataStranded

-----------------------------------------------------------------------------
\* A thread takes the first block.
LEMMA TakeBlock ==
    ASSUME BlocksInv, NEW t \in Thread, block_free_count > 0,
           block_free_count' = block_free_count - 1, block_list' = Tail(block_list),
           held' = [held EXCEPT ![t] = @ \cup {Head(block_list)}]
    PROVE  BlocksInv'
<1> DEFINE b == Head(block_list)
<1>1. block_list \in Seq(Block) /\ block_list # <<>> /\ IsInjective(block_list)
  BY DEF BlocksInv
<1>2. /\ b \in Block /\ b \in Range(block_list)
      /\ block_list' \in Seq(Block) /\ IsInjective(block_list')
      /\ Len(block_list') = Len(block_list) - 1
      /\ Range(block_list') = Range(block_list) \ {b}
  BY <1>1, HeadInRange, TailLemma
<1>3. held'[t] = held[t] \cup {b} /\ \A u \in Thread : u # t => held'[u] = held[u]
  BY DEF BlocksInv
<1> HIDE DEF b
<1>4. held' \in [Thread -> SUBSET Block]
  BY <1>2 DEF BlocksInv, b
<1>5. ASSUME NEW c \in Block
      PROVE  c \in Range(block_list') \/ \E u \in Thread : c \in held'[u]
  <2>1. CASE c = b
    <3>1. c \in held'[t]
      BY <1>3, <2>1, ZenonT(60)
    <3> QED
      BY <3>1
  <2>2. CASE c # b
    BY <1>2, <1>3, <2>2 DEF BlocksInv
  <2> QED
    BY <2>1, <2>2
<1>6. \A u \in Thread : held'[u] \cap Range(block_list') = {}
  BY <1>2, <1>3 DEF BlocksInv
<1>7. \A u, v \in Thread : u # v => held'[u] \cap held'[v] = {}
  <2> SUFFICES ASSUME NEW u \in Thread, NEW v \in Thread, u # v, v # t
               PROVE  held'[u] \cap held'[v] = {}
    OBVIOUS
  <2>1. held'[v] = held[v] /\ b \notin held[v] /\ held[u] \cap held[v] = {}
    BY <1>2, <1>3 DEF BlocksInv
  <2> QED
    BY <1>3, <2>1, ZenonT(60)
<1>8. block_free_count' = Len(block_list')
  BY <1>1, <1>2 DEF BlocksInv
<1> QED
  BY <1>2, <1>4, <1>5, <1>6, <1>7, <1>8 DEF BlocksInv

\* A thread gives a block back.
LEMMA GiveBlock ==
    ASSUME BlocksInv, NEW t \in Thread, NEW b \in held[t],
           block_free_count' = block_free_count + 1, block_list' = <<b>> \o block_list,
           held' = [held EXCEPT ![t] = @ \ {b}]
    PROVE  BlocksInv'
<1>1. /\ block_list \in Seq(Block) /\ IsInjective(block_list)
      /\ b \in Block /\ b \notin Range(block_list)
  BY DEF BlocksInv
<1>2. /\ block_list' \in Seq(Block) /\ IsInjective(block_list')
      /\ Len(block_list') = Len(block_list) + 1
      /\ Range(block_list') = Range(block_list) \cup {b}
  BY <1>1, ConsLemma
<1>3. \A u \in Thread : held'[u] = IF u = t THEN held[u] \ {b} ELSE held[u]
  BY ZenonT(60) DEF BlocksInv
<1>4. held' \in [Thread -> SUBSET Block]
  BY DEF BlocksInv
<1>5. \A c \in Block : c \in Range(block_list') \/ \E u \in Thread : c \in held'[u]
  BY <1>2, <1>3 DEF BlocksInv
<1>6. \A u \in Thread : held'[u] \cap Range(block_list') = {}
  BY <1>2, <1>3 DEF BlocksInv
<1>7. \A u, v \in Thread : u # v => held'[u] \cap held'[v] = {}
  BY <1>2, <1>3 DEF BlocksInv
<1>8. block_free_count' = Len(block_list')
  BY <1>1, <1>2 DEF BlocksInv
<1> QED
  BY <1>2, <1>4, <1>5, <1>6, <1>7, <1>8 DEF BlocksInv

\* rt_mp_alloc from the head of its loop on, by a thread that enters or was resumed.
LEMMA AllocLoopStep ==
    ASSUME Counting, WaitInv, BlocksInv, PoolWaitInv, ~mp_stray,
           NEW t \in Thread, ~Waits(t), NEW time, AllocLoop(t, time)
    PROVE  WaitInv' /\ BlocksInv' /\ PoolWaitInv'
<1>0. "pool" \in Lists /\ WaitOp("pool") = "alloc"
  BY WaitOpLemma DEF Lists
<1>1. CASE AllocBlock(t)
  <2>1. WaitInv'
    BY <1>1, RunStep, ZenonT(60) DEF AllocBlock, Finish
  <2>2. BlocksInv'
    BY <1>1, TakeBlock, ZenonT(60) DEF AllocBlock
  <2>3. /\ \A u \in Thread : u # t => call'[u] = call[u]
        /\ error' = error /\ suspended' = suspended
    BY <1>1 DEF AllocBlock, Finish, WaitInv
  <2>4. /\ Cardinality(Woken("alloc")') >= Cardinality(Woken("alloc")) - 1
        /\ Cardinality(Woken("alloc")) \in Nat /\ Cardinality(Woken("alloc")') \in Nat
    BY <1>0, <2>1, <2>3, WokenStep
  <2>5. block_free_count \in Nat
    BY DEF BlocksInv
  <2>6. /\ block_free_count' = block_free_count - 1
        /\ UNCHANGED <<suspend_thread_count, mp_stray>>
    BY <1>1 DEF AllocBlock
  <2>7. PoolWaitInv'
    BY <2>3, <2>4, <2>5, <2>6 DEF PoolWaitInv, NoBlockStranded
  <2> QED
    BY <2>1, <2>2, <2>7
<1>2. CASE AllocNone(t, time)
  <2>1. WaitInv'
    BY <1>2, RunStep, ZenonT(60) DEF AllocNone, Finish
  <2>2. BlocksInv'
    BY <1>2, ZenonT(60) DEF AllocNone, poolVars, BlocksInv
  <2>3. Cardinality(Woken("alloc")') \in Nat
    BY WokenCount
  <2>4. block_free_count' = 0 /\ UNCHANGED <<suspended, suspend_thread_count>>
    BY <1>2, ZenonT(60) DEF AllocNone, poolVars
  <2>5. PoolWaitInv'
    BY <2>3, <2>4 DEF PoolWaitInv, NoBlockStranded
  <2> QED
    BY <2>1, <2>2, <2>5
<1>3. CASE AllocWait(t, time)
  <2> DEFINE s == suspended["pool"]
  <2>1. s \in Seq(Thread) /\ IsInjective(s) /\ t \notin Range(s)
    BY <1>0 DEF WaitInv, IsQueue, Waits
  <2>2. IsQueue(<<t>> \o s) /\ Range(<<t>> \o s) = Range(s) \cup {t} /\ Len(<<t>> \o s) = Len(s) + 1
    BY <2>1, ConsLemma DEF IsQueue
  <2>3. WaitInv'
    BY <1>0, <1>3, <2>2, SuspendStep, ZenonT(60) DEF AllocWait, Enter
  <2>4. BlocksInv'
    BY <1>3, ZenonT(60) DEF AllocWait, BlocksInv
  <2>5. suspended'["pool"] = <<t>> \o s
    BY <1>0, <1>3 DEF AllocWait, SuspendOn, WaitInv
  <2>6. Cardinality(Woken("alloc")') \in Nat
    BY WokenCount
  <2>7. block_free_count' = 0 /\ suspend_thread_count' = suspend_thread_count + 1
    BY <1>3 DEF AllocWait
  <2>8. Len(s) \in Nat /\ Len(suspended'["pool"]) = Len(s) + 1
    BY <2>1, <2>2, <2>5
  <2>9. PoolWaitInv'
    BY <2>6, <2>7, <2>8 DEF PoolWaitInv, NoBlockStranded
  <2> QED
    BY <2>3, <2>4, <2>9
<1> QED
  BY <1>1, <1>2, <1>3 DEF AllocLoop

\* rt_mp_free.
LEMMA FreeStep ==
    ASSUME Counting, WaitInv, BlocksInv, PoolWaitInv, ~mp_stray,
           NEW t \in Thread, NEW b, Free(t, b)
    PROVE  WaitInv' /\ BlocksInv' /\ PoolWaitInv'
<1>1. "pool" \in Lists /\ WaitOp("pool") = "alloc" /\ ~Waits(t) /\ call' = call
  BY IdleRuns, WaitOpLemma DEF Lists, Free
<1>2. BlocksInv'
  BY GiveBlock, ZenonT(60) DEF Free
<1>3. block_free_count \in Nat /\ block_free_count' = block_free_count + 1
  BY DEF BlocksInv, Free
<1>4. CASE suspend_thread_count = 0
  <2>1. UNCHANGED <<suspended, timer, error, suspend_thread_count, mp_stray>>
    BY <1>4 DEF Free
  <2>2. WaitInv'
    BY <1>1, <2>1, RunStep
  <2>3. suspended["pool"] = <<>>
    <3>1. suspended["pool"] \in Seq(Thread) /\ Len(suspended["pool"]) <= 0
      BY <1>1, <1>4 DEF WaitInv, IsQueue, PoolWaitInv
    <3> QED
      BY <3>1
  <2> QED
    BY <1>2, <2>1, <2>2, <2>3 DEF PoolWaitInv, NoBlockStranded
<1>5. CASE suspend_thread_count > 0 /\ suspended["pool"] # <<>>
  <2> DEFINE h == Head(suspended["pool"])
  <2>1. /\ suspend_thread_count' = suspend_thread_count - 1
        /\ error' = [error EXCEPT ![h] = "EOK"]
        /\ ResumeFirst("pool") /\ mp_stray' = mp_stray
    BY <1>5 DEF Free, PoolWaitInv
  <2>2. /\ h \in Thread /\ h \in Range(suspended["pool"])
        /\ Len(Tail(suspended["pool"])) = Len(suspended["pool"]) - 1
        /\ Range(Tail(suspended["pool"])) = Range(suspended["pool"]) \ {h}
    BY <1>1, <1>5, FirstWaiter
  <2>3. suspended'["pool"] = Tail(suspended["pool"])
    BY <1>1, <2>1 DEF ResumeFirst, WaitInv
  <2>4. /\ error' \in [Thread -> {"EOK", "ETIMEOUT", "ERROR"}] /\ error'[h] = "EOK"
        /\ \A u \in Thread : ~Waits(u) => error'[u] = error[u]
    BY <1>1, <2>1, <2>2 DEF WaitInv, Waits
  <2> HIDE DEF h
  <2>5. WaitInv'
    BY <1>1, <1>5, <2>1, <2>4, ResumeStep
  <2>6. h # t
    BY <1>1, <2>2, ZenonT(60) DEF Waits
  <2>7. t \notin Woken("alloc")
    BY NotWoken DEF Free, Idle
  <2>8. /\ Cardinality(Woken("alloc")') >= Cardinality(Woken("alloc")) + 1
        /\ Cardinality(Woken("alloc")) \in Nat /\ Cardinality(Woken("alloc")') \in Nat
    BY <1>1, <2>2, <2>3, <2>4, <2>5, <2>6, <2>7, WokenGrows
  <2>9. Len(suspended["pool"]) \in Nat
    BY <1>1 DEF WaitInv, IsQueue
  <2>10. PoolWaitInv'
    BY <1>3, <1>5, <2>1, <2>2, <2>3, <2>8, <2>9 DEF PoolWaitInv, NoBlockStranded
  <2> QED
    BY <1>2, <2>5, <2>10
<1>6. CASE suspend_thread_count > 0 /\ suspended["pool"] = <<>>
  <2>1. mp_stray' /\ UNCHANGED <<suspended, timer, error, suspend_thread_count>>
    BY <1>6 DEF Free
  <2>2. WaitInv'
    BY <1>1, <2>1, RunStep
  <2> QED
    BY <1>2, <2>1, <2>2 DEF PoolWaitInv, NoBlockStranded
<1>7. suspend_thread_count = 0 \/ suspend_thread_count > 0
  BY DEF PoolWaitInv
<1> QED
  BY <1>4, <1>5, <1>6, <1>7, ZenonT(60)

\* A step of a pool.
LEMMA PoolStep ==
    ASSUME Counting, WaitInv, BlocksInv, PoolWaitInv, PoolNext
    PROVE  WaitInv' /\ BlocksInv' /\ PoolWaitInv'
<1>1. PICK t \in Thread :
        Alloc(t) \/ AllocAgain(t) \/ AllocFails(t) \/ \E b \in Block : Free(t, b)
  BY DEF PoolNext
<1>0. "pool" \in Lists /\ WaitOp("pool") = "alloc"
  BY WaitOpLemma DEF Lists
<1>2. ~mp_stray
  BY DEF PoolNext
<1>3. CASE Alloc(t)
  <2>1. ~Waits(t) /\ \E time : AllocLoop(t, time)
    BY <1>3, IdleRuns, ZenonT(60) DEF Alloc
  <2> QED
    BY <1>2, <2>1, AllocLoopStep, ZenonT(60)
<1>4. CASE AllocAgain(t)
  <2>1. ~Waits(t) /\ \E time : AllocLoop(t, time)
    BY <1>4, ZenonT(60) DEF AllocAgain, At
  <2> QED
    BY <1>2, <2>1, AllocLoopStep, ZenonT(60)
<1>5. CASE AllocFails(t)
  <2>1. /\ ~Waits(t) /\ error[t] # "EOK" /\ call' = [call EXCEPT ![t] = Idle]
        /\ UNCHANGED <<suspended, timer, error, poolVars>>
    BY <1>5 DEF AllocFails, At, Finish
  <2>2. WaitInv' /\ BlocksInv'
    BY <2>1, RunStep, ZenonT(60) DEF poolVars, BlocksInv
  <2>3. /\ \A u \in Thread : u # t => call'[u] = call[u]
        /\ error' = error /\ suspended' = suspended
    BY <2>1 DEF WaitInv
  <2>6. t \notin Woken("alloc")
    BY <2>1, ZenonT(60) DEF Woken
  <2>4. /\ Cardinality(Woken("alloc")') >= Cardinality(Woken("alloc"))
        /\ Cardinality(Woken("alloc")) \in Nat /\ Cardinality(Woken("alloc")') \in Nat
    BY <1>0, <2>2, <2>3, <2>6, WokenStep
  <2>5. block_free_count \in Nat
    BY DEF BlocksInv
  <2> QED
    BY <2>1, <2>2, <2>4, <2>5 DEF PoolWaitInv, NoBlockStranded, poolVars
<1>6. ASSUME NEW b \in Block, Free(t, b) PROVE WaitInv' /\ BlocksInv' /\ PoolWaitInv'
  BY <1>2, <1>6, FreeStep
<1> QED
  BY <1>1, <1>3, <1>4, <1>5, <1>6

\* A time-out in a pool.
LEMMA PoolTimeout ==
    ASSUME Counting, WaitInv, BlocksInv, PoolWaitInv, UNCHANGED poolVars,
           NEW t \in Thread, Timeout(t)
    PROVE  BlocksInv' /\ PoolWaitInv'
<1>1. /\ WaitInv' /\ Waits(t)
      /\ \A l \in Lists : Range(suspended'[l]) = Range(suspended[l]) \ {t}
      /\ \A l \in Lists : suspended[l] = <<>> => suspended'[l] = <<>>
  BY TimeoutStep
<1>2. "pool" \in Lists /\ WaitOp("pool") = "alloc" /\ t \notin Woken("alloc")
  BY <1>1, WaitOpLemma DEF Lists, Woken, At
<1>3. call' = call /\ \A u \in Thread : u # t => error'[u] = error[u]
  BY DEF WaitInv, Timeout
<1>4. /\ Cardinality(Woken("alloc")') >= Cardinality(Woken("alloc"))
      /\ Cardinality(Woken("alloc")) \in Nat /\ Cardinality(Woken("alloc")') \in Nat
  BY <1>1, <1>2, <1>3, WokenStep
<1>5. /\ suspended["pool"] \in Seq(Thread)
      /\ IsInjective(suspended["pool"])
      /\ suspended'["pool"] = NodeRemove(suspended["pool"], t)
  BY <1>2 DEF Timeout, WaitInv, IsQueue
<1>6. Len(suspended'["pool"]) \in Nat /\ Len(suspended'["pool"]) <= Len(suspended["pool"])
  BY <1>5, NodeRemoveLen
<1>7. BlocksInv' /\ block_free_count \in Nat
  BY DEF poolVars, BlocksInv
<1> QED
  BY <1>1, <1>2, <1>4, <1>5, <1>6, <1>7 DEF PoolWaitInv, NoBlockStranded, poolVars

-----------------------------------------------------------------------------
\* A step of a completion.
LEMMA CompletionStep ==
    ASSUME WaitInv, CompletionInv, CompletionNext
    PROVE  WaitInv' /\ CompletionInv'
<1>1. "completion" \in Lists /\ WaitOp("completion") = "wait"
  BY WaitOpLemma DEF Lists
<1>2. PICK t \in Thread :
        \/ WaitDone(t) \/ (\E time \in Time : WaitSuspend(t, time)) \/ WaitReturn(t)
        \/ DoneTest(t) \/ DoneSection(t)
  BY DEF CompletionNext
<1>3. suspended["completion"] \in Seq(Thread)
  BY <1>1 DEF WaitInv, IsQueue
<1>4. CASE WaitDone(t)
  <2>1. UNCHANGED waitVars /\ ~Waits(t) /\ ~completed'
    BY <1>4, IdleRuns DEF WaitDone
  <2> QED
    BY <2>1, RunStep DEF waitVars, CompletionInv, NoWaiterWhileDone
<1>5. ASSUME NEW time \in Time, WaitSuspend(t, time) PROVE WaitInv' /\ CompletionInv'
  <2>1. ~Waits(t) /\ ~completed' /\ suspended["completion"] = <<>>
    BY <1>5, IdleRuns DEF WaitSuspend
  <2>2. IsQueue(<<t>>) /\ Range(<<t>>) = {t}
    BY DEF IsQueue, IsInjective, Range
  <2>3. Range(<<t>>) = Range(suspended["completion"]) \cup {t}
    BY <2>1, <2>2, EmptyQueue
  <2>4. WaitInv'
    BY <1>1, <1>5, <2>1, <2>2, <2>3, SuspendStep, ZenonT(60) DEF WaitSuspend, Enter
  <2>5. suspended'["completion"] = <<t>>
    BY <1>1, <1>5 DEF WaitSuspend, SuspendOn, WaitInv
  <2> QED
    BY <2>1, <2>4, <2>5 DEF CompletionInv, NoWaiterWhileDone
<1>6. CASE WaitReturn(t)
  <2>1. ~Waits(t) /\ ~completed' /\ UNCHANGED <<suspended, timer, error>>
    BY <1>6 DEF WaitReturn, At
  <2>2. WaitInv'
    BY <1>6, <2>1, RunStep, ZenonT(60) DEF WaitReturn, Finish
  <2> QED
    BY <2>1, <2>2 DEF CompletionInv, NoWaiterWhileDone
<1>7. CASE DoneTest(t)
  <2>1. ~Waits(t) /\ UNCHANGED <<suspended, timer, error, completed>>
    BY <1>7, IdleRuns DEF DoneTest
  <2>2. WaitInv'
    BY <1>7, <2>1, RunStep, ZenonT(60) DEF DoneTest, Enter
  <2> QED
    BY <2>1, <2>2 DEF CompletionInv, NoWaiterWhileDone
<1>8. CASE DoneSection(t)
  <2>1. ~Waits(t) /\ error' = error /\ call' = [call EXCEPT ![t] = Idle]
    BY <1>8 DEF DoneSection, At, Finish
  <2>2. CASE suspended["completion"] # <<>>
    <3>1. ResumeFirst("completion")
      BY <1>8, <2>2 DEF DoneSection
    <3>2. WaitInv'
      BY <1>1, <2>1, <2>2, <3>1, ResumeStep, ZenonT(60) DEF WaitInv
    <3>3. suspended'["completion"] = Tail(suspended["completion"])
      BY <1>1, <3>1 DEF ResumeFirst, WaitInv
    <3>4. suspended'["completion"] = <<>>
      BY <1>3, <2>2, <3>3 DEF CompletionInv
    <3> QED
      BY <3>2, <3>4 DEF CompletionInv, NoWaiterWhileDone
  <2>3. CASE suspended["completion"] = <<>>
    <3>1. UNCHANGED <<suspended, timer>>
      BY <1>8, <2>3 DEF DoneSection
    <3>2. WaitInv'
      BY <2>1, <3>1, RunStep, ZenonT(60)
    <3> QED
      BY <2>3, <3>1, <3>2 DEF CompletionInv, NoWaiterWhileDone
  <2> QED
    BY <2>2, <2>3
<1> QED
  BY <1>2, <1>4, <1>5, <1>6, <1>7, <1>8

\* A time-out in a completion.
LEMMA CompletionTimeout ==
    ASSUME WaitInv, CompletionInv, completed' = completed,
           NEW t \in Thread, Timeout(t)
    PROVE  CompletionInv'
<1>1. "completion" \in Lists
  BY DEF Lists
<1>2. suspended["completion"] = <<>> => suspended'["completion"] = <<>>
  BY <1>1, TimeoutStep
<1>3. /\ suspended["completion"] \in Seq(Thread)
      /\ IsInjective(suspended["completion"])
      /\ suspended'["completion"] = NodeRemove(suspended["completion"], t)
  BY <1>1 DEF Timeout, WaitInv, IsQueue
<1>4. Len(suspended'["completion"]) \in Nat
      /\ Len(suspended'["completion"]) <= Len(suspended["completion"])
  BY <1>3, NodeRemoveLen
<1> QED
  BY <1>2, <1>3, <1>4 DEF CompletionInv, NoWaiterWhileDone

-----------------------------------------------------------------------------
\* A step of a work queue: the work thread, ...
LEMMA WorkerStep ==
    ASSUME WaitInv, WorkIndInv, WorkTimerInv, Worker
    PROVE  WaitInv' /\ WorkIndInv'
<1>1. /\ work_list \in Seq(Work) /\ IsInjective(work_list)
      /\ work_current \in Work \cup {NoWork} /\ work_current \notin Range(work_list)
  BY DEF WorkIndInv, WorkInv, WorkOnce
<1>2. CASE UNCHANGED waitVars /\ ~WorkerAck
  <2>1. WaitInv'
    BY <1>2 DEF WaitInv, waitVars, Waits
  <2>2. UNCHANGED <<suspended, call>>
    BY <1>2 DEF waitVars
  <2>3. CASE WorkerTest
    BY <2>1, <2>2, <2>3
       DEF WorkerTest, WorkIndInv, WorkInv, WorkOnce, NoCancelStranded, NoWorkStranded
  <2>4. CASE WorkerSuspend
    BY <2>1, <2>2, <2>4
       DEF WorkerSuspend, WorkIndInv, WorkInv, WorkOnce, NoCancelStranded, NoWorkStranded
  <2>5. CASE WorkerTake /\ work_list # <<>>
    <3>1. /\ work_current' = Head(work_list) /\ work_list' = Tail(work_list)
          /\ worker' = "run" /\ worker = "take"
      BY <2>5 DEF WorkerTake
    <3>2. /\ Head(work_list) \in Work /\ work_list' \in Seq(Work) /\ IsInjective(work_list')
          /\ Head(work_list) \notin Range(work_list')
      BY <1>1, <2>5, <3>1, HeadInRange, TailLemma
    <3> QED
      BY <2>1, <2>2, <3>1, <3>2
         DEF WorkIndInv, WorkInv, WorkOnce, NoCancelStranded, NoWorkStranded
  <2>6. CASE WorkerTake /\ work_list = <<>>
    BY <2>1, <2>2, <2>6
       DEF WorkerTake, WorkIndInv, WorkInv, WorkOnce, NoCancelStranded, NoWorkStranded, At, Waits
  <2>7. CASE WorkerRun
    <3>1. NoWork \notin Range(work_list)
      BY <1>1, RangeSubset, WorkAssumption
    <3> QED
      BY <2>1, <2>2, <2>7, <3>1
         DEF WorkerRun, WorkIndInv, WorkInv, WorkOnce, NoCancelStranded, NoWorkStranded
  <2> QED
    BY <1>2, <2>3, <2>4, <2>5, <2>6, <2>7 DEF Worker
<1>3. CASE WorkerAck
  <2>1. /\ worker' = "test" /\ UNCHANGED <<timer, error, call, work_list, work_current, urgent>>
        /\ suspended' = [suspended EXCEPT !["cancel"] = <<>>]
        /\ worker = "ack"
    BY <1>3 DEF WorkerAck
  <2>2. /\ "cancel" \in Lists /\ DOMAIN suspended' = Lists
        /\ suspended' = [l \in Lists |-> suspended'[l]]
        /\ suspended'["cancel"] = <<>>
        /\ \A l \in Lists : l # "cancel" => suspended'[l] = suspended[l]
    BY <2>1, ZenonT(60) DEF Lists, WaitInv
  <2>3. \A l \in Lists : IsQueue(suspended'[l]) /\ Range(suspended'[l]) \subseteq Range(suspended[l])
    BY <2>2, EmptyQueue DEF WaitInv
  <2>4. \A t \in Thread : ~timer'[t]
    BY <2>1 DEF WorkTimerInv
  <2>5. WaitInv'
    BY <2>1, <2>2, <2>3, <2>4, ZenonT(60) DEF WaitInv
  <2>6. WorkIndInv'
    BY <2>1, <2>2 DEF WorkIndInv, WorkInv, WorkOnce, NoCancelStranded, NoWorkStranded
  <2> QED
    BY <2>5, <2>6
<1>4. CASE ~WorkerAck
  BY <1>4, <1>2 DEF Worker, WorkerTest, WorkerSuspend, WorkerTake, WorkerRun
<1> QED
  BY <1>3, <1>4

\* ... the threads that use it.
LEMMA WorkStep ==
    ASSUME WaitInv, WorkIndInv, WorkTimerInv, WorkNext
    PROVE  WaitInv' /\ WorkIndInv'
<1>1. /\ work_list \in Seq(Work) /\ IsInjective(work_list)
      /\ work_current \in Work \cup {NoWork} /\ work_current \notin Range(work_list)
      /\ work_current # NoWork => worker = "run"
  BY DEF WorkIndInv, WorkInv, WorkOnce
<1>2. ASSUME NEW w \in Work
      PROVE  /\ Unlinked(w) \in Seq(Work) /\ IsInjective(Unlinked(w))
             /\ Range(Unlinked(w)) = Range(work_list) \ {w}
             /\ work_list = <<>> => Unlinked(w) = <<>>
  <2>1. /\ Unlinked(w) \in Seq(Work) /\ IsInjective(Unlinked(w))
        /\ Range(Unlinked(w)) = Range(work_list) \ {w}
    BY <1>1, NodeRemoveLemma DEF Unlinked
  <2>2. work_list = <<>> => Range(work_list) = {}
    BY EmptyQueue
  <2> QED
    BY <2>1, <2>2, EmptyRange
<1>3. CASE Worker
  BY <1>3, WorkerStep, ZenonT(60)
<1>4. ASSUME NEW t \in Thread, NEW w \in Work, DoWork(t, w) PROVE WaitInv' /\ WorkIndInv'
  <2>1. /\ ~Waits(t) /\ MayRun /\ work_current # w
        /\ work_list' = Append(Unlinked(w), w)
        /\ UNCHANGED <<suspended, timer, error, work_current, worker, urgent>>
        /\ IF work_current = NoWork THEN call' = [call EXCEPT ![t] = [op |-> "resume"]] ELSE call' = call
    BY <1>4, IdleRuns DEF DoWork, Enter
  <2>2. WaitInv'
    BY <2>1, RunStep
  <2>3. /\ work_list' \in Seq(Work) /\ IsInjective(work_list')
        /\ Range(work_list') = Range(Unlinked(w)) \cup {w}
    <3>1. w \notin Range(Unlinked(w))
      BY <1>2
    <3> QED
      BY <1>2, <2>1, <3>1, AppendLemma
  <2>4. work_current' \notin Range(work_list')
    BY <1>1, <1>2, <2>1, <2>3
  <2>5. ASSUME worker = "asleep" PROVE At(t, "resume")'
    <3>1. call' = [call EXCEPT ![t] = [op |-> "resume"]]
      BY <1>1, <2>1, <2>5
    <3>2. call'[t].op = "resume"
      BY <3>1 DEF WaitInv
    <3> QED
      BY <2>1, <3>2 DEF At, Waits
  <2>6. urgent => worker # "suspend"
    BY <2>1 DEF MayRun
  <2> QED
    BY <1>1, <2>1, <2>2, <2>3, <2>4, <2>5, <2>6
       DEF WorkIndInv, WorkInv, WorkOnce, NoCancelStranded, NoWorkStranded
<1>5. ASSUME NEW t \in Thread, NEW w \in Work, Cancel(t, w) PROVE WaitInv' /\ WorkIndInv'
  <2>1. ~Waits(t) /\ work_list' = Unlinked(w) /\ UNCHANGED <<waitVars, work_current, worker, urgent>>
    BY <1>5, IdleRuns DEF Cancel
  <2>2. WaitInv'
    BY <2>1, RunStep DEF waitVars
  <2>3. (\E u \in Thread : At(u, "resume")) => (\E u \in Thread : At(u, "resume"))'
    BY <2>1 DEF At, Waits, waitVars
  <2>4. /\ work_list' \in Seq(Work) /\ IsInjective(work_list')
        /\ work_current' \notin Range(work_list')
        /\ work_list = <<>> => work_list' = <<>>
    BY <1>1, <1>2, <2>1
  <2> QED
    BY <1>1, <2>1, <2>2, <2>3, <2>4
       DEF WorkIndInv, WorkInv, WorkOnce, NoCancelStranded, NoWorkStranded, waitVars
<1>6. ASSUME NEW t \in Thread, NEW w \in Work, CancelSync(t, w) PROVE WaitInv' /\ WorkIndInv'
  <2>1. /\ ~Waits(t) /\ work_current = w /\ UNCHANGED workVars
        /\ SuspendOn(t, "cancel", Append(suspended["cancel"], t), "forever")
        /\ call' = [call EXCEPT ![t] = [op |-> "cancel", work |-> w]]
    BY <1>6, IdleRuns DEF CancelSync, Enter
  <2>2. "cancel" \in Lists /\ WaitOp("cancel") = "cancel"
    BY WaitOpLemma DEF Lists
  <2>3. /\ IsQueue(Append(suspended["cancel"], t))
        /\ Range(Append(suspended["cancel"], t)) = Range(suspended["cancel"]) \cup {t}
    BY <2>1, <2>2, AppendLemma DEF WaitInv, IsQueue, Waits
  <2>4. WaitInv'
    BY <2>1, <2>2, <2>3, SuspendStep, ZenonT(60)
  <2>5. worker = "run"
    BY <1>1, <2>1, WorkAssumption
  <2> QED
    BY <2>1, <2>4, <2>5
       DEF WorkIndInv, WorkInv, WorkOnce, NoCancelStranded, NoWorkStranded, workVars
<1>7. ASSUME NEW t \in Thread, DoWorkResume(t) PROVE WaitInv' /\ WorkIndInv'
  <2>1. /\ ~Waits(t) /\ worker' = (IF worker = "asleep" THEN "take" ELSE worker)
        /\ call' = [call EXCEPT ![t] = Idle]
        /\ UNCHANGED <<suspended, timer, error, work_list, work_current, urgent>>
    BY <1>7 DEF DoWorkResume, At, Finish
  <2>2. WaitInv'
    BY <2>1, RunStep, ZenonT(60)
  <2> QED
    BY <2>1, <2>2 DEF WorkIndInv, WorkInv, WorkOnce, NoCancelStranded, NoWorkStranded
<1>8. ASSUME NEW t \in Thread, CancelReturn(t) PROVE WaitInv' /\ WorkIndInv'
  <2>1. /\ ~Waits(t) /\ call[t].op = "cancel" /\ call' = [call EXCEPT ![t] = Idle]
        /\ UNCHANGED <<suspended, timer, error, work_list, work_current, worker, urgent>>
    BY <1>8 DEF CancelReturn, At, Finish, workVars
  <2>2. WaitInv'
    BY <2>1, RunStep, ZenonT(60)
  <2>3. ASSUME NEW u \in Thread, At(u, "resume") PROVE At(u, "resume")'
    BY <2>1, <2>3 DEF At, Waits, WaitInv
  <2> QED
    BY <2>1, <2>2, <2>3 DEF WorkIndInv, WorkInv, WorkOnce, NoCancelStranded, NoWorkStranded
<1>9. ASSUME NEW t \in Thread, CancelAll(t) PROVE WaitInv' /\ WorkIndInv'
  <2>1. ~Waits(t) /\ work_list' = <<>> /\ UNCHANGED <<waitVars, work_current, worker, urgent>>
    BY <1>9, IdleRuns DEF CancelAll
  <2>2. WaitInv'
    BY <2>1, RunStep DEF waitVars
  <2>3. work_list' \in Seq(Work) /\ IsInjective(work_list') /\ work_current' \notin Range(work_list')
    BY <2>1 DEF IsInjective, Range
  <2> QED
    BY <1>1, <2>1, <2>2, <2>3
       DEF WorkIndInv, WorkInv, WorkOnce, NoCancelStranded, NoWorkStranded, waitVars
<1> QED
  BY <1>3, <1>4, <1>5, <1>6, <1>7, <1>8, <1>9 DEF WorkNext

-----------------------------------------------------------------------------
\* The inductive invariants.
CompletionIndInv == WaitInv /\ CompletionInv
WorkQueueIndInv == WaitInv /\ WorkTimerInv /\ WorkIndInv
PoolIndInv == WaitInv /\ BlocksInv /\ PoolWaitInv
QueueIndInv == WaitInv /\ QueueDataInv /\ QueueWaitInv /\ ResetInv

\* They hold initially.
LEMMA CompletionInitInv == WaitingInit /\ CompletionInit => CompletionIndInv
<1> SUFFICES ASSUME WaitingInit, CompletionInit PROVE CompletionIndInv
  OBVIOUS
<1>1. WaitInv /\ suspended["completion"] = <<>>
  BY WaitInitInv DEF WaitingInit, Lists
<1> QED
  BY <1>1 DEF CompletionIndInv, CompletionInv, NoWaiterWhileDone

LEMMA WorkInitInv == WaitingInit /\ WorkInit => WorkQueueIndInv
<1> SUFFICES ASSUME WaitingInit, WorkInit PROVE WorkQueueIndInv
  OBVIOUS
<1>1. WaitInv /\ WorkTimerInv /\ suspended["cancel"] = <<>>
  BY WaitInitInv DEF WaitingInit, WorkTimerInv, Lists
<1>2. work_list = <<>> /\ work_current = NoWork /\ worker = "test" /\ work_list \in Seq(Work)
  BY DEF WorkInit
<1>3. WorkOnce
  BY <1>2, EmptyQueue DEF WorkOnce, IsQueue
<1> QED
  BY <1>1, <1>2, <1>3 DEF WorkQueueIndInv, WorkIndInv, WorkInv, NoCancelStranded, NoWorkStranded

LEMMA PoolInitInv == WaitingInit /\ PoolInit => PoolIndInv
<1> SUFFICES ASSUME WaitingInit, PoolInit PROVE PoolIndInv
  OBVIOUS
<1>1. /\ block_list = [i \in 1 .. block_total_count |-> i] /\ block_free_count = block_total_count
      /\ suspend_thread_count = 0 /\ held = [t \in Thread |-> {}]
      /\ suspended["pool"] = <<>>
  BY DEF PoolInit, WaitingInit, Block, Lists
<1>2. /\ block_list \in Seq(Block) /\ Len(block_list) = block_total_count
      /\ IsInjective(block_list) /\ Range(block_list) = Block
  BY <1>1, PoolAssumption DEF Block, IsInjective, Range
<1>3. BlocksInv
  BY <1>1, <1>2, ZenonT(60) DEF BlocksInv
<1> QED
  BY <1>1, <1>3, WaitInitInv DEF PoolIndInv, PoolWaitInv, NoBlockStranded

LEMMA QueueInitInv == WaitingInit /\ QueueInit => QueueIndInv
<1> SUFFICES ASSUME WaitingInit, QueueInit PROVE QueueIndInv
  OBVIOUS
<1>1. suspended["push"] = <<>> /\ suspended["pop"] = <<>> /\ call = [t \in Thread |-> Idle]
  BY DEF WaitingInit, Lists
<1>2. ResetInv
  BY <1>1 DEF ResetInv, Idle
<1>3. QueueWaitInv
  BY <1>1, EmptyQueue DEF QueueWaitInv, NoDataStranded
<1>4. QueueDataInv
  BY DataQueueAssumption DEF QueueInit, QueueDataInv
<1> QED
  BY <1>2, <1>3, <1>4, WaitInitInv DEF QueueIndInv

\* Every step keeps them.
LEMMA CompletionNextInv ==
    CompletionIndInv /\ [CompletionSystem]_<<waitVars, completed>> => CompletionIndInv'
<1> SUFFICES ASSUME WaitInv, CompletionInv, [CompletionSystem]_<<waitVars, completed>>
             PROVE  WaitInv' /\ CompletionInv'
  BY DEF CompletionIndInv
<1>1. CASE UNCHANGED <<waitVars, completed>>
  BY <1>1 DEF waitVars, WaitInv, Waits, CompletionInv, NoWaiterWhileDone
<1>2. ASSUME NEW t \in Thread, Timeout(t), completed' = completed
      PROVE  WaitInv' /\ CompletionInv'
  BY <1>2, TimeoutStep, CompletionTimeout
<1> QED
  BY <1>1, <1>2, CompletionStep, ZenonT(60) DEF CompletionSystem

LEMMA WorkTimers == WorkTimerInv /\ WaitInv /\ WorkNext => WorkTimerInv'
<1> SUFFICES ASSUME WorkTimerInv, WaitInv, WorkNext, timer' # timer PROVE WorkTimerInv'
  BY DEF WorkTimerInv
<1>1. PICK t \in Thread, w \in Work : CancelSync(t, w)
  BY ZenonT(60)
     DEF WorkNext, Worker, WorkerTest, WorkerSuspend, WorkerTake, WorkerRun, WorkerAck, DoWork, Cancel,
         DoWorkResume, CancelReturn, CancelAll, waitVars
<1>2. timer' = [timer EXCEPT ![t] = FALSE]
  BY <1>1, ZenonT(60) DEF CancelSync, SuspendOn
<1> QED
  BY <1>2 DEF WorkTimerInv, WaitInv

LEMMA WorkNextInv == WorkQueueIndInv /\ [WorkNext]_<<waitVars, workVars>> => WorkQueueIndInv'
<1> SUFFICES ASSUME WaitInv, WorkTimerInv, WorkIndInv, [WorkNext]_<<waitVars, workVars>>
             PROVE  WaitInv' /\ WorkTimerInv' /\ WorkIndInv'
  BY ZenonT(60) DEF WorkQueueIndInv
<1>1. CASE UNCHANGED <<waitVars, workVars>>
  <2>1. WaitInv' /\ WorkTimerInv'
    BY <1>1, WaitSame, ZenonT(60) DEF waitVars, WorkTimerInv
  <2> QED
    BY <1>1, <2>1, ZenonT(60) DEF waitVars, workVars, WorkIndInv, WorkInv, WorkOnce,
                                  NoCancelStranded, NoWorkStranded, At, Waits
<1> QED
  BY <1>1, WorkStep, WorkTimers

LEMMA PoolNextInv ==
    Counting => (PoolIndInv /\ [PoolSystem]_<<waitVars, poolVars>> => PoolIndInv')
<1> SUFFICES ASSUME Counting, WaitInv, BlocksInv, PoolWaitInv, [PoolSystem]_<<waitVars, poolVars>>
             PROVE  WaitInv' /\ BlocksInv' /\ PoolWaitInv'
  BY ZenonT(60) DEF PoolIndInv
<1>1. CASE UNCHANGED <<waitVars, poolVars>>
  <2>1. WaitInv'
    BY <1>1, WaitSame, ZenonT(60)
  <2> QED
    BY <1>1, <2>1, ZenonT(60)
       DEF waitVars, poolVars, BlocksInv, PoolWaitInv, NoBlockStranded, Woken, At, Waits
<1>2. ASSUME NEW t \in Thread, Timeout(t), UNCHANGED poolVars
      PROVE  WaitInv' /\ BlocksInv' /\ PoolWaitInv'
  BY <1>2, TimeoutStep, PoolTimeout
<1> QED
  BY <1>1, <1>2, PoolStep, ZenonT(60) DEF PoolSystem

LEMMA QueueNextInv ==
    Counting => (QueueIndInv /\ [QueueSystem]_<<waitVars, queueVars>> => QueueIndInv')
<1> SUFFICES ASSUME Counting, WaitInv, QueueDataInv, QueueWaitInv, ResetInv,
                    [QueueSystem]_<<waitVars, queueVars>>
             PROVE  WaitInv' /\ QueueDataInv' /\ QueueWaitInv' /\ ResetInv'
  BY ZenonT(60) DEF QueueIndInv
<1>1. CASE UNCHANGED <<waitVars, queueVars>>
  <2>1. WaitInv' /\ ResetInv'
    BY <1>1, WaitSame, ZenonT(60) DEF waitVars, ResetInv
  <2>2. QueueDataInv'
    BY <1>1 DEF queueVars, QueueDataInv
  <2> QED
    BY <1>1, <2>1, <2>2 DEF waitVars, queueVars, QueueWaitInv, NoDataStranded, Items, Woken, At, Waits
<1>2. ASSUME NEW t \in Thread, Timeout(t), UNCHANGED queueVars
      PROVE  WaitInv' /\ QueueDataInv' /\ QueueWaitInv' /\ ResetInv'
  BY <1>2, TimeoutStep, QueueTimeout
<1> QED
  BY <1>1, <1>2, QueueStep, ZenonT(60) DEF QueueSystem

-----------------------------------------------------------------------------
\* No thread sleeps on a completion that is done, however rt_completion_done and
\* rt_completion_wait interleave.
THEOREM CompletionSafe == CompletionSpec => []NoWaiterWhileDone
<1>1. CompletionIndInv => NoWaiterWhileDone
  BY DEF CompletionIndInv, CompletionInv
<1> QED
  BY CompletionInitInv, CompletionNextInv, <1>1, PTL DEF CompletionSpec

\* A work is neither lost nor executed twice at a time, an urgent work thread does
\* not sleep while there is work that nobody is about to resume it for, and
\* rt_workqueue_cancel_work_sync waits only for a work that is executed.
THEOREM WorkSafe == WorkSpec => []WorkInv
<1>1. WorkQueueIndInv => WorkInv
  BY DEF WorkQueueIndInv, WorkIndInv
<1> QED
  BY WorkInitInv, WorkNextInv, <1>1, PTL DEF WorkSpec

\* What the invariant of a pool means for a state.
LEMMA PoolKept == PoolIndInv => PoolInv
<1> SUFFICES ASSUME PoolIndInv PROVE PoolInv
  OBVIOUS
<1>1. WaitInv /\ BlocksInv /\ PoolWaitInv
  BY ZenonT(60) DEF PoolIndInv
<1>2. Range(block_list) \subseteq Block
  BY <1>1, RangeSubset DEF BlocksInv
<1>3. (UNION {held[t] : t \in Thread}) \cup Range(block_list) = Block
  <2>1. \A b \in Block : b \in Range(block_list) \/ \E t \in Thread : b \in held[t]
    BY <1>1 DEF BlocksInv
  <2>2. \A t \in Thread : held[t] \subseteq Block
    BY <1>1 DEF BlocksInv
  <2>3. ASSUME NEW b \in Block PROVE b \in (UNION {held[t] : t \in Thread}) \cup Range(block_list)
    <3>1. CASE b \in Range(block_list)
      BY <3>1
    <3>2. ASSUME NEW t \in Thread, b \in held[t] PROVE b \in UNION {held[u] : u \in Thread}
      BY <3>2
    <3> QED
      BY <2>1, <3>1, <3>2
  <2>4. ASSUME NEW b \in UNION {held[t] : t \in Thread} PROVE b \in Block
    BY <2>2
  <2> QED
    BY <1>2, <2>3, <2>4
<1>4. BlocksConserved
  BY <1>1, <1>3 DEF BlocksInv, BlocksConserved
<1> QED
  BY <1>1, <1>4, ListsOK DEF PoolWaitInv, PoolInv

\* ... and that of a data queue.
LEMMA QueueKept == QueueIndInv => DataInOrder
<1> SUFFICES ASSUME QueueDataInv, pushed < IndexMod
             PROVE  /\ Items \in 0 .. Size
                    /\ popped = pushed - Items
                    /\ \A i \in 0 .. Items - 1 : queue[(get_index + i) % Size] = popped + 1 + i
  BY DEF QueueIndInv, DataInOrder
<1>1. /\ put_index = pushed /\ get_index = popped /\ popped \in Nat /\ pushed \in Nat
      /\ \A j \in popped .. pushed - 1 : queue[j % Size] = j + 1
  BY DEF QueueDataInv
<1>2. Items \in 0 .. Size /\ popped = pushed - Items /\ Items = pushed - popped
  BY <1>1, ItemsRange DEF Items
<1>3. ASSUME NEW i \in 0 .. Items - 1
      PROVE  queue[(get_index + i) % Size] = popped + 1 + i
  <2>1. popped + i \in popped .. pushed - 1 /\ (popped + i) + 1 = popped + 1 + i
    BY <1>1, <1>2
  <2> QED
    BY <1>1, <2>1
<1> QED
  BY <1>2, <1>3

-----------------------------------------------------------------------------
INSTANCE FiniteSetTheorems

\* The set of threads is finite, so its subsets can be counted.
LEMMA ThreadsCount == Counting
<1> SUFFICES ASSUME NEW A \in SUBSET Thread, NEW B \in SUBSET Thread, A \subseteq B
             PROVE  /\ Cardinality(A) \in Nat /\ Cardinality(B) \in Nat
                    /\ Cardinality(A) <= Cardinality(B)
                    /\ \A t \in Thread : t \notin A => Cardinality(A \cup {t}) = Cardinality(A) + 1
                    /\ \A t \in Thread : Cardinality(A \ {t}) >= Cardinality(A) - 1
  BY DEF Counting
<1>1. IsFiniteSet(A) /\ IsFiniteSet(B)
  BY ThreadAssumption, FS_Subset
<1>2. Cardinality(A) \in Nat /\ Cardinality(B) \in Nat
  BY <1>1, FS_CardinalityType, ZenonT(60)
<1>3. Cardinality(A) <= Cardinality(B)
  BY <1>1, FS_Subset, ZenonT(60)
<1>4. ASSUME NEW t, t \notin A PROVE Cardinality(A \cup {t}) = Cardinality(A) + 1
  BY <1>1, <1>4, FS_AddElement
<1>5. ASSUME NEW t PROVE Cardinality(A \ {t}) >= Cardinality(A) - 1
  <2>1. Cardinality(A \ {t}) \in {Cardinality(A), Cardinality(A) - 1}
    BY <1>1, FS_RemoveElement
  <2> QED
    BY <1>2, <2>1
<1> QED
  BY <1>2, <1>3, <1>4, <1>5, ZenonT(60)

\* No block of a memory pool is lost, given out twice, or left in the pool while
\* a thread waits for one and no thread is on its way to take it: for any number
\* of blocks and threads, whatever times out (rt_mp_alloc, rt_mp_free).
THEOREM PoolSafe == PoolSpec => []PoolInv
<1>1. PoolIndInv /\ [PoolSystem]_<<waitVars, poolVars>> => PoolIndInv'
  BY PoolNextInv, ThreadsCount
<1> QED
  BY PoolInitInv, <1>1, PoolKept, PTL DEF PoolSpec

\* The invariant of a data queue is one.
LEMMA QueueInductive == QueueSpec => []QueueIndInv
<1>1. QueueIndInv /\ [QueueSystem]_<<waitVars, queueVars>> => QueueIndInv'
  BY QueueNextInv, ThreadsCount
<1> QED
  BY QueueInitInv, <1>1, PTL DEF QueueSpec

\* A data queue of any size gives its items out once each and in order until
\* put_index wraps (rt_data_queue_push, rt_data_queue_pop).
THEOREM QueueKeepsOrder == QueueSpec => []DataInOrder
  BY QueueInductive, QueueKept, PTL

\* No thread sleeps in a data queue although there is an item, or room below
\* the low-water mark, that no resumed thread is about to use.
THEOREM QueueWakes == QueueSpec => []NoDataStranded
<1>1. QueueIndInv => NoDataStranded
  BY DEF QueueIndInv, QueueWaitInv
<1> QED
  BY QueueInductive, <1>1, PTL

-----------------------------------------------------------------------------
(* The theorems about pipes, which count who has the pipe open.            *)

\* Who has the pipe open, counted.
LEMMA OpenCount ==
    ASSUME NEW S, NEW R \in SUBSET Thread
    PROVE  /\ Cardinality(S \cap R) \in Nat
           /\ Cardinality(S \cap R) = 0 <=> S \cap R = {}
<1>1. IsFiniteSet(S \cap R)
  BY ThreadAssumption, FS_Subset
<1> QED
  BY <1>1, FS_CardinalityType, FS_EmptySet, ZenonT(60)

\* So are the readers and the writers.
LEMMA OpenCounted == Counted
  BY OpenCount, PipeAssumption DEF Counted, writers, readers

\* Who sleeps on a pipe will be woken up: what the invariant means for a state.
LEMMA NobodyStranded ==
    ASSUME PipeIndInv
    PROVE  NoPipeStranded
<1>1. PipeWaitInv
  BY DEF PipeIndInv
<1>2. NoReaderStranded
  <2> SUFFICES ASSUME Cardinality(Reader) = 1, suspended["reader"] # <<>>
               PROVE  writers > 0 /\ (DataLen(fifo) = 0 \/ Announcing # {})
    BY DEF NoReaderStranded
  <2>1. \E r : Reader = {r}
    <3>1. IsFiniteSet(Reader)
      BY ThreadAssumption, PipeAssumption, FS_Subset
    <3> QED
      BY <3>1, FS_Singleton, ZenonT(60)
  <2>2. opened \cap Writer # {} /\ (DataLen(fifo) = 0 \/ Runs("writeWake") \/ Runs("writeEnd"))
    BY <1>1, <2>1, ZenonT(60) DEF PipeWaitInv, OneReaderInv
  <2>3. writers > 0
    BY <2>2, OpenCount, PipeAssumption DEF writers
  <2> QED
    BY <2>2, <2>3 DEF Announcing, Runs
<1>3. NoMutualWait
  <2> SUFFICES ASSUME suspended["reader"] # <<>>, suspended["writer"] # <<>>
               PROVE  \E t \in Thread : call[t] # Idle /\ ~Waits(t)
    BY DEF NoMutualWait
  <2>1. FlagInv /\ TurnInv
    BY <1>1, ZenonT(60) DEF PipeWaitInv
  <2>2. \E op \in ReadOps \cup WriteOps \cup {"writeEnd"} : Runs(op)
    BY <2>1, WaitOpLemma, ZenonT(60)
       DEF FlagInv, TurnInv, ReaderStuck, WriterStuck, WriterComes, ReaderComes, ReadOps, WriteOps
  <2>3. PICK t \in Thread : call[t].op # "none" /\ ~Waits(t)
    BY <2>2 DEF Runs, At, ReadOps, WriteOps
  <2> QED
    BY <2>3 DEF Idle
<1> QED
  BY <1>2, <1>3 DEF NoPipeStranded

\* The invariant is one.
LEMMA PipeInductive == PipeSpec => []PipeIndInv
<1>1. PipeIndInv /\ [PipeNext]_<<waitVars, pipeVars>> => PipeIndInv'
  BY PipeIndNext, OpenCounted
<1> QED
  BY PipeIndInit, <1>1, PTL DEF PipeSpec

\* Every byte written to a pipe comes out of it once and in order, until the
\* pipe is closed, for a ring of any size and any number of threads.
THEOREM PipeKeepsOrder == PipeSpec => []PipeInOrder
<1>1. PipeIndInv => PipeInOrder
  BY DEF PipeIndInv, PipeInv, PipeInOrder, Unread
<1> QED
  BY PipeInductive, <1>1, PTL

\* No wake-up of a pipe is lost, for any number of threads: the only reader of a
\* pipe never sleeps over bytes nobody will announce, nor after the last writer
\* has closed it, and readers and writers never all sleep.
THEOREM PipeWakes == PipeSpec => []NoPipeStranded
<1>1. PipeIndInv => NoPipeStranded
  BY NobodyStranded
<1> QED
  BY PipeInductive, <1>1, PTL

\* What is forced into the ring of a pipe, in any state it reaches, pushes out
\* the oldest bytes and no others, but for the put_force that empties the ring.
THEOREM PipeForces == PipeSpec => []ForceKeepsNewest
<1>1. PipeIndInv => ForceKeepsNewest
  <2> SUFFICES ASSUME IsRing(fifo, Int) PROVE ForceKeepsNewest
    BY DEF PipeIndInv, PipeInv
  <2>1. Contents(PutCharForce(fifo, 0)) = Newest(Append(Contents(fifo), 0))
    <3>1. Contents(fifo) \in Seq(Int) /\ <<0>> \in Seq(Int) /\ 0 \in Int
      BY ContentsSeq
    <3>2. Contents(PutForce(fifo, <<0>>)) = Newest(Contents(fifo) \o <<0>>)
      <4>1. ~(fifo.read_mirror = fifo.write_mirror
              /\ Lesser(Len(<<0>>), buffer_size) > SpaceLen(fifo))
        BY <3>1, ForceOneByte, ZenonT(60)
      <4> QED
        BY <3>1, <4>1, ForceDropsOldest, ZenonT(60)
    <3>3. Contents(fifo) \o <<0>> = Append(Contents(fifo), 0)
      BY <3>1
    <3>4. PutCharForce(fifo, 0) = PutForce(fifo, <<0>>)
      BY ForceOneByte
    <3> QED
      BY <3>2, <3>3, <3>4, ZenonT(60)
  <2>2. ASSUME NEW n \in 1 .. buffer_size + 1
        PROVE  LET data == [i \in 1 .. n |-> -i] IN
               IF fifo.read_mirror = fifo.write_mirror /\ Lesser(n, buffer_size) > SpaceLen(fifo)
               THEN DataLen(PutForce(fifo, data)) = 0
               ELSE Contents(PutForce(fifo, data)) = Newest(Contents(fifo) \o data)
    <3> DEFINE data == [i \in 1 .. n |-> -i]
    <3>1. data \in Seq(Int) /\ Len(data) = n
      BY RingAssumption
    <3> HIDE DEF data
    <3>2. IF fifo.read_mirror = fifo.write_mirror
             /\ Lesser(Len(data), buffer_size) > SpaceLen(fifo)
          THEN DataLen(PutForce(fifo, data)) = 0
          ELSE Contents(PutForce(fifo, data)) = Newest(Contents(fifo) \o data)
      BY <3>1, ForceDropsOldest, ZenonT(60)
    <3> QED
      BY <3>1, <3>2 DEF data
  <2> QED
    BY <2>1, <2>2, ZenonT(60) DEF ForceKeepsNewest
<1> QED
  BY <1>1, PipeInductive, PTL
=============================================================================
