---------------------------- MODULE KernelProofs ----------------------------
(***************************************************************************)
(* Lists of threads without repetitions, and what the primitives of Kernel *)
(* preserve.  The proofs about threads, semaphores, mutexes and mailboxes  *)
(* show their own steps from these lemmas.                                 *)
(***************************************************************************)
EXTENDS WellFoundedInduction, Kernel, TLAPS

-----------------------------------------------------------------------------
(* Lists without repetitions.                                              *)

\* A sequence is empty when it has no members.
LEMMA EmptyRange ==
    ASSUME NEW S, NEW s \in Seq(S)
    PROVE  s = <<>> <=> Range(s) = {}
BY DEF Range

\* The head of a non-empty list is one of its members.
LEMMA HeadInRange ==
    ASSUME NEW S, NEW s \in Seq(S), s # <<>>
    PROVE  Head(s) \in S /\ Head(s) \in Range(s)
BY DEF Range

\* The members of a list of elements of S are elements of S.
LEMMA RangeSubset ==
    ASSUME NEW S, NEW s \in Seq(S)
    PROVE  Range(s) \subseteq S
BY DEF Range

\* Linking an element at the tail.
LEMMA AppendLemma ==
    ASSUME NEW S, NEW s \in Seq(S), NEW e \in S
    PROVE  /\ Append(s, e) \in Seq(S)
           /\ Append(s, e) # <<>>
           /\ Range(Append(s, e)) = Range(s) \cup {e}
           /\ IsInjective(s) /\ e \notin Range(s) => IsInjective(Append(s, e))
<1>1. Append(s, e) \in Seq(S) /\ Len(Append(s, e)) = Len(s) + 1
  OBVIOUS
<1>2. \A j \in 1 .. Len(s) + 1 : Append(s, e)[j] = IF j = Len(s) + 1 THEN e ELSE s[j]
  OBVIOUS
<1>3. Range(Append(s, e)) \subseteq Range(s) \cup {e}
  BY <1>1, <1>2 DEF Range
<1>4. Range(s) \subseteq Range(Append(s, e))
  BY <1>1, <1>2 DEF Range
<1>5. e \in Range(Append(s, e))
  BY <1>1, <1>2 DEF Range
<1>6. ASSUME IsInjective(s), e \notin Range(s) PROVE IsInjective(Append(s, e))
  BY <1>1, <1>2, <1>6 DEF IsInjective, Range
<1> QED
  BY <1>1, <1>3, <1>4, <1>5, <1>6

\* r is s with e linked at place i.
LinkedAt(r, s, i, e) ==
    /\ Len(r) = Len(s) + 1
    /\ \A j \in 1 .. Len(s) + 1 :
          r[j] = IF j < i THEN s[j] ELSE IF j = i THEN e ELSE s[j - 1]

\* r is s with the element at place i unlinked.
UnlinkedAt(r, s, i) ==
    /\ Len(r) = Len(s) - 1
    /\ \A j \in 1 .. Len(s) - 1 : r[j] = IF j < i THEN s[j] ELSE s[j + 1]

\* Where the elements are when one has been linked at place i.
LEMMA InsertPlaces ==
    ASSUME NEW S, NEW s \in Seq(S), NEW e \in S, NEW i \in 1 .. Len(s) + 1
    PROVE  NodeInsert(s, i, e) \in Seq(S) /\ LinkedAt(NodeInsert(s, i, e), s, i, e)
<1> DEFINE r == NodeInsert(s, i, e)
             a == SubSeq(s, 1, i - 1)
             b == SubSeq(s, i, Len(s))
<1>a. a \in Seq(S) /\ Len(a) = i - 1 /\ \A j \in 1 .. i - 1 : a[j] = s[j]
  OBVIOUS
<1>b. b \in Seq(S) /\ Len(b) = Len(s) - i + 1 /\ \A j \in 1 .. Len(b) : b[j] = s[i + j - 1]
  OBVIOUS
<1>c. r = a \o <<e>> \o b
  BY DEF NodeInsert
<1> HIDE DEF r, a, b
<1>d. /\ a \o <<e>> \in Seq(S) /\ Len(a \o <<e>>) = i
      /\ \A j \in 1 .. i : (a \o <<e>>)[j] = IF j < i THEN s[j] ELSE e
  BY <1>a
<1> DEFINE ae == a \o <<e>>
<1>e. r = ae \o b
  BY <1>c
<1>f. /\ ae \in Seq(S) /\ Len(ae) = i
      /\ \A j \in 1 .. i : ae[j] = IF j < i THEN s[j] ELSE e
  BY <1>d
<1> HIDE DEF ae
<1>1. r \in Seq(S) /\ Len(r) = Len(s) + 1
  <2>1. ae \in Seq(S) /\ Len(ae) = i /\ b \in Seq(S) /\ Len(b) = Len(s) - i + 1
    BY <1>b, <1>f
  <2>2. ae \o b \in Seq(S) /\ Len(ae \o b) = Len(ae) + Len(b)
    BY <2>1
  <2> QED
    BY <1>e, <2>1, <2>2
<1>2. \A j \in 1 .. Len(s) + 1 :
         r[j] = IF j < i THEN s[j] ELSE IF j = i THEN e ELSE s[j - 1]
  <2> TAKE j \in 1 .. Len(s) + 1
  <2>1. CASE j <= i
    BY <1>b, <1>e, <1>f, <2>1
  <2>2. CASE j > i
    <3>1. r[j] = b[j - i] /\ j - i \in 1 .. Len(b)
      BY <1>b, <1>e, <1>f, <2>2
    <3> QED
      BY <1>b, <2>2, <3>1
  <2> QED
    BY <2>1, <2>2
<1> QED
  BY <1>1, <1>2, Zenon DEF LinkedAt, r

\* Linking an element at position i.
LEMMA InsertLemma ==
    ASSUME NEW S, NEW s \in Seq(S), NEW e \in S, NEW i \in 1 .. Len(s) + 1
    PROVE  /\ NodeInsert(s, i, e) \in Seq(S)
           /\ Range(NodeInsert(s, i, e)) = Range(s) \cup {e}
           /\ IsInjective(s) /\ e \notin Range(s) => IsInjective(NodeInsert(s, i, e))
<1> DEFINE r == NodeInsert(s, i, e)
<1>0. r \in Seq(S) /\ LinkedAt(r, s, i, e)
  BY InsertPlaces, Zenon
<1> HIDE DEF r
<1>1. r \in Seq(S) /\ Len(r) = Len(s) + 1
  BY <1>0, Zenon DEF LinkedAt
<1>2. \A j \in 1 .. Len(s) + 1 :
         r[j] = IF j < i THEN s[j] ELSE IF j = i THEN e ELSE s[j - 1]
  BY <1>0, Zenon DEF LinkedAt
<1>3. Range(r) \subseteq Range(s) \cup {e}
  <2>1. SUFFICES ASSUME NEW j \in 1 .. Len(s) + 1 PROVE r[j] \in Range(s) \cup {e}
    BY <1>1 DEF Range
  <2>2. CASE j = i
    BY <1>2, <2>2
  <2>3. CASE j < i
    <3>1. j \in 1 .. Len(s) /\ r[j] = s[j]
      BY <1>2, <2>3
    <3> QED
      BY <3>1 DEF Range
  <2>4. CASE j > i
    <3>1. j - 1 \in 1 .. Len(s) /\ r[j] = s[j - 1]
      BY <1>2, <2>4
    <3> QED
      BY <3>1 DEF Range
  <2> QED
    BY <2>2, <2>3, <2>4
<1>4. ASSUME NEW k \in 1 .. Len(s) PROVE s[k] \in Range(r)
  <2>1. CASE k < i
    BY <1>1, <1>2, <2>1 DEF Range
  <2>2. CASE ~(k < i)
    <3>1. k + 1 \in 1 .. Len(s) + 1 /\ r[k + 1] = s[k]
      BY <1>1, <1>2, <2>2
    <3> QED
      BY <1>1, <3>1 DEF Range
  <2> QED
    BY <2>1, <2>2
<1>5. e \in Range(r)
  BY <1>1, <1>2 DEF Range
<1>6. ASSUME IsInjective(s), e \notin Range(s) PROVE IsInjective(r)
  <2>1. \A j, k \in 1 .. Len(s) : s[j] = s[k] => j = k
    BY <1>6 DEF IsInjective
  <2>2. \A k \in 1 .. Len(s) : s[k] # e
    BY <1>6 DEF Range
  <2>3. SUFFICES ASSUME NEW j \in 1 .. Len(s) + 1, NEW k \in 1 .. Len(s) + 1, j < k
                 PROVE  r[j] # r[k]
    BY <1>1, <2>3 DEF IsInjective
  <2>4. CASE k < i
    BY <1>2, <2>1, <2>3, <2>4
  <2>5. CASE k = i
    BY <1>2, <2>2, <2>3, <2>5
  <2>6. CASE k > i
    BY <1>2, <2>1, <2>2, <2>3, <2>6
  <2> QED
    BY <2>4, <2>5, <2>6
<1>7. Range(s) \subseteq Range(r)
  BY <1>4 DEF Range
<1> QED
  BY <1>1, <1>3, <1>5, <1>6, <1>7 DEF r

\* Where the elements are when the i-th has been unlinked.
LEMMA RemovePlaces ==
    ASSUME NEW S, NEW s \in Seq(S), NEW i \in 1 .. Len(s)
    PROVE  NodeRemoveAt(s, i) \in Seq(S) /\ UnlinkedAt(NodeRemoveAt(s, i), s, i)
<1> DEFINE r == NodeRemoveAt(s, i)
             a == SubSeq(s, 1, i - 1)
             b == SubSeq(s, i + 1, Len(s))
<1>a. a \in Seq(S) /\ Len(a) = i - 1 /\ \A j \in 1 .. i - 1 : a[j] = s[j]
  OBVIOUS
<1>b. b \in Seq(S) /\ Len(b) = Len(s) - i /\ \A j \in 1 .. Len(b) : b[j] = s[i + j]
  OBVIOUS
<1>c. r = a \o b
  BY DEF NodeRemoveAt
<1> HIDE DEF r, a, b
<1>1. r \in Seq(S) /\ Len(r) = Len(s) - 1
  BY <1>a, <1>b, <1>c
<1>2. \A j \in 1 .. Len(s) - 1 : r[j] = IF j < i THEN s[j] ELSE s[j + 1]
  <2> TAKE j \in 1 .. Len(s) - 1
  <2>1. CASE j < i
    BY <1>a, <1>b, <1>c, <2>1
  <2>2. CASE j >= i
    <3>1. r[j] = b[j - (i - 1)] /\ j - (i - 1) \in 1 .. Len(b)
      BY <1>a, <1>b, <1>c, <2>2, SMTT(30)
    <3>2. b[j - (i - 1)] = s[i + (j - (i - 1))] /\ i + (j - (i - 1)) = j + 1
      BY <1>b, <3>1
    <3> QED
      BY <2>2, <3>1, <3>2
  <2> QED
    BY <2>1, <2>2
<1> QED
  BY <1>1, <1>2, Zenon DEF UnlinkedAt, r

\* Unlinking the element at position i.
LEMMA RemoveAtLemma ==
    ASSUME NEW S, NEW s \in Seq(S), NEW i \in 1 .. Len(s), IsInjective(s)
    PROVE  /\ NodeRemoveAt(s, i) \in Seq(S)
           /\ Range(NodeRemoveAt(s, i)) = Range(s) \ {s[i]}
           /\ IsInjective(NodeRemoveAt(s, i))
<1> DEFINE r == NodeRemoveAt(s, i)
<1>0. r \in Seq(S) /\ UnlinkedAt(r, s, i)
  BY RemovePlaces, Zenon
<1> HIDE DEF r
<1>1. r \in Seq(S) /\ Len(r) = Len(s) - 1
  BY <1>0, Zenon DEF UnlinkedAt
<1>2. \A j \in 1 .. Len(s) - 1 : r[j] = IF j < i THEN s[j] ELSE s[j + 1]
  BY <1>0, Zenon DEF UnlinkedAt
<1>3. Range(r) \subseteq Range(s) \ {s[i]}
  BY <1>1, <1>2 DEF Range, IsInjective
<1>4. ASSUME NEW k \in 1 .. Len(s), k # i PROVE s[k] \in Range(r)
  <2>1. CASE k < i
    BY <1>1, <1>2, <2>1 DEF Range
  <2>2. CASE ~(k < i)
    <3>1. k - 1 \in 1 .. Len(s) - 1 /\ r[k - 1] = s[k]
      BY <1>1, <1>2, <1>4, <2>2
    <3> QED
      BY <1>1, <3>1 DEF Range
  <2> QED
    BY <2>1, <2>2
<1>5. Range(s) \ {s[i]} \subseteq Range(r)
  BY <1>4 DEF Range
<1>6. IsInjective(r)
  <2>1. \A j, k \in 1 .. Len(s) : s[j] = s[k] => j = k
    BY DEF IsInjective
  <2>2. SUFFICES ASSUME NEW j \in 1 .. Len(s) - 1, NEW k \in 1 .. Len(s) - 1, j < k
                 PROVE  r[j] # r[k]
    BY <1>1, <2>2 DEF IsInjective
  <2> QED
    BY <1>2, <2>1, <2>2
<1> QED
  BY <1>1, <1>3, <1>5, <1>6 DEF r

\* The place of a member.
LEMMA NodePlace ==
    ASSUME NEW S, NEW s \in Seq(S), NEW e, IsInjective(s), NodePlaces(s, e) # {}
    PROVE  Min(NodePlaces(s, e)) \in 1 .. Len(s) /\ s[Min(NodePlaces(s, e))] = e
<1>1. PICK i \in 1 .. Len(s) : NodePlaces(s, e) = {i} /\ s[i] = e
  BY DEF NodePlaces, IsInjective
<1>2. Min({i}) = i
  BY DEF Min
<1> QED
  BY <1>1, <1>2

\* Unlinking an element, wherever it is.
LEMMA NodeRemoveLemma ==
    ASSUME NEW S, NEW s \in Seq(S), NEW e, IsInjective(s)
    PROVE  /\ NodeRemove(s, e) \in Seq(S)
           /\ Range(NodeRemove(s, e)) = Range(s) \ {e}
           /\ IsInjective(NodeRemove(s, e))
           /\ e \notin Range(s) => NodeRemove(s, e) = s
<1>1. CASE NodePlaces(s, e) # {}
  <2> DEFINE m == Min(NodePlaces(s, e))
  <2>3. NodeRemove(s, e) = NodeRemoveAt(s, m)
    BY <1>1 DEF NodeRemove
  <2>4. m \in 1 .. Len(s) /\ s[m] = e
    BY <1>1, NodePlace
  <2> HIDE DEF m
  <2>5. e \in Range(s)
    BY <2>4 DEF Range
  <2>6. /\ NodeRemoveAt(s, m) \in Seq(S)
        /\ Range(NodeRemoveAt(s, m)) = Range(s) \ {s[m]}
        /\ IsInjective(NodeRemoveAt(s, m))
    BY <2>4, RemoveAtLemma
  <2> QED
    BY <2>3, <2>4, <2>5, <2>6
<1>2. CASE NodePlaces(s, e) = {}
  <2>1. NodeRemove(s, e) = s /\ e \notin Range(s)
    BY <1>2 DEF NodeRemove, NodePlaces, Range
  <2> QED
    BY <2>1
<1> QED
  BY <1>1, <1>2

\* Unlinking the first element.
LEMMA TailLemma ==
    ASSUME NEW S, NEW s \in Seq(S), s # <<>>, IsInjective(s)
    PROVE  /\ Tail(s) \in Seq(S) /\ IsInjective(Tail(s))
           /\ Len(Tail(s)) = Len(s) - 1
           /\ Range(Tail(s)) = Range(s) \ {Head(s)}
<1>1. /\ Tail(s) \in Seq(S) /\ Len(Tail(s)) = Len(s) - 1 /\ Len(s) \in Nat \ {0}
      /\ \A i \in 1 .. Len(s) - 1 : Tail(s)[i] = s[i + 1]
      /\ Head(s) = s[1]
  OBVIOUS
<1>2. \A i, j \in 1 .. Len(s) : s[i] = s[j] => i = j
  BY DEF IsInjective
<1>3. IsInjective(Tail(s))
  <2> SUFFICES ASSUME NEW i \in 1 .. Len(s) - 1, NEW j \in 1 .. Len(s) - 1,
                      Tail(s)[i] = Tail(s)[j]
               PROVE  i = j
    BY <1>1 DEF IsInjective
  <2> QED
    BY <1>1, <1>2
<1> DEFINE r == Tail(s)
<1>4. /\ DOMAIN r = 1 .. Len(s) - 1 /\ DOMAIN s = 1 .. Len(s) /\ 1 \in DOMAIN s
      /\ \A i \in DOMAIN r : i + 1 \in DOMAIN s /\ r[i] = s[i + 1] /\ r[i] # s[1]
      /\ \A i \in DOMAIN s : i # 1 => i - 1 \in DOMAIN r /\ r[i - 1] = s[i]
  <2>1. DOMAIN r = 1 .. Len(s) - 1 /\ DOMAIN s = 1 .. Len(s) /\ 1 \in DOMAIN s
    BY <1>1
  <2>2. ASSUME NEW i \in DOMAIN r
        PROVE  i + 1 \in DOMAIN s /\ r[i] = s[i + 1] /\ r[i] # s[1]
    BY <1>1, <1>2, <2>1
  <2>3. ASSUME NEW i \in DOMAIN s, i # 1
        PROVE  i - 1 \in DOMAIN r /\ r[i - 1] = s[i]
    <3>1. i - 1 \in DOMAIN r /\ (i - 1) + 1 = i
      BY <1>1, <2>1, <2>3
    <3> QED
      BY <1>1, <2>1, <3>1
  <2> QED
    BY <2>1, <2>2, <2>3
<1> HIDE DEF r
<1>5. ASSUME NEW i \in DOMAIN r PROVE r[i] \in Range(s) \ {s[1]}
  BY <1>4 DEF Range
<1>6. ASSUME NEW i \in DOMAIN s, i # 1 PROVE s[i] \in Range(r)
  BY <1>4, <1>6, ZenonT(60) DEF Range
<1>7. Range(r) = Range(s) \ {s[1]}
  <2>1. ASSUME NEW x \in Range(r) PROVE x \in Range(s) \ {s[1]}
    BY <1>5 DEF Range
  <2>2. ASSUME NEW x \in Range(s), x # s[1] PROVE x \in Range(r)
    BY <1>6, <2>2 DEF Range
  <2> QED
    BY <2>1, <2>2
<1> QED
  BY <1>1, <1>3, <1>7 DEF r

\* Linking an element at the head.
LEMMA ConsLemma ==
    ASSUME NEW S, NEW s \in Seq(S), NEW e \in S
    PROVE  /\ <<e>> \o s \in Seq(S) /\ Len(<<e>> \o s) = Len(s) + 1
           /\ Range(<<e>> \o s) = Range(s) \cup {e}
           /\ IsInjective(s) /\ e \notin Range(s) => IsInjective(<<e>> \o s)
<1> DEFINE r == <<e>> \o s
<1>1. /\ r \in Seq(S) /\ Len(r) = Len(s) + 1 /\ Len(s) \in Nat
      /\ r[1] = e /\ \A i \in 1 .. Len(s) : r[i + 1] = s[i]
  OBVIOUS
<1> HIDE DEF r
<1>2. \A i \in 1 .. Len(s) + 1 : r[i] = IF i = 1 THEN e ELSE s[i - 1]
  <2> TAKE i \in 1 .. Len(s) + 1
  <2>1. CASE i = 1
    BY <1>1, <2>1
  <2>2. CASE i # 1
    <3>1. i - 1 \in 1 .. Len(s) /\ (i - 1) + 1 = i
      BY <1>1, <2>2
    <3> QED
      BY <1>1, <2>2, <3>1
  <2> QED
    BY <2>1, <2>2
<1>3. Range(r) \subseteq Range(s) \cup {e}
  <2> SUFFICES ASSUME NEW i \in 1 .. Len(s) + 1 PROVE r[i] \in Range(s) \cup {e}
    BY <1>1 DEF Range
  <2>1. i = 1 \/ i - 1 \in 1 .. Len(s)
    BY <1>1
  <2> QED
    BY <1>2, <2>1 DEF Range
<1>4. Range(s) \subseteq Range(r) /\ e \in Range(r)
  <2>1. ASSUME NEW i \in 1 .. Len(s) PROVE s[i] \in Range(r)
    <3>1. i + 1 \in DOMAIN r /\ r[i + 1] = s[i]
      BY <1>1
    <3> QED
      BY <3>1, ZenonT(60) DEF Range
  <2>2. e \in Range(r)
    BY <1>1 DEF Range
  <2> QED
    BY <2>1, <2>2 DEF Range
<1>5. ASSUME IsInjective(s), e \notin Range(s) PROVE IsInjective(r)
  <2>1. \A i, j \in 1 .. Len(s) : s[i] = s[j] => i = j
    BY <1>5 DEF IsInjective
  <2>2. \A i \in 1 .. Len(s) : s[i] # e
    BY <1>5 DEF Range
  <2> SUFFICES ASSUME NEW i \in 1 .. Len(s) + 1, NEW j \in 1 .. Len(s) + 1, i < j
               PROVE  r[i] # r[j]
    BY <1>1 DEF IsInjective
  <2>3. j - 1 \in 1 .. Len(s) /\ r[j] = s[j - 1]
    BY <1>1, <1>2
  <2>4. CASE i = 1
    BY <1>1, <2>2, <2>3, <2>4
  <2>5. CASE i # 1
    <3>1. i - 1 \in 1 .. Len(s) /\ r[i] = s[i - 1] /\ i - 1 # j - 1
      BY <1>1, <1>2, <2>5
    <3> QED
      BY <2>1, <2>3, <3>1, Zenon
  <2> QED
    BY <2>4, <2>5
<1> QED
  BY <1>1, <1>3, <1>4, <1>5 DEF r

\* The members stand in the order of their keys, as in a list that is kept by
\* priority.
Ascending(s, key) == \A i, j \in 1 .. Len(s) : i < j => key[s[i]] <= key[s[j]]

\* A list that loses a node stays in order,
LEMMA AscendingRemove ==
    ASSUME NEW S, NEW s \in Seq(S), NEW e, IsInjective(s), NEW key, Ascending(s, key)
    PROVE  Ascending(NodeRemove(s, e), key)
<1>1. CASE NodePlaces(s, e) = {}
  BY <1>1 DEF NodeRemove
<1>2. CASE NodePlaces(s, e) # {}
  <2>1. PICK i \in 1 .. Len(s) : i = Min(NodePlaces(s, e))
    BY <1>2, NodePlace
  <2> DEFINE r == NodeRemoveAt(s, i)
  <2>2. NodeRemove(s, e) = r
    BY <1>2, <2>1 DEF NodeRemove
  <2>0. r \in Seq(S) /\ UnlinkedAt(r, s, i)
    BY RemovePlaces, Zenon
  <2> HIDE DEF r
  <2>3. /\ Len(r) = Len(s) - 1
        /\ \A j \in 1 .. Len(s) - 1 : r[j] = IF j < i THEN s[j] ELSE s[j + 1]
    BY <2>0, Zenon DEF UnlinkedAt
  <2>4. ASSUME NEW j \in 1 .. Len(r), NEW k \in 1 .. Len(r), j < k
        PROVE  key[r[j]] <= key[r[k]]
    <3>1. j \in 1 .. Len(s) /\ k \in 1 .. Len(s) /\ j + 1 \in 1 .. Len(s) /\ k + 1 \in 1 .. Len(s)
      BY <2>3, <2>4
    <3>2. j \in 1 .. Len(s) - 1 /\ k \in 1 .. Len(s) - 1 /\ j < k + 1 /\ j + 1 < k + 1
      BY <2>3, <2>4
    <3>3. /\ r[j] = IF j < i THEN s[j] ELSE s[j + 1]
          /\ r[k] = IF k < i THEN s[k] ELSE s[k + 1]
      BY <2>3, <3>2, Zenon
    <3>4. k < i => j < i
      BY <2>4
    <3>5. /\ key[s[j]] <= key[s[k]] /\ key[s[j]] <= key[s[k + 1]]
          /\ key[s[j + 1]] <= key[s[k + 1]]
      BY <2>4, <3>1, <3>2, Zenon DEF Ascending
    <3> QED
      BY <3>3, <3>4, <3>5, Zenon
  <2> QED
    BY <2>2, <2>4 DEF Ascending
<1> QED
  BY <1>1, <1>2

\* ... and so does one that gains a node between the smaller keys and the
\* greater ones.
LEMMA AscendingInsert ==
    ASSUME NEW S, NEW s \in Seq(S), NEW e \in S, NEW key, Ascending(s, key),
           NEW i \in 1 .. Len(s) + 1,
           \A j \in 1 .. Len(s) : j < i => key[s[j]] <= key[e],
           \A j \in 1 .. Len(s) : i <= j => key[e] <= key[s[j]]
    PROVE  Ascending(NodeInsert(s, i, e), key)
<1> DEFINE r == NodeInsert(s, i, e)
<1>0. r \in Seq(S) /\ LinkedAt(r, s, i, e)
  BY InsertPlaces, Zenon
<1> HIDE DEF r
<1>1. /\ Len(r) = Len(s) + 1
      /\ \A j \in 1 .. Len(s) + 1 :
            r[j] = IF j < i THEN s[j] ELSE IF j = i THEN e ELSE s[j - 1]
  BY <1>0, Zenon DEF LinkedAt
<1>2. ASSUME NEW j \in 1 .. Len(r), NEW k \in 1 .. Len(r), j < k
      PROVE  key[r[j]] <= key[r[k]]
  <2>1. CASE k < i
    BY <1>1, <1>2, <2>1 DEF Ascending
  <2>2. CASE k = i
    BY <1>1, <1>2, <2>2
  <2>3. CASE k > i /\ j < i
    <3>1. /\ k - 1 \in 1 .. Len(s) /\ j \in 1 .. Len(s) /\ j < k - 1
          /\ r[j] = s[j] /\ r[k] = s[k - 1]
      BY <1>1, <1>2, <2>3
    <3> QED
      BY <3>1 DEF Ascending
  <2>4. CASE k > i /\ j = i
    <3>1. k - 1 \in 1 .. Len(s) /\ i <= k - 1 /\ r[j] = e /\ r[k] = s[k - 1]
      BY <1>1, <1>2, <2>4
    <3> QED
      BY <3>1
  <2>5. CASE k > i /\ j > i
    <3>1. /\ k - 1 \in 1 .. Len(s) /\ j - 1 \in 1 .. Len(s) /\ j - 1 < k - 1
          /\ r[j] = s[j - 1] /\ r[k] = s[k - 1]
      BY <1>1, <1>2, <2>5
    <3> QED
      BY <3>1 DEF Ascending
  <2> QED
    BY <1>2, <2>1, <2>2, <2>3, <2>4, <2>5
<1> QED
  BY <1>2 DEF Ascending, r

\* The head of a list in order has the least key.
LEMMA AscendingHead ==
    ASSUME NEW S, NEW s \in Seq(S), s # <<>>, NEW key \in [S -> Int], Ascending(s, key),
           NEW u \in Range(s)
    PROVE  key[Head(s)] <= key[u]
<1>1. PICK i \in 1 .. Len(s) : s[i] = u
  BY DEF Range
<1>2. Head(s) = s[1] /\ 1 \in 1 .. Len(s) /\ key[s[1]] \in Int
  OBVIOUS
<1> QED
  BY <1>1, <1>2 DEF Ascending

-----------------------------------------------------------------------------
(* The ready queues, the wait lists and the timers.                        *)

-----------------------------------------------------------------------------
(* The lists as functions.                                                 *)

\* A non-empty set of natural numbers has a minimum, and Min is it.
LEMMA MinOfNats ==
    ASSUME NEW S \in SUBSET Nat, S # {}
    PROVE  Min(S) \in S /\ \A n \in S : Min(S) <= n
<1>1. \E x \in S : \A y \in S : ~(<<y, x>> \in OpToRel(<, Nat))
  BY NatLessThanWellFounded, WFMin, Zenon
<1>2. \A x, y \in Nat : <<y, x>> \in OpToRel(<, Nat) <=> y < x
  BY DEF OpToRel
<1>3. \E x \in S : \A y \in S : x =< y
  <2>1. PICK x \in S : \A y \in S : ~(<<y, x>> \in OpToRel(<, Nat))
    BY <1>1, ZenonT(60)
  <2>2. \A y \in S : ~(y < x) /\ x \in Nat /\ y \in Nat
    BY <1>2, <2>1, Zenon
  <2> QED
    BY <2>2
<1> QED
  BY <1>3, ZenonT(60) DEF Min

\* A list head is a ready queue, a wait list or the defunct list, and only one.
LEMMA Heads ==
    /\ Prio \subseteq Nat
    /\ \A p \in Prio : p \in ListHead /\ p \notin WaitList /\ p # Defunct
    /\ \A q \in WaitList : q \in ListHead /\ q \notin Prio /\ q # Defunct
    /\ Defunct \in ListHead /\ Defunct \notin Prio /\ Defunct \notin WaitList
    /\ MaxPrio \in Prio
BY HeadAssumption, PrioAssumption DEF ListHead, Prio

Lists == [ListHead -> Seq(Thread)]

\* rt_list_remove takes t, and only t, out of every list.
LEMMA ListRemoveLemma ==
    ASSUME NEW L \in Lists, \A h \in ListHead : IsInjective(L[h]), NEW t \in Thread
    PROVE  /\ ListRemove(L, t) \in Lists
           /\ \A h \in ListHead : /\ IsInjective(ListRemove(L, t)[h])
                                  /\ Range(ListRemove(L, t)[h]) = Range(L[h]) \ {t}
                                  /\ t \notin Range(L[h]) => ListRemove(L, t)[h] = L[h]
<1>1. \A h \in ListHead : L[h] \in Seq(Thread)
  BY DEF Lists
<1>2. \A h \in ListHead : /\ NodeRemove(L[h], t) \in Seq(Thread)
                          /\ Range(NodeRemove(L[h], t)) = Range(L[h]) \ {t}
                          /\ IsInjective(NodeRemove(L[h], t))
                          /\ t \notin Range(L[h]) => NodeRemove(L[h], t) = L[h]
  BY <1>1, NodeRemoveLemma
<1> QED
  BY <1>2 DEF ListRemove, Lists

\* Inserting t in the ready queue p adds t, there only.
LEMMA ReadyInsertLemma ==
    ASSUME NEW L \in Lists, NEW t \in Thread, NEW p \in Prio
    PROVE  /\ ReadyInsert(L, t, p) \in Lists
           /\ \A h \in ListHead \ {p} : ReadyInsert(L, t, p)[h] = L[h]
           /\ Range(ReadyInsert(L, t, p)[p]) = Range(L[p]) \cup {t}
           /\ ReadyInsert(L, t, p)[p] # <<>>
           /\ IsInjective(L[p]) /\ t \notin Range(L[p]) => IsInjective(ReadyInsert(L, t, p)[p])
<1>1. p \in ListHead /\ L[p] \in Seq(Thread)
  BY Heads DEF Lists
<1>2. /\ ReadyInsert(L, t, p) = [L EXCEPT ![p] = Append(L[p], t)]
      /\ Append(L[p], t) \in Seq(Thread)
  BY <1>1, AppendLemma DEF ReadyInsert
<1>3. /\ ReadyInsert(L, t, p) \in Lists
      /\ \A h \in ListHead \ {p} : ReadyInsert(L, t, p)[h] = L[h]
      /\ ReadyInsert(L, t, p)[p] = Append(L[p], t)
  BY <1>1, <1>2 DEF Lists
<1> QED
  BY <1>1, <1>3, AppendLemma

\* The place rt_ipc_list_suspend chooses is a place of the list.
LEMMA WaitPosLemma ==
    ASSUME NEW s \in Seq(Thread), NEW t \in Thread, NEW f \in {"FIFO", "PRIO", "LIFO"},
           current_priority \in [Thread -> Prio]
    PROVE  WaitPos(s, t, f) \in 1 .. Len(s) + 1
<1>1. CASE f = "FIFO"
  BY <1>1 DEF WaitPos
<1>2. CASE f = "LIFO"
  BY <1>2 DEF WaitPos
<1>3. CASE f = "PRIO"
  <2> DEFINE I == {i \in DOMAIN s : current_priority[t] < current_priority[s[i]]}
                    \cup {Len(s) + 1}
  <2>1. I # {} /\ I \in SUBSET Nat /\ I \subseteq 1 .. Len(s) + 1
    OBVIOUS
  <2>2. WaitPos(s, t, f) = Min(I)
    BY <1>3 DEF WaitPos
  <2> HIDE DEF I
  <2> QED
    BY <2>1, <2>2, MinOfNats, ZenonT(60)
<1> QED
  BY <1>1, <1>2, <1>3

\* Linking t to the wait list q adds t, there only.
LEMMA WaitInsertLemma ==
    ASSUME NEW L \in Lists, NEW t \in Thread, NEW q \in WaitList,
           current_priority \in [Thread -> Prio]
    PROVE  /\ WaitInsert(L, t, q) \in Lists
           /\ \A h \in ListHead \ {q} : WaitInsert(L, t, q)[h] = L[h]
           /\ Range(WaitInsert(L, t, q)[q]) = Range(L[q]) \cup {t}
           /\ IsInjective(L[q]) /\ t \notin Range(L[q]) => IsInjective(WaitInsert(L, t, q)[q])
<1> DEFINE i == WaitPos(L[q], t, Flag[q])
<1>1. q \in ListHead /\ L[q] \in Seq(Thread) /\ Flag[q] \in {"FIFO", "PRIO", "LIFO"}
  BY Heads, HeadAssumption DEF Lists
<1>2. i \in 1 .. Len(L[q]) + 1
  BY <1>1, WaitPosLemma
<1>3. WaitInsert(L, t, q) = [L EXCEPT ![q] = NodeInsert(L[q], i, t)]
  BY DEF WaitInsert
<1> HIDE DEF i
<1>4. NodeInsert(L[q], i, t) \in Seq(Thread)
  BY <1>1, <1>2, InsertLemma
<1>5. /\ WaitInsert(L, t, q) \in Lists
      /\ \A h \in ListHead \ {q} : WaitInsert(L, t, q)[h] = L[h]
      /\ WaitInsert(L, t, q)[q] = NodeInsert(L[q], i, t)
  BY <1>1, <1>3, <1>4 DEF Lists
<1> QED
  BY <1>1, <1>2, <1>5, InsertLemma

-----------------------------------------------------------------------------
(* The ready queues, the wait lists and the bitmap, as a predicate of the  *)
(* four values involved: an action that moves two threads is proved with   *)
(* the state between the two moves.                                        *)

Bits(L) == {p \in Prio : L[p] # <<>>}

Queues(st, pr, L, g) ==
    /\ st \in [Thread -> Stat] /\ pr \in [Thread -> Prio] /\ L \in Lists
    /\ \A h \in ListHead : IsInjective(L[h])
    /\ \A h, k \in ListHead : h # k => Range(L[h]) \cap Range(L[k]) = {}
    /\ \A p \in Prio : \A t \in Range(L[p]) : st[t] = "READY" /\ pr[t] = p
    /\ \A q \in WaitList : \A t \in Range(L[q]) : st[t] = "SUSPEND"
    /\ \A t \in Range(L[Defunct]) : st[t] = "CLOSE"
    /\ g = Bits(L)
    /\ st[Idle] = "READY" /\ pr[Idle] = MaxPrio /\ Idle \in Range(L[MaxPrio])

QueuesOK == Queues(stat, current_priority, list, group)

\* The conjuncts of KernelInv about the lists are Queues of the state.
LEMMA QueuesOfInv ==
    QueuesOK <=> /\ stat \in [Thread -> Stat]
                 /\ current_priority \in [Thread -> Prio]
                 /\ list \in [ListHead -> Seq(Thread)]
                 /\ group \in SUBSET Prio
                 /\ NodeLinkedOnce /\ ListMatchesStat /\ BitmapMatchesQueues /\ IdleIsReady
BY ZenonT(60) DEF QueuesOK, Queues, Bits, Lists, NodeLinkedOnce, ListMatchesStat,
       BitmapMatchesQueues, IdleIsReady

\* A list without members is empty.
LEMMA ListFacts ==
    ASSUME NEW L \in Lists
    PROVE  /\ \A h \in ListHead : L[h] \in Seq(Thread)
           /\ \A h \in ListHead : L[h] = <<>> <=> Range(L[h]) = {}
           /\ \A h \in ListHead : Range(L[h]) \subseteq Thread
<1>1. \A h \in ListHead : L[h] \in Seq(Thread)
  BY DEF Lists
<1> QED
  BY <1>1, EmptyRange, RangeSubset

\* rt_schedule finds a thread: a READY one, in the queue of its priority.
LEMMA HighestLemma ==
    ASSUME NEW st, NEW pr, NEW L, NEW g, Queues(st, pr, L, g)
    PROVE  /\ Highest(L, g) \in Thread
           /\ st[Highest(L, g)] = "READY"
           /\ Highest(L, g) \in Range(L[pr[Highest(L, g)]])
<1> DEFINE p == Min(g)
<1>1. L \in Lists /\ g = Bits(L) /\ Idle \in Range(L[MaxPrio])
  BY DEF Queues
<1>2. MaxPrio \in g /\ g \in SUBSET Nat
  BY <1>1, ListFacts, Heads, ZenonT(60) DEF Bits
<1>3. p \in g
  BY <1>2, MinOfNats
<1> HIDE DEF p
<1>4. p \in Prio /\ L[p] # <<>> /\ L[p] \in Seq(Thread)
  BY <1>1, <1>3, ListFacts, Heads DEF Bits
<1>5. Head(L[p]) \in Thread /\ Head(L[p]) \in Range(L[p])
  BY <1>4, HeadInRange
<1>6. Highest(L, g) = Head(L[p])
  BY DEF Highest, p
<1> QED
  BY <1>4, <1>5, <1>6 DEF Queues

\* M is L after thread t was moved to the heads in `to', at most one.
Moved(L, M, t, to) ==
    /\ M \in Lists
    /\ \A h \in ListHead : IsInjective(M[h])
    /\ \A h \in ListHead : \A u \in Thread :
          u \in Range(M[h]) <=> IF u = t THEN h \in to ELSE u \in Range(L[h])

\* Only t's stat and priority change, and they agree with its new place.
Agrees(st, pr, st2, pr2, t, to) ==
    /\ st2 \in [Thread -> Stat] /\ pr2 \in [Thread -> Prio]
    /\ \A u \in Thread \ {t} : st2[u] = st[u] /\ pr2[u] = pr[u]
    /\ \A p \in to \cap Prio : st2[t] = "READY" /\ pr2[t] = p
    /\ to \cap WaitList # {} => st2[t] = "SUSPEND"
    /\ Defunct \in to => st2[t] = "CLOSE"
    /\ t = Idle => to = {MaxPrio}

\* Moving one thread keeps everything in order.
LEMMA MoveLemma ==
    ASSUME NEW st, NEW pr, NEW L, NEW g, Queues(st, pr, L, g),
           NEW t \in Thread, NEW to, \A h, k \in to : h = k,
           NEW st2, NEW pr2, Agrees(st, pr, st2, pr2, t, to),
           NEW M, Moved(L, M, t, to)
    PROVE  Queues(st2, pr2, M, Bits(M))
<1>1. /\ M \in Lists /\ (\A h \in ListHead : IsInjective(M[h]))
      /\ st2 \in [Thread -> Stat] /\ pr2 \in [Thread -> Prio]
  BY DEF Moved, Agrees
<1>2. \A h \in ListHead : Range(M[h]) \subseteq Thread
  BY <1>1, ListFacts
<1>3. ASSUME NEW h \in ListHead, NEW k \in ListHead, h # k, NEW u,
             u \in Range(M[h]), u \in Range(M[k])
      PROVE  FALSE
  <2>1. CASE u = t
    BY <1>3, <2>1 DEF Moved
  <2>2. CASE u # t
    BY <1>2, <1>3, <2>2 DEF Moved, Queues
  <2> QED
    BY <2>1, <2>2
<1>4. ASSUME NEW h \in ListHead, NEW u \in Range(M[h])
      PROVE  /\ h \in Prio => st2[u] = "READY" /\ pr2[u] = h
             /\ h \in WaitList => st2[u] = "SUSPEND"
             /\ h = Defunct => st2[u] = "CLOSE"
  <2>1. CASE u = t
    <3>1. h \in to
      BY <2>1 DEF Moved
    <3> QED
      BY <2>1, <3>1 DEF Agrees
  <2>2. CASE u # t
    <3>1. u \in Thread /\ u \in Range(L[h])
      BY <1>2, <2>2 DEF Moved
    <3>2. st2[u] = st[u] /\ pr2[u] = pr[u]
      BY <2>2, <3>1 DEF Agrees
    <3> QED
      BY <3>1, <3>2 DEF Queues
  <2> QED
    BY <2>1, <2>2
<1>5. st2[Idle] = "READY" /\ pr2[Idle] = MaxPrio /\ Idle \in Range(M[MaxPrio])
  <2>1. Idle \in Thread /\ MaxPrio \in ListHead /\ MaxPrio \in Prio
    BY PrioAssumption, Heads
  <2>2. CASE t = Idle
    BY <2>1, <2>2 DEF Agrees, Moved
  <2>3. CASE t # Idle
    BY <2>1, <2>3 DEF Agrees, Moved, Queues
  <2> QED
    BY <2>2, <2>3
<1>6. \A h, k \in ListHead : h # k => Range(M[h]) \cap Range(M[k]) = {}
  BY <1>3
<1>7. /\ \A p \in Prio : \A u \in Range(M[p]) : st2[u] = "READY" /\ pr2[u] = p
      /\ \A q \in WaitList : \A u \in Range(M[q]) : st2[u] = "SUSPEND"
      /\ \A u \in Range(M[Defunct]) : st2[u] = "CLOSE"
  BY <1>4, Heads
<1> QED
  BY <1>1, <1>5, <1>6, <1>7, ZenonT(60) DEF Queues

\* rt_schedule_remove_thread: t is in no list, and the bitmap follows.
LEMMA RemoveMoves ==
    ASSUME NEW st, NEW pr, NEW L, NEW g, Queues(st, pr, L, g), NEW t \in Thread
    PROVE  /\ Moved(L, ListRemove(L, t), t, {})
           /\ ClearBit(g, ListRemove(L, t), pr[t]) = Bits(ListRemove(L, t))
           /\ g \cup {pr[t]} = Bits(ListRemove(L, t)) \cup {pr[t]}
           /\ st[t] # "READY" => g = Bits(ListRemove(L, t))
<1> DEFINE M == ListRemove(L, t)
<1>1. L \in Lists /\ (\A h \in ListHead : IsInjective(L[h])) /\ g = Bits(L)
  BY DEF Queues
<1>2. /\ M \in Lists
      /\ \A h \in ListHead : /\ IsInjective(M[h])
                             /\ Range(M[h]) = Range(L[h]) \ {t}
                             /\ t \notin Range(L[h]) => M[h] = L[h]
  BY <1>1, ListRemoveLemma
<1> HIDE DEF M
<1>3. Moved(L, M, t, {})
  BY <1>2 DEF Moved
<1>4. \A p \in Prio : p # pr[t] \/ st[t] # "READY" => M[p] = L[p]
  BY <1>2, Heads DEF Queues
<1>5. L[pr[t]] = <<>> => M[pr[t]] = <<>>
  <2>1. pr[t] \in Prio
    BY DEF Queues
  <2> QED
    BY <1>1, <1>2, <2>1, Heads, ListFacts, ZenonT(60)
<1>6. pr[t] \in Prio
  BY DEF Queues
<1>7. ClearBit(g, M, pr[t]) = Bits(M)
  BY <1>1, <1>4, <1>5, <1>6 DEF ClearBit, Bits
<1>8. g \cup {pr[t]} = Bits(M) \cup {pr[t]}
  BY <1>1, <1>4, <1>6 DEF Bits
<1>9. st[t] # "READY" => g = Bits(M)
  BY <1>1, <1>4 DEF Bits
<1> QED
  BY <1>3, <1>7, <1>8, <1>9 DEF M

\* Removing t and inserting it in the ready queue p.
LEMMA ReadyMoves ==
    ASSUME NEW st, NEW pr, NEW L, NEW g, Queues(st, pr, L, g), NEW t \in Thread,
           NEW p \in Prio
    PROVE  /\ Moved(L, ReadyInsert(ListRemove(L, t), t, p), t, {p})
           /\ Bits(ReadyInsert(ListRemove(L, t), t, p)) = Bits(ListRemove(L, t)) \cup {p}
<1> DEFINE M == ListRemove(L, t)
           N == ReadyInsert(M, t, p)
<1>1. Moved(L, M, t, {})
  BY RemoveMoves
<1> HIDE DEF M
<1>2. M \in Lists /\ p \in ListHead /\ t \notin Range(M[p]) /\ IsInjective(M[p])
  BY <1>1, Heads DEF Moved
<1>3. /\ N \in Lists
      /\ \A h \in ListHead \ {p} : N[h] = M[h]
      /\ Range(N[p]) = Range(M[p]) \cup {t}
      /\ N[p] # <<>>
      /\ IsInjective(N[p])
  BY <1>2, ReadyInsertLemma
<1> HIDE DEF N
<1>4. Moved(L, N, t, {p})
  BY <1>1, <1>2, <1>3 DEF Moved
<1>5. Bits(N) = Bits(M) \cup {p}
  BY <1>3, Heads, ZenonT(60) DEF Bits
<1> QED
  BY <1>4, <1>5 DEF M, N

\* Removing t and linking it to the wait list q.
LEMMA WaitMoves ==
    ASSUME NEW st, NEW pr, NEW L, NEW g, Queues(st, pr, L, g), NEW t \in Thread,
           NEW q \in WaitList, current_priority \in [Thread -> Prio]
    PROVE  /\ Moved(L, WaitInsert(ListRemove(L, t), t, q), t, {q})
           /\ ClearBit(g, WaitInsert(ListRemove(L, t), t, q), pr[t])
                = Bits(WaitInsert(ListRemove(L, t), t, q))
<1> DEFINE M == ListRemove(L, t)
           N == WaitInsert(M, t, q)
<1>1. Moved(L, M, t, {}) /\ ClearBit(g, M, pr[t]) = Bits(M)
  BY RemoveMoves
<1> HIDE DEF M
<1>2. M \in Lists /\ q \in ListHead /\ t \notin Range(M[q]) /\ IsInjective(M[q])
  BY <1>1, Heads DEF Moved
<1>3. /\ N \in Lists
      /\ \A h \in ListHead \ {q} : N[h] = M[h]
      /\ Range(N[q]) = Range(M[q]) \cup {t}
      /\ IsInjective(N[q])
  BY <1>2, WaitInsertLemma, ZenonT(60)
<1> HIDE DEF N
<1>4. Moved(L, N, t, {q})
  BY <1>1, <1>2, <1>3 DEF Moved
<1>5. \A p \in Prio : N[p] = M[p]
  BY <1>3, Heads
<1>6. pr[t] \in Prio
  BY DEF Queues
<1>7. ClearBit(g, N, pr[t]) = Bits(N)
  BY <1>1, <1>5, <1>6 DEF ClearBit, Bits
<1> QED
  BY <1>4, <1>7 DEF M, N

-----------------------------------------------------------------------------
(* The primitives as parts of actions.                                     *)

\* rt_thread_resume and rt_thread_timeout of a suspended thread.
LEMMA ResumeStep ==
    ASSUME QueuesOK, NEW t \in Thread, stat[t] = "SUSPEND",
           ResumeThread(t), UNCHANGED current_priority
    PROVE  QueuesOK' /\ Moved(list, list', t, {current_priority[t]})
<1> DEFINE p == current_priority[t]
<1>1. p \in Prio /\ stat \in [Thread -> Stat] /\ current_priority \in [Thread -> Prio]
  BY DEF QueuesOK, Queues
<1>2. /\ list' = ReadyInsert(ListRemove(list, t), t, p)
      /\ group' = group \cup {p}
      /\ stat' = [stat EXCEPT ![t] = "READY"]
  BY DEF ResumeThread
<1>3. Moved(list, list', t, {p}) /\ group' = Bits(list')
  BY <1>1, <1>2, ReadyMoves, RemoveMoves DEF QueuesOK
<1>4. t # Idle
  BY DEF QueuesOK, Queues
<1>5. Agrees(stat, current_priority, stat', current_priority', t, {p})
  BY <1>1, <1>2, <1>4, Heads DEF Agrees, Stat
<1>6. Queues(stat', current_priority', list', Bits(list'))
  BY <1>3, <1>5, MoveLemma DEF QueuesOK
<1> QED
  BY <1>3, <1>6 DEF QueuesOK

\* rt_ipc_list_suspend of a ready thread.
LEMMA SuspendOnStep ==
    ASSUME QueuesOK, NEW t \in Thread, stat[t] = "READY", t # Idle,
           NEW q \in WaitList, SuspendOn(t, q), UNCHANGED current_priority
    PROVE  QueuesOK' /\ Moved(list, list', t, {q})
<1>1. stat \in [Thread -> Stat] /\ current_priority \in [Thread -> Prio]
  BY DEF QueuesOK, Queues
<1>2. /\ list' = WaitInsert(ListRemove(list, t), t, q)
      /\ group' = ClearBit(group, list', current_priority[t])
      /\ stat' = [stat EXCEPT ![t] = "SUSPEND"]
  BY DEF SuspendOn
<1>3. Moved(list, list', t, {q}) /\ group' = Bits(list')
  BY <1>1, <1>2, WaitMoves DEF QueuesOK
<1>4. Agrees(stat, current_priority, stat', current_priority', t, {q})
  BY <1>1, <1>2, Heads DEF Agrees, Stat
<1>5. Queues(stat', current_priority', list', Bits(list'))
  BY <1>3, <1>4, MoveLemma DEF QueuesOK
<1> QED
  BY <1>3, <1>5 DEF QueuesOK

\* rt_thread_suspend of a thread other than the idle thread.
LEMMA SuspendStep ==
    ASSUME QueuesOK, NEW t \in Thread, t # Idle,
           SuspendThread(t), UNCHANGED current_priority
    PROVE  QueuesOK' /\ Moved(list, list', t, {})
<1>1. stat \in [Thread -> Stat] /\ current_priority \in [Thread -> Prio]
  BY DEF QueuesOK, Queues
<1>2. /\ list' = ListRemove(list, t)
      /\ group' = ClearBit(group, list', current_priority[t])
      /\ stat' = [stat EXCEPT ![t] = "SUSPEND"]
  BY DEF SuspendThread, RemoveThread
<1>3. Moved(list, list', t, {}) /\ group' = Bits(list')
  BY <1>1, <1>2, RemoveMoves DEF QueuesOK
<1>4. Agrees(stat, current_priority, stat', current_priority', t, {})
  BY <1>1, <1>2 DEF Agrees, Stat
<1>5. Queues(stat', current_priority', list', Bits(list'))
  BY <1>3, <1>4, MoveLemma DEF QueuesOK
<1> QED
  BY <1>3, <1>5 DEF QueuesOK

\* rt_thread_yield of a thread that is in its ready queue.
LEMMA YieldStep ==
    ASSUME QueuesOK, NEW t \in Thread, stat[t] = "READY",
           t \in Range(list[current_priority[t]]),
           list' = ReadyInsert(ListRemove(list, t), t, current_priority[t]),
           UNCHANGED <<stat, current_priority, group>>
    PROVE  QueuesOK' /\ Moved(list, list', t, {current_priority[t]})
<1> DEFINE p == current_priority[t]
<1>1. /\ p \in Prio /\ stat \in [Thread -> Stat] /\ current_priority \in [Thread -> Prio]
      /\ group = Bits(list) /\ list \in Lists
  BY DEF QueuesOK, Queues
<1>2. Moved(list, list', t, {p}) /\ group \cup {p} = Bits(list')
  BY <1>1, ReadyMoves, RemoveMoves DEF QueuesOK
<1>3. p \in group
  BY <1>1, ListFacts, Heads, ZenonT(60) DEF Bits
<1>4. Agrees(stat, current_priority, stat', current_priority', t, {p})
  BY <1>1, Heads DEF Agrees, QueuesOK, Queues
<1>5. Queues(stat', current_priority', list', Bits(list'))
  BY <1>2, <1>4, MoveLemma DEF QueuesOK
<1>6. group' = Bits(list')
  BY <1>2, <1>3
<1> QED
  BY <1>2, <1>5, <1>6 DEF QueuesOK

\* Changing the priority of a thread that has none of the idle thread's duties.
LEMMA SetPriorityStep ==
    ASSUME QueuesOK, NEW t \in Thread, t # Idle, NEW p \in Prio,
           SetPriority(t, p), UNCHANGED stat
    PROVE  /\ QueuesOK'
           /\ stat[t] = "READY" => Moved(list, list', t, {p})
           /\ stat[t] # "READY" => list' = list
<1>1. /\ stat \in [Thread -> Stat] /\ current_priority \in [Thread -> Prio]
      /\ current_priority' = [current_priority EXCEPT ![t] = p]
  BY DEF QueuesOK, Queues, SetPriority
<1>2. CASE stat[t] = "READY"
  <2>1. /\ list' = ReadyInsert(ListRemove(list, t), t, p)
        /\ group' = ClearBit(group, ListRemove(list, t), current_priority[t]) \cup {p}
    BY <1>2 DEF SetPriority
  <2>2. Moved(list, list', t, {p}) /\ group' = Bits(list')
    BY <2>1, ReadyMoves, RemoveMoves DEF QueuesOK
  <2>3. Agrees(stat, current_priority, stat', current_priority', t, {p})
    BY <1>1, <1>2, Heads DEF Agrees
  <2>4. Queues(stat', current_priority', list', Bits(list'))
    BY <2>2, <2>3, MoveLemma DEF QueuesOK
  <2> QED
    BY <1>2, <2>2, <2>4 DEF QueuesOK
<1>3. CASE stat[t] # "READY"
  <2>1. UNCHANGED <<list, group>>
    BY <1>3 DEF SetPriority
  <2>2. \A h \in Prio : \A u \in Range(list[h]) : u # t /\ u \in Thread
    BY <1>3, ListFacts, Heads DEF QueuesOK, Queues
  <2> QED
    BY <1>1, <1>3, <2>1, <2>2, PrioAssumption DEF QueuesOK, Queues
<1> QED
  BY <1>2, <1>3

-----------------------------------------------------------------------------
(* The steps of the kernel itself.                                         *)

\* KernelInv with its list part folded.
Rest ==
    /\ current \in Thread /\ lock_nest \in Nat
    /\ delay \in [Thread -> {Off} \cup 0 .. MaxDelay]
    /\ error \in [Thread -> Error]
    /\ remaining_tick \in [Thread -> 1 .. Slice]
    /\ irq \in {"on", "timer", "masked"}
    /\ resched \in SUBSET Thread
    /\ TimerImpliesSuspended /\ RunningIsReady

\* KernelInv in two parts,
LEMMA InvParts == KernelInv <=> QueuesOK /\ Rest
BY QueuesOfInv DEF KernelInv, KernelTypeOK, Rest

\* ... also after a step.
LEMMA InvPartsNext == KernelInv' <=> QueuesOK' /\ Rest'
BY InvParts, PTL

\* The state the model starts from.
LEMMA KernelInitInv ==
    ASSUME KernelInit
    PROVE  KernelInv /\ HighestRuns
<1>1. /\ list = [h \in ListHead |-> IF h \in Prio THEN InitReady[h] ELSE <<>>]
      /\ \A p \in Prio : p \in ListHead
  BY Heads DEF KernelInit
<1>2. /\ \A p \in Prio : list[p] = InitReady[p]
      /\ \A h \in ListHead : h \notin Prio => list[h] = <<>>
  BY <1>1
<1>3. \A p \in Prio : InitReady[p] \in Seq(Thread)
  BY ReadyAssumption
<1>4. \A h \in ListHead : (IF h \in Prio THEN InitReady[h] ELSE <<>>) \in Seq(Thread)
  BY <1>3
<1>5. list \in Lists
  BY <1>1, <1>4 DEF Lists
<1>6. \A h \in ListHead : IsInjective(list[h])
  <2>1. IsInjective(<<>>)
    BY DEF IsInjective
  <2>2. \A p \in Prio : IsInjective(list[p])
    BY <1>2, ReadyAssumption
  <2> QED
    BY <2>1, <2>2, <1>2
<1>7. \A h \in ListHead : Range(list[h]) \subseteq Thread /\ (list[h] = <<>> <=> Range(list[h]) = {})
  BY <1>5, ListFacts, ZenonT(60)
<1>8. \A p \in Prio : \A t \in Range(list[p]) : InitPrio[t] = p /\ t \in Range(InitReady[InitPrio[t]])
  BY <1>2, ReadyAssumption
<1>9. \A h, k \in ListHead : h # k => Range(list[h]) \cap Range(list[k]) = {}
  <2> SUFFICES ASSUME NEW h \in ListHead, NEW k \in ListHead, NEW t,
                      t \in Range(list[h]), t \in Range(list[k])
               PROVE  h = k
    OBVIOUS
  <2>1. h \in Prio /\ k \in Prio
    BY <1>2, <1>7
  <2> QED
    BY <2>1, <1>8
<1>10. stat \in [Thread -> Stat] /\ \A t \in Thread : t \in Range(InitReady[InitPrio[t]]) => stat[t] = "READY"
  BY DEF KernelInit, Stat
<1>11. group = Bits(list)
  BY <1>2 DEF KernelInit, Bits
<1>12. stat[Idle] = "READY" /\ current_priority[Idle] = MaxPrio /\ Idle \in Range(list[MaxPrio])
  BY <1>2, <1>10, ReadyAssumption, PrioAssumption, Heads DEF KernelInit, Prio
<1>13. current_priority = InitPrio /\ current_priority \in [Thread -> Prio]
  BY PrioAssumption DEF KernelInit
<1>14. /\ \A p \in Prio : \A t \in Range(list[p]) : stat[t] = "READY" /\ current_priority[t] = p
       /\ \A q \in WaitList : Range(list[q]) = {}
       /\ Range(list[Defunct]) = {}
  BY <1>1, <1>2, <1>7, <1>8, <1>10, <1>13, Heads
<1>15. QueuesOK
  BY <1>5, <1>6, <1>9, <1>10, <1>11, <1>12, <1>13, <1>14 DEF QueuesOK, Queues
<1>16. /\ current = Highest(list, group) /\ current \in Thread
       /\ stat[current] = "READY" /\ current \in Range(list[current_priority[current]])
  BY <1>15, HighestLemma DEF KernelInit, QueuesOK
<1>17. /\ lock_nest \in Nat /\ delay \in [Thread -> {Off} \cup 0 .. MaxDelay]
       /\ error \in [Thread -> Error] /\ remaining_tick \in [Thread -> 1 .. Slice]
       /\ irq \in {"on", "timer", "masked"} /\ resched \in SUBSET Thread
  BY TimeAssumption DEF KernelInit, Error, Off
<1>18. TimerImpliesSuspended
  BY DEF KernelInit, TimerImpliesSuspended, Off
<1> QED
  BY <1>15, <1>16, <1>17, <1>18, InvParts DEF Rest, RunningIsReady, HighestRuns

\* rt_schedule by a thread.
LEMMA ScheduleInv ==
    ASSUME KernelInv, NEW t \in Thread, Schedule(t)
    PROVE  KernelInv' /\ HighestRuns'
<1>1. /\ UNCHANGED <<stat, current_priority, list, group, lock_nest, delay, error,
                      remaining_tick, irq>>
      /\ current' = IF lock_nest = 0 THEN Highest(list, group) ELSE current
      /\ resched' = resched \ {t}
  BY DEF Schedule
<1>2. QueuesOK /\ QueuesOK' /\ Rest
  BY <1>1, InvParts DEF QueuesOK
<1>3. current' \in Thread /\ RunningIsReady'
  BY <1>1, <1>2, HighestLemma DEF QueuesOK, Rest, RunningIsReady
<1>4. TimerImpliesSuspended'
  BY <1>1, <1>2 DEF Rest, TimerImpliesSuspended
<1>5. HighestRuns'
  BY <1>1 DEF HighestRuns
<1>6. Rest'
  BY <1>1, <1>2, <1>3, <1>4 DEF Rest
<1> QED
  BY <1>2, <1>5, <1>6, InvPartsNext

\* A step that puts threads into ready queues, leaves the other threads where
\* they are and ends in rt_schedule leaves a ready thread running.
LEMMA RescheduleStep ==
    ASSUME QueuesOK', current \in Thread, lock_nest \in Nat,
           RtSchedule, UNCHANGED <<lock_nest, resched>>,
           lock_nest > 0 => /\ stat'[current] = "READY"
                            /\ current \in Range(list'[current_priority'[current]])
    PROVE  current' \in Thread /\ RunningIsReady' /\ HighestRuns'
<1>1. CASE lock_nest = 0
  BY <1>1, HighestLemma DEF QueuesOK, RunningIsReady, HighestRuns, RtSchedule
<1>2. CASE lock_nest > 0
  BY <1>2 DEF RunningIsReady, HighestRuns, RtSchedule
<1> QED
  BY <1>1, <1>2

\* One expired thread timer.
LEMMA TimerExpireInv ==
    ASSUME KernelInv, NEW t \in Thread, TimerExpire(t)
    PROVE  KernelInv' /\ HighestRuns'
<1>1. /\ UNCHANGED <<current_priority, lock_nest, remaining_tick, irq, resched>>
      /\ delay[t] = 0 /\ delay' = [delay EXCEPT ![t] = Off]
      /\ error' = [error EXCEPT ![t] = "ETIMEOUT"]
      /\ stat' = [stat EXCEPT ![t] = "READY"]
      /\ irq = "timer"
      /\ RtSchedule
  BY DEF TimerExpire, ResumeThread
<1>2. QueuesOK /\ Rest
  BY InvParts
<1>3. stat[t] = "SUSPEND"
  BY <1>1, <1>2 DEF Rest, TimerImpliesSuspended, Off
<1>4. QueuesOK' /\ Moved(list, list', t, {current_priority[t]})
  BY <1>1, <1>2, <1>3, ResumeStep DEF TimerExpire
<1>5. ASSUME lock_nest > 0
      PROVE  stat'[current] = "READY" /\ current \in Range(list'[current_priority'[current]])
  <2>1. stat[current] = "READY" /\ current \in Range(list[current_priority[current]])
    BY <1>2, <1>5 DEF Rest, RunningIsReady
  <2>2. current # t /\ current \in Thread /\ current_priority[current] \in ListHead
    BY <1>2, <1>3, <2>1, Heads, ZenonT(60) DEF Rest, QueuesOK, Queues
  <2>3. stat'[current] = stat[current]
    BY <1>1, <1>2, <2>2 DEF QueuesOK, Queues
  <2> QED
    BY <1>1, <1>4, <2>1, <2>2, <2>3 DEF Moved
<1>6. current' \in Thread /\ RunningIsReady' /\ HighestRuns'
  BY <1>1, <1>2, <1>4, <1>5, RescheduleStep DEF Rest
<1>7. TimerImpliesSuspended'
  BY <1>1, <1>2 DEF Rest, TimerImpliesSuspended, QueuesOK, Queues
<1>8. delay' \in [Thread -> {Off} \cup 0 .. MaxDelay] /\ error' \in [Thread -> Error]
  BY <1>1, <1>2 DEF Rest, Error
<1>9. Rest'
  BY <1>1, <1>2, <1>6, <1>7, <1>8 DEF Rest
<1> QED
  BY <1>4, <1>6, <1>9, InvPartsNext

\* rt_tick_increase.
LEMMA TickInv ==
    ASSUME KernelInv, Tick
    PROVE  KernelInv' /\ (HighestRuns => HighestRuns')
<1> DEFINE p == current_priority[current]
           Rotates == /\ remaining_tick[current] = 1
                      /\ stat[current] = "READY"
                      /\ Len(list[p]) > 1
<1>1. /\ UNCHANGED <<stat, current_priority, lock_nest, error, resched>>
      /\ irq = "on" /\ irq' = "timer"
      /\ delay' = [t \in Thread |-> IF delay[t] = Off THEN Off ELSE delay[t] - 1]
      /\ remaining_tick' = [remaining_tick EXCEPT ![current] = IF @ = 1 THEN Slice ELSE @ - 1]
  BY DEF Tick, TickBegin, Pass
<1>2. QueuesOK /\ Rest
  BY InvParts
<1>3. /\ delay' \in [Thread -> {Off} \cup 0 .. MaxDelay]
      /\ remaining_tick' \in [Thread -> 1 .. Slice]
      /\ TimerImpliesSuspended'
  <2>1. \A t \in Thread : delay[t] \in {Off} \cup 1 .. MaxDelay
    BY <1>1, <1>2, TimeAssumption DEF Rest, TimerImpliesSuspended, Off
  <2>2. delay' \in [Thread -> {Off} \cup 0 .. MaxDelay]
    BY <1>1, <2>1, TimeAssumption DEF Off
  <2>3. remaining_tick' \in [Thread -> 1 .. Slice]
    BY <1>1, <1>2, TimeAssumption DEF Rest
  <2>4. TimerImpliesSuspended'
    BY <1>1, <1>2 DEF Rest, TimerImpliesSuspended
  <2> QED
    BY <2>2, <2>3, <2>4
<1>4. CASE Rotates
  <2>1. /\ list' = ReadyInsert(ListRemove(list, current), current, p)
        /\ group' = group
        /\ RtSchedule
    BY <1>4 DEF Tick, SliceEnd
  <2>2. current \in Thread /\ p \in Prio /\ p \in ListHead
    BY <1>2, Heads, ZenonT(60) DEF Rest, QueuesOK, Queues
  <2>3. current \in Range(list[p])
    BY <1>2, <1>4, <2>2 DEF Rest, RunningIsReady
  <2>4. QueuesOK' /\ Moved(list, list', current, {p})
    BY <1>1, <1>2, <1>4, <2>1, <2>2, <2>3, YieldStep
  <2>5. stat'[current] = "READY" /\ current \in Range(list'[current_priority'[current]])
    BY <1>1, <1>4, <2>2, <2>4 DEF Moved
  <2>6. current' \in Thread /\ RunningIsReady' /\ HighestRuns'
    BY <1>1, <1>2, <2>1, <2>4, <2>5, RescheduleStep DEF Rest
  <2>7. Rest'
    BY <1>1, <1>2, <1>3, <2>6 DEF Rest
  <2> QED
    BY <2>4, <2>6, <2>7, InvPartsNext
<1>5. CASE ~Rotates
  <2>1. UNCHANGED <<list, group, current>>
    BY <1>5 DEF Tick, SliceEnd
  <2>2. QueuesOK'
    BY <1>1, <1>2, <2>1 DEF QueuesOK
  <2>3. RunningIsReady' /\ (HighestRuns => HighestRuns')
    BY <1>1, <1>2, <2>1 DEF Rest, RunningIsReady, HighestRuns
  <2>4. Rest'
    BY <1>1, <1>2, <1>3, <2>1, <2>3 DEF Rest
  <2> QED
    BY <2>2, <2>3, <2>4, InvPartsNext
<1> QED
  BY <1>4, <1>5

\* The end of rt_timer_check.
LEMMA TimerCheckDoneInv ==
    ASSUME KernelInv, TimerCheckDone
    PROVE  KernelInv' /\ (HighestRuns => HighestRuns')
<1>1. /\ UNCHANGED <<stat, current_priority, list, group, current, lock_nest,
                      delay, error, remaining_tick, resched>>
      /\ irq = "timer" /\ irq' = "on"
      /\ \A t \in Thread : delay[t] # 0
  BY DEF TimerCheckDone
<1>2. QueuesOK /\ Rest
  BY InvParts
<1>3. QueuesOK' /\ (HighestRuns => HighestRuns')
  BY <1>1, <1>2 DEF QueuesOK, HighestRuns
<1>4. Rest'
  BY <1>1, <1>2 DEF Rest, TimerImpliesSuspended, RunningIsReady
<1> QED
  BY <1>3, <1>4, InvPartsNext

\* Whatever the kernel does of its own accord keeps the invariant, and keeps
\* the highest-priority ready thread running if it did run.
LEMMA KernelStepInv ==
    ASSUME KernelInv, KernelStep
    PROVE  KernelInv' /\ (HighestRuns => HighestRuns')
BY TickInv, TimerExpireInv, ScheduleInv, TimerCheckDoneInv DEF KernelStep

-----------------------------------------------------------------------------
(* What a step means for the threads that wait.                            *)

Kept(u) ==
    /\ stat'[u] = stat[u] /\ error'[u] = error[u]
    /\ \A q \in WaitList : u \in Range(list'[q]) <=> u \in Range(list[q])

Woken(u) ==
    /\ stat[u] = "SUSPEND" /\ stat'[u] = "READY"
    /\ \A q \in WaitList : u \notin Range(list'[q])

TimedOut(u) == Woken(u) /\ error'[u] = "ETIMEOUT"

\* Waking w: the thread that runs stays in its ready queue, or enters it.
LEMMA ResumeWaiter ==
    ASSUME KernelInv, NEW w \in Thread, stat[w] = "SUSPEND",
           ResumeThread(w), UNCHANGED current_priority
    PROVE  /\ QueuesOK' /\ Woken(w)
           /\ \A u \in Thread \ {w} :
                 /\ stat'[u] = stat[u]
                 /\ \A q \in WaitList : u \in Range(list'[q]) <=> u \in Range(list[q])
           /\ stat[current] = "READY" => stat'[current] = "READY"
           /\ stat'[current] = "READY" =>
                 current \in Range(list'[current_priority'[current]])
<1>1. QueuesOK /\ Rest
  BY InvParts
<1>2. QueuesOK' /\ Moved(list, list', w, {current_priority[w]})
  BY <1>1, ResumeStep
<1>3. /\ stat \in [Thread -> Stat] /\ current \in Thread
      /\ \A u \in Thread : current_priority[u] \in Prio /\ current_priority[u] \in ListHead
  BY <1>1, Heads, ZenonT(60) DEF QueuesOK, Queues, Rest
<1>4. stat'[w] = "READY" /\ \A u \in Thread \ {w} : stat'[u] = stat[u]
  BY <1>3 DEF ResumeThread
<1>5. \A q \in WaitList : q \in ListHead /\ q \notin Prio
  BY Heads
<1>6. Woken(w)
  BY <1>2, <1>3, <1>4, <1>5 DEF Woken, Moved
<1>7. \A u \in Thread \ {w} : \A q \in WaitList : u \in Range(list'[q]) <=> u \in Range(list[q])
  BY <1>2, <1>5 DEF Moved
<1>8. stat'[current] = "READY" => current \in Range(list'[current_priority'[current]])
  BY <1>1, <1>2, <1>3, <1>4 DEF Moved, Rest, RunningIsReady
<1> QED
  BY <1>2, <1>3, <1>4, <1>6, <1>7, <1>8

\* The kernel's own steps keep every waiter, or wake it with RT_ETIMEOUT.
LEMMA KernelStepWaiters ==
    ASSUME KernelInv, KernelStep
    PROVE  \A u \in Thread : Kept(u) \/ TimedOut(u)
<1>1. QueuesOK /\ Rest
  BY InvParts
<1>2. CASE Tick
  <2> DEFINE p == current_priority[current]
  <2>1. UNCHANGED <<stat, current_priority, error>>
    BY <1>2 DEF Tick, TickBegin
  <2>2. CASE UNCHANGED list
    BY <2>1, <2>2 DEF Kept
  <2>3. CASE /\ list' = ReadyInsert(ListRemove(list, current), current, p)
             /\ group' = group /\ stat[current] = "READY"
    <3>1. current \in Thread /\ p \in Prio /\ p \in ListHead /\ current \in Range(list[p])
      BY <1>1, <2>3, Heads, ZenonT(60) DEF Rest, RunningIsReady, QueuesOK, Queues
    <3>2. Moved(list, list', current, {p})
      BY <1>1, <2>1, <2>3, <3>1, YieldStep
    <3>3. \A q \in WaitList : q \in ListHead /\ q # p /\ current \notin Range(list[q])
      BY <1>1, <2>3, <3>1, Heads DEF QueuesOK, Queues
    <3> QED
      BY <2>1, <3>2, <3>3 DEF Kept, Moved
  <2> QED
    BY <1>2, <2>2, <2>3 DEF Tick, SliceEnd
<1>3. ASSUME NEW t \in Thread, TimerExpire(t) PROVE \A u \in Thread : Kept(u) \/ TimedOut(u)
  <2>1. /\ ResumeThread(t) /\ UNCHANGED current_priority /\ delay[t] = 0
        /\ error' = [error EXCEPT ![t] = "ETIMEOUT"]
    BY <1>3 DEF TimerExpire
  <2>2. stat[t] = "SUSPEND" /\ error \in [Thread -> Error]
    BY <1>1, <2>1 DEF Rest, TimerImpliesSuspended, Off
  <2> QED
    BY <2>1, <2>2, ResumeWaiter DEF Kept, TimedOut
<1>4. ASSUME NEW t \in Thread, Schedule(t) PROVE \A u \in Thread : Kept(u)
  BY <1>4 DEF Schedule, Kept
<1>5. CASE TimerCheckDone
  BY <1>5 DEF TimerCheckDone, Kept
<1> QED
  BY <1>2, <1>3, <1>4, <1>5 DEF KernelStep

\* The first waiter of a list is woken.
LEMMA WakeStep ==
    ASSUME KernelInv, NEW q \in WaitList, NEW w, w = Head(list[q]), list[q] # <<>>,
           ResumeThread(w), delay' = [delay EXCEPT ![w] = Off],
           \A u \in Thread \ {w} : error'[u] = error[u],
           UNCHANGED <<current_priority, irq>>
    PROVE  /\ w \in Thread /\ w \in Range(list[q]) /\ Woken(w) /\ QueuesOK'
           /\ \A u \in Thread : Kept(u) \/ Woken(u)
           /\ delay' \in [Thread -> {Off} \cup 0 .. MaxDelay] /\ TimerImpliesSuspended'
           /\ stat[current] = "READY" => stat'[current] = "READY"
           /\ stat'[current] = "READY" =>
                 current \in Range(list'[current_priority'[current]])
<1>1. QueuesOK /\ Rest
  BY InvParts
<1>2. w \in Thread /\ w \in Range(list[q])
  BY <1>1, ListFacts, HeadInRange, Heads DEF QueuesOK, Queues
<1>3. stat[w] = "SUSPEND"
  BY <1>1, <1>2 DEF QueuesOK, Queues
<1>4. /\ QueuesOK' /\ Woken(w)
      /\ \A u \in Thread \ {w} :
            /\ stat'[u] = stat[u]
            /\ \A r \in WaitList : u \in Range(list'[r]) <=> u \in Range(list[r])
      /\ stat[current] = "READY" => stat'[current] = "READY"
      /\ stat'[current] = "READY" => current \in Range(list'[current_priority'[current]])
  BY <1>2, <1>3, ResumeWaiter
<1>5. \A u \in Thread : Kept(u) \/ Woken(u)
  BY <1>4 DEF Kept
<1>6. delay' \in [Thread -> {Off} \cup 0 .. MaxDelay] /\ TimerImpliesSuspended'
  BY <1>1, <1>2, <1>4 DEF Rest, TimerImpliesSuspended, Off
<1> QED
  BY <1>2, <1>4, <1>5, <1>6
=============================================================================
