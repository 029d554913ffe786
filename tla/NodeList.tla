------------------------------ MODULE NodeList ------------------------------
(***************************************************************************)
(* The doubly linked lists of the kernel (src/include/rtservice.h), as the *)
(* sequence of the nodes behind a list head.                               *)
(***************************************************************************)
EXTENDS Integers, Sequences, FiniteSetsExt

\* rt_list_insert_before or rt_list_insert_after: e becomes the i-th node.
NodeInsert(s, i, e) == SubSeq(s, 1, i - 1) \o <<e>> \o SubSeq(s, i, Len(s))

\* rt_list_remove: e leaves the list, if it is in it.
NodePlaces(s, e) == {i \in 1 .. Len(s) : s[i] = e}
NodeRemoveAt(s, i) == SubSeq(s, 1, i - 1) \o SubSeq(s, i + 1, Len(s))
NodeRemove(s, e) ==
    IF NodePlaces(s, e) = {} THEN s ELSE NodeRemoveAt(s, Min(NodePlaces(s, e)))
=============================================================================
