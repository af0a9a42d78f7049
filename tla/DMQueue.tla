------------------------------ MODULE DMQueue ------------------------------
(***************************************************************************)
(* CDMQueue (include/dmqueue.h): a ring of pointers with plain indices.    *)
(* Its fields as a record and what its functions compute from them; how    *)
(* their accesses interleave is up to the users of the class.              *)
(***************************************************************************)
EXTENDS Integers

NullPtr == 0     \* pointers are positive numbers

(* after Init(nSize): one slot more than asked for, all nullptr            *)
Ring(nSize) == [m_nSize |-> nSize + 1, m_nHead |-> 0, m_nTail |-> 0, m_pArray |-> [i \in 0 .. nSize |-> NullPtr]]

(* nUsed, also GetUsedSize()                                               *)
Used(q) ==
  LET nDist == q.m_nTail + q.m_nSize - q.m_nHead
  IN  IF nDist >= q.m_nSize THEN nDist - q.m_nSize ELSE nDist

(* the slot that tells a full ring from an empty one is used too           *)
MutFull(q) == Used(q) >= q.m_nSize

Full(q) == Used(q) >= q.m_nSize - 1

Stored(q, at, ptr) == [q EXCEPT !.m_pArray[at] = ptr]
TailAdvanced(q) == [q EXCEPT !.m_nTail = (q.m_nTail + 1) % q.m_nSize]
HeadAdvanced(q) == [q EXCEPT !.m_nHead = (q.m_nHead + 1) % q.m_nSize]
Front(q) == q.m_pArray[q.m_nHead]

(* what the ring holds, as the positions from the head to the tail         *)
Held(q) == {(q.m_nHead + k) % q.m_nSize : k \in 0 .. Used(q) - 1}
=============================================================================
