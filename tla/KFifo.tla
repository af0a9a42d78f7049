------------------------------- MODULE KFifo -------------------------------
(***************************************************************************)
(* KFifo (include/dmkfifo.h): a ring buffer of bytes whose size is a power *)
(* of two and whose two indices are never reduced to the buffer but run    *)
(* freely through all values of uint32_t.  Its fields as a record and what *)
(* its functions compute from them.  AtomicKFifo computes the same from    *)
(* values it has loaded.                                                   *)
(***************************************************************************)
EXTENDS Integers, Sequences

CONSTANT IndexRange     \* number of values of uint32_t

Least(a, b) == IF a <= b THEN a ELSE b

(* a number of which only bit i is set                                     *)
PowerOfTwo[i \in Nat] == IF i = 0 THEN 1 ELSE 2 * PowerOfTwo[i - 1]

(* the bits below the highest one of v - 1 are set, and one added: the     *)
(* next power of two, which may be one too many for the type               *)
roundup_power_of_two(v) ==
  IF v = 0 THEN 0
  ELSE PowerOfTwo[CHOOSE i \in 0 .. 64 : v <= PowerOfTwo[i] /\ \A j \in 0 .. i - 1 : PowerOfTwo[j] < v]
         % IndexRange

CapacityFor(requested) ==
  LET cap == roundup_power_of_two(requested) IN IF cap < 2 THEN 2 ELSE cap

(* len(): the wrap-around is forgotten                                     *)
MutLength(in, out) == IF in >= out THEN in - out ELSE 0

(* len(), the difference of two indices                                    *)
Length(in, out) == (in - out) % IndexRange

(* avail()                                                                 *)
Avail(capacity, in, out) == (capacity - Length(in, out)) % IndexRange

(* l: how many of n bytes from index i on lie before the end of the buffer *)
Piece(capacity, i, n) == Least(n, capacity - (i % capacity))

(* memcpy of the first l bytes to their offset, of the rest to the front   *)
CopyFirst(buffer, i, data, l) ==
  [o \in DOMAIN buffer |->
     LET at == i % Len(buffer) IN IF o \in at + 1 .. at + l THEN data[o - at] ELSE buffer[o]]
CopyRest(buffer, data, l) ==
  [o \in DOMAIN buffer |-> IF l + o <= Len(data) THEN data[l + o] ELSE buffer[o]]

(* n bytes from index i on, in the order of the indices                    *)
Region(buffer, i, n) == [k \in 1 .. n |-> buffer[((i + k - 1) % Len(buffer)) + 1]]
=============================================================================
