---------------------------- MODULE CAtomicQueue ----------------------------
(***************************************************************************)
(* CAtomicQueue (include/atomic_queue.h): a ring of pointers to elements   *)
(* on the heap, for one producer thread (try_push) and one consumer thread *)
(* (front, pop).                                                           *)
(*                                                                         *)
(* An element stands for the pointer to it.  A load of the other side's    *)
(* index returns a value between the one seen last and the present one.  A *)
(* full or empty queue changes nothing but what was seen.  ~CAtomicQueue   *)
(* deletes the ring and none of the elements in it.                        *)
(***************************************************************************)
EXTENDS Integers, Sequences

CONSTANTS Values, nullptr,
          Capacity,     \* of the ring: the constructor's argument
          SizeRange     \* number of values of size_t

VARIABLES
  buffer, head, tail,
  size,        \* counted by both sides, read by neither
  pushing,     \* [pc, value, seen]: try_push under way, the head seen last
  popping,     \* [pc, value, seen]: pop under way, the tail seen last
  fronted      \* what the last front() pointed to

ring == <<buffer, head, tail, size>>
vars == <<ring, pushing, popping, fronted>>

Idle == [pc |-> "idle", value |-> nullptr, seen |-> 0]

Init ==
  /\ buffer = [i \in 0 .. Capacity - 1 |-> nullptr]
  /\ head = 0 /\ tail = 0 /\ size = 0
  /\ pushing = Idle /\ popping = Idle
  /\ fronted = nullptr

After(i) == (i + 1) % Capacity

(* what a load may return of an index last seen at seen and now at now     *)
Between(seen, now) == {(seen + k) % Capacity : k \in 0 .. (now - seen) % Capacity}

-----------------------------------------------------------------------------
(* try_push(value): return false when head is right after tail             *)

(* the test for a full ring is missing                                     *)
MutTryPush(value, h) ==
  /\ pushing.pc = "idle"
  /\ pushing' = [pc |-> "store", value |-> value, seen |-> h]
  /\ UNCHANGED <<ring, popping, fronted>>

try_push(value, h) ==
  /\ pushing.pc = "idle"
  /\ pushing' = IF After(tail) = h THEN [pushing EXCEPT !.seen = h]
                ELSE [pc |-> "store", value |-> value, seen |-> h]
  /\ UNCHANGED <<ring, popping, fronted>>

StoreElement ==
  /\ pushing.pc = "store"
  /\ buffer' = [buffer EXCEPT ![tail] = pushing.value]
  /\ pushing' = [pushing EXCEPT !.pc = "publish", !.value = nullptr]
  /\ UNCHANGED <<head, tail, size, popping, fronted>>

StoreTail ==
  /\ pushing.pc = "publish"
  /\ tail' = After(tail)
  /\ pushing' = [pushing EXCEPT !.pc = "count"]
  /\ UNCHANGED <<buffer, head, size, popping, fronted>>

CountPush ==
  /\ pushing.pc = "count"
  /\ size' = (size + 1) % SizeRange
  /\ pushing' = [pushing EXCEPT !.pc = "idle"]
  /\ UNCHANGED <<buffer, head, tail, popping, fronted>>

-----------------------------------------------------------------------------
(* front() and pop(): both return when tail is at head                     *)

front(t) ==
  /\ popping.pc = "idle"
  /\ popping' = [popping EXCEPT !.seen = t]
  /\ fronted' = IF head = t THEN fronted ELSE buffer[head]
  /\ UNCHANGED <<ring, pushing>>

pop(t) ==
  /\ popping.pc = "idle"
  /\ popping' = [popping EXCEPT !.seen = t, !.pc = IF head = t THEN "idle" ELSE "exchange"]
  /\ UNCHANGED <<ring, pushing, fronted>>

(* exchange(nullptr), and return false if it was that already              *)
Exchange ==
  /\ popping.pc = "exchange"
  /\ buffer' = [buffer EXCEPT ![head] = nullptr]
  /\ popping' = [popping EXCEPT !.value = buffer[head],
                                !.pc = IF buffer[head] = nullptr THEN "idle" ELSE "advance"]
  /\ UNCHANGED <<head, tail, size, pushing, fronted>>

(* head.store(), and the element is deleted                                *)
StoreHead ==
  /\ popping.pc = "advance"
  /\ head' = After(head)
  /\ popping' = [popping EXCEPT !.pc = "count", !.value = nullptr]
  /\ UNCHANGED <<buffer, tail, size, pushing, fronted>>

CountPop ==
  /\ popping.pc = "count"
  /\ size' = (size - 1) % SizeRange
  /\ popping' = [popping EXCEPT !.pc = "idle"]
  /\ UNCHANGED <<buffer, head, tail, pushing, fronted>>

-----------------------------------------------------------------------------
Next ==
  \/ \E v \in Values, h \in Between(pushing.seen, head) : try_push(v, h)
  \/ StoreElement \/ StoreTail \/ CountPush
  \/ \E t \in Between(popping.seen, tail) : front(t) \/ pop(t)
  \/ Exchange \/ StoreHead \/ CountPop

Spec == Init /\ [][Next]_vars

-----------------------------------------------------------------------------
(* The element a pop is about to remove is in its local already            *)
Held ==
  [k \in 1 .. (tail - head) % Capacity |->
     IF k = 1 /\ popping.pc = "advance" THEN popping.value ELSE buffer[(head + k - 1) % Capacity]]

Fifo == INSTANCE BoundedFifo WITH None <- nullptr, Bound <- Capacity - 1, q <- Held, seen <- fronted

(* The consumer gets the elements pushed, in their order, none twice and   *)
(* none lost, however the steps of try_push, front and pop interleave and  *)
(* however old the indices are that they loaded; at most Capacity - 1 are  *)
(* held.                                                                   *)
ImplementsFifo == Fifo!Init /\ [][Fifo!Next]_(Fifo!fifoVars)
=============================================================================
