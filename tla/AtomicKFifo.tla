---------------------------- MODULE AtomicKFifo ----------------------------
(***************************************************************************)
(* AtomicKFifo (include/dmatomic_kfifo.h): the ring buffer of KFifo with   *)
(* atomic indices, for one producer thread (put, avail) and one consumer   *)
(* thread (get, peek, len).  len(), avail(), isEmpty() and isFull() only   *)
(* return what get and put compute from the same loads.                    *)
(*                                                                         *)
(* An index has one writer.  An acquire load returns a value between the   *)
(* one that the same thread saw last and the present one.  Every memcpy is *)
(* a step of its own, so that bytes that are written and read at once      *)
(* would show.                                                             *)
(* reset() is called when nobody else uses the queue: its two stores are   *)
(* one step.                                                               *)
(***************************************************************************)
EXTENDS KFifo

CONSTANTS Bytes,
          Requests,     \* the capacities asked for
          MaxLen        \* bound: bytes put or asked for in one call

VARIABLES
  capacity_, buffer_, in_idx_, out_idx_,
  producer,    \* [pc, data, seen]: what it puts and the out_idx_ it saw last
  consumer,    \* [pc, n, data, seen, peek]: n bytes asked for, data copied so far
  got          \* what the last get or peek delivered

ring == <<capacity_, buffer_, in_idx_, out_idx_>>
vars == <<ring, producer, consumer, got>>

Init ==
  /\ \E r \in Requests : capacity_ = CapacityFor(r)
  /\ buffer_ = [o \in 1 .. capacity_ |-> 0]
  /\ in_idx_ = 0 /\ out_idx_ = 0
  /\ producer = [pc |-> "idle", data |-> <<>>, seen |-> 0]
  /\ consumer = [pc |-> "idle", n |-> 0, data |-> <<>>, seen |-> 0, peek |-> FALSE]
  /\ got = <<>>

-----------------------------------------------------------------------------
(* what a load may return of an index last seen at seen and now at now     *)
Between(seen, now) == {(seen + k) % IndexRange : k \in 0 .. Length(now, seen)}

(* put()                                                                   *)

OutViews == Between(producer.seen, out_idx_)

(* out_idx_ is loaded and the length fixed; nothing fits: returns 0        *)
Put(data, out) ==
  /\ producer.pc = "idle"
  /\ LET n == Least(Len(data), Avail(capacity_, in_idx_, out))
     IN  producer' = [pc |-> IF n = 0 THEN "idle" ELSE "first", data |-> SubSeq(data, 1, n),
                      seen |-> out]
  /\ UNCHANGED <<ring, consumer, got>>

InFront == Piece(capacity_, in_idx_, Len(producer.data))

PutFirst ==
  /\ producer.pc = "first"
  /\ buffer_' = CopyFirst(buffer_, in_idx_, producer.data, InFront)
  /\ producer' = [producer EXCEPT !.pc = IF Len(producer.data) > InFront THEN "rest" ELSE "publish"]
  /\ UNCHANGED <<capacity_, in_idx_, out_idx_, consumer, got>>

PutRest ==
  /\ producer.pc = "rest"
  /\ buffer_' = CopyRest(buffer_, producer.data, InFront)
  /\ producer' = [producer EXCEPT !.pc = "publish"]
  /\ UNCHANGED <<capacity_, in_idx_, out_idx_, consumer, got>>

PutPublish ==
  /\ producer.pc = "publish"
  /\ in_idx_' = (in_idx_ + Len(producer.data)) % IndexRange
  /\ producer' = [producer EXCEPT !.pc = "idle", !.data = <<>>]
  /\ UNCHANGED <<capacity_, buffer_, out_idx_, consumer, got>>

-----------------------------------------------------------------------------
(* get() and peek()                                                        *)

InViews == Between(consumer.seen, in_idx_)

Get(n, in, peek) ==
  /\ consumer.pc = "idle"
  /\ LET k == Least(n, Length(in, out_idx_))
     IN  consumer' = [pc |-> IF k = 0 THEN "idle" ELSE "first", n |-> k, data |-> <<>>, seen |-> in,
                      peek |-> k # 0 /\ peek]
  /\ UNCHANGED <<ring, producer, got>>

OutFront == Piece(capacity_, out_idx_, consumer.n)

(* data is complete: a peek returns, a get goes on to out_idx_             *)
Delivered(data) ==
  /\ got' = data
  /\ consumer' = [consumer EXCEPT !.pc = IF consumer.peek THEN "idle" ELSE "publish",
                                  !.n = IF consumer.peek THEN 0 ELSE @, !.data = <<>>, !.peek = FALSE]

GetFirst ==
  /\ consumer.pc = "first"
  /\ LET data == Region(buffer_, out_idx_, OutFront)
     IN  \/ consumer.n = OutFront /\ Delivered(data)
         \/ /\ consumer.n > OutFront
            /\ consumer' = [consumer EXCEPT !.pc = "rest", !.data = data] /\ UNCHANGED got
  /\ UNCHANGED <<ring, producer>>

GetRest ==
  /\ consumer.pc = "rest"
  /\ Delivered(consumer.data \o SubSeq(buffer_, 1, consumer.n - OutFront))
  /\ UNCHANGED <<ring, producer>>

GetPublish ==
  /\ consumer.pc = "publish"
  /\ out_idx_' = (out_idx_ + consumer.n) % IndexRange
  /\ consumer' = [consumer EXCEPT !.pc = "idle", !.n = 0]
  /\ UNCHANGED <<capacity_, buffer_, in_idx_, producer, got>>

(* reset(); the threads learn of it from whoever called it                 *)
Reset ==
  /\ producer.pc = "idle" /\ consumer.pc = "idle"
  /\ in_idx_' = 0 /\ out_idx_' = 0
  /\ producer' = [producer EXCEPT !.seen = 0]
  /\ consumer' = [consumer EXCEPT !.seen = 0]
  /\ UNCHANGED <<capacity_, buffer_, got>>

-----------------------------------------------------------------------------
Data == UNION {[1 .. n -> Bytes] : n \in 1 .. MaxLen}

Next ==
  \/ \E out \in OutViews, data \in Data : Put(data, out)
  \/ PutFirst \/ PutRest \/ PutPublish
  \/ \E in \in InViews, n \in 1 .. MaxLen, peek \in BOOLEAN : Get(n, in, peek)
  \/ GetFirst \/ GetRest \/ GetPublish
  \/ Reset

Spec == Init /\ [][Next]_vars

-----------------------------------------------------------------------------
Held == Region(buffer_, out_idx_, Length(in_idx_, out_idx_))

Fifo == INSTANCE ByteFifo WITH bound <- capacity_, q <- Held, seen <- got,
                              busy <- producer.pc # "idle" \/ consumer.pc # "idle"

(* The bytes delivered are the bytes put, in their order, none twice and   *)
(* none lost, also where the free-running indices and the buffer wrap      *)
(* around, and never more than capacity() of them are held.                *)
ImplementsByteFifo == Fifo!Init /\ [][Fifo!Next]_(Fifo!byteVars)
=============================================================================
