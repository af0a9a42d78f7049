---------------------------- MODULE BoundedFifo ----------------------------
(***************************************************************************)
(* What a single-producer single-consumer queue of this repository         *)
(* promises: a first-in first-out sequence of at most Bound elements.  The *)
(* consumer looks at the front element and, in a separate call, removes    *)
(* it; the producer appends.                                               *)
(***************************************************************************)
EXTENDS Integers, Sequences

CONSTANTS Values,   \* what can be stored
          None,     \* "the consumer has looked at nothing yet"
          Bound     \* most elements held at a time

VARIABLES q,     \* the elements in the queue, oldest first
          seen   \* the element the consumer's last look returned

fifoVars == <<q, seen>>

Init == q = <<>> /\ seen = None

Put(v) == /\ Len(q) < Bound
          /\ q' = Append(q, v)
          /\ UNCHANGED seen

Look == /\ q # <<>>
        /\ seen' = Head(q)
        /\ UNCHANGED q

Remove == /\ q # <<>>
          /\ q' = Tail(q)
          /\ UNCHANGED seen

Next == (\E v \in Values : Put(v)) \/ Look \/ Remove

Spec == Init /\ [][Next]_fifoVars
=============================================================================
