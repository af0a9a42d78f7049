------------------------------ MODULE ByteFifo ------------------------------
(***************************************************************************)
(* What AtomicKFifo promises: a first-in first-out sequence of at most     *)
(* bound bytes.  Any number of bytes is appended at a time; the consumer   *)
(* looks at a number of the oldest ones and may then remove those.  All    *)
(* bytes may be dropped while nobody is inside a call, and only then.      *)
(***************************************************************************)
EXTENDS Integers, Sequences

CONSTANT Bytes
VARIABLES bound, \* most bytes held at a time, chosen when the queue is made
          q,     \* the bytes held, oldest first
          seen,  \* what the consumer was given last
          busy   \* a call is under way: up to the callers

byteVars == <<bound, q, seen>>

Init == bound \in Nat \ {0} /\ q = <<>> /\ seen = <<>>

Put(k) == /\ k \in 1 .. bound - Len(q)
          /\ \E s \in [1 .. k -> Bytes] : q' = q \o s
          /\ UNCHANGED seen

Look(k) == /\ k \in 1 .. Len(q)
           /\ seen' = SubSeq(q, 1, k)
           /\ UNCHANGED q

Remove == /\ Len(seen) \in 1 .. Len(q) /\ seen = SubSeq(q, 1, Len(seen))
          /\ q' = SubSeq(q, Len(seen) + 1, Len(q))
          /\ UNCHANGED seen

Clear == /\ ~busy /\ ~busy'
         /\ q' = <<>>
         /\ UNCHANGED seen

Next == /\ (\E k \in 1 .. bound : Put(k) \/ Look(k)) \/ Remove \/ Clear
        /\ UNCHANGED bound

Spec == Init /\ [][Next]_byteVars
=============================================================================
