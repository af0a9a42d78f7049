------------------------- MODULE CountingSemaphore -------------------------
(***************************************************************************)
(* What LightweightSemaphore promises: a number of available units, a      *)
(* signal that adds some, and calls that take at most what is available    *)
(* and at most what they asked for.                                        *)
(***************************************************************************)
EXTENDS Integers

CONSTANTS Threads, Initial

VARIABLES avail,   \* units nobody has acquired
          max,     \* max[t]: the most t's current (or last) call wants
          got      \* got[t]: what that call has acquired

semVars == <<avail, max, got>>

Init == /\ avail = Initial
        /\ max = [t \in Threads |-> 0]
        /\ got = [t \in Threads |-> 0]

Begin(t) == /\ got' = [got EXCEPT ![t] = 0]
            /\ max' \in [Threads -> Nat]
            /\ \A u \in Threads \ {t} : max'[u] = max[u]
            /\ UNCHANGED avail

Signal == avail' \in Nat /\ avail' > avail /\ UNCHANGED <<max, got>>

Acquire(t) == /\ avail' \in 0 .. avail
              /\ got' = [got EXCEPT ![t] = @ + avail - avail']
              /\ got'[t] <= max[t]
              /\ UNCHANGED max

Next == Signal \/ \E t \in Threads : Begin(t) \/ Acquire(t)

Spec == Init /\ [][Next]_semVars
=============================================================================
