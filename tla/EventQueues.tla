------------------------------ MODULE EventQueues ------------------------------
(* What the proofs of ManagementChannel and of FileEditor say of a queue of    *)
(* events; each of them has the lemmas on how its queues change.               *)
EXTENDS Naturals, Sequences

\* No event of S waits.
NoneOf(q, S) == \A k \in DOMAIN q : q[k] \notin S

\* No event of S waits before one of T; with T = S at most one of S waits.
Ordered(q, S, T) == \A i, k \in DOMAIN q : i < k /\ q[i] \in S => q[k] \notin T

\* After every event of S one of T waits.
Followed(q, S, T) == \A i \in DOMAIN q : q[i] \in S => \E k \in DOMAIN q : i < k /\ q[k] \in T

================================================================================
