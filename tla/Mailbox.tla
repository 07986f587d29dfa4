------------------------------ MODULE Mailbox ------------------------------
(***************************************************************************)
(* What the relay promises the sender and the recipient of envelopes: they *)
(* wait in the order in which they were accepted, leave from the front     *)
(* only, a recipient that looks gets all that wait, in order, and none is  *)
(* seen twice.  Envelopes are numbered in the order of acceptance.         *)
(***************************************************************************)
EXTENDS Integers, Sequences

CONSTANT User

VARIABLES
  count,   \* count[u]: how many envelopes were accepted for u
  head,    \* head[u]: the number of the first that still waits
  got      \* got[u]: the numbers u was handed, in order

vars == <<count, head, got>>

Init ==
  /\ count = [u \in User |-> 0]
  /\ head = [u \in User |-> 1]
  /\ got = [u \in User |-> <<>>]

Accept(u) ==
  /\ count' = [count EXCEPT ![u] = @ + 1]
  /\ UNCHANGED <<head, got>>

Collect(u) ==
  /\ head[u] <= count[u]
  /\ got' = [got EXCEPT ![u] = @ \o [k \in 1 .. count[u] + 1 - head[u] |-> head[u] + k - 1]]
  /\ head' = [head EXCEPT ![u] = count[u] + 1]
  /\ UNCHANGED count

\* A purge takes from the front of any of the queues.
Expire ==
  /\ head' \in [User -> Nat]
  /\ \A u \in User : head[u] <= head'[u] /\ head'[u] <= count[u] + 1
  /\ UNCHANGED <<count, got>>

Next == Expire \/ \E u \in User : Accept(u) \/ Collect(u)

Spec == Init /\ [][Next]_vars
=============================================================================
