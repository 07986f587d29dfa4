----------------------------- MODULE Dispenser -----------------------------
(***************************************************************************)
(* What the relay's prekey directory promises those who fetch from it: a   *)
(* one-time prekey is handed out at most once, only while its batch is the *)
(* one on offer, and the last-resort prekey only when no one-time prekey   *)
(* is left.  Every operation is a single step.                             *)
(***************************************************************************)
EXTENDS Integers, Sequences

CONSTANTS
  User,      \* who publishes prekeys
  MaxBatch   \* the largest batch

VARIABLES
  batches,   \* how many batches were published
  stock,     \* stock[u]: the one-time prekeys of u not yet handed out
  spare,     \* spare[u]: the batch u's last-resort prekey came with, 0 if none
  issued     \* issued[u]: the prekeys of u handed out, in order

vars == <<batches, stock, spare, issued>>

\* A prekey is named by its batch and its index in it; Last is the index of
\* the last-resort prekey.
Last == -1
Prekey(b, i) == [batch |-> b, index |-> i]

Init ==
  /\ batches = 0
  /\ stock = [u \in User |-> {}]
  /\ spare = [u \in User |-> 0]
  /\ issued = [u \in User |-> <<>>]

Publish(u) ==
  /\ batches' = batches + 1
  /\ \E n \in 0 .. MaxBatch : stock' = [stock EXCEPT ![u] = {Prekey(batches', i) : i \in 0 .. n - 1}]
  /\ \E b \in {0, batches'} : spare' = [spare EXCEPT ![u] = b]
  /\ UNCHANGED issued

Issue(u) ==
  /\ \E k \in stock[u] :
       /\ stock' = [stock EXCEPT ![u] = @ \ {k}]
       /\ issued' = [issued EXCEPT ![u] = Append(@, k)]
  /\ UNCHANGED <<batches, spare>>

FallBack(u) ==
  /\ stock[u] = {} /\ spare[u] # 0
  /\ issued' = [issued EXCEPT ![u] = Append(@, Prekey(spare[u], Last))]
  /\ UNCHANGED <<batches, stock, spare>>

Next == \E u \in User : Publish(u) \/ Issue(u) \/ FallBack(u)

Spec == Init /\ [][Next]_vars
=============================================================================
