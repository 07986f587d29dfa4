------------------------------ MODULE Channel ------------------------------
(***************************************************************************)
(* What a session promises the two applications that talk through it: an   *)
(* application is only handed messages its peer sent, each at most once,   *)
(* and, on a channel that is InOrder, in the order they were sent with     *)
(* none left out.  Messages are numbered in the order of sending.          *)
(***************************************************************************)
EXTENDS Naturals, Sequences, Functions

CONSTANTS
  Party,    \* the ends of the channel
  InOrder   \* whether the order of sending is kept

VARIABLES
  count,    \* count[p]: how many messages have been sent to p
  got       \* got[p]: the numbers of those handed to p, in order

vars == <<count, got>>

Init ==
  /\ count = [p \in Party |-> 0]
  /\ got = [p \in Party |-> <<>>]

Send(p) ==
  /\ count' = [count EXCEPT ![p] = @ + 1]
  /\ UNCHANGED got

Receive(p) ==
  /\ \E i \in 1 .. count[p] :
       /\ i \notin Range(got[p])
       /\ InOrder => i = Len(got[p]) + 1
       /\ got' = [got EXCEPT ![p] = Append(@, i)]
  /\ UNCHANGED count

Next == \E p \in Party : Send(p) \/ Receive(p)

Spec == Init /\ [][Next]_vars
=============================================================================
