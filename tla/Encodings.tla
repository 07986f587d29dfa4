----------------------------- MODULE Encodings -----------------------------
(***************************************************************************)
(* What is computed from bytes alone, checked together: Merkle trees as a  *)
(* caller adds leaf after leaf, and envelopes once he has added none.      *)
(***************************************************************************)
EXTENDS Merkle, Wire

Start == NoLeaves /\ Init

Encodings ==
  /\ Start
  /\ [][ \/ Grow /\ sent = <<>> /\ UNCHANGED vars
         \/ Next /\ leaves = <<>> /\ UNCHANGED leaves ]_<<leaves, vars>>
=============================================================================
