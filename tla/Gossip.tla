------------------------------ MODULE Gossip ------------------------------
(***************************************************************************)
(* What the clients of the transparency log remember of its tree heads and *)
(* tell each other (translog/witness.go), when the operator of the log     *)
(* keeps it append-only and when he signs whatever he likes                *)
(* (translog/simulate.go).                                                 *)
(*                                                                         *)
(* A Merkle root is the sequence of entries under it, so that a head's     *)
(* tree size is the length of its root.                                    *)
(***************************************************************************)
EXTENDS Integers, Sequences, FiniteSets

CONSTANTS
  Client,    \* holders of a ClientView
  Peers,     \* the pairs of two of them that exchange heads
  Data,      \* what an entry of the log may be
  MaxSize,   \* bound: entries in a tree
  MaxTime,   \* bound: a timestamp of a head
  MaxHeads   \* bound: how many heads the operator signs

ASSUME GossipAssumption ==
  /\ Peers \subseteq {p \in Client \X Client : p[1] # p[2]}
  /\ {MaxSize, MaxTime, MaxHeads} \subseteq Nat

VARIABLES
  honest,    \* whether the operator signs only trees of one append-only log
  log,       \* the entries of an honest operator
  signed,    \* the heads the operator has signed
  seen,      \* ClientView.seen: tree size -> head
  evidence   \* evidence[c]: what Observe and GossipWith have returned to c

vars == <<honest, log, signed, seen, evidence>>

Operator == "operator"   \* who everyone takes for the log's operator
Impostor == "impostor"

Trees == UNION {[1 .. n -> Data] : n \in 0 .. MaxSize}

\* SignedTreeHead: OperatorIdentity is who the head says has signed it, and
\* Signature is good for exactly one key.
STH == [root : Trees, time : 1 .. MaxTime, identity : {Operator, Impostor},
        signer : {Operator, Impostor}]

TreeSize(sth) == Len(sth.root)

\* signTreeHead.
SignTreeHead(who, root, time) ==
  [root |-> root, time |-> time, identity |-> who, signer |-> who]

\* Heads the operator has no part in: another log's, and forgeries in his name.
Foreign == {sth \in STH : sth.signer = Impostor}

VerifySTH(sth) == sth.signer = sth.identity

VerifyEvidence(ev, operator) ==
  /\ TreeSize(ev.a) = TreeSize(ev.b)
  /\ ev.a.root # ev.b.root
  /\ VerifySTH(ev.a) /\ VerifySTH(ev.b)
  /\ ev.a.identity = ev.b.identity
  /\ ev.a.identity = operator

Init ==
  /\ honest \in BOOLEAN
  /\ log = <<>>
  /\ signed = {}
  /\ seen = [c \in Client |-> <<>>]
  /\ evidence = [c \in Client |-> {}]

-----------------------------------------------------------------------------
(* The operator.                                                           *)

AppendEntry(d) ==
  /\ honest /\ Len(log) < MaxSize
  /\ log' = Append(log, d)
  /\ UNCHANGED <<honest, signed, seen, evidence>>

Sign(root) ==
  /\ Cardinality(signed) < MaxHeads
  /\ \E time \in 1 .. MaxTime : signed' = signed \cup {SignTreeHead(Operator, root, time)}
  /\ UNCHANGED <<honest, log, seen, evidence>>

PublishSTH == honest /\ Sign(log)

\* SignTreeHeadForSimulation.
SignAnything == ~honest /\ \E root \in Trees : Sign(root)

-----------------------------------------------------------------------------
(* The clients.                                                            *)

\* Mutant: the signature is not looked at.
AcceptableUnsigned(sth) == sth.identity = Operator

\* The two checks Observe begins with.
Acceptable(sth) == sth.identity = Operator /\ VerifySTH(sth)

\* Mutant: two heads of a size conflict when anything in them differs.
ConflictsWhole(view, sth) ==
  IF Acceptable(sth) /\ TreeSize(sth) \in DOMAIN view /\ view[TreeSize(sth)] # sth
  THEN {[a |-> view[TreeSize(sth)], b |-> sth]} ELSE {}

\* The evidence Observe returns.
Conflicts(view, sth) ==
  IF Acceptable(sth) /\ TreeSize(sth) \in DOMAIN view
                     /\ view[TreeSize(sth)].root # sth.root
  THEN {[a |-> view[TreeSize(sth)], b |-> sth]} ELSE {}

\* Mutant: heads are filed in the order of their coming.
RememberInOrder(view, sths) ==
  LET new == {sth \in sths : Acceptable(sth) /\ TreeSize(sth) \notin DOMAIN view}
  IN [n \in DOMAIN view \cup {Cardinality(DOMAIN view) : sth \in new} |->
        IF n \in DOMAIN view THEN view[n] ELSE CHOOSE sth \in new : TRUE]

\* What Observe leaves in the view: of heads of different sizes, those of a
\* size nothing is known of.
Remember(view, sths) ==
  LET new == {sth \in sths : Acceptable(sth) /\ TreeSize(sth) \notin DOMAIN view}
  IN [n \in DOMAIN view \cup {TreeSize(sth) : sth \in new} |->
        IF n \in DOMAIN view THEN view[n] ELSE CHOOSE sth \in new : TreeSize(sth) = n]

\* A client fetches a head, or is given one.
Observe(c, sth) ==
  /\ evidence' = [evidence EXCEPT ![c] = @ \cup Conflicts(seen[c], sth)]
  /\ seen' = [seen EXCEPT ![c] = Remember(@, {sth})]
  /\ UNCHANGED <<honest, log, signed>>

Heads(view) == {view[n] : n \in DOMAIN view}

\* Mutants: a head that was only heard of is not remembered; only the one who
\* asks learns something.
GossipWithForgets(c, other) ==
  /\ evidence' = [evidence EXCEPT
       ![c] = @ \cup UNION {Conflicts(seen[c], sth) : sth \in Heads(seen[other])},
       ![other] = @ \cup UNION {Conflicts(seen[other], sth) : sth \in Heads(seen[c])}]
  /\ UNCHANGED <<honest, log, signed, seen>>

GossipWithOneWay(c, other) ==
  /\ seen' = [seen EXCEPT ![c] = Remember(@, Heads(seen[other]))]
  /\ evidence' = [evidence EXCEPT
       ![c] = @ \cup UNION {Conflicts(seen[c], sth) : sth \in Heads(seen[other])}]
  /\ UNCHANGED <<honest, log, signed>>

\* Both sides are given what the other had seen before the exchange.
GossipWith(c, other) ==
  /\ seen' = [seen EXCEPT ![c] = Remember(@, Heads(seen[other])),
                          ![other] = Remember(@, Heads(seen[c]))]
  /\ evidence' = [evidence EXCEPT
       ![c] = @ \cup UNION {Conflicts(seen[c], sth) : sth \in Heads(seen[other])},
       ![other] = @ \cup UNION {Conflicts(seen[other], sth) : sth \in Heads(seen[c])}]
  /\ UNCHANGED <<honest, log, signed>>

Next ==
  \/ \E d \in Data : AppendEntry(d)
  \/ PublishSTH
  \/ SignAnything
  \/ \E c \in Client, sth \in signed \cup Foreign : Observe(c, sth)
  \/ \E p \in Peers : GossipWith(p[1], p[2])

Spec == Init /\ [][Next]_vars

\* Heads travel on message envelopes, and peers keep writing to each other.
FairSpec == Spec /\ \A p \in Peers : WF_vars(GossipWith(p[1], p[2]))

-----------------------------------------------------------------------------
(* Properties.                                                             *)

\* Every variable has its type, and a view files a head under its size.
TypeOK ==
  /\ honest \in BOOLEAN
  /\ log \in Trees
  /\ signed \subseteq STH
  /\ \A c \in Client :
       /\ \A n \in DOMAIN seen[c] : seen[c][n] \in STH /\ TreeSize(seen[c][n]) = n
       /\ evidence[c] \subseteq [a : STH, b : STH]

\* Nobody ever holds anything that would convince a third party of a lie of an
\* operator who has told none, whichever heads others make up in his name.
HonestNeverImplicated == honest => \A c \in Client : evidence[c] = {}

\* Whatever evidence a client is returned convinces everyone.
EvidenceConvinces ==
  \A c \in Client : \A ev \in evidence[c] : VerifyEvidence(ev, Operator)

Disagree(c, d, n) ==
  /\ n \in DOMAIN seen[c] \cap DOMAIN seen[d]
  /\ seen[c][n].root # seen[d][n].root

HasEvidence(c, n) == \E ev \in evidence[c] : TreeSize(ev.a) = n

\* Two clients who exchange heads and were shown different trees of one size
\* both come to hold evidence of it.
BothVictimsLearn ==
  \A p \in Peers, n \in 0 .. MaxSize :
    Disagree(p[1], p[2], n) ~> HasEvidence(p[1], n) /\ HasEvidence(p[2], n)

\* Two clients who were shown different trees of one size need not be peers:
\* where the exchanges connect them, someone comes to hold evidence of it.
EverySplitFound ==
  \A c, d \in Client, n \in 0 .. MaxSize :
    Disagree(c, d, n) ~> \E e \in Client : HasEvidence(e, n)
=============================================================================
