--------------------------- MODULE GossipProofs ---------------------------
(***************************************************************************)
(* Proofs about Gossip, for every number of clients, whoever they exchange *)
(* heads with, and for an operator who signs as much as he likes.          *)
(*                                                                         *)
(* The inductive invariant IInv says that what is remembered and what is   *)
(* held as evidence was signed by the operator, and that the trees an      *)
(* honest one has signed are beginnings of his log.                        *)
(***************************************************************************)
EXTENDS Gossip, TLAPS

Genuine(sth) == sth \in signed

\* What the operator has signed is a head, in his name and with his key.
SignedByOperator ==
  \A sth \in signed :
    sth \in STH /\ sth.identity = Operator /\ sth.signer = Operator

Begins(s, t) == Len(s) <= Len(t) /\ \A i \in 1 .. Len(s) : s[i] = t[i]

SignedFromLog == honest => \A sth \in signed : Begins(sth.root, log)

Views ==
  \A c \in Client : \A n \in DOMAIN seen[c] :
    Genuine(seen[c][n]) /\ TreeSize(seen[c][n]) = n

\* Two genuine heads of one size that differ in their trees.
Contradiction(ev) ==
  /\ Genuine(ev.a) /\ Genuine(ev.b) /\ ev \in [a : STH, b : STH]
  /\ TreeSize(ev.a) = TreeSize(ev.b) /\ ev.a.root # ev.b.root

Held == \A c \in Client : \A ev \in evidence[c] : Contradiction(ev)

Shapes ==
  /\ honest \in BOOLEAN
  /\ log \in Trees
  /\ seen = [c \in Client |-> seen[c]]
  /\ evidence = [c \in Client |-> evidence[c]]

IInv == Shapes /\ SignedByOperator /\ SignedFromLog /\ Views /\ Held

-----------------------------------------------------------------------------
\* A tree is a sequence of no more than MaxSize entries.
LEMMA TreesAreSequences ==
  ASSUME NEW t
  PROVE  t \in Trees <=> t \in Seq(Data) /\ Len(t) <= MaxSize
<1>1. ASSUME t \in Trees PROVE t \in Seq(Data) /\ Len(t) <= MaxSize
  <2>1. PICK n \in 0 .. MaxSize : t \in [1 .. n -> Data]
    BY <1>1 DEF Trees
  <2>2. t \in Seq(Data) /\ Len(t) = n
    BY <2>1, GossipAssumption
  <2> QED
    BY <2>1, <2>2, GossipAssumption
<1>2. ASSUME t \in Seq(Data), Len(t) <= MaxSize PROVE t \in Trees
  <2>1. t \in [1 .. Len(t) -> Data] /\ Len(t) \in 0 .. MaxSize
    BY <1>2, GossipAssumption
  <2> QED
    BY <2>1 DEF Trees
<1> QED
  BY <1>1, <1>2

\* What a client takes for a head of the operator is one.
LEMMA AcceptableIsGenuine ==
  ASSUME SignedByOperator, NEW sth \in signed \cup Foreign, Acceptable(sth)
  PROVE  Genuine(sth)
BY DEF SignedByOperator, Foreign, Acceptable, VerifySTH, Genuine, Operator, Impostor

\* What Observe returns is a contradiction of the operator.
LEMMA ConflictsContradict ==
  ASSUME SignedByOperator, NEW sth \in signed \cup Foreign, NEW view,
         \A n \in DOMAIN view : Genuine(view[n]) /\ TreeSize(view[n]) = n
  PROVE  \A ev \in Conflicts(view, sth) : Contradiction(ev)
<1> SUFFICES ASSUME NEW ev \in Conflicts(view, sth) PROVE Contradiction(ev)
  OBVIOUS
<1>1. /\ Acceptable(sth) /\ TreeSize(sth) \in DOMAIN view
      /\ view[TreeSize(sth)].root # sth.root
      /\ ev = [a |-> view[TreeSize(sth)], b |-> sth]
  BY DEF Conflicts
<1>2. Genuine(sth) /\ Genuine(view[TreeSize(sth)])
      /\ TreeSize(view[TreeSize(sth)]) = TreeSize(sth)
  BY <1>1, AcceptableIsGenuine
<1>3. ev \in [a : STH, b : STH]
  BY <1>1, <1>2 DEF Genuine, SignedByOperator
<1> QED
  BY <1>1, <1>2, <1>3 DEF Contradiction

\* What Observe leaves in a view are genuine heads, filed under their size.
LEMMA RememberKeeps ==
  ASSUME SignedByOperator, NEW sths \in SUBSET (signed \cup Foreign), NEW view,
         \A n \in DOMAIN view : Genuine(view[n]) /\ TreeSize(view[n]) = n
  PROVE  \A n \in DOMAIN Remember(view, sths) :
           Genuine(Remember(view, sths)[n]) /\ TreeSize(Remember(view, sths)[n]) = n
<1> DEFINE new == {sth \in sths : Acceptable(sth) /\ TreeSize(sth) \notin DOMAIN view}
           pick(n) == CHOOSE sth \in new : TreeSize(sth) = n
<1> SUFFICES ASSUME NEW n \in DOMAIN Remember(view, sths)
             PROVE  Genuine(Remember(view, sths)[n]) /\ TreeSize(Remember(view, sths)[n]) = n
  OBVIOUS
<1>1. /\ n \in DOMAIN view \cup {TreeSize(sth) : sth \in new}
      /\ Remember(view, sths)[n] = IF n \in DOMAIN view THEN view[n] ELSE pick(n)
  BY DEF Remember
<1>2. CASE n \in DOMAIN view
  BY <1>1, <1>2
<1>3. CASE n \notin DOMAIN view
  <2>1. \E sth \in new : TreeSize(sth) = n
    BY <1>1, <1>3
  <2>2. pick(n) \in new /\ TreeSize(pick(n)) = n
    BY <2>1
  <2>3. Genuine(pick(n))
    BY <2>2, AcceptableIsGenuine
  <2> QED
    BY <1>1, <1>3, <2>2, <2>3
<1> QED
  BY <1>2, <1>3

-----------------------------------------------------------------------------
\* The invariant holds at the start.
LEMMA Start ==
  Init => IInv
<1> SUFFICES ASSUME Init PROVE IInv
  OBVIOUS
<1>1. log \in Trees
  <2>1. <<>> \in Seq(Data) /\ Len(<<>>) = 0 /\ log = <<>>
    BY DEF Init
  <2>2. Len(<<>>) <= MaxSize
    BY <2>1, GossipAssumption
  <2>3. <<>> \in Trees
    BY <2>1, <2>2, TreesAreSequences
  <2> QED
    BY <2>1, <2>3
<1>2. \A c \in Client : DOMAIN seen[c] = {} /\ evidence[c] = {}
  BY DEF Init
<1>3. Shapes
  BY <1>1 DEF Init, Shapes
<1>4. SignedByOperator /\ SignedFromLog
  BY DEF Init, SignedByOperator, SignedFromLog
<1>5. Views /\ Held
  BY <1>2 DEF Views, Held
<1> QED
  BY <1>3, <1>4, <1>5 DEF IInv

\* What was genuine stays so when the operator signs more.
LEMMA MoreSigned ==
  ASSUME IInv, signed \subseteq signed', UNCHANGED <<seen, evidence>>
  PROVE  Views' /\ Held'
BY DEF IInv, Views, Held, Contradiction, Genuine

\* An entry appended to the log leaves every signed tree a beginning of it.
LEMMA AppendEntryKeeps ==
  ASSUME IInv, NEW d \in Data, AppendEntry(d)
  PROVE  IInv'
<1>1. log \in Seq(Data) /\ Len(log) < MaxSize /\ Len(log) \in Nat /\ MaxSize \in Nat
  BY TreesAreSequences, GossipAssumption DEF IInv, Shapes, AppendEntry
<1>2. /\ log' \in Seq(Data) /\ Len(log') = Len(log) + 1
      /\ \A i \in 1 .. Len(log) : log'[i] = log[i]
  BY <1>1 DEF AppendEntry
<1>3. UNCHANGED <<honest, signed, seen, evidence>>
  BY DEF AppendEntry
<1>4. Shapes'
  <2>1. Len(log') <= MaxSize
    BY <1>1, <1>2
  <2>2. log' \in Trees
    BY <1>2, <2>1, TreesAreSequences
  <2> QED
    BY <1>3, <2>2 DEF IInv, Shapes
<1>5. SignedByOperator'
  BY <1>3 DEF IInv, SignedByOperator
<1>6. SignedFromLog'
  <2> SUFFICES ASSUME honest, NEW sth \in signed PROVE Begins(sth.root, log')
    BY <1>3 DEF SignedFromLog
  <2>1. sth \in STH /\ Begins(sth.root, log)
    BY DEF IInv, SignedByOperator, SignedFromLog
  <2>2. sth.root \in Seq(Data)
    BY <2>1, TreesAreSequences DEF STH
  <2>3. Len(sth.root) \in Nat
    BY <2>2
  <2> QED
    BY <1>1, <1>2, <2>1, <2>3 DEF Begins
<1>7. Views' /\ Held'
  BY <1>3, MoreSigned
<1> QED
  BY <1>4, <1>5, <1>6, <1>7 DEF IInv

\* A head of a tree, for an honest operator of the log, joins the signed ones.
LEMMA SignKeeps ==
  ASSUME IInv, NEW root \in Trees, honest => root = log, Sign(root)
  PROVE  IInv'
<1>1. PICK time \in 1 .. MaxTime :
        signed' = signed \cup {SignTreeHead(Operator, root, time)}
  BY DEF Sign
<1> DEFINE h == SignTreeHead(Operator, root, time)
<1>2. UNCHANGED <<honest, log, seen, evidence>>
  BY DEF Sign
<1>3. h \in STH /\ h.identity = Operator /\ h.signer = Operator /\ h.root = root
  BY DEF SignTreeHead, STH
<1> HIDE DEF h
<1>4. Shapes'
  BY <1>2 DEF IInv, Shapes
<1>5. SignedByOperator'
  BY <1>1, <1>3 DEF IInv, SignedByOperator, h
<1>6. SignedFromLog'
  <2>1. honest => Begins(root, log)
    <3>1. log \in Seq(Data)
      BY TreesAreSequences DEF IInv, Shapes
    <3>2. Len(log) \in Nat
      BY <3>1
    <3> QED
      BY <3>2 DEF Begins
  <2> QED
    BY <1>1, <1>2, <1>3, <2>1 DEF IInv, SignedFromLog, Begins, h
<1>7. Views' /\ Held'
  BY <1>1, <1>2, MoreSigned
<1> QED
  BY <1>4, <1>5, <1>6, <1>7 DEF IInv

\* What a client does leaves the operator, his log and his heads alone.
LEMMA ClientKeeps ==
  ASSUME IInv, UNCHANGED <<honest, log, signed>>, Views', Held',
         seen' = [c \in Client |-> seen'[c]], evidence' = [c \in Client |-> evidence'[c]]
  PROVE  IInv'
BY DEF IInv, Shapes, SignedByOperator, SignedFromLog, Begins

LEMMA ObserveKeeps ==
  ASSUME IInv, NEW c \in Client, NEW sth \in signed \cup Foreign, Observe(c, sth)
  PROVE  IInv'
<1>1. /\ seen' = [seen EXCEPT ![c] = Remember(seen[c], {sth})]
      /\ evidence' = [evidence EXCEPT ![c] = evidence[c] \cup Conflicts(seen[c], sth)]
      /\ UNCHANGED <<honest, log, signed>>
  BY DEF Observe
<1>2. \A d \in Client : \A n \in DOMAIN seen[d] :
        Genuine(seen[d][n]) /\ TreeSize(seen[d][n]) = n
  BY DEF IInv, Views
<1>3. Views'
  <2> SUFFICES ASSUME NEW d \in Client, NEW n \in DOMAIN seen'[d]
               PROVE  Genuine(seen'[d][n]) /\ TreeSize(seen'[d][n]) = n
    BY <1>1 DEF Views, Genuine
  <2>1. CASE d = c
    <3>1. seen'[d] = Remember(seen[c], {sth})
      BY <1>1, <2>1 DEF IInv, Shapes
    <3> QED
      BY <1>2, <3>1, RememberKeeps DEF IInv
  <2>2. CASE d # c
    <3>1. seen'[d] = seen[d]
      BY <1>1, <2>2 DEF IInv, Shapes
    <3> QED
      BY <1>2, <3>1
  <2> QED
    BY <2>1, <2>2
<1>4. Held'
  <2> SUFFICES ASSUME NEW d \in Client, NEW ev \in evidence'[d] PROVE Contradiction(ev)
    BY <1>1 DEF Held, Contradiction, Genuine
  <2>1. ev \in evidence[d] \/ ev \in Conflicts(seen[c], sth)
    BY <1>1 DEF IInv, Shapes
  <2> QED
    BY <1>2, <2>1, ConflictsContradict DEF IInv, Held
<1>5. /\ seen' = [d \in Client |-> seen'[d]]
      /\ evidence' = [d \in Client |-> evidence'[d]]
  BY <1>1 DEF IInv, Shapes
<1> QED
  BY <1>1, <1>3, <1>4, <1>5, ClientKeeps

\* What one client is given from the view of another.
LEMMA GivenKeeps ==
  ASSUME IInv, NEW view, NEW given \in SUBSET (signed \cup Foreign),
         \A n \in DOMAIN view : Genuine(view[n]) /\ TreeSize(view[n]) = n
  PROVE  /\ \A n \in DOMAIN Remember(view, given) :
              Genuine(Remember(view, given)[n]) /\ TreeSize(Remember(view, given)[n]) = n
         /\ \A ev \in UNION {Conflicts(view, sth) : sth \in given} : Contradiction(ev)
<1>1. SignedByOperator
  BY DEF IInv
<1>2. ASSUME NEW sth \in given PROVE \A ev \in Conflicts(view, sth) : Contradiction(ev)
  BY <1>1, ConflictsContradict
<1> QED
  BY <1>1, <1>2, RememberKeeps

\* In an exchange, genuine heads make for genuine views on both sides.
LEMMA GossipWithKeeps ==
  ASSUME IInv, NEW c \in Client, NEW other \in Client, c # other, GossipWith(c, other)
  PROVE  IInv'
<1> DEFINE evC == UNION {Conflicts(seen[c], sth) : sth \in Heads(seen[other])}
           evOther == UNION {Conflicts(seen[other], sth) : sth \in Heads(seen[c])}
<1>1. /\ seen'[c] = Remember(seen[c], Heads(seen[other]))
      /\ seen'[other] = Remember(seen[other], Heads(seen[c]))
      /\ \A d \in Client \ {c, other} : seen'[d] = seen[d]
      /\ seen' = [d \in Client |-> seen'[d]]
  BY DEF GossipWith, IInv, Shapes
<1>2. /\ evidence'[c] = evidence[c] \cup evC
      /\ evidence'[other] = evidence[other] \cup evOther
      /\ \A d \in Client \ {c, other} : evidence'[d] = evidence[d]
      /\ evidence' = [d \in Client |-> evidence'[d]]
  BY DEF GossipWith, IInv, Shapes
<1>3. UNCHANGED <<honest, log, signed>>
  BY DEF GossipWith
<1>4. \A d \in Client : \A n \in DOMAIN seen[d] :
        Genuine(seen[d][n]) /\ TreeSize(seen[d][n]) = n
  BY DEF IInv, Views
<1>5. \A d \in Client : Heads(seen[d]) \in SUBSET (signed \cup Foreign)
  BY <1>4 DEF Heads, Genuine
<1>6. Views'
  <2> SUFFICES ASSUME NEW d \in Client
               PROVE  \A n \in DOMAIN seen'[d] :
                        Genuine(seen'[d][n]) /\ TreeSize(seen'[d][n]) = n
    BY <1>3 DEF Views, Genuine
  <2>1. CASE d = c
    BY <1>1, <1>4, <1>5, <2>1, GivenKeeps
  <2>2. CASE d = other
    BY <1>1, <1>4, <1>5, <2>2, GivenKeeps
  <2>3. CASE d \notin {c, other}
    BY <1>1, <1>4, <2>3
  <2> QED
    BY <2>1, <2>2, <2>3
<1>7. Held'
  <2> SUFFICES ASSUME NEW d \in Client, NEW ev \in evidence'[d] PROVE Contradiction(ev)
    BY <1>3 DEF Held, Contradiction, Genuine
  <2>1. ev \in evidence[d] \/ ev \in evC \/ ev \in evOther
    BY <1>2
  <2>2. (\A e \in evC : Contradiction(e)) /\ (\A e \in evOther : Contradiction(e))
    BY <1>4, <1>5, GivenKeeps
  <2> QED
    BY <2>1, <2>2 DEF IInv, Held
<1> QED
  BY <1>1, <1>2, <1>3, <1>6, <1>7, ClientKeeps

-----------------------------------------------------------------------------
\* Every step preserves the invariant.
LEMMA StepKeeps ==
  ASSUME IInv, [Next]_vars
  PROVE  IInv'
<1>1. ASSUME NEW d \in Data, AppendEntry(d) PROVE IInv'
  BY <1>1, AppendEntryKeeps
<1>2. CASE PublishSTH
  BY <1>2, SignKeeps DEF PublishSTH, IInv, Shapes
<1>3. CASE SignAnything
  BY <1>3, SignKeeps DEF SignAnything
<1>4. ASSUME NEW c \in Client, NEW sth \in signed \cup Foreign, Observe(c, sth) PROVE IInv'
  BY <1>4, ObserveKeeps
<1>5. ASSUME NEW p \in Peers, GossipWith(p[1], p[2]) PROVE IInv'
  <2>1. p[1] \in Client /\ p[2] \in Client /\ p[1] # p[2]
    BY GossipAssumption
  <2> QED
    BY <1>5, <2>1, GossipWithKeeps
<1>6. CASE UNCHANGED vars
  <2>1. UNCHANGED <<honest, log, signed, seen, evidence>>
    BY <1>6 DEF vars
  <2> QED
    BY <2>1 DEF IInv, Shapes, SignedByOperator, SignedFromLog, Begins, Views, Held,
                Contradiction, Genuine
<1> QED
  BY <1>1, <1>2, <1>3, <1>4, <1>5, <1>6 DEF Next

\* The inductive invariant of the operator's heads and of what clients make of
\* them.
THEOREM Invariance ==
  Spec => []IInv
BY Start, StepKeeps, PTL DEF Spec

\* Gossip.TypeOK: a view files a head under its size.
THEOREM TypeCorrect ==
  Spec => []TypeOK
<1>1. IInv => TypeOK
  BY DEF IInv, Shapes, SignedByOperator, Views, Held, Contradiction, Genuine, TypeOK
<1> QED
  BY <1>1, Invariance, PTL

\* Heads of an honest operator do not contradict each other, and heads that are
\* not his are not taken for his (Observe, GossipWith).
THEOREM HonestSafe ==
  Spec => []HonestNeverImplicated
<1>1. IInv => HonestNeverImplicated
  <2> SUFFICES ASSUME IInv, honest, NEW c \in Client, NEW ev \in evidence[c] PROVE FALSE
    BY DEF HonestNeverImplicated
  <2> DEFINE s == ev.a.root
             t == ev.b.root
  <2>1. /\ ev.a \in signed /\ ev.b \in signed /\ Len(s) = Len(t) /\ s # t
    BY DEF IInv, Held, Contradiction, Genuine, TreeSize
  <2>2. Begins(s, log) /\ Begins(t, log)
    BY <2>1 DEF IInv, SignedFromLog
  <2>3. s \in Seq(Data) /\ t \in Seq(Data)
    BY <2>1, TreesAreSequences DEF IInv, SignedByOperator, STH
  <2>4. \A i \in 1 .. Len(s) : s[i] = t[i]
    BY <2>1, <2>2 DEF Begins
  <2>5. s = t
    BY <2>1, <2>3, <2>4
  <2> QED
    BY <2>1, <2>5
<1> QED
  BY <1>1, Invariance, PTL

\* What Observe and GossipWith return as evidence passes VerifyEvidence for
\* anyone who is shown it.
THEOREM EvidenceIsProof ==
  Spec => []EvidenceConvinces
<1>1. IInv => EvidenceConvinces
  BY DEF IInv, Held, Contradiction, Genuine, SignedByOperator, EvidenceConvinces,
         VerifyEvidence, VerifySTH
<1> QED
  BY <1>1, Invariance, PTL
=============================================================================
