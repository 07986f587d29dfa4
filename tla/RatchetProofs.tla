--------------------------- MODULE RatchetProofs ---------------------------
(***************************************************************************)
(* Proofs about Ratchet, for every threshold, skip window, fault of the    *)
(* network and number of messages.                                         *)
(*                                                                         *)
(* The inductive invariant IInv has three parts.  TypeOK; ReadInv, that no *)
(* key still held, in the store or ahead on the receiving chain, was read  *)
(* with; and SealInv, that the chains of the two parties are told apart by *)
(* the X25519 key mixed in last, which its owner generates afresh for each *)
(* sending chain.  Both hold because a root key only ever grows.           *)
(***************************************************************************)
EXTENDS Ratchet, SequenceTheorems, TLAPS

\* There are two parties, each the peer of the other.
LEMMA Parties ==
  \A p, q \in Party : /\ Peer(p) \in Party /\ Peer(p) # p /\ Peer(Peer(p)) = p
                      /\ q = p \/ q = Peer(p)
BY RatchetAssumption DEF Party, Peer, RatchetAssumption

\* rootKDF returns a chain key.
LEMMA RootType ==
  ASSUME NEW p \in Party, NEW root \in Chain, NEW own \in Nat, NEW remote \in Nat,
         NEW kem \in {NoSecret} \cup (Nat \X Nat)
  PROVE  RootKDF(root, DH(p, own, remote), kem) \in Chain
BY AppendProperties DEF RootKDF, Chain, Mix, DH

\* rootKDF mixes in one more secret, last: the X25519 one it is given.
LEMMA RootLen ==
  ASSUME NEW root \in Chain, NEW dh \in [Party -> Nat], NEW kem \in {NoSecret} \cup (Nat \X Nat)
  PROVE  /\ Len(RootKDF(root, dh, kem)) = Len(root) + 1
         /\ RootKDF(root, dh, kem)[Len(root) + 1].dh = dh
<1> DEFINE mix == [dh |-> dh, kem |-> kem]
<1>1. mix \in Mix
  BY DEF Mix
<1> QED
  BY <1>1, AppendProperties DEF RootKDF, Chain

\* prepareSendingChain keeps a State a State.
LEMMA NewSendingChainType ==
  ASSUME NEW p \in Party, NEW s \in State, NEW inject \in BOOLEAN
  PROVE  NewSendingChain(p, s, inject) \in State
<1> DEFINE kem == AnswerSecret(s)
           root == RootKDF(s.root, DH(p, s.dhSelf + 1, s.dhRemote), kem)
           pending == IF inject THEN s.dhSelf + 1 ELSE s.pendingKEM
           msgs == IF inject THEN 0 ELSE s.msgs
<1>1. kem \in {NoSecret} \cup (Nat \X Nat)
  BY DEF AnswerSecret, State, KEMSecret
<1>2. root \in Chain
  BY <1>1, RootType DEF State
<1>3. NewSendingChain(p, s, inject) =
        [s EXCEPT !.dhSelf = s.dhSelf + 1, !.root = root, !.chainSend = root,
                  !.pn = s.nSend, !.nSend = 0, !.needsNew = FALSE, !.peerKEM = 0,
                  !.pendingKEM = pending, !.msgs = msgs]
  BY Zenon DEF NewSendingChain
<1>4. pending \in Nat /\ msgs \in Nat /\ s.dhSelf + 1 \in Nat
  BY DEF State
<1> HIDE DEF root, pending, msgs
<1>5. [s EXCEPT !.dhSelf = s.dhSelf + 1, !.root = root, !.chainSend = root,
                !.pn = s.nSend, !.nSend = 0, !.needsNew = FALSE, !.peerKEM = 0,
                !.pendingKEM = pending, !.msgs = msgs] \in State
  BY <1>2, <1>4 DEF State
<1> QED
  BY <1>3, <1>5, Zenon

\* skipMessageKeys keeps a State a State.
LEMMA SkipToType ==
  ASSUME NEW s \in State, NEW until \in Nat
  PROVE  SkipTo(s, until) \in State
<1>1. CASE s.chainRecv = <<>> \/ until <= s.nRecv
  BY <1>1 DEF SkipTo
<1>2. CASE ~(s.chainRecv = <<>> \/ until <= s.nRecv)
  <2> DEFINE new == SkippedNumbers(s, until)
             added == {[dh |-> s.dhRemote, n |-> i, key |-> <<s.chainRecv, i>>] : i \in new}
             kept == {e \in s.skipped : e.dh # s.dhRemote \/ e.n \notin new}
  <2>1. new \subseteq Nat
    BY DEF State, SkippedNumbers
  <2>2. added \subseteq Entry
    BY <2>1 DEF State, Entry, Key
  <2>3. kept \subseteq Entry
    BY DEF State
  <2>4. SkipTo(s, until) = [s EXCEPT !.nRecv = until, !.skipped = kept \cup added]
    BY <1>2 DEF SkipTo
  <2> HIDE DEF added, kept
  <2> QED
    BY <2>2, <2>3, <2>4 DEF State
<1> QED
  BY <1>1, <1>2

\* dhRatchetStep keeps a State a State.
LEMMA RatchetStepType ==
  ASSUME NEW p \in Party, NEW s \in State, NEW m \in Message
  PROVE  RatchetStep(p, s, m) \in State
<1> DEFINE kem == ReceivedSecret(s, m)
<1>1. kem \in {NoSecret} \cup (Nat \X Nat)
  BY DEF ReceivedSecret, State, KEMSecret, Message
<1>2. RootKDF(s.root, DH(p, s.dhSelf, m.dh), kem) \in Chain
  BY <1>1, RootType DEF State, Message
<1> HIDE DEF kem
<1> QED
  BY <1>2 DEF RatchetStep, State, Message, kem
-----------------------------------------------------------------------------
(* Reading: what receiving does to a State.                                *)

\* The receiving side is past key k: it belongs to an earlier chain, or to a
\* number on the current one that the chain has stepped over.
Passed(s, k) ==
  /\ Len(k[1]) <= Len(s.root)
  /\ k[1] = s.chainRecv => k[2] < s.nRecv

\* read is the set of keys of the messages read so far.
ReadOK(s, read) ==
  /\ Len(s.chainRecv) <= Len(s.root)
  /\ \A e \in s.skipped : Passed(s, e.key)
  /\ \A e, f \in s.skipped : e.key = f.key => e = f
  /\ \A k \in read : Passed(s, k)
  /\ \A k \in read, e \in s.skipped : e.key # k

\* Receiving a message whose header names the chain dh turns s into t.
Receives(s, t, dh) ==
  /\ t.dhSelf = s.dhSelf /\ t.chainSend = s.chainSend /\ t.nSend = s.nSend
  /\ Len(s.root) <= Len(t.root)
  /\ \/ t.dhRemote = s.dhRemote /\ t.needsNew = s.needsNew
     \/ t.dhRemote = dh /\ t.needsNew = TRUE

\* skipMessageKeys stores no key that was read with, and leaves the root and
\* the keys the chain has still to give as they are.
LEMMA SkipToReads ==
  ASSUME NEW s \in State, NEW until \in Nat, NEW read \in SUBSET Key, ReadOK(s, read)
  PROVE  /\ ReadOK(SkipTo(s, until), read)
         /\ SkipTo(s, until).root = s.root
         /\ SkipTo(s, until).dhRemote = s.dhRemote
         /\ SkipTo(s, until).needsNew = s.needsNew
         /\ \A dh : Receives(s, SkipTo(s, until), dh)
<1>1. CASE s.chainRecv = <<>> \/ until <= s.nRecv
  <2>1. SkipTo(s, until) = s
    BY <1>1 DEF SkipTo
  <2> QED
    BY <2>1 DEF Receives, State, Chain
<1>2. CASE ~(s.chainRecv = <<>> \/ until <= s.nRecv)
  <2> DEFINE new == SkippedNumbers(s, until)
             added == {[dh |-> s.dhRemote, n |-> i, key |-> <<s.chainRecv, i>>] : i \in new}
             kept == {e \in s.skipped : e.dh # s.dhRemote \/ e.n \notin new}
             t == [s EXCEPT !.nRecv = until, !.skipped = kept \cup added]
  <2>1. SkipTo(s, until) = t
    BY <1>2 DEF SkipTo
  <2>2. /\ t.root = s.root /\ t.chainRecv = s.chainRecv /\ t.nRecv = until
        /\ t.skipped = kept \cup added
        /\ t.dhSelf = s.dhSelf /\ t.chainSend = s.chainSend /\ t.nSend = s.nSend
        /\ t.dhRemote = s.dhRemote /\ t.needsNew = s.needsNew
    BY DEF State
  <2>3. \A dh : Receives(s, t, dh)
    BY <2>2 DEF Receives, State, Chain
  <2>4. ReadOK(t, read)
    <3> HIDE DEF t
    <3>1. until \in Nat /\ s.nRecv \in Nat /\ s.nRecv < until
      BY <1>2 DEF State
    <3>2. \A k \in Key : Passed(s, k) => Passed(t, k) /\ \A i \in new : k # <<s.chainRecv, i>>
      BY <2>2, <3>1 DEF Passed, Key, SkippedNumbers
    <3>3. \A e \in kept : e \in s.skipped /\ e.key \in Key
      BY DEF State, Entry
    <3>4. \A e \in added : \E i \in new : e = [dh |-> s.dhRemote, n |-> i, key |-> <<s.chainRecv, i>>]
      OBVIOUS
    <3>5. \A e \in added : Passed(t, e.key)
      BY <2>2, <3>1, <3>4 DEF Passed, ReadOK, SkippedNumbers
    <3> QED
      BY <2>2, <3>2, <3>3, <3>4, <3>5 DEF ReadOK
  <2> QED
    BY <2>1, <2>2, <2>3, <2>4
<1> QED
  BY <1>1, <1>2

\* dhRatchetStep starts a receiving chain no key of which was read with.
LEMMA RatchetStepReads ==
  ASSUME NEW p \in Party, NEW s \in State, NEW m \in Message,
         NEW read \in SUBSET Key, ReadOK(s, read)
  PROVE  /\ ReadOK(RatchetStep(p, s, m), read)
         /\ Receives(s, RatchetStep(p, s, m), m.dh)
<1> DEFINE kem == ReceivedSecret(s, m)
           root == RootKDF(s.root, DH(p, s.dhSelf, m.dh), kem)
           t == RatchetStep(p, s, m)
<1>1. kem \in {NoSecret} \cup (Nat \X Nat)
  BY DEF ReceivedSecret, State, KEMSecret, Message
<1>2. root \in Chain /\ Len(root) = Len(s.root) + 1 /\ Len(s.root) \in Nat
  <2>1. s.root \in Chain /\ s.dhSelf \in Nat /\ m.dh \in Nat
    BY DEF State, Message
  <2>2. Len(s.root) \in Nat
    BY <2>1 DEF Chain
  <2> HIDE DEF kem
  <2>3. root \in Chain
    BY <1>1, <2>1, RootType
  <2>4. DH(p, s.dhSelf, m.dh) \in [Party -> Nat]
    BY <2>1 DEF DH
  <2>5. Len(root) = Len(s.root) + 1
    BY <1>1, <2>1, <2>4, RootLen
  <2> QED
    BY <2>2, <2>3, <2>5
<1>3. /\ t.root = root /\ t.chainRecv = root /\ t.skipped = s.skipped
      /\ t.dhSelf = s.dhSelf /\ t.chainSend = s.chainSend /\ t.nSend = s.nSend
      /\ t.dhRemote = m.dh /\ t.needsNew = TRUE
  BY DEF RatchetStep, State
<1> HIDE DEF t, root
<1>4. Receives(s, t, m.dh)
  BY <1>2, <1>3 DEF Receives
<1>5. \A k \in Key : Passed(s, k) => Passed(t, k)
  BY <1>2, <1>3 DEF Passed, Key, Chain
<1>6. \A e \in s.skipped : e.key \in Key
  BY DEF State, Entry
<1> QED
  BY <1>2, <1>3, <1>4, <1>5, <1>6 DEF ReadOK, t

\* Opening at the head of the receiving chain uses a key nobody has read with.
LEMMA OpenReads ==
  ASSUME NEW s \in State, NEW read \in SUBSET Key, ReadOK(s, read)
  PROVE  LET t == [s EXCEPT !.nRecv = @ + 1]
             key == <<s.chainRecv, s.nRecv>>
         IN /\ t \in State /\ key \in Key /\ key \notin read
            /\ ReadOK(t, read \cup {key})
            /\ t.root = s.root /\ t.dhRemote = s.dhRemote /\ t.needsNew = s.needsNew
            /\ t.dhSelf = s.dhSelf /\ t.chainSend = s.chainSend /\ t.nSend = s.nSend
<1> DEFINE t == [s EXCEPT !.nRecv = @ + 1]
           key == <<s.chainRecv, s.nRecv>>
<1>1. t \in State /\ key \in Key
  BY DEF State, Key
<1>2. /\ t.root = s.root /\ t.chainRecv = s.chainRecv /\ t.nRecv = s.nRecv + 1
      /\ t.skipped = s.skipped /\ t.dhRemote = s.dhRemote /\ t.needsNew = s.needsNew
      /\ t.dhSelf = s.dhSelf /\ t.chainSend = s.chainSend /\ t.nSend = s.nSend
  BY DEF State
<1>3. key[1] = s.chainRecv /\ key[2] = s.nRecv /\ s.nRecv \in Nat
  BY DEF State
<1> HIDE DEF t, key
<1>4. \A k \in Key : Passed(s, k) => Passed(t, k) /\ k # key
  BY <1>2, <1>3 DEF Passed, Key
<1>5. Passed(t, key)
  BY <1>2, <1>3 DEF Passed, ReadOK
<1>6. \A e \in s.skipped : e.key \in Key
  BY DEF State, Entry
<1>7. key \notin read
  BY <1>4 DEF ReadOK
<1>8. ReadOK(t, read \cup {key})
  BY <1>2, <1>4, <1>5, <1>6 DEF ReadOK
<1> QED
  BY <1>1, <1>2, <1>7, <1>8 DEF t, key

\* Opening with a stored key erases it.
LEMMA StoredReads ==
  ASSUME NEW s \in State, NEW read \in SUBSET Key, ReadOK(s, read), NEW e \in s.skipped
  PROVE  LET t == [s EXCEPT !.skipped = @ \ {e}]
         IN /\ t \in State /\ e.key \in Key /\ e.key \notin read
            /\ ReadOK(t, read \cup {e.key})
            /\ \A dh : Receives(s, t, dh)
<1> DEFINE t == [s EXCEPT !.skipped = @ \ {e}]
<1>1. t \in State /\ e.key \in Key
  BY DEF State, Entry
<1>2. /\ t.root = s.root /\ t.chainRecv = s.chainRecv /\ t.nRecv = s.nRecv
      /\ t.skipped = s.skipped \ {e} /\ t.dhRemote = s.dhRemote /\ t.needsNew = s.needsNew
      /\ t.dhSelf = s.dhSelf /\ t.chainSend = s.chainSend /\ t.nSend = s.nSend
  BY DEF State
<1>3. Len(s.root) \in Nat
  BY DEF State, Chain
<1> HIDE DEF t
<1>4. e.key \notin read
  BY DEF ReadOK
<1>5. ReadOK(t, read \cup {e.key})
  BY <1>2 DEF ReadOK, Passed
<1>6. \A dh : Receives(s, t, dh)
  BY <1>2, <1>3 DEF Receives
<1> QED
  BY <1>1, <1>4, <1>5, <1>6 DEF t

\* Receiving on a chain in two stages is receiving on it.
LEMMA ReceivesTwice ==
  ASSUME NEW s \in State, NEW t \in State, NEW u \in State, NEW dh \in Nat,
         Receives(s, t, dh), Receives(t, u, dh)
  PROVE  Receives(s, u, dh)
<1>1. \A x \in State : Len(x.root) \in Nat
  BY DEF State, Chain
<1>2. Len(s.root) <= Len(t.root) /\ Len(t.root) <= Len(u.root)
  BY DEF Receives
<1>3. Len(s.root) <= Len(u.root)
  BY <1>1, <1>2
<1> QED
  BY <1>3, Zenon DEF Receives

ReadKeys(p) == {sent[Peer(p)][i].key : i \in Range(inbox[p])}

\* No party has read a message twice, and none still holds or will reach a key
\* it has read with.
ReadInv ==
  \A p \in Party : ReadOK(st[p], ReadKeys(p)) /\ IsInjective(inbox[p])

\* All that one call of DecryptMessage can do.
Received(p, i) ==
  \E s \in State :
    /\ Receives(st[p], s, sent[Peer(p)][i].dh)
    /\ \/ Refuse(p, i, s) /\ ReadOK(s, ReadKeys(p))
       \/ \E key \in Key : /\ Open(p, i, s, key)
                           /\ key \notin ReadKeys(p)
                           /\ ReadOK(s, ReadKeys(p) \cup {key})

\* What is in flight was sent, and what was read was read with a key.
LEMMA Sent ==
  ASSUME TypeOK, NEW p \in Party
  PROVE  /\ st[p] \in State
         /\ ReadKeys(p) \in SUBSET Key
         /\ \A i \in wire[p] : i \in DOMAIN sent[Peer(p)] /\ sent[Peer(p)][i] \in Message
<1>1. Peer(p) \in Party
  BY Parties
<1>2. sent[Peer(p)] \in Seq(Message)
  BY <1>1 DEF TypeOK
<1>3. \A i \in DOMAIN sent[Peer(p)] : sent[Peer(p)][i] \in Message
  BY <1>2
<1>4. wire[p] \subseteq DOMAIN sent[Peer(p)] /\ Range(inbox[p]) \subseteq DOMAIN sent[Peer(p)]
  BY DEF TypeOK
<1>5. st[p] \in State
  BY DEF TypeOK
<1> QED
  BY <1>3, <1>4, <1>5 DEF ReadKeys, Message

\* The common end of a call, from a state it may be in, receives message i.
LEMMA OpenOnChainReceived ==
  ASSUME TypeOK, NEW p \in Party, NEW i \in wire[p], NEW s \in State,
         Receives(st[p], s, sent[Peer(p)][i].dh), ReadOK(s, ReadKeys(p)),
         OpenOnChain(p, i, s)
  PROVE  Received(p, i)
<1> DEFINE m == sent[Peer(p)][i]
           t == SkipTo(s, m.n)
           u == [t EXCEPT !.nRecv = @ + 1]
           key == <<t.chainRecv, t.nRecv>>
<1>1. st[p] \in State /\ ReadKeys(p) \in SUBSET Key /\ m \in Message
  BY Sent
<1>2. m.n \in Nat /\ m.dh \in Nat
  BY <1>1 DEF Message
<1>3. Open(p, i, u, key)
  BY DEF OpenOnChain
<1> HIDE DEF m
<1>4. t \in State
  BY <1>2, SkipToType
<1>5. ReadOK(t, ReadKeys(p)) /\ Receives(s, t, m.dh)
  BY <1>1, <1>2, SkipToReads
<1> HIDE DEF t
<1>6. /\ u \in State /\ key \in Key /\ key \notin ReadKeys(p)
      /\ ReadOK(u, ReadKeys(p) \cup {key})
      /\ u.root = t.root /\ u.dhRemote = t.dhRemote /\ u.needsNew = t.needsNew
      /\ u.dhSelf = t.dhSelf /\ u.chainSend = t.chainSend /\ u.nSend = t.nSend
  BY <1>1, <1>4, <1>5, OpenReads
<1> HIDE DEF u, key
<1>7. Receives(t, u, m.dh)
  BY <1>4, <1>6 DEF Receives, State, Chain
<1>8. Receives(st[p], u, m.dh)
  BY <1>1, <1>2, <1>4, <1>5, <1>6, <1>7, ReceivesTwice DEF m
<1> QED
  BY <1>3, <1>6, <1>8 DEF Received, m

\* A call that fails, in a state it may be in, receives message i.
LEMMA RefuseReceived ==
  ASSUME NEW p \in Party, NEW i \in wire[p], NEW s \in State,
         Receives(st[p], s, sent[Peer(p)][i].dh), ReadOK(s, ReadKeys(p)),
         Refuse(p, i, s)
  PROVE  Received(p, i)
BY DEF Received

\* DecryptMessage, on every path through it, either opens message i with a key
\* nobody has read with, and forgets that key, or gives an error for it.
LEMMA DecryptReceived ==
  ASSUME TypeOK, ReadInv, NEW p \in Party, NEW i \in wire[p], Decrypt(p, i)
  PROVE  Received(p, i)
<1> DEFINE s == st[p]
           m == sent[Peer(p)][i]
           skipped == SkipTo(s, m.pn)
           stepped == RatchetStep(p, skipped, m)
<1>1. /\ s \in State /\ ReadKeys(p) \in SUBSET Key /\ m \in Message
      /\ m.pn \in Nat /\ m.dh \in Nat
  BY Sent DEF Message
<1>2. ReadOK(s, ReadKeys(p))
  BY DEF ReadInv
<1>3. Receives(s, s, m.dh)
  BY <1>1 DEF Receives, State, Chain
<1>4. /\ skipped \in State /\ ReadOK(skipped, ReadKeys(p))
      /\ Receives(s, skipped, m.dh)
  <2> HIDE DEF s, m
  <2> QED
    BY <1>1, <1>2, SkipToType, SkipToReads
<1>5. /\ stepped \in State /\ ReadOK(stepped, ReadKeys(p))
      /\ Receives(skipped, stepped, m.dh)
  <2> HIDE DEF skipped, m
  <2> QED
    BY <1>1, <1>4, RatchetStepType, RatchetStepReads
<1>6. Receives(s, stepped, m.dh)
  <2> HIDE DEF skipped, m, s, stepped
  <2> QED
    BY <1>1, <1>4, <1>5, ReceivesTwice
<1>7. CASE DecryptStored(p, i)
  <2>1. PICK e \in Stored(s, m) : Open(p, i, [s EXCEPT !.skipped = @ \ {e}], e.key)
    BY <1>7 DEF DecryptStored
  <2>2. e \in s.skipped
    BY <2>1 DEF Stored
  <2> HIDE DEF s, m
  <2>3. /\ [s EXCEPT !.skipped = @ \ {e}] \in State /\ e.key \in Key
        /\ e.key \notin ReadKeys(p)
        /\ ReadOK([s EXCEPT !.skipped = @ \ {e}], ReadKeys(p) \cup {e.key})
        /\ Receives(s, [s EXCEPT !.skipped = @ \ {e}], m.dh)
    BY <1>1, <1>2, <2>2, StoredReads
  <2> QED
    BY <2>1, <2>3 DEF Received, s, m
<1>8. CASE DecryptOnChain(p, i)
  <2>1. OpenOnChain(p, i, s)
    BY <1>8 DEF DecryptOnChain
  <2> QED
    BY <1>1, <1>2, <1>3, <2>1, OpenOnChainReceived
<1>9. CASE DecryptNewChain(p, i)
  <2>1. OpenOnChain(p, i, stepped)
    BY <1>9 DEF DecryptNewChain
  <2> HIDE DEF stepped
  <2> QED
    BY <1>5, <1>6, <2>1, OpenOnChainReceived
<1>10. CASE RefuseGap(p, i)
  <2>1. Refuse(p, i, s)
    BY <1>10 DEF RefuseGap
  <2> QED
    BY <1>1, <1>2, <1>3, <2>1, RefuseReceived
<1>11. CASE RefusePreviousGap(p, i)
  <2>1. Refuse(p, i, s)
    BY <1>11 DEF RefusePreviousGap
  <2> QED
    BY <1>1, <1>2, <1>3, <2>1, RefuseReceived
<1>12. CASE RefuseUnexpectedCT(p, i)
  <2>1. Refuse(p, i, skipped)
    BY <1>12 DEF RefuseUnexpectedCT
  <2> HIDE DEF skipped
  <2> QED
    BY <1>4, <2>1, RefuseReceived
<1>13. CASE RefuseNewChainGap(p, i)
  <2>1. Refuse(p, i, stepped)
    BY <1>13 DEF RefuseNewChainGap
  <2> HIDE DEF stepped
  <2> QED
    BY <1>5, <1>6, <2>1, RefuseReceived
<1> QED
  BY <1>7, <1>8, <1>9, <1>10, <1>11, <1>12, <1>13 DEF Decrypt

-----------------------------------------------------------------------------
(* Sealing: what keeps the keys of two messages apart.                     *)

\* The X25519 key pairs that made a chain.
LastDH(c) == c[Len(c)].dh

\* The chains p has sealed messages on, and the one it can seal on now.
Chains(p) ==
  {sent[p][i].key[1] : i \in DOMAIN sent[p]} \cup ({st[p].chainSend} \ {<<>>})

\* A party is past every key it has sealed with.
PastSealed(p) ==
  /\ Len(st[p].chainSend) <= Len(st[p].root)
  /\ \A i \in DOMAIN sent[p] :
       LET k == sent[p][i].key
       IN /\ Len(k[1]) <= Len(st[p].root)
          /\ k[1] = st[p].chainSend => k[2] < st[p].nSend

\* Nobody has heard of a key pair that does not exist yet, and a party that
\* can seal has a chain to do it on.
Heard(p) ==
  /\ st[p].dhRemote <= st[Peer(p)].dhSelf
  /\ \A i \in DOMAIN sent[p] : sent[p][i].dh <= st[p].dhSelf
  /\ \A c \in Chains(p) : c # <<>> /\ \A q \in Party : LastDH(c)[q] <= st[q].dhSelf
  /\ st[p].dhRemote # 0 => st[p].needsNew \/ st[p].chainSend # <<>>

\* The chains of the two parties differ, for a party starts a chain with a key
\* pair younger than any its peer has heard of.
SealInv ==
  /\ \A p \in Party : PastSealed(p) /\ Heard(p)
  /\ Chains(Alice) \cap Chains(Bob) = {}
  /\ SealedOnce

IInv == TypeOK /\ ReadInv /\ SealInv

\* Before sealing the next message p turns s into t: nothing, or a new chain.
Starts(p, s, t) ==
  /\ s.dhRemote # 0 /\ t.dhRemote = s.dhRemote
  /\ t.chainRecv = s.chainRecv /\ t.nRecv = s.nRecv /\ t.skipped = s.skipped
  /\ t.needsNew = FALSE
  /\ \/ /\ s.needsNew = FALSE
        /\ t.dhSelf = s.dhSelf /\ t.nSend = s.nSend
        /\ t.chainSend = s.chainSend /\ t.root = s.root
     \/ /\ t.dhSelf = s.dhSelf + 1 /\ t.nSend = 0
        /\ t.chainSend = t.root /\ Len(t.root) = Len(s.root) + 1
        /\ LastDH(t.root) = DH(p, t.dhSelf, s.dhRemote)

\* prepareSendingChain starts a chain whose last mix has the fresh X25519 key.
LEMMA NewSendingChainStarts ==
  ASSUME NEW p \in Party, NEW s \in State, NEW inject \in BOOLEAN, s.dhRemote # 0
  PROVE  Starts(p, s, NewSendingChain(p, s, inject))
<1> DEFINE kem == AnswerSecret(s)
           root == RootKDF(s.root, DH(p, s.dhSelf + 1, s.dhRemote), kem)
           t == NewSendingChain(p, s, inject)
<1>1. kem \in {NoSecret} \cup (Nat \X Nat)
  BY DEF AnswerSecret, State, KEMSecret
<1>2. s.root \in Chain /\ s.dhSelf + 1 \in Nat /\ s.dhRemote \in Nat
  BY DEF State
<1>3. /\ t.dhRemote = s.dhRemote /\ t.chainRecv = s.chainRecv /\ t.nRecv = s.nRecv
      /\ t.skipped = s.skipped /\ t.needsNew = FALSE /\ t.nSend = 0
      /\ t.dhSelf = s.dhSelf + 1 /\ t.chainSend = root /\ t.root = root
  BY DEF NewSendingChain, State
<1> HIDE DEF kem, t
<1>4. DH(p, s.dhSelf + 1, s.dhRemote) \in [Party -> Nat]
  BY <1>2 DEF DH
<1>5. /\ Len(root) = Len(s.root) + 1
      /\ root[Len(s.root) + 1].dh = DH(p, s.dhSelf + 1, s.dhRemote)
  BY <1>1, <1>2, <1>4, RootLen
<1> HIDE DEF root
<1>6. LastDH(root) = DH(p, s.dhSelf + 1, s.dhRemote)
  BY <1>5 DEF LastDH
<1> QED
  BY <1>3, <1>5, <1>6 DEF Starts, t

\* EncryptMessage, on either path, seals one message on a chain of its own.
LEMMA EncryptSeals ==
  ASSUME TypeOK, NEW p \in Party, Encrypt(p)
  PROVE  \E s \in State, pub \in BOOLEAN, ct \in Nat :
           Seal(p, s, pub, ct) /\ Starts(p, st[p], s)
<1>1. st[p] \in State /\ st[p].dhRemote # 0
  BY DEF TypeOK, Encrypt, EncryptOnChain, EncryptNewChain, CanEncrypt
<1>2. CASE EncryptOnChain(p)
  <2>1. Seal(p, st[p], FALSE, 0) /\ st[p].needsNew = FALSE
    BY <1>1, <1>2 DEF EncryptOnChain, State
  <2>2. Starts(p, st[p], st[p])
    BY <1>1, <2>1 DEF Starts
  <2> QED
    BY <1>1, <2>1, <2>2
<1>3. ASSUME NEW late \in TimeDue, EncryptNewChain(p, late)
      PROVE  \E s \in State, pub \in BOOLEAN, ct \in Nat :
               Seal(p, s, pub, ct) /\ Starts(p, st[p], s)
  <2> DEFINE inject == InjectionDue(st[p], late)
             t == NewSendingChain(p, st[p], inject)
  <2>1. inject \in BOOLEAN /\ st[p].peerKEM \in Nat
    BY <1>1, RatchetAssumption DEF InjectionDue, State, RatchetAssumption
  <2>2. Seal(p, t, inject, st[p].peerKEM)
    BY <1>3 DEF EncryptNewChain
  <2> HIDE DEF inject
  <2>3. t \in State /\ Starts(p, st[p], t)
    BY <1>1, <2>1, NewSendingChainType, NewSendingChainStarts
  <2> HIDE DEF t
  <2> QED
    BY <2>1, <2>2, <2>3
<1> QED
  BY <1>2, <1>3 DEF Encrypt

-----------------------------------------------------------------------------
(* Types.                                                                  *)

\* The initial state has its type.
LEMMA InitType == Init => TypeOK
<1> SUFFICES ASSUME Init PROVE TypeOK
  OBVIOUS
<1>1. <<>> \in Chain
  BY DEF Chain
<1>2. Alice \in Party
  BY DEF Party
<1>3. InitAlice \in State
  <2> DEFINE root == RootKDF(<<>>, DH(Alice, 1, 1), NoSecret)
  <2>1. root \in Chain
    BY <1>1, <1>2, RootType
  <2> HIDE DEF root
  <2>2. [root |-> root, dhSelf |-> 1, dhRemote |-> 1,
         chainSend |-> root, chainRecv |-> <<>>,
         nSend |-> 0, nRecv |-> 0, pn |-> 0, needsNew |-> FALSE,
         skipped |-> {}, msgs |-> 0, pendingKEM |-> 0, peerKEM |-> 0] \in State
    BY <1>1, <2>1 DEF State
  <2> QED
    BY <2>2, Zenon DEF InitAlice, root
<1>4. InitBob \in State
  BY <1>1 DEF InitBob, State
<1>5. st \in [Party -> State]
  BY <1>3, <1>4 DEF Init
<1>6. /\ sent = [p \in Party |-> <<>>] /\ wire = [p \in Party |-> {}]
      /\ inbox = [p \in Party |-> <<>>] /\ refused = [p \in Party |-> {}]
      /\ dups = 0
  BY DEF Init
<1>7. \A p \in Party : Peer(p) \in Party
  BY Parties
<1> QED
  BY <1>5, <1>6, <1>7 DEF TypeOK, Range

\* The message Seal(p, s, pub, ct) appends.
Sealed(s, pub, ct) ==
  [dh |-> s.dhSelf, pn |-> s.pn, n |-> s.nSend, pub |-> pub, ct |-> ct,
   key |-> <<s.chainSend, s.nSend>>]

\* What Seal(p, s, pub, ct) changes.
SealedWith(p, s, pub, ct) ==
  /\ Sealed(s, pub, ct) \in Message
  /\ st'[p] = StepSending(s) /\ st'[p] \in State
  /\ st'[Peer(p)] = st[Peer(p)] /\ st' \in [Party -> State]
  /\ sent'[p] = Append(sent[p], Sealed(s, pub, ct))
  /\ sent'[Peer(p)] = sent[Peer(p)] /\ sent' \in [Party -> Seq(Message)]
  /\ wire' = [wire EXCEPT ![Peer(p)] = @ \cup {Len(sent[p]) + 1}]
  /\ UNCHANGED <<inbox, refused, dups>>

\* What Seal does, for the party and for its peer.
LEMMA SealEffect ==
  ASSUME TypeOK, NEW p \in Party, NEW s \in State, NEW pub \in BOOLEAN, NEW ct \in Nat,
         Seal(p, s, pub, ct)
  PROVE  SealedWith(p, s, pub, ct)
<1> DEFINE m == Sealed(s, pub, ct)
           t == StepSending(s)
<1>1. m \in Message
  BY DEF Sealed, Message, State, Key
<1>2. t \in State
  <2>1. s.nSend + 1 \in Nat /\ s.msgs + 1 \in Nat
    BY DEF State
  <2> QED
    BY <2>1, Zenon DEF State, StepSending
<1>3. Peer(p) \in Party /\ Peer(p) # p
  BY Parties
<1>4. st \in [Party -> State] /\ sent \in [Party -> Seq(Message)]
  BY DEF TypeOK
<1>5. /\ st' = [st EXCEPT ![p] = t] /\ sent' = [sent EXCEPT ![p] = Append(@, m)]
      /\ wire' = [wire EXCEPT ![Peer(p)] = @ \cup {Len(sent[p]) + 1}]
      /\ UNCHANGED <<inbox, refused, dups>>
  BY Zenon DEF Seal, Sealed
<1> HIDE DEF m, t
<1>6. Append(sent[p], m) \in Seq(Message)
  BY <1>1, <1>4
<1> QED
  BY <1>1, <1>2, <1>3, <1>4, <1>5, <1>6, Zenon DEF SealedWith, m, t

\* Sealing a message preserves the types.
LEMMA SealType ==
  ASSUME TypeOK, NEW p \in Party, NEW s \in State, NEW pub \in BOOLEAN, NEW ct \in Nat,
         Seal(p, s, pub, ct)
  PROVE  TypeOK'
<1>1. /\ st' \in [Party -> State] /\ sent' \in [Party -> Seq(Message)]
      /\ sent'[p] = Append(sent[p], Sealed(s, pub, ct))
      /\ sent'[Peer(p)] = sent[Peer(p)]
      /\ wire' = [wire EXCEPT ![Peer(p)] = @ \cup {Len(sent[p]) + 1}]
      /\ UNCHANGED <<inbox, refused, dups>>
      /\ Sealed(s, pub, ct) \in Message
  <2>1. SealedWith(p, s, pub, ct)
    BY SealEffect
  <2> QED
    BY <2>1, Zenon DEF SealedWith
<1>2. /\ wire \in [Party -> SUBSET Nat] /\ inbox \in [Party -> Seq(Nat)]
      /\ refused \in [Party -> SUBSET Nat] /\ dups \in Nat /\ sent[p] \in Seq(Message)
  BY DEF TypeOK
<1>3. Len(sent[p]) \in Nat /\ DOMAIN sent'[p] = 1 .. Len(sent[p]) + 1
      /\ DOMAIN sent[p] = 1 .. Len(sent[p])
  BY <1>1, <1>2, AppendProperties
<1>4. wire' \in [Party -> SUBSET Nat]
  <2>1. wire[Peer(p)] \cup {Len(sent[p]) + 1} \in SUBSET Nat
    BY <1>2, <1>3, Parties
  <2> QED
    BY <1>1, <1>2, <2>1
<1>5. ASSUME NEW q \in Party
      PROVE  (wire[q] \cup refused[q] \cup Range(inbox[q]))' \subseteq DOMAIN sent'[Peer(q)]
  <2>1. wire[q] \cup refused[q] \cup Range(inbox[q]) \subseteq DOMAIN sent[Peer(q)]
    BY DEF TypeOK
  <2>2. Peer(p) \in Party /\ Peer(p) # p /\ Peer(Peer(p)) = p /\ (q = p \/ q = Peer(p))
    BY Parties
  <2>3. CASE q = p
    <3>1. wire'[q] = wire[q] /\ sent'[Peer(q)] = sent[Peer(q)]
      BY <1>1, <1>2, <2>2, <2>3
    <3> QED
      BY <1>1, <2>1, <3>1, Zenon
  <2>4. CASE q = Peer(p)
    <3>1. wire'[q] = wire[q] \cup {Len(sent[p]) + 1} /\ sent'[Peer(q)] = sent'[p]
      BY <1>1, <1>2, <2>2, <2>4
    <3>2. wire[q] \cup refused[q] \cup Range(inbox[q]) \subseteq 1 .. Len(sent[p])
      BY <1>3, <2>1, <2>2, <2>4
    <3>3. (wire[q] \cup refused[q] \cup Range(inbox[q]))'
           = wire'[q] \cup refused[q] \cup Range(inbox[q])
      BY <1>1, Zenon DEF Range
    <3> QED
      BY <1>3, <3>1, <3>2, <3>3
  <2> QED
    BY <2>2, <2>3, <2>4
<1> QED
  BY <1>1, <1>2, <1>4, <1>5 DEF TypeOK

\* Append adds its element to the range of a sequence.
LEMMA RangeAppend ==
  ASSUME NEW S, NEW seq \in Seq(S), NEW e \in S
  PROVE  Range(Append(seq, e)) = Range(seq) \cup {e}
<1>1. Append(seq, e) \in Seq(S) /\ Len(Append(seq, e)) = Len(seq) + 1
  BY AppendProperties
<1>2. \A k \in 1 .. Len(seq) : Append(seq, e)[k] = seq[k]
  BY AppendProperties
<1>3. Append(seq, e)[Len(seq) + 1] = e
  BY AppendProperties
<1>4. DOMAIN seq = 1 .. Len(seq) /\ Len(seq) \in Nat
  OBVIOUS
<1>5. DOMAIN Append(seq, e) = 1 .. Len(seq) + 1
  BY <1>1
<1> QED
  BY <1>2, <1>3, <1>4, <1>5 DEF Range

\* Appending a new element keeps a sequence free of repetitions.
LEMMA InjectiveAppend ==
  ASSUME NEW S, NEW seq \in Seq(S), NEW e \in S, IsInjective(seq), e \notin Range(seq)
  PROVE  IsInjective(Append(seq, e))
<1> DEFINE longer == Append(seq, e)
           l == Len(seq)
<1>1. l \in Nat /\ DOMAIN seq = 1 .. l
  OBVIOUS
<1>2. DOMAIN longer = 1 .. l + 1 /\ longer[l + 1] = e
  BY AppendProperties
<1>3. \A k \in 1 .. l : longer[k] = seq[k] /\ longer[k] # e
  BY <1>1, AppendProperties DEF Range
<1>4. \A j, k \in 1 .. l : longer[j] = longer[k] => j = k
  BY <1>1, <1>3 DEF IsInjective
<1>5. \A k \in 1 .. l + 1 : k \in 1 .. l \/ k = l + 1
  BY <1>1
<1> HIDE DEF longer, l
<1> QED
  BY <1>2, <1>3, <1>4, <1>5, Zenon DEF IsInjective, longer

\* A delivery takes a message that is in flight and adds none.
LEMMA DeliverType ==
  ASSUME TypeOK, NEW p \in Party, NEW i, Deliver(p, i)
  PROVE  /\ wire' \in [Party -> SUBSET Nat] /\ dups' \in Nat
         /\ \A q \in Party : wire'[q] \subseteq wire[q]
         /\ i \in wire[p]
<1>1. wire \in [Party -> SUBSET Nat] /\ dups \in Nat
  BY DEF TypeOK
<1>2. CASE wire' = [wire EXCEPT ![p] = @ \ {i}] /\ UNCHANGED dups
  BY <1>1, <1>2 DEF Deliver
<1>3. CASE dups' = dups + 1 /\ UNCHANGED wire
  BY <1>1, <1>3 DEF Deliver
<1> QED
  BY <1>2, <1>3 DEF Deliver

\* DecryptMessage is called on a message the network delivers.
LEMMA DecryptDelivers ==
  ASSUME NEW p, NEW i, Decrypt(p, i)
  PROVE  Deliver(p, i)
BY DEF Decrypt, DecryptStored, DecryptOnChain, DecryptNewChain, RefuseGap,
       RefusePreviousGap, RefuseUnexpectedCT, RefuseNewChainGap

\* Opening or refusing a delivered message preserves the types.
LEMMA ReceiveType ==
  ASSUME TypeOK, NEW p \in Party, NEW i \in wire[p], Deliver(p, i), NEW s \in State,
         Refuse(p, i, s) \/ \E key \in Key : Open(p, i, s, key)
  PROVE  TypeOK'
<1>1. /\ wire' \in [Party -> SUBSET Nat] /\ dups' \in Nat
      /\ \A q \in Party : wire'[q] \subseteq wire[q]
  BY DeliverType
<1>2. /\ st \in [Party -> State] /\ inbox \in [Party -> Seq(Nat)]
      /\ refused \in [Party -> SUBSET Nat] /\ sent \in [Party -> Seq(Message)]
      /\ i \in DOMAIN sent[Peer(p)] /\ i \in Nat
      /\ \A q \in Party :
           wire[q] \cup refused[q] \cup Range(inbox[q]) \subseteq DOMAIN sent[Peer(q)]
  BY DEF TypeOK
<1>3. st' = [st EXCEPT ![p] = s] /\ UNCHANGED sent
  BY DEF Refuse, Open
<1>4. st' \in [Party -> State]
  BY <1>2, <1>3
<1>5. CASE /\ refused' = [refused EXCEPT ![p] = @ \cup {i}]
           /\ UNCHANGED inbox
  <2>1. refused' \in [Party -> SUBSET Nat]
        /\ \A q \in Party : refused'[q] \subseteq refused[q] \cup (IF q = p THEN {i} ELSE {})
    BY <1>2, <1>5
  <2>2. \A q \in Party : Range(inbox[q])' = Range(inbox[q])
    BY <1>5 DEF Range
  <2> QED
    BY <1>1, <1>2, <1>3, <1>4, <1>5, <2>1, <2>2 DEF TypeOK
<1>6. CASE /\ inbox' = [inbox EXCEPT ![p] = Append(@, i)]
           /\ UNCHANGED refused
  <2>1. inbox' \in [Party -> Seq(Nat)]
    BY <1>2, <1>6
  <2>2. \A q \in Party : inbox'[q] = IF q = p THEN Append(inbox[q], i) ELSE inbox[q]
    BY <1>2, <1>6
  <2>3. \A q \in Party : Range(inbox'[q]) \subseteq Range(inbox[q]) \cup {i}
    <3>1. Range(Append(inbox[p], i)) = Range(inbox[p]) \cup {i}
      BY <1>2, RangeAppend
    <3> QED
      BY <2>2, <3>1
  <2>4. \A q \in Party : q # p => Range(inbox'[q]) = Range(inbox[q])
    BY <2>2
  <2> QED
    BY <1>1, <1>2, <1>3, <1>4, <1>6, <2>1, <2>3, <2>4 DEF TypeOK
<1> QED
  BY <1>5, <1>6 DEF Refuse, Open

\* Losing a message preserves the types.
LEMMA LoseType ==
  ASSUME TypeOK, NEW p \in Party, NEW i \in wire[p], Lose(p, i)
  PROVE  TypeOK'
BY DEF TypeOK, Lose, Range

-----------------------------------------------------------------------------
(* The invariant on reading.                                               *)

\* Nothing was read and nothing is stored at first.
LEMMA InitReads == Init => ReadInv
<1> SUFFICES ASSUME Init, NEW p \in Party
             PROVE  ReadOK(st[p], ReadKeys(p)) /\ IsInjective(inbox[p])
  BY DEF ReadInv
<1>1. inbox[p] = <<>>
  BY DEF Init
<1>2. ReadKeys(p) = {}
  BY <1>1 DEF ReadKeys, Range
<1>3. st[p].chainRecv = <<>> /\ st[p].skipped = {}
  BY DEF Init, InitAlice, InitBob
<1>4. st[p].root \in Seq(Mix)
  BY InitType DEF TypeOK, State, Chain
<1>5. Len(st[p].chainRecv) <= Len(st[p].root)
  BY <1>3, <1>4
<1> QED
  BY <1>1, <1>2, <1>3, <1>5 DEF ReadOK, IsInjective

\* Sealing a message disturbs no key of a receiving chain.
LEMMA SealReads ==
  ASSUME TypeOK, ReadInv, NEW p \in Party, NEW s \in State, NEW pub \in BOOLEAN, NEW ct \in Nat,
         Seal(p, s, pub, ct), Starts(p, st[p], s)
  PROVE  ReadInv'
<1> DEFINE t == StepSending(s)
<1>1. SealedWith(p, s, pub, ct)
  BY SealEffect
<1>2. /\ st'[p] = t /\ st'[Peer(p)] = st[Peer(p)]
      /\ sent'[p] = Append(sent[p], Sealed(s, pub, ct)) /\ sent'[Peer(p)] = sent[Peer(p)]
      /\ Sealed(s, pub, ct) \in Message /\ inbox' = inbox
  BY <1>1, Zenon DEF SealedWith
<1>3. /\ t.chainRecv = st[p].chainRecv /\ t.nRecv = st[p].nRecv
      /\ t.skipped = st[p].skipped /\ t.root = s.root
  BY DEF Starts, State, StepSending
<1> HIDE DEF t
<1>0. st[p] \in State /\ ReadKeys(p) \in SUBSET Key
  BY Sent
<1>4. Len(st[p].root) \in Nat /\ Len(s.root) \in Nat
  <2>1. \A x \in State : Len(x.root) \in Nat
    BY DEF State, Chain
  <2> QED
    BY <1>0, <2>1
<1>5. Len(st[p].root) <= Len(s.root)
  BY <1>4 DEF Starts
<1>6. \A q \in Party : \A i \in DOMAIN sent[q] : sent'[q][i] = sent[q][i]
  <2>1. \A q \in Party : q = p \/ q = Peer(p)
    BY Parties
  <2>2. sent[p] \in Seq(Message)
    BY DEF TypeOK
  <2>3. \A i \in DOMAIN sent[p] : sent'[p][i] = sent[p][i]
    BY <1>2, <2>2, AppendProperties
  <2> QED
    BY <1>2, <2>1, <2>3, Zenon
<1> SUFFICES ASSUME NEW q \in Party
             PROVE  ReadOK(st'[q], ReadKeys(q)') /\ IsInjective(inbox'[q])
  BY DEF ReadInv
<1>7. ReadKeys(q)' = ReadKeys(q)
  <2>1. Peer(q) \in Party /\ Range(inbox[q]) \subseteq DOMAIN sent[Peer(q)]
    BY Parties DEF TypeOK
  <2>2. ReadKeys(q)' = {sent'[Peer(q)][i].key : i \in Range(inbox[q])}
    BY <1>2, Zenon DEF ReadKeys, Range
  <2>3. ReadKeys(q) = {sent[Peer(q)][i].key : i \in Range(inbox[q])}
    BY DEF ReadKeys
  <2>4. \A i \in Range(inbox[q]) : sent'[Peer(q)][i].key = sent[Peer(q)][i].key
    BY <1>6, <2>1
  <2> QED
    BY <2>2, <2>3, <2>4
<1>8. ReadOK(st[q], ReadKeys(q)) /\ IsInjective(inbox[q])
  BY DEF ReadInv
<1>9. CASE q = p
  <2>1. \A x \in State : Len(x.chainRecv) \in Nat
    BY DEF State, Chain
  <2>2. \A k : Passed(st[p], k) /\ Len(k[1]) \in Nat => Passed(t, k)
    BY <1>3, <1>4, <1>5 DEF Passed
  <2>3. \A e \in st[p].skipped : e.key \in Key
    BY <1>0 DEF State, Entry
  <2>4. \A k \in Key : Len(k[1]) \in Nat
    BY DEF Key, Chain
  <2>5. Len(t.chainRecv) <= Len(t.root)
    BY <1>0, <1>3, <1>4, <1>5, <1>8, <1>9, <2>1 DEF ReadOK
  <2>6. ReadOK(t, ReadKeys(p))
    BY <1>0, <1>3, <1>8, <1>9, <2>2, <2>3, <2>4, <2>5 DEF ReadOK
  <2> QED
    BY <1>2, <1>7, <1>8, <1>9, <2>6
<1>10. CASE q = Peer(p)
  BY <1>2, <1>7, <1>8, <1>10
<1> QED
  BY <1>9, <1>10, Parties

\* Opening a message with an unread key, or refusing it, keeps ReadInv.
LEMMA ReceiveReads ==
  ASSUME TypeOK, ReadInv, NEW p \in Party, NEW i \in wire[p], NEW s \in State,
         \/ Refuse(p, i, s) /\ ReadOK(s, ReadKeys(p))
         \/ \E key \in Key : /\ Open(p, i, s, key)
                             /\ key \notin ReadKeys(p)
                             /\ ReadOK(s, ReadKeys(p) \cup {key})
  PROVE  /\ ReadInv'
         /\ inbox' # inbox => /\ inbox' = [inbox EXCEPT ![p] = Append(@, i)]
                              /\ i \notin Range(inbox[p])
<1>1. /\ st \in [Party -> State] /\ inbox \in [Party -> Seq(Nat)] /\ i \in Nat
      /\ inbox[p] \in Seq(Nat)
  BY DEF TypeOK
<1>2. st' = [st EXCEPT ![p] = s] /\ sent' = sent
  BY DEF Refuse, Open
<1>3. st'[p] = s /\ \A q \in Party : q # p => st'[q] = st[q]
  BY <1>1, <1>2
<1>4. CASE inbox' = inbox /\ ReadOK(s, ReadKeys(p))
  <2>1. \A q \in Party : ReadKeys(q)' = ReadKeys(q)
    BY <1>2, <1>4 DEF ReadKeys, Range
  <2> QED
    BY <1>3, <1>4, <2>1 DEF ReadInv
<1>5. ASSUME NEW key \in Key, key = sent[Peer(p)][i].key, key \notin ReadKeys(p),
             ReadOK(s, ReadKeys(p) \cup {key}),
             inbox' = [inbox EXCEPT ![p] = Append(@, i)]
      PROVE  ReadInv' /\ i \notin Range(inbox[p])
  <2>1. i \notin Range(inbox[p])
    BY <1>5 DEF ReadKeys
  <2>2. inbox'[p] = Append(inbox[p], i) /\ \A q \in Party : q # p => inbox'[q] = inbox[q]
    BY <1>1, <1>5
  <2>3. Range(inbox'[p]) = Range(inbox[p]) \cup {i}
    BY <1>1, <2>2, RangeAppend
  <2>4. ReadKeys(p)' = ReadKeys(p) \cup {key}
    BY <1>2, <1>5, <2>3, Zenon DEF ReadKeys, Range
  <2>5. \A q \in Party : q # p => ReadKeys(q)' = ReadKeys(q)
    BY <1>2, <2>2, Zenon DEF ReadKeys, Range
  <2>6. IsInjective(inbox'[p])
    BY <1>1, <2>1, <2>2, InjectiveAppend DEF ReadInv
  <2> QED
    BY <1>3, <1>5, <2>1, <2>2, <2>4, <2>5, <2>6 DEF ReadInv
<1>6. CASE Refuse(p, i, s) /\ ReadOK(s, ReadKeys(p))
  BY <1>4, <1>6 DEF Refuse
<1>7. ASSUME NEW key \in Key, Open(p, i, s, key), key \notin ReadKeys(p),
             ReadOK(s, ReadKeys(p) \cup {key})
      PROVE  \/ inbox' = inbox /\ ReadOK(s, ReadKeys(p))
             \/ /\ key = sent[Peer(p)][i].key
                /\ inbox' = [inbox EXCEPT ![p] = Append(@, i)]
  BY <1>7 DEF Open, ReadOK
<1> QED
  BY <1>4, <1>5, <1>6, <1>7

-----------------------------------------------------------------------------
(* The invariant on sealing.                                               *)

\* Nothing was sealed at first, and only the initiator has a sending chain.
LEMMA InitSeals == Init => SealInv
<1> SUFFICES ASSUME Init PROVE SealInv
  OBVIOUS
<1> DEFINE root == RootKDF(<<>>, DH(Alice, 1, 1), NoSecret)
<1>1. Alice \in Party /\ Bob \in Party /\ Alice # Bob /\ Peer(Alice) = Bob /\ Peer(Bob) = Alice
      /\ Party = {Alice, Bob}
  BY RatchetAssumption DEF Party, Peer, RatchetAssumption
<1>2. /\ \A p \in Party : sent[p] = <<>>
      /\ st[Alice] = InitAlice /\ st[Bob] = InitBob
  BY <1>1 DEF Init
<1>3. /\ st[Alice].root = root /\ st[Alice].chainSend = root /\ st[Alice].dhSelf = 1
      /\ st[Alice].dhRemote = 1
      /\ st[Bob].root = <<>> /\ st[Bob].chainSend = <<>> /\ st[Bob].dhSelf = 1
      /\ st[Bob].dhRemote = 0
  BY <1>2 DEF InitAlice, InitBob
<1>4. <<>> \in Chain /\ Len(<<>>) = 0
  BY DEF Chain
<1>5. Len(root) = 1 /\ root[1].dh = DH(Alice, 1, 1) /\ root \in Chain
  <2>1. /\ NoSecret \in {NoSecret} \cup (Nat \X Nat) /\ 1 \in Nat
        /\ DH(Alice, 1, 1) \in [Party -> Nat]
    BY DEF DH
  <2>2. root \in Chain
    BY <1>1, <1>4, <2>1, RootType
  <2>3. PICK c \in Chain : c = <<>>
    BY <1>4
  <2>4. Len(RootKDF(c, DH(Alice, 1, 1), NoSecret)) = Len(c) + 1
    BY <1>1, <2>1, RootLen
  <2>5. RootKDF(c, DH(Alice, 1, 1), NoSecret)[Len(c) + 1].dh = DH(Alice, 1, 1)
    BY <1>1, <2>1, RootLen
  <2>6. root = RootKDF(c, DH(Alice, 1, 1), NoSecret) /\ Len(c) = 0
    BY <1>4, <2>3
  <2> HIDE DEF root
  <2> QED
    BY <2>2, <2>4, <2>5, <2>6
<1> HIDE DEF root
<1>6. root # <<>> /\ LastDH(root) = DH(Alice, 1, 1)
  BY <1>4, <1>5 DEF LastDH
<1>7. Chains(Alice) = {root} /\ Chains(Bob) = {}
  BY <1>1, <1>2, <1>3, <1>6 DEF Chains
<1>8. \A p \in Party : PastSealed(p)
  BY <1>1, <1>2, <1>3, <1>4, <1>5 DEF PastSealed
<1>9. Heard(Alice) /\ Heard(Bob)
  BY <1>1, <1>2, <1>3, <1>6, <1>7 DEF Heard, DH
<1> QED
  BY <1>1, <1>2, <1>7, <1>8, <1>9 DEF SealInv, SealedOnce

\* The types of the parts of a sealed message.
LEMMA SentLen ==
  ASSUME TypeOK, NEW p \in Party, NEW i \in DOMAIN sent[p]
  PROVE  /\ sent[p][i].key[1] \in Chain /\ Len(sent[p][i].key[1]) \in Nat
         /\ sent[p][i].key[2] \in Nat /\ sent[p][i].dh \in Nat
<1>1. sent[p] \in Seq(Message)
  BY DEF TypeOK
<1>2. sent[p][i] \in Message
  BY <1>1
<1>3. \A c \in Chain : Len(c) \in Nat
  BY DEF Chain
<1> QED
  BY <1>2, <1>3 DEF Message, Key

\* Receiving disturbs no sending chain, and a receiving chain is the peer's.
LEMMA ReceiveSeals ==
  ASSUME TypeOK, SealInv, NEW p \in Party, NEW i \in wire[p], NEW s \in State,
         Receives(st[p], s, sent[Peer(p)][i].dh),
         st' = [st EXCEPT ![p] = s], sent' = sent
  PROVE  SealInv'
<1>1. /\ \A q \in Party : st[q] \in State
      /\ \A q \in Party : Peer(q) \in Party /\ Peer(Peer(q)) = q
      /\ i \in DOMAIN sent[Peer(p)]
  BY Sent, Parties
<1>2. st'[p] = s /\ \A q \in Party : q # p => st'[q] = st[q]
  BY DEF TypeOK
<1>3. \A q \in Party : /\ st'[q].dhSelf = st[q].dhSelf
                       /\ st'[q].chainSend = st[q].chainSend
                       /\ st'[q].nSend = st[q].nSend
                       /\ Len(st[q].root) <= Len(st'[q].root)
                       /\ Len(st[q].root) \in Nat /\ Len(st'[q].root) \in Nat
                       /\ Len(st[q].chainSend) \in Nat
  <2>1. \A x \in State : Len(x.root) \in Nat /\ Len(x.chainSend) \in Nat
    <3>1. \A c \in Chain : Len(c) \in Nat
      BY DEF Chain
    <3> QED
      BY <3>1 DEF State
  <2> QED
    BY <1>1, <1>2, <2>1 DEF Receives
<1>4. \A q \in Party : Chains(q)' = Chains(q)
  BY <1>3 DEF Chains
<1>5. ASSUME NEW q \in Party
      PROVE  PastSealed(q)'
  <2>1. \A j \in DOMAIN sent[q] : Len(sent[q][j].key[1]) \in Nat
    BY SentLen
  <2>2. PastSealed(q)
    BY DEF SealInv
  <2> QED
    BY <1>3, <2>1, <2>2 DEF PastSealed
<1>6. ASSUME NEW q \in Party
      PROVE  Heard(q)'
  <2>1. Heard(q) /\ Heard(Peer(p))
    BY <1>1 DEF SealInv
  <2>2. st'[q].dhRemote <= st[Peer(q)].dhSelf
    BY <1>1, <1>2, <2>1 DEF Heard, Receives
  <2>3. st'[q].dhRemote # 0 => st'[q].needsNew \/ st[q].chainSend # <<>>
    BY <1>1, <1>2, <2>1 DEF Heard, Receives
  <2> QED
    BY <1>1, <1>3, <1>4, <2>1, <2>2, <2>3 DEF Heard
<1>7. SealedOnce'
  BY DEF SealInv, SealedOnce
<1>8. (Chains(Alice) \cap Chains(Bob) = {})'
  BY <1>4 DEF SealInv, Party
<1> QED
  BY <1>5, <1>6, <1>7, <1>8 DEF SealInv

\* The last mix of a chain names a key of each party.
LEMMA ChainsType ==
  ASSUME TypeOK, NEW p \in Party, NEW c \in Chains(p), c # <<>>, NEW q \in Party
  PROVE  LastDH(c)[q] \in Nat
<1>1. c \in Chain
  BY Sent, SentLen DEF Chains, State
<1>2. c \in Seq(Mix) /\ Len(c) \in 1 .. Len(c)
  BY <1>1 DEF Chain
<1>3. c[Len(c)] \in Mix
  BY <1>2
<1> QED
  BY <1>3 DEF LastDH, Mix

\* The chain p is about to seal on is its own, and it has not used the key.
LEMMA StartsFresh ==
  ASSUME TypeOK, SealInv, NEW p \in Party, NEW s \in State, Starts(p, st[p], s)
  PROVE  /\ s.chainSend # <<>> /\ s.chainSend \notin Chains(Peer(p))
         /\ s.dhSelf >= st[p].dhSelf
         /\ LastDH(s.chainSend)[p] <= s.dhSelf
         /\ LastDH(s.chainSend)[Peer(p)] <= st[Peer(p)].dhSelf
         /\ Len(s.chainSend) <= Len(s.root)
         /\ \A i \in DOMAIN sent[p] :
              LET k == sent[p][i].key
              IN Len(k[1]) <= Len(s.root) /\ (k[1] = s.chainSend => k[2] < s.nSend)
<1> DEFINE q == Peer(p)
<1>1. /\ q \in Party /\ q # p /\ Peer(q) = p
      /\ \A r \in Party : r = p \/ r = q
  BY Parties
<1>2. st[p] \in State /\ st[q] \in State
  BY <1>1, Sent
<1> HIDE DEF q
<1>3. PastSealed(p) /\ Heard(p) /\ Heard(q)
  BY <1>1 DEF SealInv
<1>4. Chains(p) \cap Chains(q) = {}
  BY <1>1 DEF SealInv, Party, Peer, q
<1>5. CASE /\ st[p].dhRemote # 0 /\ st[p].needsNew = FALSE
           /\ s.dhSelf = st[p].dhSelf /\ s.nSend = st[p].nSend
           /\ s.chainSend = st[p].chainSend /\ s.root = st[p].root
  <2>1. s.chainSend # <<>>
    BY <1>3, <1>5 DEF Heard
  <2>2. s.chainSend \in Chains(p)
    BY <1>5, <2>1 DEF Chains
  <2>3. \A r \in Party : LastDH(s.chainSend)[r] <= st[r].dhSelf
    BY <1>3, <2>2 DEF Heard
  <2>4. s.dhSelf >= st[p].dhSelf
    BY <1>2, <1>5 DEF State
  <2> QED
    BY <1>1, <1>3, <1>4, <1>5, <2>1, <2>2, <2>3, <2>4 DEF PastSealed, q
<1>6. CASE /\ s.dhSelf = st[p].dhSelf + 1 /\ s.nSend = 0
           /\ s.chainSend = s.root /\ Len(s.root) = Len(st[p].root) + 1
           /\ LastDH(s.root) = DH(p, s.dhSelf, st[p].dhRemote)
  <2>1. st[p].dhSelf \in Nat /\ Len(st[p].root) \in Nat
    <3>1. \A c \in Chain : Len(c) \in Nat
      BY DEF Chain
    <3> QED
      BY <1>2, <3>1 DEF State
  <2>2. s.chainSend # <<>>
    BY <1>6, <2>1
  <2>3. LastDH(s.chainSend)[p] = st[p].dhSelf + 1 /\ LastDH(s.chainSend)[q] = st[p].dhRemote
    BY <1>1, <1>6 DEF DH
  <2>4. s.chainSend \notin Chains(q)
    <3>1. \A c \in Chains(q) : c # <<>> /\ LastDH(c)[p] <= st[p].dhSelf
      BY <1>1, <1>3 DEF Heard
    <3> QED
      BY <2>1, <2>3, <3>1
  <2>5. st[p].dhRemote <= st[q].dhSelf
    BY <1>3 DEF Heard, q
  <2>6. \A i \in DOMAIN sent[p] :
          LET k == sent[p][i].key
          IN Len(k[1]) <= Len(s.root) /\ k[1] # s.chainSend
    <3>1. \A i \in DOMAIN sent[p] :
            /\ Len(sent[p][i].key[1]) \in Nat
            /\ Len(sent[p][i].key[1]) <= Len(st[p].root)
      BY <1>3, SentLen DEF PastSealed
    <3>2. ASSUME NEW i \in DOMAIN sent[p]
          PROVE  /\ Len(sent[p][i].key[1]) <= Len(s.root)
                 /\ sent[p][i].key[1] # s.chainSend
      <4> DEFINE c == sent[p][i].key[1]
      <4>1. Len(c) \in Nat /\ Len(c) <= Len(st[p].root)
        BY <3>1, <3>2
      <4>2. Len(s.chainSend) = Len(st[p].root) + 1 /\ Len(s.root) = Len(st[p].root) + 1
        BY <1>6
      <4> HIDE DEF c
      <4>3. Len(c) < Len(s.chainSend) /\ Len(c) <= Len(s.root)
        BY <2>1, <4>1, <4>2
      <4>4. c # s.chainSend
        BY <2>1, <4>1, <4>2
      <4> QED
        BY <4>3, <4>4 DEF c
    <3> QED
      BY <3>2
  <2> QED
    BY <1>6, <2>1, <2>2, <2>3, <2>4, <2>5, <2>6 DEF q
<1> QED
  BY <1>5, <1>6 DEF Starts

\* Sealing a message keeps SealInv: its key is new, whoever sealed before.
LEMMA SealSeals ==
  ASSUME TypeOK, SealInv, NEW p \in Party, NEW s \in State, NEW pub \in BOOLEAN, NEW ct \in Nat,
         Seal(p, s, pub, ct), Starts(p, st[p], s)
  PROVE  SealInv'
<1> DEFINE q == Peer(p)
           m == Sealed(s, pub, ct)
           t == StepSending(s)
           new == Len(sent[p]) + 1
<1>1. /\ q \in Party /\ q # p /\ Peer(q) = p
      /\ \A r \in Party : r = p \/ r = q
  BY Parties
<1>2. SealedWith(p, s, pub, ct)
  BY SealEffect
<1>3. /\ st'[p] = t /\ st'[q] = st[q]
      /\ sent'[p] = Append(sent[p], m) /\ sent'[q] = sent[q]
      /\ m \in Message
  BY <1>2, Zenon DEF SealedWith
<1>4. /\ m.dh = s.dhSelf /\ m.key = <<s.chainSend, s.nSend>>
      /\ m.key[1] = s.chainSend /\ m.key[2] = s.nSend
  BY DEF Sealed
<1>5. /\ t.chainSend = s.chainSend /\ t.root = s.root /\ t.dhSelf = s.dhSelf
      /\ t.nSend = s.nSend + 1 /\ t.dhRemote = s.dhRemote /\ t.needsNew = s.needsNew
      /\ s.nSend \in Nat /\ s.dhSelf \in Nat
  BY DEF State, StepSending
<1> HIDE DEF q, m, t
<1>6. /\ s.chainSend # <<>> /\ s.chainSend \notin Chains(q)
      /\ s.dhSelf >= st[p].dhSelf
      /\ LastDH(s.chainSend)[p] <= s.dhSelf
      /\ LastDH(s.chainSend)[q] <= st[q].dhSelf
      /\ Len(s.chainSend) <= Len(s.root)
      /\ \A i \in DOMAIN sent[p] :
           LET k == sent[p][i].key
           IN Len(k[1]) <= Len(s.root) /\ (k[1] = s.chainSend => k[2] < s.nSend)
  BY StartsFresh DEF q
<1>7. /\ PastSealed(q) /\ Heard(p) /\ Heard(q) /\ SealedOnce
      /\ Chains(p) \cap Chains(q) = {}
  BY <1>1 DEF SealInv, Party, Peer, q
<1>8. /\ DOMAIN sent'[p] = DOMAIN sent[p] \cup {new} /\ new \notin DOMAIN sent[p]
      /\ sent'[p][new] = m
      /\ \A i \in DOMAIN sent[p] : sent'[p][i] = sent[p][i]
  <2>1. sent[p] \in Seq(Message)
    BY DEF TypeOK
  <2>2. DOMAIN sent[p] = 1 .. Len(sent[p]) /\ Len(sent[p]) \in Nat
    BY <2>1
  <2>3. DOMAIN sent'[p] = 1 .. new
    BY <1>3, <2>1, AppendProperties
  <2>4. /\ sent'[p][new] = m
        /\ \A i \in 1 .. Len(sent[p]) : sent'[p][i] = sent[p][i]
    BY <1>3, <2>1, AppendProperties
  <2> QED
    BY <2>2, <2>3, <2>4
<1> HIDE DEF new
<1>9. /\ Chains(p)' \subseteq Chains(p) \cup {s.chainSend}
      /\ Chains(q)' = Chains(q)
  BY <1>3, <1>4, <1>5, <1>8 DEF Chains
<1>10. PastSealed(p)'
  <2>1. Len(st'[p].chainSend) <= Len(st'[p].root)
    BY <1>3, <1>5, <1>6
  <2>2. ASSUME NEW i \in DOMAIN sent'[p]
        PROVE  /\ Len(sent'[p][i].key[1]) <= Len(st'[p].root)
               /\ sent'[p][i].key[1] = st'[p].chainSend => sent'[p][i].key[2] < st'[p].nSend
    <3>1. CASE i = new
      BY <1>3, <1>4, <1>5, <1>6, <1>8, <3>1
    <3>2. CASE i \in DOMAIN sent[p]
      <4>1. sent'[p][i] = sent[p][i] /\ sent[p][i].key[2] \in Nat
        BY <1>8, <3>2, SentLen
      <4>2. /\ st'[p].root = s.root /\ st'[p].chainSend = s.chainSend
            /\ st'[p].nSend = s.nSend + 1 /\ s.nSend \in Nat
        BY <1>3, <1>5
      <4>3. /\ Len(sent[p][i].key[1]) <= Len(s.root)
            /\ sent[p][i].key[1] = s.chainSend => sent[p][i].key[2] < s.nSend
        BY <1>6, <3>2
      <4>4. \A j, k \in Nat : j < k => j < k + 1
        OBVIOUS
      <4> QED
        BY <4>1, <4>2, <4>3, <4>4
    <3> QED
      BY <1>8, <3>1, <3>2
  <2> QED
    BY <2>1, <2>2 DEF PastSealed
<1>11. PastSealed(q)'
  BY <1>3, <1>7 DEF PastSealed
<1>12. /\ st[p].dhSelf \in Nat /\ st[q].dhSelf \in Nat /\ st[q].dhRemote \in Nat
  BY <1>1, Sent DEF State
<1>13. \A r \in Party : st'[r].dhSelf >= st[r].dhSelf /\ st'[r].dhSelf \in Nat
  BY <1>1, <1>3, <1>5, <1>6, <1>12
<1>14. \A r \in Party : \A c \in Chains(r)', x \in Party :
         c # <<>> /\ LastDH(c)[x] <= st'[x].dhSelf
  <2>1. \A x \in Party : LastDH(s.chainSend)[x] <= st'[x].dhSelf
    BY <1>1, <1>3, <1>5, <1>6
  <2>2. ASSUME NEW r \in Party, NEW c \in Chains(r), NEW x \in Party
        PROVE  c # <<>> /\ LastDH(c)[x] <= st'[x].dhSelf
    <3>1. c # <<>> /\ LastDH(c)[x] <= st[x].dhSelf
      BY <1>1, <1>7 DEF Heard
    <3>2. LastDH(c)[x] \in Nat /\ st[x].dhSelf \in Nat
      BY <1>1, <1>12, <3>1, ChainsType
    <3> QED
      BY <1>13, <3>1, <3>2
  <2> QED
    BY <1>1, <1>6, <1>9, <2>1, <2>2
<1>15. Heard(p)'
  <2>1. st'[p].dhRemote <= st'[q].dhSelf
    BY <1>3, <1>5, <1>7 DEF Heard, Starts, q
  <2>2. \A i \in DOMAIN sent'[p] : sent'[p][i].dh <= st'[p].dhSelf
    <3>1. \A i \in DOMAIN sent[p] : sent[p][i].dh <= st[p].dhSelf /\ sent[p][i].dh \in Nat
      BY <1>7, SentLen DEF Heard
    <3>2. \A i \in DOMAIN sent[p] : sent[p][i].dh <= st'[p].dhSelf
      BY <1>1, <1>12, <1>13, <3>1
    <3>3. sent'[p][new].dh <= st'[p].dhSelf
      BY <1>3, <1>4, <1>5, <1>8
    <3> QED
      BY <1>8, <3>2, <3>3
  <2> QED
    BY <1>3, <1>5, <1>6, <1>14, <2>1, <2>2 DEF Heard, q
<1>16. Heard(q)'
  <2>1. st'[q].dhRemote <= st'[p].dhSelf
    <3>1. st[q].dhRemote <= st[p].dhSelf
      BY <1>1, <1>7 DEF Heard
    <3> QED
      BY <1>3, <1>12, <1>13, <3>1
  <2> QED
    BY <1>1, <1>3, <1>7, <1>14, <2>1 DEF Heard
<1>17. (Chains(Alice) \cap Chains(Bob) = {})'
  <2>1. (Chains(p) \cap Chains(q) = {})'
    BY <1>6, <1>7, <1>9
  <2> QED
    BY <1>1, <2>1 DEF Party, Peer, q
<1>18. SealedOnce'
  <2>1. \A i \in DOMAIN sent[p] : sent[p][i].key # m.key
    BY <1>4, <1>5, <1>6
  <2>2. \A i \in DOMAIN sent[q] : sent[q][i].key # m.key
    BY <1>4, <1>6 DEF Chains
  <2>3. \A a \in Party : \A i \in DOMAIN sent'[a] :
          \/ a = p /\ i = new /\ sent'[a][i].key = m.key
          \/ /\ i \in DOMAIN sent[a] /\ sent'[a][i] = sent[a][i]
             /\ sent[a][i].key # m.key
    BY <1>1, <1>3, <1>8, <2>1, <2>2
  <2> SUFFICES ASSUME NEW a \in Party, NEW b \in Party,
                      NEW i \in DOMAIN sent'[a], NEW j \in DOMAIN sent'[b],
                      sent'[a][i].key = sent'[b][j].key
               PROVE  a = b /\ i = j
    BY Zenon DEF SealedOnce
  <2>4. CASE i \in DOMAIN sent[a] /\ j \in DOMAIN sent[b] /\ sent[a][i].key = sent[b][j].key
    BY <1>7, <2>4 DEF SealedOnce
  <2> QED
    BY <2>3, <2>4
<1> QED
  BY <1>1, <1>10, <1>11, <1>15, <1>16, <1>17, <1>18 DEF SealInv

-----------------------------------------------------------------------------
(* The theorems.                                                           *)

\* DecryptMessage keeps the invariant and appends at most i to what was read,
\* when i was not.
LEMMA ReceiveStep ==
  ASSUME IInv, NEW p \in Party, NEW i \in wire[p], Decrypt(p, i)
  PROVE  /\ IInv' /\ sent' = sent
         /\ inbox' # inbox => /\ inbox' = [inbox EXCEPT ![p] = Append(@, i)]
                              /\ i \notin Range(inbox[p])
<1>1. TypeOK /\ ReadInv /\ SealInv
  BY DEF IInv
<1>2. Deliver(p, i) /\ Received(p, i)
  BY <1>1, DecryptDelivers, DecryptReceived
<1>3. PICK s \in State :
        /\ Receives(st[p], s, sent[Peer(p)][i].dh)
        /\ \/ Refuse(p, i, s) /\ ReadOK(s, ReadKeys(p))
           \/ \E key \in Key : /\ Open(p, i, s, key)
                               /\ key \notin ReadKeys(p)
                               /\ ReadOK(s, ReadKeys(p) \cup {key})
  BY <1>2 DEF Received
<1>4. Refuse(p, i, s) \/ \E key \in Key : Open(p, i, s, key)
  BY <1>3
<1>5. st' = [st EXCEPT ![p] = s] /\ sent' = sent
  BY <1>4 DEF Refuse, Open
<1>6. TypeOK'
  BY <1>1, <1>2, <1>4, ReceiveType
<1>7. /\ ReadInv'
      /\ inbox' # inbox => /\ inbox' = [inbox EXCEPT ![p] = Append(@, i)]
                           /\ i \notin Range(inbox[p])
  BY <1>1, <1>3, ReceiveReads
<1>8. SealInv'
  BY <1>1, <1>3, <1>5, ReceiveSeals
<1> QED
  BY <1>5, <1>6, <1>7, <1>8 DEF IInv

\* EncryptMessage keeps the invariant and appends one message to what was sent.
LEMMA SealStep ==
  ASSUME IInv, NEW p \in Party, Encrypt(p)
  PROVE  /\ IInv' /\ inbox' = inbox
         /\ \E m \in Message : sent'[p] = Append(sent[p], m)
         /\ sent'[Peer(p)] = sent[Peer(p)]
<1>1. TypeOK /\ ReadInv /\ SealInv
  BY DEF IInv
<1>2. PICK s \in State, pub \in BOOLEAN, ct \in Nat :
        Seal(p, s, pub, ct) /\ Starts(p, st[p], s)
  BY <1>1, EncryptSeals
<1>3. TypeOK'
  BY <1>1, <1>2, SealType
<1>4. ReadInv'
  BY <1>1, <1>2, SealReads
<1>5. SealInv'
  BY <1>1, <1>2, SealSeals
<1>6. SealedWith(p, s, pub, ct)
  BY <1>1, <1>2, SealEffect
<1> QED
  BY <1>3, <1>4, <1>5, <1>6, Zenon DEF IInv, SealedWith

\* A step that changes no state, message or inbox keeps the invariant.
LEMMA StutterStep ==
  ASSUME IInv, UNCHANGED <<st, sent, inbox>>, TypeOK'
  PROVE  IInv'
<1>1. ReadInv'
  <2>1. \A p \in Party : ReadKeys(p)' = ReadKeys(p)
    BY DEF ReadKeys, Range
  <2> QED
    BY <2>1 DEF IInv, ReadInv
<1>2. SealInv'
  BY DEF IInv, SealInv, PastSealed, Heard, Chains, SealedOnce
<1> QED
  BY <1>1, <1>2 DEF IInv

\* The inductive invariant holds at first, and each step keeps it.
LEMMA InitIInv == Init => IInv
BY InitType, InitReads, InitSeals DEF IInv

LEMMA IInvStep ==
  ASSUME IInv, [Next]_vars
  PROVE  IInv'
<1>1. ASSUME NEW p \in Party, Encrypt(p) PROVE IInv'
  BY <1>1, SealStep
<1>2. ASSUME NEW p \in Party, NEW i \in wire[p], Decrypt(p, i) PROVE IInv'
  BY <1>2, ReceiveStep
<1>3. ASSUME NEW p \in Party, NEW i \in wire[p], Lose(p, i) PROVE IInv'
  BY <1>3, LoseType, StutterStep DEF IInv, Lose
<1>4. CASE UNCHANGED vars
  <2>1. TypeOK'
    BY <1>4 DEF IInv, TypeOK, vars, Range
  <2> QED
    BY <1>4, <2>1, StutterStep DEF vars
<1> QED
  BY <1>1, <1>2, <1>3, <1>4 DEF Next

\* The inductive invariant holds of every reachable state.
THEOREM Invariance == Spec => []IInv
BY InitIInv, IInvStep, PTL DEF Spec

\* Whatever the network does, every variable keeps its type and only messages
\* that were sent are in flight, read or refused.
THEOREM TypeCorrect == Spec => []TypeOK
BY Invariance, PTL DEF IInv

\* No message key ever seals two messages: the all-zero nonce of aeadSeal is
\* never used twice under one key, for any number of messages, chains and
\* injections and for every fault of the network.
THEOREM KeysNeverReused == Spec => []SealedOnce
<1>1. IInv => SealedOnce
  BY DEF IInv, SealInv
<1> QED
  BY <1>1, Invariance, PTL

\* takeSkippedKey and chainStep leave no key behind that opens a message that
\* was already read.
THEOREM KeysErased == Spec => []ReadKeysErased
<1>1. IInv => ReadKeysErased
  BY DEF IInv, ReadInv, ReadOK, ReadKeys, ReadKeysErased
<1> QED
  BY <1>1, Invariance, PTL

\* The session implements the unordered channel: DecryptMessage hands over
\* what the peer sent, each message at most once.
THEOREM ImplementsChannel == Spec => AtMostOnceChannel
<1> DEFINE count == [p \in Party |-> Len(sent[Peer(p)])]
<1>1. Init => AtMostOnce!Init
  BY Parties DEF Init, AtMostOnce!Init
<1>2. IInv /\ [Next]_vars => [AtMostOnce!Next]_(AtMostOnce!vars)
  <2> SUFFICES ASSUME IInv, [Next]_vars
               PROVE  [AtMostOnce!Next]_(AtMostOnce!vars)
    OBVIOUS
  <2>1. ASSUME NEW p \in Party, Encrypt(p)
        PROVE  AtMostOnce!Send(Peer(p))
    <3>1. PICK m \in Message : sent'[p] = Append(sent[p], m)
      BY <2>1, SealStep
    <3>2. sent'[Peer(p)] = sent[Peer(p)] /\ inbox' = inbox
      BY <2>1, SealStep
    <3>3. Len(sent'[p]) = Len(sent[p]) + 1
      BY <3>1, AppendProperties DEF IInv, TypeOK
    <3>4. count' = [count EXCEPT ![Peer(p)] = @ + 1]
      BY <3>2, <3>3, Parties
    <3> QED
      BY <3>2, <3>4 DEF AtMostOnce!Send
  <2>2. ASSUME NEW p \in Party, NEW i \in wire[p], Decrypt(p, i)
        PROVE  AtMostOnce!Receive(p) \/ UNCHANGED <<count, inbox>>
    <3>1. /\ sent' = sent
          /\ inbox' # inbox => /\ inbox' = [inbox EXCEPT ![p] = Append(@, i)]
                               /\ i \notin Range(inbox[p])
      BY <2>2, ReceiveStep
    <3>2. i \in 1 .. count[p]
      <4>1. TypeOK
        BY DEF IInv
      <4>2. i \in DOMAIN sent[Peer(p)] /\ Peer(p) \in Party
        BY <4>1, Sent, Parties
      <4>3. sent[Peer(p)] \in Seq(Message)
        BY <4>1, <4>2 DEF TypeOK
      <4> QED
        BY <4>2, <4>3
    <3>3. count' = count
      BY <3>1
    <3>4. CASE inbox' = inbox
      BY <3>3, <3>4
    <3>5. CASE inbox' # inbox
      <4> HIDE DEF count
      <4>1. /\ i \in 1 .. count[p] /\ i \notin Range(inbox[p])
            /\ FALSE => i = Len(inbox[p]) + 1
            /\ inbox' = [inbox EXCEPT ![p] = Append(@, i)]
        BY <3>1, <3>2, <3>5
      <4> QED
        BY <3>3, <4>1, Zenon DEF AtMostOnce!Receive, AtMostOnce!Range, Range, count
    <3> QED
      BY <3>4, <3>5
  <2>3. ASSUME NEW p \in Party, NEW i \in wire[p], Lose(p, i)
        PROVE  UNCHANGED <<count, inbox>>
    BY <2>3 DEF Lose
  <2>4. CASE UNCHANGED vars
    BY <2>4 DEF vars, AtMostOnce!vars
  <2> QED
    BY <2>1, <2>2, <2>3, <2>4, Parties DEF Next, AtMostOnce!Next, AtMostOnce!vars
<1> QED
  BY <1>1, <1>2, Invariance, PTL DEF Spec, AtMostOnceChannel, AtMostOnce!Spec
=============================================================================
