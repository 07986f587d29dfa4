------------------------- MODULE RatchetSyncProofs -------------------------
(***************************************************************************)
(* Proofs about Ratchet over a network that repeats nothing, as the relay  *)
(* does.  Whatever is lost and reordered, the two keys of an injection     *)
(* belong together and the two ends agree on their keys unless the carrier *)
(* of a ciphertext is overtaken.  Where the order is kept, keys are stored *)
(* only for what was lost, and only a lost ciphertext or a gap wider than  *)
(* MaxSkip parts the two ends.  With nothing lost either the session is an *)
(* ordered channel.                                                        *)
(***************************************************************************)
EXTENDS RatchetProofs, FiniteSetTheorems

-----------------------------------------------------------------------------
(* What one call does to a State, field by field.                          *)

Has(s, dh, n) == \E e \in s.skipped : e.dh = dh /\ e.n = n

\* u sends as s does.
SameSending(s, u) ==
  u.dhSelf = s.dhSelf /\ u.chainSend = s.chainSend /\ u.nSend = s.nSend /\ u.pn = s.pn

\* u receives on the chain s receives on, with the same injection pending.
SameReceiving(s, u) ==
  /\ u.dhRemote = s.dhRemote /\ u.chainRecv = s.chainRecv /\ u.root = s.root
  /\ u.needsNew = s.needsNew /\ u.pendingKEM = s.pendingKEM /\ u.peerKEM = s.peerKEM

\* u holds, of the chain dh, the keys from number lo up to below hi, and what s holds.
Holds(s, u, dh, chain, lo, hi) ==
  /\ \A e \in u.skipped : e \in s.skipped \/
       (e.dh = dh /\ e.key = <<chain, e.n>> /\ lo <= e.n /\ e.n < hi)
  /\ \A d, n : Has(s, d, n) => Has(u, d, n)
  /\ \A n \in Nat : lo <= n /\ n < hi => Has(u, dh, n)

\* skipMessageKeys(until).
LEMMA SkipEffect ==
  ASSUME NEW s \in State, NEW until \in Nat
  PROVE  LET t == SkipTo(s, until)
         IN /\ t \in State /\ SameSending(s, t) /\ SameReceiving(s, t)
            /\ s.chainRecv = <<>> => t = s
            /\ s.chainRecv # <<>> => Holds(s, t, s.dhRemote, s.chainRecv, s.nRecv, until)
            /\ t.nRecv = IF s.chainRecv = <<>> \/ until <= s.nRecv THEN s.nRecv ELSE until
<1> DEFINE t == SkipTo(s, until)
<1>1. t \in State
  BY SkipToType
<1>2. CASE s.chainRecv = <<>> \/ until <= s.nRecv
  <2>1. t = s
    BY <1>2 DEF SkipTo
  <2>2. s.nRecv \in Nat
    BY DEF State
  <2>3. s.chainRecv # <<>> => Holds(s, s, s.dhRemote, s.chainRecv, s.nRecv, until)
    BY <1>2, <2>2 DEF Holds
  <2> QED
    BY <1>1, <1>2, <2>1, <2>3 DEF SameSending, SameReceiving
<1>3. CASE ~(s.chainRecv = <<>> \/ until <= s.nRecv)
  <2> DEFINE new == SkippedNumbers(s, until)
             added == {[dh |-> s.dhRemote, n |-> i, key |-> <<s.chainRecv, i>>] : i \in new}
             kept == {e \in s.skipped : e.dh # s.dhRemote \/ e.n \notin new}
  <2>1. t = [s EXCEPT !.nRecv = until, !.skipped = kept \cup added]
    BY <1>3 DEF SkipTo
  <2>2. SameSending(s, t) /\ SameReceiving(s, t) /\ t.nRecv = until /\ t.skipped = kept \cup added
    BY <2>1 DEF State, SameSending, SameReceiving
  <2>3. \A n : n \in new <=> n \in Nat /\ s.nRecv <= n /\ n < until
    BY DEF SkippedNumbers, State
  <2>4. \A n \in new : [dh |-> s.dhRemote, n |-> n, key |-> <<s.chainRecv, n>>] \in t.skipped
    BY <2>2
  <2>5. \A n \in new : Has(t, s.dhRemote, n)
    BY <2>4 DEF Has
  <2>6. ASSUME NEW e \in t.skipped
        PROVE  e \in s.skipped \/
                 (e.dh = s.dhRemote /\ e.key = <<s.chainRecv, e.n>> /\ s.nRecv <= e.n /\ e.n < until)
    <3>1. CASE e \in kept
      BY <3>1
    <3>2. CASE e \in added
      BY <2>3, <3>2
    <3> QED
      BY <2>2, <3>1, <3>2
  <2>7. ASSUME NEW d, NEW n, Has(s, d, n)
        PROVE  Has(t, d, n)
    <3>1. PICK e \in s.skipped : e.dh = d /\ e.n = n
      BY <2>7 DEF Has
    <3>2. CASE e \in kept
      BY <2>2, <3>1, <3>2 DEF Has
    <3>3. CASE e \notin kept
      BY <2>5, <3>1, <3>3
    <3> QED
      BY <3>2, <3>3
  <2> HIDE DEF new, added, kept
  <2> QED
    BY <1>1, <1>3, <2>2, <2>3, <2>5, <2>6, <2>7 DEF Holds
<1> QED
  BY <1>2, <1>3

\* dhRatchetStep.
LEMMA RatchetEffect ==
  ASSUME NEW p \in Party, NEW s \in State, NEW m \in Message
  PROVE  LET t == RatchetStep(p, s, m)
         IN /\ t \in State /\ SameSending(s, t) /\ t.skipped = s.skipped
            /\ t.dhRemote = m.dh /\ t.nRecv = 0 /\ t.needsNew = TRUE
            /\ t.root = RootKDF(s.root, DH(p, s.dhSelf, m.dh), ReceivedSecret(s, m))
            /\ t.chainRecv = t.root /\ t.chainRecv # <<>>
            /\ t.pendingKEM = (IF m.ct = 0 THEN s.pendingKEM ELSE 0)
            /\ t.peerKEM = (IF m.pub THEN m.dh ELSE s.peerKEM)
<1> DEFINE t == RatchetStep(p, s, m)
           root == RootKDF(s.root, DH(p, s.dhSelf, m.dh), ReceivedSecret(s, m))
<1>1. t \in State
  BY RatchetStepType
<1>2. /\ SameSending(s, t) /\ t.skipped = s.skipped
      /\ t.dhRemote = m.dh /\ t.nRecv = 0 /\ t.needsNew = TRUE
      /\ t.root = root /\ t.chainRecv = root
      /\ t.pendingKEM = (IF m.ct = 0 THEN s.pendingKEM ELSE 0)
      /\ t.peerKEM = (IF m.pub THEN m.dh ELSE s.peerKEM)
  BY DEF RatchetStep, State, SameSending
<1>3. root # <<>>
  <2>1. s.root \in Seq(Mix)
    BY DEF State, Chain
  <2>2. ReceivedSecret(s, m) \in {NoSecret} \cup (Nat \X Nat)
    BY DEF ReceivedSecret, State, KEMSecret, Message
  <2>3. [dh |-> DH(p, s.dhSelf, m.dh), kem |-> ReceivedSecret(s, m)] \in Mix
    BY <2>2 DEF Mix, DH, State, Message
  <2> QED
    BY <2>1, <2>3, AppendProperties DEF RootKDF
<1> QED
  BY <1>1, <1>2, <1>3

-----------------------------------------------------------------------------
(* What one call of DecryptMessage does to the receiver.                   *)

\* Message m took the receiver from s to u on the chain it was on.
OnSameChain(s, u, m) ==
  /\ SameReceiving(s, u)
  /\ \/ u.nRecv = s.nRecv
     \/ m.dh = s.dhRemote /\ s.nRecv <= m.n /\ u.nRecv = m.n + 1
  /\ \A k \in Nat : s.nRecv <= k /\ k < u.nRecv /\ k # m.n => Has(u, s.dhRemote, k)

\* Message m took the receiver, party p, from s to u on a new chain.
OnNextChain(p, s, u, m) ==
  /\ m.dh # s.dhRemote /\ ~Has(s, m.dh, m.n)
  /\ u.dhRemote = m.dh /\ u.needsNew = TRUE
  /\ u.root = RootKDF(s.root, DH(p, s.dhSelf, m.dh), ReceivedSecret(s, m))
  /\ u.chainRecv = u.root /\ u.chainRecv # <<>>
  /\ u.pendingKEM = (IF m.ct = 0 THEN s.pendingKEM ELSE 0)
  /\ u.peerKEM = (IF m.pub THEN m.dh ELSE s.peerKEM)
  /\ u.nRecv <= m.n + 1
  /\ \A k \in Nat : k < u.nRecv /\ k # m.n => Has(u, m.dh, k)
  /\ s.chainRecv # <<>> =>
       \A k \in Nat : s.nRecv <= k /\ k < m.pn => Has(u, s.dhRemote, k)

\* No key but m's is dropped, and only keys of the two chains are stored that
\* m steps over.
Erases(s, u, m) == \A d, k : Has(s, d, k) => Has(u, d, k) \/ (d = m.dh /\ k = m.n)

Stores(s, u, m) ==
  \A e \in u.skipped :
    \/ e \in s.skipped
    \/ /\ s.chainRecv # <<>> /\ e.dh = s.dhRemote /\ e.key[1] = s.chainRecv
       /\ s.nRecv <= e.n /\ e.n < (IF m.dh = s.dhRemote THEN m.n ELSE m.pn)
    \/ /\ m.dh # s.dhRemote /\ u.chainRecv # <<>> /\ e.dh = u.dhRemote
       /\ e.key[1] = u.chainRecv /\ e.n < m.n

\* The key DecryptMessage tries on m.
Tries(s, u, m, key) ==
  \/ \E e \in s.skipped : e.dh = m.dh /\ e.n = m.n /\ e.key = key
  \/ m.dh = u.dhRemote /\ u.nRecv = m.n + 1 /\ key = <<u.chainRecv, m.n>>

\* ErrSkipTooLarge is due, on the chain the receiver is on or at the start of
\* the next one.
GapHere(s, m) == SkipTooFar(s, IF m.dh = s.dhRemote THEN m.n ELSE m.pn)
GapThere(s, m) == m.dh # s.dhRemote /\ m.n > MaxSkip
TooFar(s, m) == GapHere(s, m) \/ GapThere(s, m)

\* How far message m takes the receiver.
Reaches(s, u, m) ==
  \/ Has(s, m.dh, m.n)
  \/ GapHere(s, m) /\ u = s
  \/ /\ ~GapHere(s, m) /\ u.dhRemote = m.dh
     /\ u.nRecv = m.n + 1 \/ (u.nRecv = 0 /\ GapThere(s, m))

\* Message i takes p to state u.
Got(p, i, u) ==
  LET s == st[p]
      m == sent[Peer(p)][i]
  IN /\ SameSending(s, u) /\ Erases(s, u, m) /\ Stores(s, u, m) /\ Reaches(s, u, m)
     /\ OnSameChain(s, u, m) \/ OnNextChain(p, s, u, m)
     /\ \/ \E key \in Key : Tries(s, u, m, key) /\ Open(p, i, u, key)
        \/ TooFar(s, m) /\ Refuse(p, i, u)

\* The common end of a call: skipMessageKeys, chainStep and aeadOpen.
LEMMA OpenEffect ==
  ASSUME NEW p \in Party, NEW i, NEW s \in State, sent[Peer(p)][i] \in Message,
         s.chainRecv # <<>>, s.nRecv <= sent[Peer(p)][i].n, OpenOnChain(p, i, s)
  PROVE  LET n == sent[Peer(p)][i].n
         IN \E u \in State :
              /\ Open(p, i, u, <<s.chainRecv, n>>) /\ <<s.chainRecv, n>> \in Key
              /\ SameSending(s, u) /\ SameReceiving(s, u) /\ u.nRecv = n + 1
              /\ Holds(s, u, s.dhRemote, s.chainRecv, s.nRecv, n)
<1> DEFINE n == sent[Peer(p)][i].n
           t == SkipTo(s, n)
           u == [t EXCEPT !.nRecv = @ + 1]
<1>1. n \in Nat
  BY DEF Message
<1>2. Open(p, i, u, <<t.chainRecv, t.nRecv>>)
  BY DEF OpenOnChain
<1> HIDE DEF n
<1>3. /\ t \in State /\ SameSending(s, t) /\ SameReceiving(s, t)
      /\ Holds(s, t, s.dhRemote, s.chainRecv, s.nRecv, n)
      /\ t.nRecv = n
  <2>1. s.nRecv \in Nat /\ s.nRecv <= n
    BY DEF State, n
  <2>2. /\ t \in State /\ SameSending(s, t) /\ SameReceiving(s, t)
        /\ s.chainRecv # <<>> => Holds(s, t, s.dhRemote, s.chainRecv, s.nRecv, n)
        /\ t.nRecv = IF s.chainRecv = <<>> \/ n <= s.nRecv THEN s.nRecv ELSE n
    BY <1>1, SkipEffect, Zenon
  <2> QED
    BY <1>1, <2>1, <2>2
<1> HIDE DEF t
<1>4. /\ u \in State /\ SameSending(t, u) /\ SameReceiving(t, u)
      /\ u.skipped = t.skipped /\ u.nRecv = n + 1
  BY <1>3 DEF State, SameSending, SameReceiving
<1> HIDE DEF u
<1>5. SameSending(s, u) /\ SameReceiving(s, u) /\ t.chainRecv = s.chainRecv
  BY <1>3, <1>4 DEF SameSending, SameReceiving
<1>6. Holds(s, u, s.dhRemote, s.chainRecv, s.nRecv, n)
  BY <1>3, <1>4 DEF Holds, Has
<1>7. <<s.chainRecv, n>> \in Key
  BY <1>1 DEF State, Key
<1> QED
  BY <1>2, <1>3, <1>4, <1>5, <1>6, <1>7 DEF n

\* skipMessageKeys(pn) and dhRatchetStep, at the start of a new chain.
LEMMA NextChainEffect ==
  ASSUME NEW p \in Party, NEW s \in State, NEW m \in Message, m.dh # s.dhRemote,
         ~Has(s, m.dh, m.n)
  PROVE  LET w == RatchetStep(p, SkipTo(s, m.pn), m)
         IN /\ w \in State /\ SameSending(s, w) /\ OnNextChain(p, s, w, m)
            /\ Stores(s, w, m) /\ w.nRecv = 0
            /\ \A d, k : Has(s, d, k) => Has(w, d, k)
<1> DEFINE v == SkipTo(s, m.pn)
           w == RatchetStep(p, v, m)
<1>1. m.pn \in Nat /\ m.dh \in Nat /\ m.n \in Nat /\ s.nRecv \in Nat
  BY DEF Message, State
<1>2. /\ v \in State /\ SameSending(s, v) /\ SameReceiving(s, v)
      /\ s.chainRecv = <<>> => v = s
      /\ s.chainRecv # <<>> => Holds(s, v, s.dhRemote, s.chainRecv, s.nRecv, m.pn)
  BY <1>1, SkipEffect, Zenon
<1> HIDE DEF v
<1>3. /\ w \in State /\ SameSending(v, w) /\ w.skipped = v.skipped
      /\ w.dhRemote = m.dh /\ w.nRecv = 0 /\ w.needsNew = TRUE
      /\ w.root = RootKDF(v.root, DH(p, v.dhSelf, m.dh), ReceivedSecret(v, m))
      /\ w.chainRecv = w.root /\ w.chainRecv # <<>>
      /\ w.pendingKEM = (IF m.ct = 0 THEN v.pendingKEM ELSE 0)
      /\ w.peerKEM = (IF m.pub THEN m.dh ELSE v.peerKEM)
  BY <1>2, RatchetEffect, Zenon
<1> HIDE DEF w
<1>4. /\ v.root = s.root /\ v.dhSelf = s.dhSelf /\ v.pendingKEM = s.pendingKEM
      /\ v.peerKEM = s.peerKEM
      /\ ReceivedSecret(v, m) = ReceivedSecret(s, m)
  BY <1>2 DEF SameSending, SameReceiving, ReceivedSecret
<1>5. SameSending(s, w)
  BY <1>2, <1>3 DEF SameSending
<1>6. \A d, k : Has(v, d, k) <=> Has(w, d, k)
  BY <1>3 DEF Has
<1>7. /\ \A d, k : Has(s, d, k) => Has(v, d, k)
      /\ s.chainRecv # <<>> =>
           \A k \in Nat : s.nRecv <= k /\ k < m.pn => Has(v, s.dhRemote, k)
  BY <1>2 DEF Holds
<1>8. Stores(s, w, m)
  <2> SUFFICES ASSUME NEW e \in v.skipped, e \notin s.skipped
               PROVE  /\ s.chainRecv # <<>> /\ e.dh = s.dhRemote /\ e.key[1] = s.chainRecv
                      /\ s.nRecv <= e.n /\ e.n < m.pn
    BY <1>3 DEF Stores
  <2>1. s.chainRecv # <<>>
    BY <1>2
  <2> QED
    BY <1>2, <2>1 DEF Holds
<1>9. OnNextChain(p, s, w, m)
  BY <1>1, <1>3, <1>4, <1>6, <1>7 DEF OnNextChain
<1> QED
  BY <1>3, <1>5, <1>6, <1>7, <1>8, <1>9 DEF w, v

\* DecryptMessage, on every path through it but those its callers never take.
LEMMA DecryptGot ==
  ASSUME TypeOK, NEW p \in Party, NEW i \in wire[p], Decrypt(p, i),
         OnChain(p, i) => st[p].chainRecv # <<>> /\ st[p].nRecv <= sent[Peer(p)][i].n,
         OnNewChain(p, i) => ~UnexpectedCT(st[p], sent[Peer(p)][i])
  PROVE  \E u \in State : Got(p, i, u)
<1> DEFINE s == st[p]
           m == sent[Peer(p)][i]
           w == RatchetStep(p, SkipTo(s, m.pn), m)
<1>1. /\ s \in State /\ m \in Message /\ m.pn \in Nat /\ m.dh \in Nat /\ m.n \in Nat
      /\ s.nRecv \in Nat /\ s.dhRemote \in Nat
  BY Sent DEF Message, State
<1>2. SameSending(s, s) /\ Erases(s, s, m) /\ Stores(s, s, m) /\ OnSameChain(s, s, m)
  BY <1>1 DEF SameSending, SameReceiving, Erases, Stores, OnSameChain
<1>3. m.dh # s.dhRemote /\ ~Has(s, m.dh, m.n) =>
        /\ w \in State /\ SameSending(s, w) /\ OnNextChain(p, s, w, m)
        /\ Stores(s, w, m) /\ w.nRecv = 0
        /\ \A d, k : Has(s, d, k) => Has(w, d, k)
  <2> HIDE DEF s, m
  <2> QED
    BY <1>1, NextChainEffect
<1>4. CASE DecryptStored(p, i)
  <2>1. PICK e \in Stored(s, m) : Open(p, i, [s EXCEPT !.skipped = @ \ {e}], e.key)
    BY <1>4 DEF DecryptStored
  <2> DEFINE u == [s EXCEPT !.skipped = @ \ {e}]
  <2>2. e \in s.skipped /\ e.dh = m.dh /\ e.n = m.n /\ e.key \in Key
    BY <1>1, <2>1 DEF Stored, State, Entry
  <2> HIDE DEF s, m
  <2>3. /\ u \in State /\ SameSending(s, u) /\ SameReceiving(s, u) /\ u.nRecv = s.nRecv
        /\ u.skipped = s.skipped \ {e}
    BY <1>1 DEF State, SameSending, SameReceiving
  <2> HIDE DEF u
  <2>4. Erases(s, u, m) /\ Stores(s, u, m)
    BY <2>2, <2>3 DEF Erases, Stores, Has
  <2>5. OnSameChain(s, u, m)
    BY <1>1, <2>3 DEF OnSameChain
  <2>6. Tries(s, u, m, e.key) /\ Open(p, i, u, e.key)
    BY <2>1, <2>2 DEF Tries, u
  <2>7. Reaches(s, u, m)
    BY <2>2 DEF Reaches, Has
  <2> QED
    BY <2>2, <2>3, <2>4, <2>5, <2>6, <2>7 DEF Got, s, m
<1>5. CASE DecryptOnChain(p, i)
  <2>1. /\ m.dh = s.dhRemote /\ s.chainRecv # <<>> /\ s.nRecv <= m.n /\ OpenOnChain(p, i, s)
        /\ ~SkipTooFar(s, m.n)
    BY <1>5 DEF DecryptOnChain, OnChain, OpenOnChain
  <2>2. PICK u \in State :
          /\ Open(p, i, u, <<s.chainRecv, m.n>>) /\ <<s.chainRecv, m.n>> \in Key
          /\ SameSending(s, u) /\ SameReceiving(s, u) /\ u.nRecv = m.n + 1
          /\ Holds(s, u, s.dhRemote, s.chainRecv, s.nRecv, m.n)
    BY <1>1, <2>1, OpenEffect
  <2> HIDE DEF s, m
  <2>3. Erases(s, u, m) /\ Stores(s, u, m)
    BY <2>1, <2>2 DEF Erases, Stores, Holds
  <2>4. OnSameChain(s, u, m)
    BY <1>1, <2>1, <2>2 DEF OnSameChain, Holds
  <2>5. Tries(s, u, m, <<s.chainRecv, m.n>>)
    BY <2>1, <2>2 DEF Tries, SameReceiving
  <2>6. Reaches(s, u, m)
    BY <2>1, <2>2 DEF Reaches, GapHere, SameReceiving
  <2> QED
    BY <2>2, <2>3, <2>4, <2>5, <2>6 DEF Got, s, m
<1>6. CASE DecryptNewChain(p, i)
  <2>1. /\ m.dh # s.dhRemote /\ ~Has(s, m.dh, m.n) /\ OpenOnChain(p, i, w)
        /\ ~SkipTooFar(s, m.pn)
    BY <1>6 DEF DecryptNewChain, OnNewChain, Stored, Has
  <2>2. /\ w \in State /\ SameSending(s, w) /\ OnNextChain(p, s, w, m)
        /\ Stores(s, w, m) /\ w.nRecv = 0
        /\ \A d, k : Has(s, d, k) => Has(w, d, k)
    BY <1>3, <2>1
  <2> HIDE DEF w
  <2>3. w.chainRecv # <<>> /\ w.nRecv <= m.n /\ w.dhRemote = m.dh
    BY <1>1, <2>2 DEF OnNextChain
  <2>4. PICK u \in State :
          /\ Open(p, i, u, <<w.chainRecv, m.n>>) /\ <<w.chainRecv, m.n>> \in Key
          /\ SameSending(w, u) /\ SameReceiving(w, u) /\ u.nRecv = m.n + 1
          /\ Holds(w, u, w.dhRemote, w.chainRecv, w.nRecv, m.n)
    BY <1>1, <2>1, <2>2, <2>3, OpenEffect
  <2> HIDE DEF s, m
  <2>5. SameSending(s, u)
    BY <2>2, <2>4 DEF SameSending
  <2>6. Erases(s, u, m)
    BY <2>2, <2>4 DEF Erases, Holds
  <2>7. Stores(s, u, m)
    BY <2>1, <2>2, <2>3, <2>4 DEF Stores, Holds, SameReceiving
  <2>8. /\ \A k \in Nat : k < u.nRecv /\ k # m.n => Has(u, m.dh, k)
        /\ u.nRecv <= m.n + 1
        /\ \A d, k : Has(w, d, k) => Has(u, d, k)
    BY <1>1, <2>2, <2>3, <2>4 DEF Holds
  <2>9. OnNextChain(p, s, u, m)
    BY <2>2, <2>4, <2>8 DEF OnNextChain, SameReceiving
  <2>10. Tries(s, u, m, <<w.chainRecv, m.n>>)
    BY <2>3, <2>4 DEF Tries, SameReceiving
  <2>11. Reaches(s, u, m)
    BY <2>1, <2>3, <2>4 DEF Reaches, GapHere, SameReceiving
  <2> QED
    BY <2>4, <2>5, <2>6, <2>7, <2>9, <2>10, <2>11 DEF Got, s, m
<1>7. CASE RefuseGap(p, i) \/ RefusePreviousGap(p, i)
  <2>1. Refuse(p, i, s) /\ TooFar(s, m) /\ Reaches(s, s, m)
    BY <1>7 DEF RefuseGap, RefusePreviousGap, OnChain, OnNewChain, GapHere, TooFar, Reaches
  <2> QED
    BY <1>1, <1>2, <2>1 DEF Got
<1>8. CASE RefuseUnexpectedCT(p, i)
  BY <1>8 DEF RefuseUnexpectedCT
<1>9. CASE RefuseNewChainGap(p, i)
  <2>1. /\ m.dh # s.dhRemote /\ ~Has(s, m.dh, m.n)
        /\ ~SkipTooFar(s, m.pn) /\ SkipTooFar(w, m.n) /\ Refuse(p, i, w)
    BY <1>9 DEF RefuseNewChainGap, OnNewChain, Stored, Has
  <2>2. /\ w \in State /\ SameSending(s, w) /\ OnNextChain(p, s, w, m)
        /\ Stores(s, w, m) /\ w.nRecv = 0
        /\ \A d, k : Has(s, d, k) => Has(w, d, k)
    BY <1>3, <2>1
  <2> HIDE DEF w
  <2>3. Erases(s, w, m) /\ GapThere(s, m)
    BY <1>1, <2>1, <2>2, RatchetAssumption DEF Erases, GapThere, SkipTooFar, RatchetAssumption
  <2>4. TooFar(s, m) /\ Reaches(s, w, m)
    BY <2>1, <2>2, <2>3 DEF TooFar, Reaches, GapHere, OnNextChain
  <2> QED
    BY <2>1, <2>2, <2>3, <2>4 DEF Got
<1> QED
  BY <1>4, <1>5, <1>6, <1>7, <1>8, <1>9 DEF Decrypt

-----------------------------------------------------------------------------
(* What one call of EncryptMessage does.                                   *)

\* Message m takes the sender, party p, from s to u on the chain it is on.
WritesOn(s, u, m) ==
  /\ ~s.needsNew
  /\ u.root = s.root /\ u.dhSelf = s.dhSelf /\ u.chainSend = s.chainSend /\ u.pn = s.pn
  /\ u.pendingKEM = s.pendingKEM /\ u.peerKEM = s.peerKEM
  /\ m.n = s.nSend /\ ~m.pub /\ m.ct = 0

\* Message m takes the sender, party p, from s to u on a new chain.
WritesNew(p, s, u, m) ==
  /\ s.needsNew
  /\ u.dhSelf = s.dhSelf + 1 /\ u.chainSend = u.root /\ u.pn = s.nSend
  /\ u.root = RootKDF(s.root, DH(p, u.dhSelf, s.dhRemote), AnswerSecret(s))
  /\ u.peerKEM = 0 /\ u.pendingKEM = (IF m.pub THEN u.dhSelf ELSE s.pendingKEM)
  /\ m.n = 0 /\ m.ct = s.peerKEM

Writes(p, s, u, m) ==
  /\ s.dhRemote # 0 /\ u.dhRemote = s.dhRemote
  /\ u.chainRecv = s.chainRecv /\ u.nRecv = s.nRecv /\ u.skipped = s.skipped
  /\ ~u.needsNew
  /\ m.dh = u.dhSelf /\ m.pn = u.pn /\ m.key = <<u.chainSend, m.n>> /\ u.nSend = m.n + 1
  /\ WritesOn(s, u, m) \/ WritesNew(p, s, u, m)

\* p has appended m to what it sent, as message number new.
Put(p, new, m) ==
  /\ Writes(p, st[p], st'[p], m)
  /\ st'[p] \in State /\ st'[Peer(p)] = st[Peer(p)]
  /\ new \notin DOMAIN sent[p] /\ DOMAIN sent'[p] = DOMAIN sent[p] \cup {new}
  /\ sent'[p][new] = m /\ \A i \in DOMAIN sent[p] : sent'[p][i] = sent[p][i]
  /\ sent'[Peer(p)] = sent[Peer(p)]
  /\ wire'[p] = wire[p] /\ wire'[Peer(p)] = wire[Peer(p)] \cup {new}
  /\ new = Len(sent[p]) + 1 /\ Len(sent'[p]) = new
  /\ UNCHANGED <<inbox, refused>>

\* prepareSendingChain when a chain is owed, and chainStep.
LEMMA NewChainWrites ==
  ASSUME NEW p \in Party, NEW s \in State, NEW inject \in BOOLEAN, s.needsNew, s.dhRemote # 0
  PROVE  LET t == NewSendingChain(p, s, inject)
         IN Writes(p, s, StepSending(t), Sealed(t, inject, s.peerKEM))
<1> DEFINE t == NewSendingChain(p, s, inject)
           u == StepSending(t)
           m == Sealed(t, inject, s.peerKEM)
           root == RootKDF(s.root, DH(p, s.dhSelf + 1, s.dhRemote), AnswerSecret(s))
<1>1. t \in State
  BY NewSendingChainType
<1>2. /\ t.dhRemote = s.dhRemote /\ t.chainRecv = s.chainRecv /\ t.nRecv = s.nRecv
      /\ t.skipped = s.skipped /\ t.needsNew = FALSE /\ t.nSend = 0
      /\ t.dhSelf = s.dhSelf + 1 /\ t.chainSend = root /\ t.root = root
      /\ t.peerKEM = 0 /\ t.pn = s.nSend
      /\ t.pendingKEM = (IF inject THEN s.dhSelf + 1 ELSE s.pendingKEM)
  BY DEF NewSendingChain, State
<1> HIDE DEF t, root
<1>3. /\ u.dhRemote = t.dhRemote /\ u.chainRecv = t.chainRecv /\ u.nRecv = t.nRecv
      /\ u.skipped = t.skipped /\ u.needsNew = t.needsNew /\ u.nSend = t.nSend + 1
      /\ u.dhSelf = t.dhSelf /\ u.chainSend = t.chainSend /\ u.root = t.root
      /\ u.peerKEM = t.peerKEM /\ u.pn = t.pn /\ u.pendingKEM = t.pendingKEM
  BY <1>1 DEF StepSending, State
<1>4. /\ m.dh = t.dhSelf /\ m.pn = t.pn /\ m.n = t.nSend /\ m.pub = inject
      /\ m.ct = s.peerKEM /\ m.key = <<t.chainSend, t.nSend>>
  BY DEF Sealed
<1> HIDE DEF u, m
<1>5. WritesNew(p, s, u, m)
  BY <1>2, <1>3, <1>4 DEF WritesNew, root
<1> QED
  BY <1>2, <1>3, <1>4, <1>5 DEF Writes, u, m, t

\* chainStep alone.
LEMMA OnChainWrites ==
  ASSUME NEW p \in Party, NEW s \in State, ~s.needsNew, s.dhRemote # 0
  PROVE  Writes(p, s, StepSending(s), Sealed(s, FALSE, 0))
BY DEF Writes, WritesOn, StepSending, Sealed, State

\* EncryptMessage, on either path.
LEMMA EncryptPuts ==
  ASSUME TypeOK, NEW p \in Party, Encrypt(p)
  PROVE  \E m \in Message, new \in Nat : Put(p, new, m)
<1> DEFINE new == Len(sent[p]) + 1
<1>1. /\ st[p] \in State /\ st[p].dhRemote # 0 /\ sent[p] \in Seq(Message)
      /\ wire \in [Party -> SUBSET Nat]
  BY DEF TypeOK, Encrypt, EncryptOnChain, EncryptNewChain, CanEncrypt
<1>2. Peer(p) \in Party /\ Peer(p) # p
  BY Parties
<1>3. ASSUME NEW s \in State, NEW pub \in BOOLEAN, NEW ct \in Nat, Seal(p, s, pub, ct),
             Writes(p, st[p], StepSending(s), Sealed(s, pub, ct))
      PROVE  Put(p, new, Sealed(s, pub, ct)) /\ Sealed(s, pub, ct) \in Message
  <2> DEFINE m == Sealed(s, pub, ct)
  <2>1. SealedWith(p, s, pub, ct)
    BY <1>3, SealEffect
  <2>2. /\ m \in Message /\ sent'[p] = Append(sent[p], m)
        /\ st'[p] = StepSending(s) /\ st'[p] \in State
        /\ st'[Peer(p)] = st[Peer(p)] /\ sent'[Peer(p)] = sent[Peer(p)]
        /\ wire' = [wire EXCEPT ![Peer(p)] = @ \cup {Len(sent[p]) + 1}]
        /\ UNCHANGED <<inbox, refused>>
    BY <2>1, Zenon DEF SealedWith
  <2>3. wire'[p] = wire[p] /\ wire'[Peer(p)] = wire[Peer(p)] \cup {new}
    BY <1>1, <1>2, <2>2
  <2> HIDE DEF m
  <2>4. /\ new \notin DOMAIN sent[p] /\ DOMAIN sent'[p] = DOMAIN sent[p] \cup {new}
        /\ sent'[p][new] = m /\ \A i \in DOMAIN sent[p] : sent'[p][i] = sent[p][i]
        /\ Len(sent'[p]) = new
    <3>1. DOMAIN sent[p] = 1 .. Len(sent[p]) /\ Len(sent[p]) \in Nat
      BY <1>1
    <3>2. DOMAIN sent'[p] = 1 .. new /\ Len(sent'[p]) = new
      BY <1>1, <2>2, AppendProperties
    <3>3. sent'[p][new] = m /\ \A i \in 1 .. Len(sent[p]) : sent'[p][i] = sent[p][i]
      BY <1>1, <2>2, AppendProperties
    <3> QED
      BY <3>1, <3>2, <3>3
  <2> QED
    BY <1>3, <2>2, <2>3, <2>4 DEF Put, m
<1>4. new \in Nat
  BY <1>1
<1>5. CASE EncryptOnChain(p)
  <2>1. Seal(p, st[p], FALSE, 0) /\ ~st[p].needsNew
    BY <1>5 DEF EncryptOnChain
  <2> QED
    BY <1>1, <1>3, <1>4, <2>1, OnChainWrites
<1>6. ASSUME NEW late \in TimeDue, EncryptNewChain(p, late)
      PROVE  \E m \in Message, k \in Nat : Put(p, k, m)
  <2> DEFINE inject == InjectionDue(st[p], late)
             t == NewSendingChain(p, st[p], inject)
  <2>1. inject \in BOOLEAN /\ st[p].peerKEM \in Nat
    BY <1>1, RatchetAssumption DEF InjectionDue, State, RatchetAssumption
  <2>2. Seal(p, t, inject, st[p].peerKEM) /\ st[p].needsNew
    BY <1>6 DEF EncryptNewChain
  <2> HIDE DEF inject, new
  <2>3. t \in State /\ Writes(p, st[p], StepSending(t), Sealed(t, inject, st[p].peerKEM))
    BY <1>1, <2>1, <2>2, NewSendingChainType, NewChainWrites
  <2> HIDE DEF t
  <2> QED
    BY <1>3, <1>4, <2>1, <2>2, <2>3
<1> QED
  BY <1>5, <1>6 DEF Encrypt

-----------------------------------------------------------------------------
(* The invariant.  Repeated deliveries would break it: a message delivered *)
(* again can name a chain its receiver has left.                           *)

\* The parties take turns at starting chains: a party owes a new chain only
\* while it knows the chain the peer sends on and the peer knows its own.
Turns ==
  \A p \in Party :
    LET s == st[p]
        t == st[Peer(p)]
    IN /\ t.dhSelf \in {s.dhRemote, s.dhRemote + 1}
       /\ s.needsNew => s.dhRemote = t.dhSelf /\ t.dhRemote = s.dhSelf /\ ~t.needsNew
       /\ s.dhRemote # t.dhSelf => t.dhRemote = s.dhSelf /\ ~s.needsNew /\ ~t.needsNew

\* Among the messages of seq is the first one of chain dh.
First(seq, dh) == \E k \in DOMAIN seq : seq[k].dh = dh /\ seq[k].n = 0

\* The headers of what p has sent number each chain from 0, up to the length
\* the next chain's headers announce, and only the first carries an injection.
Numbered(p) ==
  /\ st[p].nSend > 0 => First(sent[p], st[p].dhSelf)
  /\ \A i \in DOMAIN sent[p] :
       LET m == sent[p][i]
       IN /\ m.key[2] = m.n /\ m.dh <= st[p].dhSelf
          /\ m.dh = st[p].dhSelf => m.key[1] = st[p].chainSend /\ m.n < st[p].nSend
          /\ m.dh + 1 = st[p].dhSelf => m.n < st[p].pn
          /\ m.n # 0 => m.ct = 0 /\ ~m.pub
          /\ First(sent[p], m.dh)
  /\ \A i, j \in DOMAIN sent[p] :
       /\ sent[p][i].dh = sent[p][j].dh => sent[p][i].key[1] = sent[p][j].key[1]
       /\ sent[p][i].dh + 1 = sent[p][j].dh => sent[p][i].n < sent[p][j].pn

\* Before it has a receiving chain p has received on none, and the peer has
\* not sent on the one p knows.
Begun(p) ==
  st[p].chainRecv = <<>> =>
    /\ st[p].skipped = {}
    /\ \A i \in DOMAIN sent[Peer(p)] : st[p].dhRemote < sent[Peer(p)][i].dh
    /\ st[p].dhRemote = st[Peer(p)].dhSelf => st[Peer(p)].chainSend = <<>>

\* p is not ahead of the peer on the chain the peer sends on.
Within(p) == st[p].dhRemote = st[Peer(p)].dhSelf => st[p].nRecv <= st[Peer(p)].nSend

\* p keeps the key of each message in flight that it has stepped over.
Kept(p) ==
  \A i \in wire[p] :
    LET m == sent[Peer(p)][i]
    IN m.dh < st[p].dhRemote \/ (m.dh = st[p].dhRemote /\ m.n < st[p].nRecv)
         => Has(st[p], m.dh, m.n)

\* The keys an injection names are the ones it was made for and answered with.
Paired(p) ==
  /\ st[p].peerKEM # 0 => st[p].needsNew /\ st[Peer(p)].pendingKEM = st[p].peerKEM
  /\ \A i \in DOMAIN sent[Peer(p)] :
       LET m == sent[Peer(p)][i]
       IN m.dh > st[p].dhRemote => /\ m.pub => st[Peer(p)].pendingKEM = m.dh
                                   /\ m.ct # 0 => st[p].pendingKEM = m.ct

TurnInv ==
  Turns /\ \A p \in Party : Numbered(p) /\ Begun(p) /\ Within(p) /\ Kept(p) /\ Paired(p)

\* p has received message i and is now in state u.
Get(p, i, u) ==
  /\ Got(p, i, u) /\ st'[p] = u
  /\ st'[Peer(p)] = st[Peer(p)] /\ sent' = sent
  /\ wire'[p] = wire[p] \ {i} /\ wire'[Peer(p)] = wire[Peer(p)]
  /\ "reorder" \notin Faults => \A k \in wire[p] : i <= k

\* The fields of a message and of a State used below.
LEMMA Fields ==
  ASSUME TypeOK, NEW p \in Party
  PROVE  /\ st[p].dhSelf \in Nat /\ st[p].dhRemote \in Nat /\ st[p].nSend \in Nat
         /\ st[p].nRecv \in Nat /\ st[p].pn \in Nat /\ st[p].needsNew \in BOOLEAN
         /\ st[p].pendingKEM \in Nat /\ st[p].peerKEM \in Nat
         /\ \A i \in DOMAIN sent[p] :
              /\ sent[p][i].dh \in Nat /\ sent[p][i].n \in Nat /\ sent[p][i].pn \in Nat
              /\ sent[p][i].ct \in Nat
<1>1. sent[p] \in Seq(Message) /\ st[p] \in State
  BY DEF TypeOK
<1>2. \A i \in DOMAIN sent[p] : sent[p][i] \in Message
  BY <1>1
<1> QED
  BY <1>1, <1>2 DEF State, Message

\* A message on a chain p does not receive on, whose key it does not hold, is
\* on the chain the peer sends on now, which p has yet to hear of.
LEMMA NextChain ==
  ASSUME TypeOK, SealInv, TurnInv, NEW p \in Party, NEW i \in wire[p],
         sent[Peer(p)][i].dh # st[p].dhRemote,
         ~Has(st[p], sent[Peer(p)][i].dh, sent[Peer(p)][i].n)
  PROVE  /\ sent[Peer(p)][i].dh = st[Peer(p)].dhSelf
         /\ st[Peer(p)].dhSelf = st[p].dhRemote + 1
         /\ ~UnexpectedCT(st[p], sent[Peer(p)][i])
<1> DEFINE m == sent[Peer(p)][i]
<1>1. Peer(p) \in Party /\ i \in DOMAIN sent[Peer(p)]
  BY Parties, Sent
<1>2. m.dh \in Nat /\ st[p].dhRemote \in Nat /\ st[Peer(p)].dhSelf \in Nat /\ m.ct \in Nat
  BY <1>1, Fields
<1>3. m.dh # st[p].dhRemote /\ ~Has(st[p], m.dh, m.n)
  OBVIOUS
<1>4. m.dh > st[p].dhRemote
  BY <1>2, <1>3 DEF TurnInv, Kept
<1>5. m.dh <= st[Peer(p)].dhSelf /\ st[Peer(p)].dhSelf \in {st[p].dhRemote, st[p].dhRemote + 1}
  BY <1>1 DEF TurnInv, Numbered, Turns
<1>6. m.ct # 0 => st[p].pendingKEM = m.ct
  BY <1>1, <1>4 DEF TurnInv, Paired
<1> QED
  BY <1>2, <1>4, <1>5, <1>6 DEF UnexpectedCT

\* A message on the chain p receives on, whose key it does not hold, is ahead.
LEMMA ThisChain ==
  ASSUME TypeOK, TurnInv, NEW p \in Party, NEW i \in wire[p], OnChain(p, i)
  PROVE  st[p].chainRecv # <<>> /\ st[p].nRecv <= sent[Peer(p)][i].n
<1> DEFINE m == sent[Peer(p)][i]
<1>1. Peer(p) \in Party /\ i \in DOMAIN sent[Peer(p)]
  BY Parties, Sent
<1>2. m.dh \in Nat /\ st[p].dhRemote \in Nat /\ st[p].nRecv \in Nat /\ m.n \in Nat
  BY <1>1, Fields
<1>3. m.dh = st[p].dhRemote /\ ~Has(st[p], m.dh, m.n)
  BY DEF OnChain, Stored, Has
<1>4. ~(m.n < st[p].nRecv)
  BY <1>2, <1>3 DEF TurnInv, Kept
<1>5. st[p].chainRecv # <<>>
  BY <1>1, <1>2, <1>3 DEF TurnInv, Begun
<1> QED
  BY <1>2, <1>4, <1>5

\* Over a network that repeats nothing, DecryptMessage on every path.
LEMMA DecryptGets ==
  ASSUME MaxDups = 0, TypeOK, SealInv, TurnInv, NEW p \in Party, NEW i \in wire[p],
         Decrypt(p, i)
  PROVE  \E u \in State : Get(p, i, u)
<1>1. PICK u \in State : Got(p, i, u)
  <2>1. OnNewChain(p, i) => ~UnexpectedCT(st[p], sent[Peer(p)][i])
    BY NextChain DEF OnNewChain, Stored, Has
  <2> QED
    BY <2>1, ThisChain, DecryptGot
<1>2. st' = [st EXCEPT ![p] = u] /\ sent' = sent
  BY <1>1 DEF Got, Open, Refuse
<1>3. /\ wire' = [wire EXCEPT ![p] = @ \ {i}]
      /\ "reorder" \notin Faults => \A k \in wire[p] : i <= k
  <2>1. Deliver(p, i)
    BY DecryptDelivers
  <2>2. dups \in Nat
    BY DEF TypeOK
  <2> QED
    BY <2>1, <2>2 DEF Deliver
<1>4. Peer(p) \in Party /\ Peer(p) # p
  BY Parties
<1> QED
  BY <1>1, <1>2, <1>3, <1>4 DEF Get, TypeOK

-----------------------------------------------------------------------------
(* Encrypting keeps the invariant.                                         *)

\* Encrypting keeps the turns.
LEMMA PutTurns ==
  ASSUME TypeOK, Turns, NEW p \in Party, NEW m \in Message, NEW new, Put(p, new, m)
  PROVE  Turns'
<1> DEFINE q == Peer(p)
<1>1. q \in Party /\ Peer(q) = p /\ \A r \in Party : r = p \/ r = q
  BY Parties
<1> HIDE DEF q
<1>2. st'[q] = st[q] /\ Writes(p, st[p], st'[p], m)
  BY DEF Put, q
<1>3. /\ st[p].dhSelf \in Nat /\ st[q].dhSelf \in Nat
      /\ st[p].dhRemote \in Nat /\ st[q].dhRemote \in Nat
  BY <1>1, Fields
<1>4. /\ st[q].dhSelf \in {st[p].dhRemote, st[p].dhRemote + 1}
      /\ st[p].dhSelf \in {st[q].dhRemote, st[q].dhRemote + 1}
      /\ st[p].needsNew => /\ st[p].dhRemote = st[q].dhSelf
                           /\ st[q].dhRemote = st[p].dhSelf /\ ~st[q].needsNew
      /\ st[q].needsNew => /\ st[q].dhRemote = st[p].dhSelf
                           /\ st[p].dhRemote = st[q].dhSelf /\ ~st[p].needsNew
      /\ st[p].dhRemote # st[q].dhSelf =>
           st[q].dhRemote = st[p].dhSelf /\ ~st[p].needsNew /\ ~st[q].needsNew
      /\ st[q].dhRemote # st[p].dhSelf =>
           st[p].dhRemote = st[q].dhSelf /\ ~st[p].needsNew /\ ~st[q].needsNew
  BY <1>1 DEF Turns, q
<1>5. /\ st'[p].dhRemote = st[p].dhRemote /\ ~st'[p].needsNew
      /\ \/ ~st[p].needsNew /\ st'[p].dhSelf = st[p].dhSelf
         \/ st[p].needsNew /\ st'[p].dhSelf = st[p].dhSelf + 1
  BY <1>2 DEF Writes, WritesOn, WritesNew
<1>6. /\ st'[q].dhSelf \in {st'[p].dhRemote, st'[p].dhRemote + 1}
      /\ st'[p].dhSelf \in {st'[q].dhRemote, st'[q].dhRemote + 1}
      /\ ~st'[p].needsNew
      /\ st'[q].needsNew => st'[q].dhRemote = st'[p].dhSelf /\ st'[p].dhRemote = st'[q].dhSelf
      /\ st'[p].dhRemote # st'[q].dhSelf => st'[q].dhRemote = st'[p].dhSelf /\ ~st'[q].needsNew
      /\ st'[q].dhRemote # st'[p].dhSelf => st'[p].dhRemote = st'[q].dhSelf /\ ~st'[q].needsNew
  BY <1>2, <1>3, <1>4, <1>5
<1> QED
  BY <1>1, <1>6 DEF Turns, q

\* Encrypting numbers its chain without a gap.
LEMMA PutNumbered ==
  ASSUME TypeOK, NEW p \in Party, Numbered(p), NEW m \in Message, NEW new, Put(p, new, m)
  PROVE  Numbered(p)'
<1> DEFINE s == st[p]
           u == st'[p]
<1>1. Writes(p, s, u, m)
  BY DEF Put
<1>2. /\ s.dhSelf \in Nat /\ s.nSend \in Nat /\ s.pn \in Nat
      /\ \A i \in DOMAIN sent[p] : sent[p][i].dh \in Nat /\ sent[p][i].n \in Nat
  BY Fields
<1>3. /\ DOMAIN sent'[p] = DOMAIN sent[p] \cup {new} /\ new \notin DOMAIN sent[p]
      /\ sent'[p][new] = m /\ \A i \in DOMAIN sent[p] : sent'[p][i] = sent[p][i]
  BY DEF Put
<1>4. /\ m.dh = u.dhSelf /\ m.pn = u.pn /\ m.key[1] = u.chainSend /\ m.key[2] = m.n
      /\ u.nSend = m.n + 1
      /\ \/ /\ u.dhSelf = s.dhSelf /\ u.chainSend = s.chainSend /\ u.pn = s.pn
            /\ m.n = s.nSend /\ ~m.pub /\ m.ct = 0
         \/ u.dhSelf = s.dhSelf + 1 /\ u.pn = s.nSend /\ m.n = 0
  BY <1>1 DEF Writes, WritesOn, WritesNew
<1> HIDE DEF s, u
<1>5. \A d : First(sent[p], d) => First(sent'[p], d)
  BY <1>3 DEF First
<1>6. First(sent'[p], u.dhSelf)
  <2>1. CASE m.n = 0
    BY <1>3, <1>4, <2>1 DEF First
  <2>2. CASE m.n # 0
    <3>1. u.dhSelf = s.dhSelf /\ s.nSend > 0
      BY <1>2, <1>4, <2>2
    <3> QED
      BY <1>5, <3>1 DEF Numbered, s
  <2> QED
    BY <2>1, <2>2
<1>7. ASSUME NEW i \in DOMAIN sent'[p]
      PROVE  LET z == sent'[p][i]
             IN /\ z.key[2] = z.n /\ z.dh <= u.dhSelf
                /\ z.dh = u.dhSelf => z.key[1] = u.chainSend /\ z.n < u.nSend
                /\ z.dh + 1 = u.dhSelf => z.n < u.pn
                /\ z.n # 0 => z.ct = 0 /\ ~z.pub
                /\ First(sent'[p], z.dh)
  <2>1. CASE i = new
    BY <1>2, <1>3, <1>4, <1>6, <2>1
  <2>2. CASE i \in DOMAIN sent[p]
    <3>1. LET z == sent[p][i]
          IN /\ z.key[2] = z.n /\ z.dh <= s.dhSelf
             /\ z.dh = s.dhSelf => z.key[1] = s.chainSend /\ z.n < s.nSend
             /\ z.dh + 1 = s.dhSelf => z.n < s.pn
             /\ z.n # 0 => z.ct = 0 /\ ~z.pub
             /\ First(sent[p], z.dh)
      BY <2>2 DEF Numbered, s
    <3>2. sent'[p][i] = sent[p][i] /\ First(sent'[p], sent[p][i].dh)
      BY <1>3, <1>5, <2>2, <3>1
    <3> QED
      BY <1>2, <1>4, <2>2, <3>1, <3>2
  <2> QED
    BY <1>3, <2>1, <2>2
<1>8. ASSUME NEW i \in DOMAIN sent'[p], NEW j \in DOMAIN sent'[p]
      PROVE  LET y == sent'[p][i]
                 z == sent'[p][j]
             IN y.dh = z.dh => y.key[1] = z.key[1]
  <2>1. CASE i \in DOMAIN sent[p] /\ j \in DOMAIN sent[p]
    BY <1>3, <2>1 DEF Numbered
  <2>2. CASE i = new
    BY <1>3, <1>4, <1>7, <2>2
  <2>3. CASE j = new
    BY <1>3, <1>4, <1>7, <2>3
  <2> QED
    BY <1>3, <2>1, <2>2, <2>3
<1>9. ASSUME NEW i \in DOMAIN sent'[p], NEW j \in DOMAIN sent'[p]
      PROVE  LET y == sent'[p][i]
                 z == sent'[p][j]
             IN y.dh + 1 = z.dh => y.n < z.pn
  <2>1. CASE i \in DOMAIN sent[p] /\ j \in DOMAIN sent[p]
    BY <1>3, <2>1 DEF Numbered
  <2>2. CASE j = new
    BY <1>3, <1>4, <1>7, <2>2
  <2>3. CASE i = new /\ j \in DOMAIN sent[p]
    <3>1. sent'[p][j].dh \in Nat /\ sent'[p][j].dh <= s.dhSelf /\ u.dhSelf >= s.dhSelf
      BY <1>2, <1>3, <1>4, <2>3 DEF Numbered, s
    <3> QED
      BY <1>2, <1>3, <1>4, <2>3, <3>1
  <2> QED
    BY <1>3, <2>1, <2>2, <2>3
<1> QED
  BY <1>6, <1>7, <1>8, <1>9 DEF Numbered, u

\* Encrypting keeps the parts that relate a party to its peer.
LEMMA PutPairs ==
  ASSUME TypeOK, SealInv, TurnInv, NEW p \in Party, NEW m \in Message, NEW new \in Nat,
         Put(p, new, m), NEW q \in Party, q = Peer(p)
  PROVE  /\ Begun(p)' /\ Within(p)' /\ Kept(p)' /\ Paired(p)'
         /\ Begun(q)' /\ Within(q)' /\ Kept(q)' /\ Paired(q)'
<1> DEFINE s == st[p]
           u == st'[p]
           t == st[q]
<1>1. q \in Party /\ Peer(q) = p /\ Peer(p) = q /\ q # p
  BY Parties
<1>2. /\ t = st'[q] /\ sent'[q] = sent[q]
      /\ DOMAIN sent'[p] = DOMAIN sent[p] \cup {new} /\ new \notin DOMAIN sent[p]
      /\ sent'[p][new] = m /\ \A i \in DOMAIN sent[p] : sent'[p][i] = sent[p][i]
      /\ wire'[p] = wire[p] /\ wire'[q] = wire[q] \cup {new}
      /\ Writes(p, s, u, m)
  BY <1>1 DEF Put
<1>3. /\ s.dhSelf \in Nat /\ s.nSend \in Nat /\ s.peerKEM \in Nat /\ s.dhRemote \in Nat
      /\ t.dhSelf \in Nat /\ t.dhRemote \in Nat /\ t.nRecv \in Nat /\ t.peerKEM \in Nat
      /\ \A i \in DOMAIN sent[p] : sent[p][i].dh \in Nat
      /\ \A i \in DOMAIN sent[q] : sent[q][i].dh \in Nat
  BY <1>1, Fields
<1>4. /\ u.dhRemote = s.dhRemote /\ u.chainRecv = s.chainRecv /\ u.nRecv = s.nRecv
      /\ u.skipped = s.skipped /\ s.dhRemote # 0 /\ ~u.needsNew
      /\ m.dh = u.dhSelf /\ u.nSend = m.n + 1
      /\ \/ /\ ~s.needsNew /\ u.dhSelf = s.dhSelf /\ u.chainSend = s.chainSend
            /\ u.pendingKEM = s.pendingKEM /\ u.peerKEM = s.peerKEM
            /\ m.n = s.nSend /\ ~m.pub /\ m.ct = 0
         \/ /\ s.needsNew /\ u.dhSelf = s.dhSelf + 1 /\ m.n = 0
            /\ u.pendingKEM = (IF m.pub THEN u.dhSelf ELSE s.pendingKEM)
            /\ m.ct = s.peerKEM /\ u.peerKEM = 0
  BY <1>2 DEF Writes, WritesOn, WritesNew
<1>5. /\ t.dhRemote <= s.dhSelf
      /\ s.needsNew \/ s.chainSend # <<>>
      /\ \A i \in DOMAIN sent[p] : sent[p][i].dh <= s.dhSelf
      /\ \A i \in DOMAIN sent[q] : sent[q][i].dh <= t.dhSelf
  <2>1. Heard(p) /\ Heard(q)
    BY <1>1 DEF SealInv
  <2> QED
    BY <1>1, <1>4, <2>1 DEF Heard
<1>6. s.needsNew => s.dhRemote = t.dhSelf /\ t.dhRemote = s.dhSelf /\ ~t.needsNew
  BY <1>1 DEF TurnInv, Turns
<1>7. /\ Begun(p) /\ Within(p) /\ Kept(p) /\ Paired(p)
      /\ Begun(q) /\ Within(q) /\ Kept(q) /\ Paired(q)
  BY <1>1 DEF TurnInv
<1>8. wire[q] \subseteq DOMAIN sent[p] /\ wire[p] \subseteq DOMAIN sent[q]
  BY <1>1 DEF TypeOK
<1> HIDE DEF s, u, t
<1>9. Begun(p)'
  BY <1>1, <1>2, <1>4, <1>7 DEF Begun, s, u, t
<1>10. Within(p)'
  BY <1>1, <1>2, <1>4, <1>7 DEF Within, s, u, t
<1>11. Kept(p)'
  BY <1>1, <1>2, <1>4, <1>7 DEF Kept, Has, s, u, t
<1>12. Begun(q)'
  <2>1. t.chainRecv = <<>> => t.dhRemote < u.dhSelf
    BY <1>1, <1>3, <1>4, <1>5, <1>6, <1>7 DEF Begun, s, t
  <2>2. t.chainRecv = <<>> =>
          t.skipped = {} /\ \A i \in DOMAIN sent[p] : t.dhRemote < sent[p][i].dh
    BY <1>1, <1>7 DEF Begun, t
  <2>3. u.dhSelf \in Nat
    BY <1>3, <1>4
  <2>4. t.chainRecv = <<>> =>
          /\ t.skipped = {} /\ t.dhRemote # u.dhSelf
          /\ \A i \in DOMAIN sent'[p] : t.dhRemote < sent'[p][i].dh
    BY <1>2, <1>3, <1>4, <2>1, <2>2, <2>3
  <2> QED
    BY <1>1, <1>2, <2>4 DEF Begun, u
<1>13. Within(q)'
  <2>1. t.dhRemote = s.dhSelf => t.nRecv <= s.nSend
    BY <1>1, <1>7 DEF Within, s, t
  <2>2. t.dhRemote = u.dhSelf => t.nRecv <= u.nSend
    BY <1>3, <1>4, <1>5, <2>1
  <2> QED
    BY <1>1, <1>2, <2>2 DEF Within, u
<1>14. Kept(q)'
  <2>1. ASSUME NEW i \in wire'[q]
        PROVE  LET z == sent'[p][i]
               IN z.dh < t.dhRemote \/ (z.dh = t.dhRemote /\ z.n < t.nRecv)
                    => Has(t, z.dh, z.n)
    <3>1. CASE i \in wire[q]
      <4>1. sent'[p][i] = sent[p][i]
        BY <1>2, <1>8, <3>1
      <4> QED
        BY <1>1, <1>7, <3>1, <4>1 DEF Kept, t
    <3>2. CASE i = new
      <4>1. t.dhRemote = s.dhSelf => t.nRecv <= s.nSend
        BY <1>1, <1>7 DEF Within, s, t
      <4> QED
        BY <1>2, <1>3, <1>4, <1>5, <3>2, <4>1
    <3> QED
      BY <1>2, <3>1, <3>2
  <2> QED
    BY <1>1, <1>2, <2>1 DEF Kept
<1>15. Paired(p)'
  <2>1. s.peerKEM # 0 => s.needsNew
    BY <1>7 DEF Paired, s
  <2>2. u.peerKEM = 0
    BY <1>4, <2>1
  <2>3. ASSUME NEW i \in DOMAIN sent[q], sent[q][i].dh > u.dhRemote
        PROVE  /\ sent[q][i].pub => t.pendingKEM = sent[q][i].dh
               /\ sent[q][i].ct # 0 => u.pendingKEM = sent[q][i].ct
    <3>1. ~s.needsNew
      BY <1>3, <1>4, <1>5, <1>6, <2>3
    <3>2. u.pendingKEM = s.pendingKEM /\ u.dhRemote = s.dhRemote
      BY <1>4, <3>1
    <3> QED
      BY <1>1, <1>7, <2>3, <3>2 DEF Paired, s, t
  <2> QED
    BY <1>1, <1>2, <2>2, <2>3 DEF Paired, u
<1>16. Paired(q)'
  <2>1. /\ t.peerKEM # 0 => t.needsNew /\ s.pendingKEM = t.peerKEM
        /\ s.peerKEM # 0 => t.pendingKEM = s.peerKEM
        /\ \A i \in DOMAIN sent[p] :
             sent[p][i].dh > t.dhRemote =>
               /\ sent[p][i].pub => s.pendingKEM = sent[p][i].dh
               /\ sent[p][i].ct # 0 => t.pendingKEM = sent[p][i].ct
    BY <1>1, <1>7 DEF Paired, s, t
  <2>2. t.peerKEM # 0 => t.needsNew /\ u.pendingKEM = t.peerKEM
    BY <1>4, <1>6, <2>1
  <2>3. ASSUME NEW i \in DOMAIN sent'[p], sent'[p][i].dh > t.dhRemote
        PROVE  /\ sent'[p][i].pub => u.pendingKEM = sent'[p][i].dh
               /\ sent'[p][i].ct # 0 => t.pendingKEM = sent'[p][i].ct
    <3>1. CASE i = new
      BY <1>2, <1>4, <2>1, <3>1
    <3>2. CASE i \in DOMAIN sent[p]
      <4>1. sent'[p][i] = sent[p][i] /\ sent[p][i].dh <= s.dhSelf /\ sent[p][i].dh \in Nat
        BY <1>2, <1>3, <1>5, <3>2
      <4>2. ~s.needsNew
        BY <1>3, <1>6, <2>3, <4>1
      <4> QED
        BY <1>4, <2>1, <2>3, <3>2, <4>1, <4>2
    <3> QED
      BY <1>2, <3>1, <3>2
  <2> QED
    BY <1>1, <1>2, <2>2, <2>3 DEF Paired, u
<1> QED
  BY <1>9, <1>10, <1>11, <1>12, <1>13, <1>14, <1>15, <1>16

\* What EncryptMessage does keeps the invariant.
LEMMA PutKeeps ==
  ASSUME TypeOK, SealInv, TurnInv, NEW p \in Party, NEW m \in Message, NEW new \in Nat,
         Put(p, new, m)
  PROVE  TurnInv'
<1> DEFINE q == Peer(p)
<1>1. q \in Party /\ Peer(q) = p /\ q # p /\ \A r \in Party : r = p \/ r = q
  BY Parties
<1>2. Turns'
  BY PutTurns DEF TurnInv
<1>3. Numbered(p)'
  BY PutNumbered DEF TurnInv
<1>4. Numbered(q)'
  BY <1>1 DEF TurnInv, Numbered, Put
<1>5. /\ Begun(p)' /\ Within(p)' /\ Kept(p)' /\ Paired(p)'
      /\ Begun(q)' /\ Within(q)' /\ Kept(q)' /\ Paired(q)'
  BY <1>1, PutPairs
<1> HIDE DEF q
<1> QED
  BY <1>1, <1>2, <1>3, <1>4, <1>5 DEF TurnInv

-----------------------------------------------------------------------------
(* Decrypting keeps the invariant.                                         *)

\* A header's chain and number tell the messages of a party apart.
LEMMA HeadersDiffer ==
  ASSUME TypeOK, SealInv, NEW p \in Party, Numbered(p),
         NEW i \in DOMAIN sent[p], NEW j \in DOMAIN sent[p],
         sent[p][i].dh = sent[p][j].dh, sent[p][i].n = sent[p][j].n
  PROVE  i = j
<1>1. sent[p][i] \in Message /\ sent[p][j] \in Message
  <2>1. sent[p] \in Seq(Message)
    BY DEF TypeOK
  <2> QED
    BY <2>1
<1>2. sent[p][i].key \in Chain \X Nat /\ sent[p][j].key \in Chain \X Nat
  BY <1>1 DEF Message, Key
<1>3. sent[p][i].key[1] = sent[p][j].key[1] /\ sent[p][i].key[2] = sent[p][j].key[2]
  BY DEF Numbered
<1>4. sent[p][i].key = sent[p][j].key
  BY <1>2, <1>3
<1> QED
  BY <1>4 DEF SealInv, SealedOnce

\* A call that starts a receiving chain starts the one the peer sends on.
LEMMA GetNext ==
  ASSUME TypeOK, SealInv, TurnInv, NEW p \in Party, NEW i \in wire[p], NEW u \in State,
         OnNextChain(p, st[p], u, sent[Peer(p)][i])
  PROVE  LET s == st[p]
             t == st[Peer(p)]
             m == sent[Peer(p)][i]
         IN /\ m.dh = t.dhSelf /\ m.dh = s.dhRemote + 1 /\ t.dhRemote = s.dhSelf
            /\ ~s.needsNew /\ ~t.needsNew /\ s.peerKEM = 0 /\ t.peerKEM = 0
            /\ u.dhRemote = m.dh
            /\ m.ct # 0 => s.pendingKEM = m.ct
            /\ m.pub => t.pendingKEM = m.dh
<1> DEFINE m == sent[Peer(p)][i]
           s == st[p]
           t == st[Peer(p)]
<1>1. Peer(p) \in Party /\ i \in DOMAIN sent[Peer(p)] /\ Peer(Peer(p)) = p
  BY Parties, Sent
<1>2. s.dhRemote \in Nat
  BY Fields
<1>3. /\ m.dh # s.dhRemote /\ ~Has(s, m.dh, m.n) /\ u.dhRemote = m.dh
  BY DEF OnNextChain
<1>4. m.dh = t.dhSelf /\ t.dhSelf = s.dhRemote + 1
  BY <1>3, NextChain
<1>5. t.dhRemote = s.dhSelf /\ ~s.needsNew /\ ~t.needsNew
  BY <1>2, <1>4 DEF TurnInv, Turns
<1>6. s.peerKEM = 0 /\ t.peerKEM = 0
  BY <1>1, <1>5 DEF TurnInv, Paired
<1>7. /\ m.pub => t.pendingKEM = m.dh
      /\ m.ct # 0 => s.pendingKEM = m.ct
  BY <1>1, <1>2, <1>4 DEF TurnInv, Paired
<1> QED
  BY <1>3, <1>4, <1>5, <1>6, <1>7

\* Decrypting keeps the turns.
LEMMA GetTurns ==
  ASSUME TypeOK, SealInv, TurnInv, NEW p \in Party, NEW i \in wire[p], NEW u \in State,
         Get(p, i, u)
  PROVE  Turns'
<1> DEFINE q == Peer(p)
           s == st[p]
           t == st[q]
<1>1. q \in Party /\ Peer(q) = p /\ q # p /\ \A r \in Party : r = p \/ r = q
  BY Parties
<1>2. /\ st'[p] = u /\ st'[q] = t /\ u.dhSelf = s.dhSelf
      /\ OnSameChain(s, u, sent[q][i]) \/ OnNextChain(p, s, u, sent[q][i])
  BY DEF Get, Got, SameSending
<1>3. /\ t.dhSelf \in {s.dhRemote, s.dhRemote + 1} /\ s.dhSelf \in {t.dhRemote, t.dhRemote + 1}
      /\ s.needsNew => s.dhRemote = t.dhSelf /\ t.dhRemote = s.dhSelf /\ ~t.needsNew
      /\ t.needsNew => t.dhRemote = s.dhSelf /\ s.dhRemote = t.dhSelf /\ ~s.needsNew
      /\ s.dhRemote # t.dhSelf => t.dhRemote = s.dhSelf /\ ~s.needsNew /\ ~t.needsNew
      /\ t.dhRemote # s.dhSelf => s.dhRemote = t.dhSelf /\ ~s.needsNew /\ ~t.needsNew
  BY <1>1 DEF TurnInv, Turns
<1>4. \/ u.dhRemote = s.dhRemote /\ u.needsNew = s.needsNew
      \/ u.dhRemote = t.dhSelf /\ t.dhRemote = s.dhSelf /\ ~t.needsNew
  <2>1. CASE OnSameChain(s, u, sent[q][i])
    BY <2>1 DEF OnSameChain, SameReceiving
  <2>2. CASE OnNextChain(p, s, u, sent[q][i])
    BY <2>2, GetNext
  <2> QED
    BY <1>2, <2>1, <2>2
<1> HIDE DEF s, t
<1>5. /\ t.dhSelf \in {u.dhRemote, u.dhRemote + 1} /\ u.dhSelf \in {t.dhRemote, t.dhRemote + 1}
      /\ u.needsNew => u.dhRemote = t.dhSelf /\ t.dhRemote = u.dhSelf /\ ~t.needsNew
      /\ t.needsNew => t.dhRemote = u.dhSelf /\ u.dhRemote = t.dhSelf /\ ~u.needsNew
      /\ u.dhRemote # t.dhSelf => t.dhRemote = u.dhSelf /\ ~u.needsNew /\ ~t.needsNew
      /\ t.dhRemote # u.dhSelf => u.dhRemote = t.dhSelf /\ ~u.needsNew /\ ~t.needsNew
  BY <1>2, <1>3, <1>4
<1> HIDE DEF q
<1> QED
  BY <1>1, <1>2, <1>5 DEF Turns, q

\* Decrypting keeps the parts that relate a party to its peer.
LEMMA GetPairs ==
  ASSUME TypeOK, SealInv, TurnInv, NEW p \in Party, NEW i \in wire[p], NEW u \in State,
         Get(p, i, u), NEW q \in Party, q = Peer(p)
  PROVE  /\ Begun(p)' /\ Within(p)' /\ Kept(p)' /\ Paired(p)'
         /\ Begun(q)' /\ Within(q)' /\ Kept(q)' /\ Paired(q)'
<1> DEFINE s == st[p]
           t == st[q]
           m == sent[q][i]
           next == OnNextChain(p, s, u, m)
<1>1. q \in Party /\ Peer(q) = p /\ Peer(p) = q /\ q # p
  BY Parties
<1>2. /\ st'[p] = u /\ st'[q] = t /\ sent' = sent
      /\ wire'[p] = wire[p] \ {i} /\ wire'[q] = wire[q]
      /\ SameSending(s, u) /\ Erases(s, u, m) /\ Stores(s, u, m)
      /\ OnSameChain(s, u, m) \/ next
  BY <1>1 DEF Get, Got
<1>3. /\ s.dhRemote \in Nat /\ s.nRecv \in Nat /\ s.dhSelf \in Nat
      /\ t.dhSelf \in Nat /\ t.nSend \in Nat /\ u.nRecv \in Nat
      /\ i \in DOMAIN sent[q]
      /\ \A k \in DOMAIN sent[q] :
           sent[q][k].dh \in Nat /\ sent[q][k].n \in Nat /\ sent[q][k].pn \in Nat
      /\ \A k \in DOMAIN sent[p] : sent[p][k].dh \in Nat
  BY <1>1, Fields, Sent DEF State
<1>4. /\ Begun(p) /\ Within(p) /\ Kept(p) /\ Paired(p) /\ Numbered(q)
      /\ Begun(q) /\ Within(q) /\ Kept(q) /\ Paired(q)
  BY <1>1 DEF TurnInv
<1>5. wire[q] \subseteq DOMAIN sent[p] /\ wire[p] \subseteq DOMAIN sent[q]
  BY <1>1 DEF TypeOK
<1>6. next => /\ m.dh = t.dhSelf /\ m.dh = s.dhRemote + 1 /\ t.dhRemote = s.dhSelf
              /\ ~t.needsNew /\ s.peerKEM = 0 /\ t.peerKEM = 0 /\ u.dhRemote = m.dh
              /\ m.pub => t.pendingKEM = m.dh
  BY <1>1, GetNext
<1>7. u.dhSelf = s.dhSelf /\ u.chainSend = s.chainSend /\ u.nSend = s.nSend
  BY <1>2 DEF SameSending
<1> HIDE DEF s, t, m, next
<1>8. Begun(p)'
  <2>1. ASSUME u.chainRecv = <<>>
        PROVE  s.chainRecv = <<>> /\ u.dhRemote = s.dhRemote /\ u.skipped \subseteq s.skipped
    <3>1. ~next
      BY <2>1 DEF next, OnNextChain
    <3>2. s.chainRecv = <<>> /\ u.dhRemote = s.dhRemote
      BY <1>2, <2>1, <3>1 DEF OnSameChain, SameReceiving
    <3> QED
      BY <1>2, <2>1, <3>2 DEF Stores
  <2> QED
    BY <1>1, <1>2, <1>4, <2>1 DEF Begun, s, t
<1>9. Begun(q)'
  BY <1>1, <1>2, <1>4, <1>7 DEF Begun, s, t
<1>10. Within(p)'
  <2>1. m.dh = t.dhSelf => m.n + 1 <= t.nSend
    BY <1>3, <1>4 DEF Numbered, m, t
  <2>2. m.n \in Nat
    BY <1>3 DEF m
  <2>3. CASE OnSameChain(s, u, m)
    <3>1. s.dhRemote = t.dhSelf => s.nRecv <= t.nSend
      BY <1>1, <1>4 DEF Within, s, t
    <3>2. u.dhRemote = t.dhSelf => u.nRecv <= t.nSend
      BY <2>1, <2>3, <3>1 DEF OnSameChain, SameReceiving
    <3> QED
      BY <1>1, <1>2, <3>2 DEF Within
  <2>4. CASE next
    <3>1. u.nRecv <= m.n + 1
      BY <2>4 DEF next, OnNextChain
    <3>2. u.nRecv <= t.nSend
      BY <1>3, <1>6, <2>1, <2>2, <2>4, <3>1
    <3> QED
      BY <1>1, <1>2, <3>2 DEF Within
  <2> QED
    BY <1>2, <2>3, <2>4
<1>11. Within(q)'
  BY <1>1, <1>2, <1>4, <1>7 DEF Within, s, t
<1>12. Kept(p)'
  <2>1. ASSUME NEW k \in wire'[p],
               LET z == sent[q][k]
               IN z.dh < u.dhRemote \/ (z.dh = u.dhRemote /\ z.n < u.nRecv)
        PROVE  Has(u, sent[q][k].dh, sent[q][k].n)
    <3> DEFINE z == sent[q][k]
    <3>1. k \in wire[p] /\ k # i /\ k \in DOMAIN sent[q] /\ z.dh \in Nat /\ z.n \in Nat
      BY <1>2, <1>3, <1>5
    <3>2. ~(z.dh = m.dh /\ z.n = m.n)
      BY <1>3, <1>4, <3>1, HeadersDiffer DEF m
    <3>3. CASE z.dh < s.dhRemote \/ (z.dh = s.dhRemote /\ z.n < s.nRecv)
      <4>1. Has(s, z.dh, z.n)
        BY <1>1, <1>4, <3>1, <3>3 DEF Kept, s
      <4> QED
        BY <1>2, <3>2, <4>1 DEF Erases
    <3>4. CASE /\ ~(z.dh < s.dhRemote \/ (z.dh = s.dhRemote /\ z.n < s.nRecv))
               /\ OnSameChain(s, u, m)
      <4>1. u.dhRemote = s.dhRemote
        BY <3>4 DEF OnSameChain, SameReceiving
      <4>2. z.dh = s.dhRemote /\ s.nRecv <= z.n /\ z.n < u.nRecv
        BY <1>3, <2>1, <3>1, <3>4, <4>1
      <4>3. m.dh = s.dhRemote
        BY <1>3, <3>1, <3>4, <4>2 DEF OnSameChain
      <4> HIDE DEF z
      <4> QED
        BY <3>1, <3>2, <3>4, <4>2, <4>3 DEF OnSameChain, z
    <3>5. CASE ~(z.dh < s.dhRemote \/ (z.dh = s.dhRemote /\ z.n < s.nRecv)) /\ next
      <4>1. u.dhRemote = m.dh /\ m.dh = s.dhRemote + 1
        BY <1>6, <3>5
      <4>2. CASE z.dh = m.dh
        <5>1. z.n < u.nRecv /\ z.n # m.n
          BY <1>3, <2>1, <3>1, <3>2, <4>1, <4>2
        <5> QED
          BY <3>1, <3>5, <4>2, <5>1 DEF next, OnNextChain
      <4>3. CASE z.dh # m.dh
        <5>1. z.dh = s.dhRemote /\ s.nRecv <= z.n
          BY <1>3, <2>1, <3>1, <3>5, <4>1, <4>3
        <5>2. z.n < m.pn
          BY <1>3, <1>4, <3>1, <4>1, <5>1 DEF Numbered, m
        <5>3. s.chainRecv # <<>>
          BY <1>1, <1>3, <1>4, <3>1, <5>1 DEF Begun, s
        <5> QED
          BY <3>1, <3>5, <5>1, <5>2, <5>3 DEF next, OnNextChain
      <4> QED
        BY <4>2, <4>3
    <3> QED
      BY <1>2, <3>3, <3>4, <3>5
  <2> QED
    BY <1>1, <1>2, <2>1 DEF Kept
<1>13. Kept(q)'
  BY <1>1, <1>2, <1>4, <1>7 DEF Kept, s, t
<1>14. Paired(p)'
  <2>1. CASE OnSameChain(s, u, m)
    BY <1>1, <1>2, <1>4, <2>1 DEF OnSameChain, SameReceiving, Paired, s, t
  <2>2. CASE next
    <3>1. u.needsNew /\ (u.peerKEM # 0 => t.pendingKEM = u.peerKEM)
      BY <1>6, <2>2 DEF next, OnNextChain
    <3>2. \A k \in DOMAIN sent[q] : ~(sent[q][k].dh > u.dhRemote)
      BY <1>3, <1>4, <1>6, <2>2 DEF Numbered, t
    <3> QED
      BY <1>1, <1>2, <3>1, <3>2 DEF Paired
  <2> QED
    BY <1>2, <2>1, <2>2
<1>15. Paired(q)'
  <2>1. CASE OnSameChain(s, u, m)
    <3>1. u.pendingKEM = s.pendingKEM
      BY <2>1 DEF OnSameChain, SameReceiving
    <3> QED
      BY <1>1, <1>2, <1>4, <3>1 DEF Paired, s, t
  <2>2. CASE next
    <3>1. \A k \in DOMAIN sent[p] : ~(sent[p][k].dh > t.dhRemote)
      <4>1. Numbered(p)
        BY DEF TurnInv
      <4> QED
        BY <1>3, <1>6, <2>2, <4>1 DEF Numbered, s
    <3> QED
      BY <1>1, <1>2, <1>6, <2>2, <3>1 DEF Paired
  <2> QED
    BY <1>2, <2>1, <2>2
<1> QED
  BY <1>8, <1>9, <1>10, <1>11, <1>12, <1>13, <1>14, <1>15

\* What DecryptMessage does keeps the invariant.
LEMMA GetKeeps ==
  ASSUME TypeOK, SealInv, TurnInv, NEW p \in Party, NEW i \in wire[p], NEW u \in State,
         Get(p, i, u)
  PROVE  TurnInv'
<1> DEFINE q == Peer(p)
<1>1. q \in Party /\ Peer(q) = p /\ q # p /\ \A r \in Party : r = p \/ r = q
  BY Parties
<1>2. Turns'
  BY GetTurns
<1>3. \A r \in Party : Numbered(r)'
  <2>1. /\ sent' = sent /\ st'[q] = st[q] /\ st'[p].dhSelf = st[p].dhSelf
        /\ st'[p].chainSend = st[p].chainSend /\ st'[p].nSend = st[p].nSend
        /\ st'[p].pn = st[p].pn
    BY DEF Get, Got, SameSending
  <2> QED
    BY <1>1, <2>1 DEF TurnInv, Numbered
<1>4. /\ Begun(p)' /\ Within(p)' /\ Kept(p)' /\ Paired(p)'
      /\ Begun(q)' /\ Within(q)' /\ Kept(q)' /\ Paired(q)'
  BY <1>1, GetPairs
<1> HIDE DEF q
<1> QED
  BY <1>1, <1>2, <1>3, <1>4 DEF TurnInv

-----------------------------------------------------------------------------
(* The theorems on injections.                                             *)

\* The two parties at first.
LEMMA InitStates ==
  ASSUME Init
  PROVE  /\ Party = {Alice, Bob} /\ Peer(Alice) = Bob /\ Peer(Bob) = Alice /\ Alice # Bob
         /\ st[Alice] = InitAlice /\ st[Bob] = InitBob
         /\ \A p \in Party : /\ sent[p] = <<>> /\ wire[p] = {} /\ inbox[p] = <<>>
                             /\ refused[p] = {}
BY RatchetAssumption DEF Init, Party, Peer, RatchetAssumption

\* The states of the handshake, with nothing sent, keep the turns.
LEMMA InitTurns == Init => TurnInv
<1> SUFFICES ASSUME Init PROVE TurnInv
  OBVIOUS
<1>1. /\ Party = {Alice, Bob} /\ Peer(Alice) = Bob /\ Peer(Bob) = Alice /\ Alice # Bob
      /\ \A p \in Party : /\ sent[p] = <<>> /\ wire[p] = {} /\ inbox[p] = <<>>
                          /\ refused[p] = {}
  BY InitStates
<1>2. /\ st[Alice].dhSelf = 1 /\ st[Alice].dhRemote = 1 /\ ~st[Alice].needsNew
      /\ st[Alice].peerKEM = 0 /\ st[Alice].nRecv = 0 /\ st[Alice].nSend = 0
      /\ st[Alice].skipped = {}
      /\ st[Bob].dhSelf = 1 /\ st[Bob].dhRemote = 0 /\ ~st[Bob].needsNew
      /\ st[Bob].peerKEM = 0 /\ st[Bob].nRecv = 0 /\ st[Bob].nSend = 0
      /\ st[Bob].skipped = {} /\ st[Bob].chainSend = <<>>
  BY InitStates DEF InitAlice, InitBob
<1>3. Turns
  BY <1>1, <1>2 DEF Turns
<1>4. ASSUME NEW p \in Party
      PROVE  Numbered(p) /\ Begun(p) /\ Within(p) /\ Kept(p) /\ Paired(p)
  <2>1. DOMAIN sent[p] = {} /\ DOMAIN sent[Peer(p)] = {} /\ wire[p] = {}
    BY <1>1
  <2>2. st[p].nSend = 0 /\ st[p].nRecv = 0 /\ st[Peer(p)].nSend = 0 /\ st[p].peerKEM = 0
        /\ st[p].skipped = {}
    BY <1>1, <1>2
  <2>3. Begun(p)
    BY <1>1, <1>2, <2>1 DEF Begun
  <2> QED
    BY <2>1, <2>2, <2>3 DEF Numbered, Within, Kept, Paired
<1> QED
  BY <1>3, <1>4 DEF TurnInv

\* The invariant survives a message lost.
LEMMA LoseTurns ==
  ASSUME TurnInv, st' = st, sent' = sent, \A p \in Party : wire'[p] \subseteq wire[p]
  PROVE  TurnInv'
<1>1. Turns'
  BY DEF TurnInv, Turns
<1>2. \A p \in Party : Numbered(p)' /\ Begun(p)' /\ Within(p)' /\ Kept(p)' /\ Paired(p)'
  BY DEF TurnInv, Numbered, Begun, Within, Kept, Paired
<1> QED
  BY <1>1, <1>2 DEF TurnInv

\* What a step can be over a network that repeats nothing.
Goes ==
  \/ \E p \in Party, m \in Message, new \in Nat : Put(p, new, m)
  \/ \E p \in Party : \E i \in wire[p], u \in State : Get(p, i, u)
  \/ /\ UNCHANGED <<st, sent, inbox, refused>>
     /\ \A p \in Party : wire'[p] \subseteq wire[p]
     /\ "loss" \in Faults \/ wire' = wire

\* A step over a network that repeats nothing is one of three things.
LEMMA Steps ==
  ASSUME MaxDups = 0, IInv, TurnInv, [Next]_vars
  PROVE  Goes
<1>1. TypeOK /\ SealInv
  BY DEF IInv
<1>2. ASSUME NEW p \in Party, Encrypt(p)
      PROVE  \E m \in Message, new \in Nat : Put(p, new, m)
  BY <1>1, <1>2, EncryptPuts
<1>3. ASSUME NEW p \in Party, NEW i \in wire[p], Decrypt(p, i)
      PROVE  \E u \in State : Get(p, i, u)
  BY <1>1, <1>3, DecryptGets
<1>4. ASSUME NEW p \in Party, NEW i \in wire[p], Lose(p, i)
      PROVE  /\ UNCHANGED <<st, sent, inbox, refused>>
             /\ \A q \in Party : wire'[q] \subseteq wire[q]
             /\ "loss" \in Faults
  BY <1>1, <1>4 DEF Lose, TypeOK
<1> QED
  BY <1>2, <1>3, <1>4 DEF Next, vars, Goes

\* Every step keeps the turns.
LEMMA TurnsStep ==
  ASSUME IInv, TurnInv, Goes
  PROVE  TurnInv'
<1>1. TypeOK /\ SealInv
  BY DEF IInv
<1>2. ASSUME NEW p \in Party, NEW m \in Message, NEW new \in Nat, Put(p, new, m)
      PROVE  TurnInv'
  BY <1>1, <1>2, PutKeeps
<1>3. ASSUME NEW p \in Party, NEW i \in wire[p], NEW u \in State, Get(p, i, u)
      PROVE  TurnInv'
  BY <1>1, <1>3, GetKeeps
<1> QED
  BY <1>2, <1>3, LoseTurns DEF Goes

\* The parties take turns at starting chains, number their messages along
\* them, and keep the keys of those they step over.
THEOREM TurnsTaken ==
  ASSUME MaxDups = 0
  PROVE  Spec => []TurnInv
<1>1. Init => TurnInv
  BY InitTurns
<1>2. IInv /\ TurnInv /\ [Next]_vars => TurnInv'
  BY Steps, TurnsStep
<1> QED
  BY <1>1, <1>2, Invariance, PTL DEF Spec

\* Over a relay, which repeats nothing, a ciphertext is always made for the
\* ML-KEM key its receiver still holds, whoever injects when, and whatever is
\* lost or reordered: ErrUnexpectedKEMCT is never due.
THEOREM KeysOfInjectionsPair ==
  ASSUME MaxDups = 0
  PROVE  Spec => []InjectionsPaired
<1>1. TurnInv => InjectionsPaired
  BY DEF TurnInv, Paired, InjectionsPaired
<1> QED
  BY <1>1, TurnsTaken, PTL

-----------------------------------------------------------------------------
(* Agreement of the two ends.                                              *)

\* What p has read or stored is on no later chain than the one it knows.
Known(p) ==
  /\ \A i \in Range(inbox[p]) : sent[Peer(p)][i].dh <= st[p].dhRemote
  /\ \A e \in st[p].skipped : e.dh <= st[p].dhRemote

\* The secret of the ciphertext made for key c, if there is one.
Answer(c) == IF c = 0 THEN NoSecret ELSE KEMSecret(c, c)

\* The peer has mixed one secret more than p, with a ciphertext for key c that
\* the first message of its chain carries.
Behind(p) ==
  LET s == st[p]
      t == st[Peer(p)]
  IN \E c \in Nat :
       /\ t.chainSend = t.root
       /\ t.root = RootKDF(s.root, DH(Peer(p), t.dhSelf, s.dhSelf), Answer(c))
       /\ t.nSend = 0 => c = 0
       /\ \A i \in DOMAIN sent[Peer(p)] :
            sent[Peer(p)][i].dh = t.dhSelf /\ sent[Peer(p)][i].n = 0
              => sent[Peer(p)][i].ct = c

\* p has the keys its peer has, or lacks just what the next message tells.
Agree(p) ==
  LET s == st[p]
      t == st[Peer(p)]
  IN /\ s.dhRemote = t.dhSelf => s.chainRecv \in {<<>>, t.chainSend}
     /\ s.dhRemote = t.dhSelf /\ t.dhRemote = s.dhSelf => s.root = t.root
     /\ s.dhRemote # t.dhSelf => Behind(p)

\* p began a chain with another message j than the one, i, with its ciphertext:
\* it refused j, holds no key of the chain and so never reads i.
Apart(p) ==
  \E i \in DOMAIN sent[Peer(p)] \ Range(inbox[p]), j \in refused[p] :
    LET m == sent[Peer(p)][i]
    IN /\ m.ct # 0 /\ j # i /\ sent[Peer(p)][j].dh = m.dh
       /\ m.dh <= st[p].dhRemote
       /\ m.dh = st[p].dhRemote => st[p].chainRecv # m.key[1]
       /\ \A e \in st[p].skipped : e.dh = m.dh => e.key[1] # m.key[1]

SyncInv ==
  /\ \A p \in Party : Known(p)
  /\ (\A p \in Party : Agree(p)) \/ (\E p \in Party : Apart(p))

\* Message i was opened with its key, or refused, and nothing else was.
LEMMA GetMarks ==
  ASSUME TypeOK, NEW p \in Party, NEW i \in wire[p], NEW u \in State, Get(p, i, u)
  PROVE  LET m == sent[Peer(p)][i]
         IN /\ inbox'[Peer(p)] = inbox[Peer(p)] /\ refused'[Peer(p)] = refused[Peer(p)]
            /\ \/ /\ refused'[p] = refused[p] \cup {i} /\ inbox'[p] = inbox[p]
                  /\ \/ TooFar(st[p], m)
                     \/ \E key \in Key : Tries(st[p], u, m, key) /\ key # m.key
               \/ /\ refused'[p] = refused[p] /\ inbox'[p] = Append(inbox[p], i)
                  /\ Range(inbox'[p]) = Range(inbox[p]) \cup {i}
                  /\ Tries(st[p], u, m, m.key)
<1> DEFINE m == sent[Peer(p)][i]
<1>1. /\ inbox \in [Party -> Seq(Nat)] /\ refused \in [Party -> SUBSET Nat]
      /\ inbox[p] \in Seq(Nat) /\ i \in Nat
  BY DEF TypeOK
<1>2. Peer(p) \in Party /\ Peer(p) # p
  BY Parties
<1>3. CASE TooFar(st[p], m) /\ Refuse(p, i, u)
  BY <1>1, <1>2, <1>3 DEF Refuse
<1>4. ASSUME NEW key \in Key, Tries(st[p], u, m, key), Open(p, i, u, key)
      PROVE  /\ inbox'[Peer(p)] = inbox[Peer(p)] /\ refused'[Peer(p)] = refused[Peer(p)]
             /\ \/ /\ refused'[p] = refused[p] \cup {i} /\ inbox'[p] = inbox[p]
                   /\ key # m.key
                \/ /\ refused'[p] = refused[p] /\ inbox'[p] = Append(inbox[p], i)
                   /\ key = m.key
  BY <1>1, <1>2, <1>4 DEF Open
<1>5. inbox'[p] = Append(inbox[p], i) => Range(inbox'[p]) = Range(inbox[p]) \cup {i}
  BY <1>1, RangeAppend
<1> HIDE DEF m
<1> QED
  BY <1>3, <1>4, <1>5 DEF Get, Got, m

\* Encrypting leaves what was read and kept as it was.
LEMMA PutKnown ==
  ASSUME TypeOK, SyncInv, NEW p \in Party, NEW m \in Message, NEW new \in Nat, Put(p, new, m)
  PROVE  \A r \in Party : Known(r)'
<1> DEFINE q == Peer(p)
<1>1. q \in Party /\ Peer(q) = p /\ \A r \in Party : r = p \/ r = q
  BY Parties
<1>2. Range(inbox[q]) \subseteq DOMAIN sent[p] /\ Known(p) /\ Known(q)
  BY <1>1 DEF TypeOK, SyncInv
<1>3. Known(p)'
  BY <1>2 DEF Known, Put, Writes, Range
<1>4. Known(q)'
  BY <1>1, <1>2 DEF Known, Put, Range
<1> HIDE DEF q
<1> QED
  BY <1>1, <1>3, <1>4

\* Decrypting takes p at most to the chain of the message it read.
LEMMA GetKnown ==
  ASSUME TypeOK, SealInv, TurnInv, SyncInv,
         NEW p \in Party, NEW i \in wire[p], NEW u \in State, Get(p, i, u)
  PROVE  \A r \in Party : Known(r)'
<1> DEFINE q == Peer(p)
           s == st[p]
           m == sent[q][i]
<1>1. q \in Party /\ Peer(q) = p /\ \A r \in Party : r = p \/ r = q
  BY Parties
<1>2. /\ i \in DOMAIN sent[q] /\ Range(inbox[p]) \subseteq DOMAIN sent[q]
      /\ s.dhRemote \in Nat /\ u.dhRemote \in Nat
      /\ \A k \in DOMAIN sent[q] : sent[q][k].dh \in Nat
      /\ \A e \in s.skipped : e.dh \in Nat
  <2>1. i \in DOMAIN sent[q] /\ s \in State
    BY Sent
  <2>2. Range(inbox[p]) \subseteq DOMAIN sent[q]
    BY DEF TypeOK
  <2>3. s.dhRemote \in Nat /\ u.dhRemote \in Nat /\ \A e \in s.skipped : e.dh \in Nat
    BY <2>1 DEF State, Entry
  <2>4. \A k \in DOMAIN sent[q] : sent[q][k].dh \in Nat
    BY <1>1, Fields
  <2> QED
    BY <2>1, <2>2, <2>3, <2>4
<1>3. Known(p) /\ Known(q)
  BY <1>1 DEF SyncInv
<1>4. s.dhRemote <= u.dhRemote
  <2>1. CASE OnSameChain(s, u, m)
    BY <1>2, <2>1 DEF OnSameChain, SameReceiving
  <2>2. CASE OnNextChain(p, s, u, m)
    <3>1. m.dh = s.dhRemote + 1 /\ u.dhRemote = m.dh
      BY <2>2, GetNext
    <3> QED
      BY <1>2, <3>1
  <2> QED
    BY <2>1, <2>2 DEF Get, Got
<1>5. Tries(s, u, m, m.key) => m.dh <= u.dhRemote
  BY <1>2, <1>3, <1>4 DEF Tries, Known
<1>6. \A k \in Range(inbox'[p]) : sent[q][k].dh <= u.dhRemote
  <2>1. \A k \in Range(inbox[p]) : sent[q][k].dh <= u.dhRemote
    BY <1>2, <1>3, <1>4 DEF Known
  <2>2. \/ Range(inbox'[p]) = Range(inbox[p])
        \/ Range(inbox'[p]) = Range(inbox[p]) \cup {i} /\ Tries(s, u, m, m.key)
    BY GetMarks
  <2> QED
    BY <1>5, <2>1, <2>2
<1>7. \A e \in u.skipped : e.dh <= u.dhRemote
  <2>1. Stores(s, u, m) /\ \A e \in s.skipped : e.dh <= s.dhRemote
    BY <1>3 DEF Get, Got, Known
  <2> QED
    BY <1>2, <1>4, <2>1 DEF Stores
<1>8. Known(p)'
  BY <1>6, <1>7 DEF Known, Get, Range
<1>9. Known(q)'
  <2>1. inbox'[q] = inbox[q]
    BY GetMarks
  <2> QED
    BY <1>1, <1>3, <2>1 DEF Known, Get, Range
<1> HIDE DEF q
<1> QED
  BY <1>1, <1>8, <1>9

\* Encrypting keeps agreement.
LEMMA PutAgrees ==
  ASSUME TypeOK, SealInv, TurnInv, NEW p \in Party, NEW m \in Message, NEW new \in Nat,
         Put(p, new, m), NEW q \in Party, q = Peer(p), Agree(p), Agree(q)
  PROVE  Agree(p)' /\ Agree(q)'
<1> DEFINE s == st[p]
           u == st'[p]
           t == st[q]
<1>1. q \in Party /\ Peer(q) = p /\ Peer(p) = q /\ q # p
  BY Parties
<1>2. /\ st'[q] = t /\ sent'[q] = sent[q]
      /\ DOMAIN sent'[p] = DOMAIN sent[p] \cup {new} /\ new \notin DOMAIN sent[p]
      /\ sent'[p][new] = m /\ \A i \in DOMAIN sent[p] : sent'[p][i] = sent[p][i]
      /\ Writes(p, s, u, m)
  BY <1>1 DEF Put
<1>3. /\ s.dhSelf \in Nat /\ s.nSend \in Nat /\ s.peerKEM \in Nat /\ m.n \in Nat
      /\ \A i \in DOMAIN sent[p] : sent[p][i].dh \in Nat /\ sent[p][i].dh <= s.dhSelf
  <2>1. Heard(p)
    BY DEF SealInv
  <2> QED
    BY <2>1, Fields DEF Heard, Message
<1>4. /\ u.dhRemote = s.dhRemote /\ u.chainRecv = s.chainRecv
      /\ m.dh = u.dhSelf /\ u.nSend = m.n + 1
  BY <1>2 DEF Writes
<1> HIDE DEF s, u, t
<1>5. CASE WritesOn(s, u, m)
  <2>1. /\ u.root = s.root /\ u.dhSelf = s.dhSelf /\ u.chainSend = s.chainSend
        /\ m.n = s.nSend /\ m.ct = 0
    BY <1>5 DEF WritesOn
  <2>2. Behind(p) => Behind(p)'
    BY <1>1, <1>2, <2>1 DEF Behind, s, t, u
  <2>3. Agree(p)'
    BY <1>1, <1>2, <1>4, <2>1, <2>2 DEF Agree, s, t, u
  <2>4. ASSUME Behind(q)
        PROVE  Behind(q)'
    <3>1. PICK c \in Nat :
            /\ s.chainSend = s.root
            /\ s.root = RootKDF(t.root, DH(p, s.dhSelf, t.dhSelf), Answer(c))
            /\ s.nSend = 0 => c = 0
            /\ \A i \in DOMAIN sent[p] :
                 sent[p][i].dh = s.dhSelf /\ sent[p][i].n = 0 => sent[p][i].ct = c
      BY <1>1, <2>4 DEF Behind, s, t
    <3>2. u.nSend # 0
      BY <1>3, <1>4
    <3>3. \A i \in DOMAIN sent'[p] :
            sent'[p][i].dh = u.dhSelf /\ sent'[p][i].n = 0 => sent'[p][i].ct = c
      BY <1>2, <2>1, <3>1
    <3> QED
      BY <1>1, <1>2, <2>1, <3>1, <3>2, <3>3 DEF Behind, u
  <2>5. Agree(q)'
    BY <1>1, <1>2, <1>4, <2>1, <2>4 DEF Agree, s, t, u
  <2> QED
    BY <2>3, <2>5
<1>6. CASE WritesNew(p, s, u, m)
  <2>1. /\ u.dhSelf = s.dhSelf + 1 /\ u.chainSend = u.root
        /\ u.root = RootKDF(s.root, DH(p, u.dhSelf, s.dhRemote), AnswerSecret(s))
        /\ m.n = 0 /\ m.ct = s.peerKEM /\ s.needsNew
    BY <1>6 DEF WritesNew
  <2>2. s.dhRemote = t.dhSelf /\ t.dhRemote = s.dhSelf
    BY <1>1, <2>1 DEF TurnInv, Turns, s, t
  <2>3. s.root = t.root /\ s.chainRecv \in {<<>>, t.chainSend}
    BY <1>1, <2>2 DEF Agree, s, t
  <2>4. t.dhRemote # u.dhSelf
    BY <1>3, <2>1, <2>2
  <2>5. Agree(p)'
    BY <1>1, <1>2, <1>4, <2>2, <2>3, <2>4 DEF Agree, u
  <2>6. AnswerSecret(s) = Answer(s.peerKEM)
    BY DEF AnswerSecret, Answer
  <2>7. \A i \in DOMAIN sent'[p] :
          sent'[p][i].dh = u.dhSelf /\ sent'[p][i].n = 0 => sent'[p][i].ct = s.peerKEM
    BY <1>2, <1>3, <2>1
  <2>8. u.root = RootKDF(t.root, DH(p, u.dhSelf, t.dhSelf), Answer(s.peerKEM)) /\ u.nSend # 0
    BY <1>3, <1>4, <2>1, <2>2, <2>3, <2>6
  <2>9. Behind(q)'
    BY <1>1, <1>2, <1>3, <2>1, <2>7, <2>8 DEF Behind, u
  <2>10. Agree(q)'
    BY <1>1, <1>2, <2>4, <2>9 DEF Agree, u, t
  <2> QED
    BY <2>5, <2>10
<1> QED
  BY <1>2, <1>5, <1>6 DEF Writes

\* X25519: the two ends compute the same.
LEMMA DHAgrees ==
  ASSUME NEW p \in Party, NEW own, NEW remote
  PROVE  DH(p, own, remote) = DH(Peer(p), remote, own)
BY Parties DEF DH

\* Decrypting keeps agreement, or overtakes a ciphertext.
LEMMA GetAgrees ==
  ASSUME TypeOK, SealInv, TurnInv, SyncInv,
         NEW p \in Party, NEW i \in wire[p], NEW u \in State, Get(p, i, u),
         NEW q \in Party, q = Peer(p), Agree(p), Agree(q)
  PROVE  (Agree(p)' /\ Agree(q)') \/ Apart(p)'
<1> DEFINE s == st[p]
           t == st[q]
           m == sent[q][i]
<1>1. q \in Party /\ Peer(q) = p /\ Peer(p) = q /\ q # p
  BY Parties
<1>2. /\ st'[p] = u /\ st'[q] = t /\ sent' = sent
      /\ SameSending(s, u) /\ Stores(s, u, m)
      /\ OnSameChain(s, u, m) \/ OnNextChain(p, s, u, m)
  BY <1>1 DEF Get, Got
<1>3. u.dhSelf = s.dhSelf /\ u.chainSend = s.chainSend /\ u.nSend = s.nSend
  BY <1>2 DEF SameSending
<1>4. CASE OnSameChain(s, u, m)
  <2>1. u.dhRemote = s.dhRemote /\ u.chainRecv = s.chainRecv /\ u.root = s.root
    BY <1>4 DEF OnSameChain, SameReceiving
  <2>2. (Behind(p) => Behind(p)') /\ (Behind(q) => Behind(q)')
    BY <1>1, <1>2, <1>3, <2>1 DEF Behind
  <2> QED
    BY <1>1, <1>2, <1>3, <2>1, <2>2 DEF Agree
<1>5. CASE OnNextChain(p, s, u, m)
  <2>1. /\ m.dh = t.dhSelf /\ m.dh = s.dhRemote + 1 /\ t.dhRemote = s.dhSelf
        /\ u.dhRemote = m.dh
        /\ m.ct # 0 => s.pendingKEM = m.ct
    BY <1>1, <1>5, GetNext
  <2>2. /\ s.dhRemote \in Nat /\ i \in DOMAIN sent[q] /\ Numbered(q) /\ Known(p)
        /\ Range(inbox[p]) \subseteq DOMAIN sent[q] /\ sent[q] \in Seq(Message)
        /\ m.n \in Nat
    BY <1>1, Fields, Sent DEF TurnInv, SyncInv, TypeOK
  <2>3. Behind(p)
    BY <1>1, <2>1, <2>2 DEF Agree
  <2>4. PICK c \in Nat :
          /\ t.chainSend = t.root
          /\ t.root = RootKDF(s.root, DH(q, t.dhSelf, s.dhSelf), Answer(c))
          /\ \A k \in DOMAIN sent[q] :
               sent[q][k].dh = t.dhSelf /\ sent[q][k].n = 0 => sent[q][k].ct = c
    BY <1>1, <2>3 DEF Behind
  <2>5. u.root = RootKDF(s.root, DH(p, s.dhSelf, m.dh), ReceivedSecret(s, m))
        /\ u.chainRecv = u.root /\ u.chainRecv # <<>>
    BY <1>5 DEF OnNextChain
  <2>6. DH(p, s.dhSelf, m.dh) = DH(q, t.dhSelf, s.dhSelf)
    BY <1>1, <2>1, DHAgrees
  <2>7. CASE ReceivedSecret(s, m) = Answer(c)
    <3>1. u.root = t.root
      BY <2>4, <2>5, <2>6, <2>7
    <3> HIDE DEF s, t, m
    <3>2. Agree(p)'
      BY <1>1, <1>2, <2>1, <2>4, <2>5, <3>1 DEF Agree
    <3>3. t.dhRemote = s.dhSelf => t.chainRecv \in {<<>>, s.chainSend}
      BY <1>1 DEF Agree, s, t
    <3>4. Agree(q)'
      BY <1>1, <1>2, <1>3, <2>1, <3>1, <3>3 DEF Agree
    <3> QED
      BY <3>2, <3>4
  <2>8. CASE ReceivedSecret(s, m) # Answer(c)
    <3>1. m.n # 0 /\ c # 0
      BY <2>1, <2>2, <2>4, <2>8 DEF ReceivedSecret, Answer, Numbered
    <3>2. PICK k \in DOMAIN sent[q] : sent[q][k].dh = m.dh /\ sent[q][k].n = 0
      BY <2>2 DEF Numbered, First
    <3> DEFINE z == sent[q][k]
    <3>3. z.ct # 0 /\ k # i
      BY <2>1, <2>4, <3>1, <3>2
    <3>4. z.key[1] = t.chainSend /\ m.key[1] = t.chainSend
      BY <2>1, <2>2, <3>2 DEF Numbered
    <3>5. u.chainRecv # t.chainSend
      <4> DEFINE dh == DH(p, s.dhSelf, m.dh)
      <4>1. s.root \in Seq(Mix)
        BY Sent DEF State, Chain
      <4>2. dh \in [Party -> Nat]
        BY <1>1, <2>2, Fields DEF DH
      <4>3. ReceivedSecret(s, m) \in {NoSecret} \cup (Nat \X Nat)
        BY Fields, Sent DEF ReceivedSecret, KEMSecret, Message
      <4>4. Answer(c) \in {NoSecret} \cup (Nat \X Nat)
        BY DEF Answer, KEMSecret
      <4> HIDE DEF dh
      <4>5. /\ u.chainRecv = Append(s.root, [dh |-> dh, kem |-> ReceivedSecret(s, m)])
            /\ t.chainSend = Append(s.root, [dh |-> dh, kem |-> Answer(c)])
        BY <2>4, <2>5, <2>6 DEF RootKDF, dh
      <4> HIDE DEF s, t, m
      <4>6. /\ [dh |-> dh, kem |-> ReceivedSecret(s, m)] \in Mix
            /\ [dh |-> dh, kem |-> Answer(c)] \in Mix
        BY <4>2, <4>3, <4>4 DEF Mix
      <4>7. /\ u.chainRecv[Len(s.root) + 1].kem = ReceivedSecret(s, m)
            /\ t.chainSend[Len(s.root) + 1].kem = Answer(c)
        BY <4>1, <4>5, <4>6, AppendProperties
      <4> QED
        BY <2>8, <4>7
    <3>6. k \notin Range(inbox[p])
      BY <2>1, <2>2, <3>2 DEF Known
    <3>7. Range(inbox'[p]) = Range(inbox[p]) /\ i \in refused'[p]
      <4>1. ~Tries(s, u, m, m.key)
        BY <2>1, <2>2, <3>4, <3>5 DEF Tries, Known
      <4> QED
        BY <1>1, <4>1, GetMarks
    <3>8. \A e \in u.skipped : e.dh = m.dh => e.key[1] # t.chainSend
      BY <1>2, <2>1, <2>2, <3>5 DEF Stores, Known
    <3>9. m.dh \in Nat
      BY <2>1, <2>2
    <3>10. /\ k \in DOMAIN sent'[Peer(p)] \ Range(inbox'[p]) /\ i \in refused'[p]
           /\ z = sent'[Peer(p)][k] /\ m = sent'[Peer(p)][i] /\ st'[p] = u
      BY <1>1, <1>2, <3>2, <3>6, <3>7
    <3>11. /\ z.ct # 0 /\ i # k /\ m.dh = z.dh /\ z.dh <= u.dhRemote
           /\ u.chainRecv # z.key[1]
           /\ \A e \in u.skipped : e.dh = z.dh => e.key[1] # z.key[1]
      BY <2>1, <3>2, <3>3, <3>4, <3>5, <3>8, <3>9
    <3> HIDE DEF z, m
    <3>12. Apart(p)'
      BY <3>10, <3>11 DEF Apart
    <3> QED
      BY <3>12
  <2> QED
    BY <2>7, <2>8
<1> QED
  BY <1>2, <1>4, <1>5

\* A ciphertext once overtaken stays so.
LEMMA PutApart ==
  ASSUME TypeOK, NEW p \in Party, NEW m, NEW new, Put(p, new, m),
         NEW r \in Party, Apart(r)
  PROVE  Apart(r)'
<1>1. Peer(p) \in Party /\ Peer(Peer(p)) = p /\ (r = p \/ r = Peer(p))
  BY Parties
<1>2. PICK i \in DOMAIN sent[Peer(r)] \ Range(inbox[r]), j \in refused[r] :
        LET z == sent[Peer(r)][i]
        IN /\ z.ct # 0 /\ j # i /\ sent[Peer(r)][j].dh = z.dh
           /\ z.dh <= st[r].dhRemote
           /\ z.dh = st[r].dhRemote => st[r].chainRecv # z.key[1]
           /\ \A e \in st[r].skipped : e.dh = z.dh => e.key[1] # z.key[1]
  BY DEF Apart
<1>3. j \in DOMAIN sent[Peer(r)]
  BY DEF TypeOK
<1>4. /\ st'[r].dhRemote = st[r].dhRemote /\ st'[r].chainRecv = st[r].chainRecv
      /\ st'[r].skipped = st[r].skipped
  BY <1>1 DEF Put, Writes
<1>5. /\ sent'[Peer(r)][i] = sent[Peer(r)][i] /\ sent'[Peer(r)][j] = sent[Peer(r)][j]
      /\ i \in DOMAIN sent'[Peer(r)]
  BY <1>1, <1>3 DEF Put
<1>6. inbox' = inbox /\ refused' = refused
  BY DEF Put
<1> QED
  BY <1>2, <1>4, <1>5, <1>6 DEF Apart

\* What overtook the carrier of a ciphertext keeps having overtaken it.
LEMMA GetApart ==
  ASSUME TypeOK, SealInv, TurnInv,
         NEW p \in Party, NEW i \in wire[p], NEW u \in State, Get(p, i, u),
         NEW r \in Party, Apart(r)
  PROVE  Apart(r)'
<1>1. Peer(p) \in Party /\ Peer(Peer(p)) = p /\ Peer(p) # p /\ (r = p \/ r = Peer(p))
  BY Parties
<1>2. PICK k \in DOMAIN sent[Peer(r)] \ Range(inbox[r]), j \in refused[r] :
        LET z == sent[Peer(r)][k]
        IN /\ z.ct # 0 /\ j # k /\ sent[Peer(r)][j].dh = z.dh
           /\ z.dh <= st[r].dhRemote
           /\ z.dh = st[r].dhRemote => st[r].chainRecv # z.key[1]
           /\ \A e \in st[r].skipped : e.dh = z.dh => e.key[1] # z.key[1]
  BY DEF Apart
<1> DEFINE z == sent[Peer(r)][k]
<1>3. sent' = sent
  BY DEF Get
<1>4. CASE r = Peer(p)
  <2>1. st'[r] = st[r] /\ inbox'[r] = inbox[r] /\ refused'[r] = refused[r]
    BY <1>4, GetMarks DEF Get
  <2> QED
    BY <1>2, <1>3, <2>1 DEF Apart
<1>5. CASE r = p
  <2> DEFINE s == st[p]
             m == sent[Peer(p)][i]
  <2>1. /\ st'[p] = u /\ Stores(s, u, m) /\ Numbered(Peer(p))
        /\ OnSameChain(s, u, m) \/ OnNextChain(p, s, u, m)
    BY <1>1 DEF Get, Got, TurnInv
  <2>2. s.dhRemote \in Nat /\ z.dh \in Nat
    BY <1>1, <1>2, <1>5, Fields
  <2>3. \/ u.dhRemote = s.dhRemote /\ u.chainRecv = s.chainRecv
        \/ u.dhRemote = s.dhRemote + 1
    <3>1. OnNextChain(p, s, u, m) => u.dhRemote = s.dhRemote + 1
      BY GetNext
    <3> QED
      BY <2>1, <3>1 DEF OnSameChain, SameReceiving
  <2> HIDE DEF s, m, z
  <2>4. /\ z.dh <= u.dhRemote
        /\ z.dh = u.dhRemote => u.chainRecv # z.key[1]
        /\ \A e \in u.skipped : e.dh = z.dh => e.key[1] # z.key[1]
    <3>1. /\ z.dh <= s.dhRemote
          /\ z.dh = s.dhRemote => s.chainRecv # z.key[1]
          /\ \A e \in s.skipped : e.dh = z.dh => e.key[1] # z.key[1]
      BY <1>2, <1>5 DEF s, z
    <3>2. z.dh <= u.dhRemote /\ (z.dh = u.dhRemote => u.chainRecv # z.key[1])
      BY <2>2, <2>3, <3>1
    <3> QED
      BY <2>1, <3>1, <3>2 DEF Stores
  <2>5. k \notin Range(inbox'[p]) /\ j \in refused'[p]
    <3>1. Tries(s, u, m, m.key) => k # i
      <4>1. CASE \E e \in s.skipped : e.dh = m.dh /\ e.n = m.n /\ e.key = m.key
        BY <1>2, <1>5, <4>1 DEF s, m, z
      <4>2. CASE m.dh = u.dhRemote /\ m.key = <<u.chainRecv, m.n>>
        BY <1>5, <2>4, <4>2 DEF m, z
      <4> QED
        BY <4>1, <4>2 DEF Tries
    <3>2. \/ Range(inbox'[p]) = Range(inbox[p]) /\ refused'[p] = refused[p] \cup {i}
          \/ /\ Range(inbox'[p]) = Range(inbox[p]) \cup {i} /\ refused'[p] = refused[p]
             /\ Tries(s, u, m, m.key)
      BY GetMarks DEF s, m
    <3> QED
      BY <1>2, <1>5, <3>1, <3>2
  <2> QED
    BY <1>2, <1>3, <1>5, <2>1, <2>4, <2>5 DEF Apart, z
<1> QED
  BY <1>1, <1>4, <1>5

-----------------------------------------------------------------------------
(* The theorem on agreement.                                               *)

\* The two ends start out from the secret of the handshake.
LEMMA InitSync == Init => SyncInv
<1> SUFFICES ASSUME Init PROVE SyncInv
  OBVIOUS
<1>1. /\ Party = {Alice, Bob} /\ Peer(Alice) = Bob /\ Peer(Bob) = Alice /\ Alice # Bob
      /\ st[Alice] = InitAlice /\ st[Bob] = InitBob
      /\ \A p \in Party : sent[p] = <<>> /\ inbox[p] = <<>>
  BY InitStates
<1>2. /\ st[Alice].dhSelf = 1 /\ st[Alice].dhRemote = 1 /\ st[Alice].skipped = {}
      /\ st[Alice].root = RootKDF(<<>>, DH(Alice, 1, 1), NoSecret)
      /\ st[Alice].chainSend = st[Alice].root /\ st[Alice].chainRecv = <<>>
      /\ st[Bob].dhSelf = 1 /\ st[Bob].dhRemote = 0 /\ st[Bob].skipped = {}
      /\ st[Bob].root = <<>> /\ st[Bob].chainRecv = <<>>
  BY <1>1 DEF InitAlice, InitBob
<1>3. \A p \in Party : Known(p)
  BY <1>1, <1>2 DEF Known, Range
<1>4. Agree(Alice)
  BY <1>1, <1>2 DEF Agree
<1>5. Behind(Bob)
  <2>1. Answer(0) = NoSecret
    BY DEF Answer
  <2>2. DOMAIN sent[Alice] = {}
    BY <1>1
  <2> QED
    BY <1>1, <1>2, <2>1, <2>2 DEF Behind
<1>6. Agree(Bob)
  BY <1>1, <1>2, <1>5 DEF Agree
<1> QED
  BY <1>1, <1>3, <1>4, <1>6 DEF SyncInv

\* Every step keeps agreement, or what parted the two ends.
LEMMA SyncStep ==
  ASSUME IInv, TurnInv, SyncInv, Goes
  PROVE  SyncInv'
<1>1. TypeOK /\ SealInv
  BY DEF IInv
<1>2. ASSUME NEW p \in Party, NEW m \in Message, NEW new \in Nat, Put(p, new, m)
      PROVE  SyncInv'
  <2>1. Peer(p) \in Party /\ \A r \in Party : r = p \/ r = Peer(p)
    BY Parties
  <2>2. CASE \A r \in Party : Agree(r)
    BY <1>1, <1>2, <2>1, <2>2, PutKnown, PutAgrees DEF SyncInv
  <2>3. ASSUME NEW r \in Party, Apart(r)
        PROVE  SyncInv'
    BY <1>1, <1>2, <2>3, PutKnown, PutApart DEF SyncInv
  <2> QED
    BY <2>2, <2>3 DEF SyncInv
<1>3. ASSUME NEW p \in Party, NEW i \in wire[p], NEW u \in State, Get(p, i, u)
      PROVE  SyncInv'
  <2>1. Peer(p) \in Party /\ \A r \in Party : r = p \/ r = Peer(p)
    BY Parties
  <2>2. CASE \A r \in Party : Agree(r)
    BY <1>1, <1>3, <2>1, <2>2, GetKnown, GetAgrees DEF SyncInv
  <2>3. ASSUME NEW r \in Party, Apart(r)
        PROVE  SyncInv'
    BY <1>1, <1>3, <2>3, GetKnown, GetApart DEF SyncInv
  <2> QED
    BY <2>2, <2>3 DEF SyncInv
<1>4. CASE UNCHANGED <<st, sent, inbox, refused>>
  <2>1. \A r \in Party : (Known(r) => Known(r)') /\ (Agree(r) => Agree(r)')
    BY <1>4 DEF Known, Agree, Behind, Range
  <2>2. \A r \in Party : Apart(r) => Apart(r)'
    BY <1>4 DEF Apart, Range
  <2> QED
    BY <2>1, <2>2 DEF SyncInv
<1> QED
  BY <1>2, <1>3, <1>4 DEF Goes

\* SyncInv holds of every reachable state.
THEOREM Synchronous ==
  ASSUME MaxDups = 0
  PROVE  Spec => []SyncInv
<1>1. Init => SyncInv
  BY InitSync
<1>2. IInv /\ TurnInv /\ SyncInv /\ [Next]_vars => SyncInv'
  BY Steps, SyncStep
<1> QED
  BY <1>1, <1>2, Invariance, TurnsTaken, PTL DEF Spec

\* The ends of a session part only when the message that carries a ciphertext
\* is overtaken: as long as no message of its chain arrives before it, a party
\* that knows its peer's chain derives the peer's chain key, through every
\* change of chain and injection, whatever is lost or reordered.
THEOREM PartOnlyByOvertaking ==
  ASSUME MaxDups = 0
  PROVE  Spec => []DesyncOnlyByOvertakenCT
<1>1. (\A p \in Party : Agree(p)) => InSync
  BY Zenon DEF Agree, InSync
<1>2. ASSUME NEW p \in Party, Apart(p)
      PROVE  OvertakenCT(p)
  BY <1>2 DEF Apart, OvertakenCT
<1>3. SyncInv => DesyncOnlyByOvertakenCT
  BY <1>1, <1>2 DEF SyncInv, DesyncOnlyByOvertakenCT
<1> QED
  BY <1>3, Synchronous, PTL

-----------------------------------------------------------------------------
(* Order kept: what the loss of messages alone can do.                     *)

\* The headers of p's messages list every number of each chain in turn, up to
\* the ones p's State counts.
Listed(p) ==
  LET l == sent[p]
      s == st[p]
  IN /\ \A n \in Nat : n < s.nSend => \E k \in DOMAIN l : l[k].dh = s.dhSelf /\ l[k].n = n
     /\ \A n \in Nat : n < s.pn => \E k \in DOMAIN l : l[k].dh + 1 = s.dhSelf /\ l[k].n = n
     /\ \A i \in DOMAIN l :
          LET m == l[i]
          IN /\ m.dh = s.dhSelf => m.pn = s.pn
             /\ \A n \in Nat : n < m.n => \E k \in DOMAIN l : k < i /\ l[k].dh = m.dh /\ l[k].n = n
             /\ \A n \in Nat : n < m.pn =>
                  \E k \in DOMAIN l : k < i /\ l[k].dh + 1 = m.dh /\ l[k].n = n
     /\ \A i, j \in DOMAIN l :
          /\ l[i].dh = l[j].dh => l[i].pn = l[j].pn
          /\ i < j => l[i].dh <= l[j].dh /\ (l[i].dh = l[j].dh => l[i].n < l[j].n)

\* What DecryptMessage was called with, and what will never reach it.
Handled(p) == Range(inbox[p]) \cup refused[p]
Gone(p) == DOMAIN sent[Peer(p)] \ (wire[p] \cup Handled(p))

InOrder(p) == \A i \in wire[p], j \in Handled(p) : j < i

\* What was read is behind p's State, and what was refused is, or is so far
\* ahead of it that all that follows is, too.
LeftBehind(p) ==
  \A j \in Handled(p) :
    LET m == sent[Peer(p)][j]
        s == st[p]
    IN \/ m.dh < s.dhRemote
       \/ m.dh = s.dhRemote /\ (m.n < s.nRecv \/ m.n > s.nRecv + MaxSkip)
       \/ m.dh > s.dhRemote /\ s.chainRecv # <<>> /\ m.pn > s.nRecv + MaxSkip

\* p stores keys only for messages that will never reach it.
OnlyGone(p) ==
  \A e \in st[p].skipped : \E i \in Gone(p) :
    sent[Peer(p)][i].dh = e.dh /\ sent[Peer(p)][i].n = e.n

\* A party without a session has no receiving chain and has offered no key.
Opened(p) ==
  st[p].dhRemote = 0 => st[p].chainRecv = <<>> /\ st[p].pendingKEM = 0

LossInv == \A p \in Party : Listed(p) /\ InOrder(p) /\ LeftBehind(p) /\ OnlyGone(p) /\ Opened(p)

\* Encrypting lists the next number.
LEMMA PutListed ==
  ASSUME TypeOK, SealInv, NEW p \in Party, Numbered(p), Listed(p),
         NEW m \in Message, NEW new \in Nat, Put(p, new, m)
  PROVE  Listed(p)'
<1> DEFINE s == st[p]
           u == st'[p]
           l == sent[p]
           k == sent'[p]
<1>1. /\ DOMAIN k = DOMAIN l \cup {new} /\ new \notin DOMAIN l
      /\ k[new] = m /\ \A i \in DOMAIN l : k[i] = l[i]
      /\ new = Len(l) + 1 /\ Writes(p, s, u, m)
  BY DEF Put
<1>2. \A i \in DOMAIN l : i \in Nat /\ i < new
  BY <1>1 DEF TypeOK
<1>3. /\ s.dhSelf \in Nat /\ s.nSend \in Nat /\ s.pn \in Nat
      /\ \A i \in DOMAIN l : l[i].dh \in Nat /\ l[i].n \in Nat /\ l[i].pn \in Nat
  BY Fields
<1>4. /\ m.dh = u.dhSelf /\ m.pn = u.pn /\ u.nSend = m.n + 1
      /\ \/ u.dhSelf = s.dhSelf /\ u.pn = s.pn /\ m.n = s.nSend
         \/ u.dhSelf = s.dhSelf + 1 /\ u.pn = s.nSend /\ m.n = 0
  BY <1>1 DEF Writes, WritesOn, WritesNew
<1>5. \A i \in DOMAIN l : l[i].dh <= s.dhSelf /\ (l[i].dh = s.dhSelf => l[i].n < s.nSend)
  BY DEF Numbered
<1>6. /\ \A n \in Nat : n < s.nSend => \E j \in DOMAIN l : l[j].dh = s.dhSelf /\ l[j].n = n
      /\ \A n \in Nat : n < s.pn => \E j \in DOMAIN l : l[j].dh + 1 = s.dhSelf /\ l[j].n = n
      /\ \A i \in DOMAIN l :
           /\ l[i].dh = s.dhSelf => l[i].pn = s.pn
           /\ \A n \in Nat : n < l[i].n =>
                \E j \in DOMAIN l : j < i /\ l[j].dh = l[i].dh /\ l[j].n = n
           /\ \A n \in Nat : n < l[i].pn =>
                \E j \in DOMAIN l : j < i /\ l[j].dh + 1 = l[i].dh /\ l[j].n = n
      /\ \A i, j \in DOMAIN l :
           /\ l[i].dh = l[j].dh => l[i].pn = l[j].pn
           /\ i < j => l[i].dh <= l[j].dh /\ (l[i].dh = l[j].dh => l[i].n < l[j].n)
  BY DEF Listed
<1>7. m.n \in Nat /\ m.pn \in Nat /\ m.dh \in Nat
  BY DEF Message
<1> HIDE DEF s, u, l, k
<1>8. \A n \in Nat : n < m.n => \E j \in DOMAIN l : l[j].dh = m.dh /\ l[j].n = n
  BY <1>3, <1>4, <1>6, <1>7
<1>9. \A n \in Nat : n < m.pn => \E j \in DOMAIN l : l[j].dh + 1 = m.dh /\ l[j].n = n
  BY <1>3, <1>4, <1>6, <1>7
<1>10. \A n \in Nat : n < u.nSend => \E j \in DOMAIN k : k[j].dh = u.dhSelf /\ k[j].n = n
  <2> SUFFICES ASSUME NEW n \in Nat, n < u.nSend
               PROVE  \E j \in DOMAIN k : k[j].dh = u.dhSelf /\ k[j].n = n
    OBVIOUS
  <2>1. CASE n < m.n
    <3>1. PICK j \in DOMAIN l : l[j].dh = m.dh /\ l[j].n = n
      BY <1>8, <2>1
    <3> QED
      BY <1>1, <1>4, <3>1
  <2>2. CASE n = m.n
    BY <1>1, <1>4, <2>2
  <2> QED
    BY <1>4, <1>7, <2>1, <2>2
<1>11. \A n \in Nat : n < u.pn => \E j \in DOMAIN k : k[j].dh + 1 = u.dhSelf /\ k[j].n = n
  <2> SUFFICES ASSUME NEW n \in Nat, n < u.pn
               PROVE  \E j \in DOMAIN k : k[j].dh + 1 = u.dhSelf /\ k[j].n = n
    OBVIOUS
  <2>1. PICK j \in DOMAIN l : l[j].dh + 1 = m.dh /\ l[j].n = n
    BY <1>4, <1>9
  <2> QED
    BY <1>1, <1>4, <2>1
<1>12. ASSUME NEW i \in DOMAIN k
       PROVE  /\ k[i].dh = u.dhSelf => k[i].pn = u.pn
              /\ \A n \in Nat : n < k[i].n =>
                   \E j \in DOMAIN k : j < i /\ k[j].dh = k[i].dh /\ k[j].n = n
              /\ \A n \in Nat : n < k[i].pn =>
                   \E j \in DOMAIN k : j < i /\ k[j].dh + 1 = k[i].dh /\ k[j].n = n
  <2>1. CASE i = new
    <3>1. k[i] = m
      BY <1>1, <2>1
    <3>2. ASSUME NEW n \in Nat, n < m.n
          PROVE  \E j \in DOMAIN k : j < i /\ k[j].dh = m.dh /\ k[j].n = n
      <4>1. PICK j \in DOMAIN l : l[j].dh = m.dh /\ l[j].n = n
        BY <1>8, <3>2
      <4> QED
        BY <1>1, <1>2, <2>1, <4>1
    <3>3. ASSUME NEW n \in Nat, n < m.pn
          PROVE  \E j \in DOMAIN k : j < i /\ k[j].dh + 1 = m.dh /\ k[j].n = n
      <4>1. PICK j \in DOMAIN l : l[j].dh + 1 = m.dh /\ l[j].n = n
        BY <1>9, <3>3
      <4> QED
        BY <1>1, <1>2, <2>1, <4>1
    <3> QED
      BY <1>4, <3>1, <3>2, <3>3
  <2>2. CASE i \in DOMAIN l
    <3>1. k[i] = l[i]
      BY <1>1, <2>2
    <3>2. l[i].dh = u.dhSelf => l[i].pn = u.pn
      BY <1>3, <1>4, <1>5, <1>6, <2>2
    <3>3. ASSUME NEW n \in Nat, n < l[i].n
          PROVE  \E j \in DOMAIN k : j < i /\ k[j].dh = l[i].dh /\ k[j].n = n
      <4>1. PICK j \in DOMAIN l : j < i /\ l[j].dh = l[i].dh /\ l[j].n = n
        BY <1>6, <2>2, <3>3
      <4> QED
        BY <1>1, <4>1
    <3>4. ASSUME NEW n \in Nat, n < l[i].pn
          PROVE  \E j \in DOMAIN k : j < i /\ k[j].dh + 1 = l[i].dh /\ k[j].n = n
      <4>1. PICK j \in DOMAIN l : j < i /\ l[j].dh + 1 = l[i].dh /\ l[j].n = n
        BY <1>6, <2>2, <3>4
      <4> QED
        BY <1>1, <4>1
    <3> QED
      BY <3>1, <3>2, <3>3, <3>4
  <2> QED
    BY <1>1, <2>1, <2>2
<1>13. ASSUME NEW i \in DOMAIN k, NEW j \in DOMAIN k
       PROVE  /\ k[i].dh = k[j].dh => k[i].pn = k[j].pn
              /\ i < j => k[i].dh <= k[j].dh /\ (k[i].dh = k[j].dh => k[i].n < k[j].n)
  <2>1. CASE i \in DOMAIN l /\ j \in DOMAIN l
    BY <1>1, <1>6, <2>1
  <2>2. CASE i \in DOMAIN l /\ j = new
    <3>1. k[i] = l[i] /\ k[j] = m
      BY <1>1, <2>2
    <3>2. l[i].dh <= m.dh /\ (l[i].dh = m.dh => l[i].n < m.n)
      BY <1>3, <1>4, <1>5, <1>7, <2>2
    <3>3. l[i].dh = m.dh => l[i].pn = m.pn
      BY <1>4, <1>12, <2>2, <3>1
    <3> QED
      BY <3>1, <3>2, <3>3
  <2>3. CASE i = new /\ j \in DOMAIN l
    <3>1. k[j] = l[j] /\ k[i] = m /\ ~(i < j)
      BY <1>1, <1>2, <2>3
    <3>2. l[j].dh = m.dh => l[j].pn = m.pn
      BY <1>4, <1>12, <2>3, <3>1
    <3> QED
      BY <3>1, <3>2
  <2>4. CASE i = new /\ j = new
    BY <1>2, <2>4
  <2> QED
    BY <1>1, <2>1, <2>2, <2>3, <2>4
<1> QED
  BY <1>10, <1>11, <1>12, <1>13, Zenon DEF Listed, k, u

\* Encrypting hands nothing over and loses nothing.
LEMMA PutGone ==
  ASSUME TypeOK, NEW p \in Party, NEW m, NEW new, Put(p, new, m), NEW r \in Party
  PROVE  Handled(r)' = Handled(r) /\ Gone(r)' = Gone(r)
<1>1. /\ inbox' = inbox /\ refused' = refused /\ new \notin DOMAIN sent[p]
      /\ \/ r = p /\ wire'[r] = wire[r] /\ DOMAIN sent'[Peer(r)] = DOMAIN sent[Peer(r)]
         \/ /\ Peer(r) = p /\ wire'[r] = wire[r] \cup {new}
            /\ DOMAIN sent'[p] = DOMAIN sent[p] \cup {new}
  BY Parties DEF Put
<1>2. Handled(r)' = Handled(r) /\ Handled(r) \subseteq DOMAIN sent[Peer(r)]
  BY <1>1 DEF Handled, TypeOK
<1> QED
  BY <1>1, <1>2 DEF Gone

\* Encrypting puts a message behind those in flight.
LEMMA PutLoss ==
  ASSUME TypeOK, SealInv, TurnInv, LossInv, NEW p \in Party, NEW m \in Message,
         NEW new \in Nat, Put(p, new, m)
  PROVE  LossInv'
<1> DEFINE q == Peer(p)
<1>1. q \in Party /\ Peer(q) = p /\ q # p /\ \A r \in Party : r = p \/ r = q
  BY Parties
<1>2. /\ st'[q] = st[q] /\ sent'[q] = sent[q] /\ new = Len(sent[p]) + 1
      /\ DOMAIN sent'[p] = DOMAIN sent[p] \cup {new} /\ new \notin DOMAIN sent[p]
      /\ sent'[p][new] = m /\ \A i \in DOMAIN sent[p] : sent'[p][i] = sent[p][i]
      /\ wire'[p] = wire[p] /\ wire'[q] = wire[q] \cup {new}
      /\ inbox' = inbox /\ refused' = refused /\ Writes(p, st[p], st'[p], m)
  BY DEF Put
<1>3. /\ Listed(p) /\ InOrder(p) /\ LeftBehind(p) /\ OnlyGone(p) /\ Opened(p)
      /\ Listed(q) /\ InOrder(q) /\ LeftBehind(q) /\ OnlyGone(q) /\ Opened(q)
      /\ Numbered(p)
  BY <1>1 DEF LossInv, TurnInv
<1>4. Handled(q) \subseteq DOMAIN sent[p] /\ \A i \in DOMAIN sent[p] : i \in Nat /\ i < new
  BY <1>1, <1>2 DEF TypeOK, Handled
<1>5. /\ st'[p].dhRemote = st[p].dhRemote /\ st'[p].nRecv = st[p].nRecv
      /\ st'[p].chainRecv = st[p].chainRecv /\ st'[p].skipped = st[p].skipped
      /\ st[p].dhRemote # 0
  BY <1>2 DEF Writes
<1>6. /\ Handled(p)' = Handled(p) /\ Handled(q)' = Handled(q)
      /\ Gone(p)' = Gone(p) /\ Gone(q)' = Gone(q)
  BY <1>1, PutGone
<1>7. Listed(p)' /\ Listed(q)'
  <2>1. Listed(p)'
    BY <1>3, PutListed
  <2>2. Listed(q)'
    BY <1>2, <1>3 DEF Listed
  <2> QED
    BY <2>1, <2>2
<1>8. InOrder(p)' /\ InOrder(q)'
  BY <1>2, <1>3, <1>4, <1>6 DEF InOrder
<1>9. LeftBehind(p)' /\ LeftBehind(q)'
  BY <1>1, <1>2, <1>3, <1>4, <1>5, <1>6 DEF LeftBehind
<1>10. OnlyGone(p)' /\ OnlyGone(q)'
  BY <1>1, <1>2, <1>3, <1>5, <1>6 DEF OnlyGone, Gone
<1>11. Opened(p)' /\ Opened(q)'
  BY <1>2, <1>3, <1>5 DEF Opened
<1> HIDE DEF q
<1> QED
  BY <1>1, <1>7, <1>8, <1>9, <1>10, <1>11 DEF LossInv

\* A message in flight is not among those whose keys are stored.
LEMMA NotStored ==
  ASSUME TypeOK, SealInv, TurnInv, LossInv, NEW p \in Party, NEW i \in wire[p]
  PROVE  ~Has(st[p], sent[Peer(p)][i].dh, sent[Peer(p)][i].n)
<1> DEFINE q == Peer(p)
           m == sent[q][i]
<1>1. SUFFICES ASSUME Has(st[p], m.dh, m.n) PROVE FALSE
  OBVIOUS
<1>2. q \in Party /\ Numbered(q) /\ OnlyGone(p) /\ i \in DOMAIN sent[q]
  BY Parties, Sent DEF TurnInv, LossInv
<1>3. PICK k \in Gone(p) : sent[q][k].dh = m.dh /\ sent[q][k].n = m.n
  BY <1>1, <1>2 DEF Has, OnlyGone
<1>4. k \in DOMAIN sent[q] /\ k # i
  BY <1>3 DEF Gone
<1> QED
  BY <1>2, <1>3, <1>4, HeadersDiffer

\* A message the next one, i, comes after, and that is not among those read or
\* refused, will never come.
LEMMA BeforeIsGone ==
  ASSUME TypeOK, NEW p \in Party, NEW i \in wire[p], \A k \in wire[p] : i <= k,
         NEW k \in DOMAIN sent[Peer(p)], k < i, k \notin Handled(p)
  PROVE  k \in Gone(p)
<1>1. k \notin wire[p]
  BY DEF TypeOK
<1> QED
  BY <1>1 DEF Gone

\* The number up to which the next message, m, makes p skip on its chain.
SkipLimit(p, m) == IF m.dh = st[p].dhRemote THEN m.n ELSE m.pn

\* What the next message skips on the chain p is on, as far as p accepts to,
\* will never come.
LEMMA SkippedHereGone ==
  ASSUME TypeOK, SealInv, TurnInv, LossInv, NEW p \in Party, NEW i \in wire[p],
         \A k \in wire[p] : i <= k, NEW n \in Nat, st[p].nRecv <= n,
         n < SkipLimit(p, sent[Peer(p)][i]), n <= st[p].nRecv + MaxSkip
  PROVE  \E k \in Gone(p) : sent[Peer(p)][k].dh = st[p].dhRemote /\ sent[Peer(p)][k].n = n
<1> DEFINE q == Peer(p)
           m == sent[q][i]
<1>1. q \in Party /\ Listed(q) /\ LeftBehind(p) /\ i \in DOMAIN sent[q]
  BY Parties, Sent DEF LossInv
<1>2. /\ st[p].nRecv \in Nat /\ st[p].dhRemote \in Nat
      /\ \A k \in DOMAIN sent[q] : sent[q][k].dh \in Nat /\ sent[q][k].n \in Nat
  BY <1>1, Fields
<1>3. PICK k \in DOMAIN sent[q] : k < i /\ sent[q][k].dh = st[p].dhRemote /\ sent[q][k].n = n
  <2>1. CASE m.dh = st[p].dhRemote
    BY <1>1, <2>1 DEF Listed, SkipLimit
  <2>2. CASE m.dh # st[p].dhRemote
    <3>1. m.dh = st[p].dhRemote + 1
      BY <2>2, NotStored, NextChain
    <3>2. PICK k \in DOMAIN sent[q] : k < i /\ sent[q][k].dh + 1 = m.dh /\ sent[q][k].n = n
      BY <1>1, <2>2 DEF Listed, SkipLimit
    <3> QED
      BY <1>2, <3>1, <3>2
  <2> QED
    BY <2>1, <2>2
<1>4. k \notin Handled(p)
  BY <1>1, <1>2, <1>3, RatchetAssumption DEF LeftBehind, RatchetAssumption
<1> QED
  BY <1>3, <1>4, BeforeIsGone

\* What the next message skips of the chain it starts will never come.
LEMMA SkippedThereGone ==
  ASSUME TypeOK, SealInv, TurnInv, LossInv, NEW p \in Party, NEW i \in wire[p],
         \A k \in wire[p] : i <= k, sent[Peer(p)][i].dh # st[p].dhRemote,
         ~GapHere(st[p], sent[Peer(p)][i]), NEW n \in Nat, n < sent[Peer(p)][i].n
  PROVE  \E k \in Gone(p) : sent[Peer(p)][k].dh = sent[Peer(p)][i].dh /\ sent[Peer(p)][k].n = n
<1> DEFINE q == Peer(p)
           m == sent[q][i]
<1>1. q \in Party /\ Listed(q) /\ LeftBehind(p) /\ i \in DOMAIN sent[q]
  BY Parties, Sent DEF LossInv
<1>2. /\ st[p].nRecv \in Nat /\ st[p].dhRemote \in Nat
      /\ \A k \in DOMAIN sent[q] : sent[q][k].dh \in Nat /\ sent[q][k].n \in Nat
  BY <1>1, Fields
<1>3. PICK k \in DOMAIN sent[q] : k < i /\ sent[q][k].dh = m.dh /\ sent[q][k].n = n
  BY <1>1 DEF Listed
<1>4. m.dh = st[p].dhRemote + 1
  BY NotStored, NextChain
<1>5. sent[q][k].pn = m.pn
  BY <1>1, <1>3 DEF Listed
<1>6. k \notin Handled(p)
  BY <1>1, <1>2, <1>3, <1>4, <1>5 DEF LeftBehind, GapHere, SkipTooFar
<1> QED
  BY <1>3, <1>6, BeforeIsGone

\* A call moves its message from those in flight to those handled.
LEMMA GetHandles ==
  ASSUME TypeOK, NEW p \in Party, NEW i \in wire[p], NEW u \in State, Get(p, i, u),
         NEW q \in Party, q = Peer(p)
  PROVE  /\ Handled(p)' = Handled(p) \cup {i} /\ Handled(q)' = Handled(q)
         /\ Gone(p)' = Gone(p) /\ Gone(q)' = Gone(q)
<1>1. Peer(q) = p
  BY Parties
<1>2. Handled(p)' = Handled(p) \cup {i}
  BY GetMarks DEF Handled
<1>3. Handled(q)' = Handled(q)
  BY GetMarks DEF Handled
<1>4. i \in DOMAIN sent[q] /\ sent' = sent /\ wire'[p] = wire[p] \ {i} /\ wire'[q] = wire[q]
  BY Sent DEF Get
<1> QED
  BY <1>1, <1>2, <1>3, <1>4 DEF Gone

\* Decrypting the next message keeps the invariant.
LEMMA GetLoss ==
  ASSUME "reorder" \notin Faults, TypeOK, SealInv, TurnInv, LossInv,
         NEW p \in Party, NEW i \in wire[p], NEW u \in State, Get(p, i, u)
  PROVE  LossInv'
<1> DEFINE q == Peer(p)
           s == st[p]
           m == sent[q][i]
<1>1. q \in Party /\ Peer(q) = p /\ q # p /\ \A r \in Party : r = p \/ r = q
  BY Parties
<1>2. /\ st'[p] = u /\ st'[q] = st[q] /\ sent' = sent
      /\ wire'[p] = wire[p] \ {i} /\ wire'[q] = wire[q]
      /\ \A k \in wire[p] : i <= k
      /\ SameSending(s, u) /\ Stores(s, u, m) /\ Reaches(s, u, m)
      /\ OnSameChain(s, u, m) \/ OnNextChain(p, s, u, m)
  BY DEF Get, Got
<1>3. /\ Listed(p) /\ InOrder(p) /\ LeftBehind(p) /\ OnlyGone(p) /\ Opened(p)
      /\ Listed(q) /\ InOrder(q) /\ LeftBehind(q) /\ OnlyGone(q) /\ Opened(q)
      /\ Numbered(q)
  BY <1>1 DEF LossInv, TurnInv
<1>4. /\ Handled(p)' = Handled(p) \cup {i} /\ Handled(q)' = Handled(q)
      /\ Gone(p)' = Gone(p) /\ Gone(q)' = Gone(q)
  BY <1>1, GetHandles
<1>5. /\ i \in DOMAIN sent[q] /\ wire[p] \subseteq Nat /\ i \in Nat
      /\ Handled(p) \subseteq DOMAIN sent[q]
      /\ s.dhRemote \in Nat /\ s.nRecv \in Nat /\ u.nRecv \in Nat
      /\ \A k \in DOMAIN sent[q] :
           /\ k \in Nat /\ sent[q][k].dh \in Nat /\ sent[q][k].n \in Nat
           /\ sent[q][k].pn \in Nat /\ sent[q][k].dh <= st[q].dhSelf
  <2>1. i \in DOMAIN sent[q] /\ wire[p] \subseteq Nat /\ Handled(p) \subseteq DOMAIN sent[q]
        /\ \A k \in DOMAIN sent[q] : k \in Nat
    BY <1>1 DEF TypeOK, Handled
  <2>2. \A k \in DOMAIN sent[q] : sent[q][k].dh <= st[q].dhSelf
    BY <1>3 DEF Numbered
  <2>3. u.nRecv \in Nat
    BY DEF State
  <2> QED
    BY <1>1, <2>1, <2>2, <2>3, Fields
<1>6. ~Has(s, m.dh, m.n)
  BY NotStored
<1>7. m.dh # s.dhRemote => m.dh = s.dhRemote + 1 /\ st[q].dhSelf = m.dh
  BY <1>6, NextChain
<1>8. \/ GapHere(s, m) /\ u = s
      \/ /\ ~GapHere(s, m) /\ u.dhRemote = m.dh
         /\ u.nRecv = m.n + 1 \/ (u.nRecv = 0 /\ GapThere(s, m))
  BY <1>2, <1>6 DEF Reaches
<1>9. Listed(p)' /\ Listed(q)'
  BY <1>2, <1>3 DEF Listed, SameSending
<1>10. InOrder(p)' /\ InOrder(q)'
  <2>1. ASSUME NEW a \in wire'[p], NEW b \in Handled(p) \cup {i}
        PROVE  b < a
    <3>1. a \in wire[p] /\ a # i /\ i <= a /\ a \in Nat
      BY <1>2, <1>5
    <3>2. CASE b = i
      BY <1>5, <3>1, <3>2
    <3>3. CASE b \in Handled(p)
      BY <1>3, <3>1, <3>3 DEF InOrder
    <3> QED
      BY <3>2, <3>3
  <2> QED
    BY <1>2, <1>3, <1>4, <2>1 DEF InOrder
<1>11. ASSUME NEW j \in Handled(p) \cup {i}
       PROVE  LET k == sent[q][j]
              IN \/ k.dh < u.dhRemote
                 \/ k.dh = u.dhRemote /\ (k.n < u.nRecv \/ k.n > u.nRecv + MaxSkip)
                 \/ k.dh > u.dhRemote /\ u.chainRecv # <<>> /\ k.pn > u.nRecv + MaxSkip
  <2> DEFINE k == sent[q][j]
  <2>1. /\ j \in DOMAIN sent[q] /\ k.dh \in Nat /\ k.n \in Nat /\ k.pn \in Nat
        /\ m.dh \in Nat /\ m.n \in Nat /\ m.pn \in Nat
    BY <1>5
  <2>2. j # i => /\ k.dh <= m.dh /\ (k.dh = m.dh => k.n < m.n /\ k.pn = m.pn)
                 /\ \/ k.dh < s.dhRemote
                    \/ k.dh = s.dhRemote /\ (k.n < s.nRecv \/ k.n > s.nRecv + MaxSkip)
                    \/ k.dh > s.dhRemote /\ s.chainRecv # <<>> /\ k.pn > s.nRecv + MaxSkip
    <3>1. j # i => j < i
      BY <1>3 DEF InOrder
    <3> QED
      BY <1>3, <1>5, <2>1, <3>1 DEF Listed, LeftBehind
  <2> HIDE DEF k, m, s
  <2>3. CASE GapHere(s, m) /\ u = s
    <3>1. s.chainRecv # <<>> /\ (IF m.dh = s.dhRemote THEN m.n ELSE m.pn) > s.nRecv + MaxSkip
      BY <2>3 DEF GapHere, SkipTooFar
    <3>2. CASE j = i
      BY <1>5, <1>7, <2>1, <2>3, <3>1, <3>2 DEF k, m
    <3> QED
      BY <2>2, <2>3, <3>2 DEF k
  <2>4. CASE ~GapHere(s, m) /\ u.dhRemote = m.dh /\ u.nRecv = m.n + 1
    <3>1. j = i => k = m
      BY DEF k, m
    <3> QED
      BY <2>1, <2>2, <2>4, <3>1 DEF k
  <2>5. CASE ~GapHere(s, m) /\ u.dhRemote = m.dh /\ u.nRecv = 0 /\ GapThere(s, m)
    <3>1. m.dh = s.dhRemote + 1 /\ m.n > MaxSkip
      BY <1>7, <2>5 DEF GapThere
    <3>2. j = i => k = m
      BY DEF k, m
    <3>3. CASE j # i /\ k.dh = m.dh
      <4>1. s.chainRecv # <<>> /\ m.pn > s.nRecv + MaxSkip
        BY <1>5, <2>1, <2>2, <3>1, <3>3
      <4> QED
        BY <1>5, <2>5, <3>1, <4>1 DEF GapHere, SkipTooFar
    <3> QED
      BY <2>1, <2>2, <2>5, <3>1, <3>2, <3>3, RatchetAssumption DEF RatchetAssumption, k
  <2> QED
    BY <1>8, <2>3, <2>4, <2>5 DEF k
<1>12. LeftBehind(p)' /\ LeftBehind(q)'
  <2>1. LeftBehind(p)'
    BY <1>2, <1>4, <1>11 DEF LeftBehind
  <2>2. LeftBehind(q)'
    BY <1>2, <1>3, <1>4 DEF LeftBehind
  <2> QED
    BY <2>1, <2>2
<1>13. ASSUME NEW e \in u.skipped
       PROVE  \E k \in Gone(p) : sent[q][k].dh = e.dh /\ sent[q][k].n = e.n
  <2>1. e.n \in Nat
    BY DEF State, Entry
  <2>2. CASE e \in s.skipped
    BY <1>3, <2>2 DEF OnlyGone
  <2>3. CASE /\ s.chainRecv # <<>> /\ e.dh = s.dhRemote /\ s.nRecv <= e.n
             /\ e.n < SkipLimit(p, m) /\ e \notin s.skipped
    <3>1. ~GapHere(s, m)
      BY <1>8, <2>3
    <3>2. SkipLimit(p, m) <= s.nRecv + MaxSkip /\ SkipLimit(p, m) \in Nat
      BY <1>5, <2>3, <3>1, RatchetAssumption DEF GapHere, SkipTooFar, SkipLimit, RatchetAssumption
    <3>3. e.n <= s.nRecv + MaxSkip
      BY <1>5, <2>1, <2>3, <3>2, RatchetAssumption DEF RatchetAssumption
    <3> QED
      BY <1>2, <2>1, <2>3, <3>3, SkippedHereGone
  <2>4. CASE /\ m.dh # s.dhRemote /\ e.dh = u.dhRemote /\ e.n < m.n /\ e \notin s.skipped
    <3>1. ~GapHere(s, m) /\ u.dhRemote = m.dh
      BY <1>8, <2>4
    <3> QED
      BY <1>2, <2>1, <2>4, <3>1, SkippedThereGone
  <2> QED
    BY <1>2, <2>2, <2>3, <2>4 DEF Stores, SkipLimit
<1>14. OnlyGone(p)' /\ OnlyGone(q)'
  BY <1>1, <1>2, <1>3, <1>4, <1>13 DEF OnlyGone
<1>15. Opened(p)' /\ Opened(q)'
  <2>1. CASE OnSameChain(s, u, m)
    BY <1>2, <1>3, <2>1 DEF Opened, OnSameChain, SameReceiving
  <2>2. CASE OnNextChain(p, s, u, m)
    <3>1. u.dhRemote = s.dhRemote + 1
      BY <1>7, <2>2 DEF OnNextChain
    <3> QED
      BY <1>2, <1>3, <1>5, <3>1 DEF Opened
  <2> QED
    BY <1>2, <2>1, <2>2
<1> HIDE DEF q, s, m
<1> QED
  BY <1>1, <1>9, <1>10, <1>12, <1>14, <1>15 DEF LossInv

\* Nothing is sent yet.
LEMMA InitLoss == Init => LossInv
<1> SUFFICES ASSUME Init PROVE LossInv
  OBVIOUS
<1>1. /\ Party = {Alice, Bob} /\ Peer(Alice) = Bob /\ Peer(Bob) = Alice /\ Alice # Bob
      /\ st[Alice] = InitAlice /\ st[Bob] = InitBob
      /\ \A p \in Party : /\ sent[p] = <<>> /\ wire[p] = {} /\ inbox[p] = <<>>
                          /\ refused[p] = {}
  BY InitStates
<1>2. \A p \in Party : /\ st[p].nSend = 0 /\ st[p].pn = 0 /\ st[p].skipped = {}
                       /\ st[p].chainRecv = <<>> /\ st[p].pendingKEM = 0
  BY <1>1 DEF InitAlice, InitBob
<1> QED
  BY <1>1, <1>2
     DEF LossInv, Listed, InOrder, LeftBehind, OnlyGone, Opened, Handled, Range

\* A message lost is gone, and that is all.
LEMMA LoseLoss ==
  ASSUME TypeOK, LossInv, UNCHANGED <<st, sent, inbox, refused>>,
         \A p \in Party : wire'[p] \subseteq wire[p], NEW p \in Party
  PROVE  /\ Listed(p)' /\ InOrder(p)' /\ LeftBehind(p)' /\ OnlyGone(p)' /\ Opened(p)'
         /\ Gone(p) \subseteq Gone(p)'
<1>1. Handled(p)' = Handled(p) /\ Gone(p) \subseteq Gone(p)'
  BY DEF Handled, Gone
<1>2. Listed(p) /\ InOrder(p) /\ LeftBehind(p) /\ OnlyGone(p) /\ Opened(p)
  BY DEF LossInv
<1>3. Listed(p)' /\ Opened(p)'
  BY <1>2 DEF Listed, Opened
<1>4. InOrder(p)' /\ LeftBehind(p)'
  BY <1>1, <1>2 DEF InOrder, LeftBehind
<1>5. OnlyGone(p)'
  BY <1>1, <1>2 DEF OnlyGone
<1> QED
  BY <1>1, <1>3, <1>4, <1>5

\* Every step keeps the invariant.
LEMMA LossStep ==
  ASSUME "reorder" \notin Faults, IInv, TurnInv, LossInv, Goes
  PROVE  LossInv'
<1>1. TypeOK /\ SealInv
  BY DEF IInv
<1>2. ASSUME NEW p \in Party, NEW m \in Message, NEW new \in Nat, Put(p, new, m)
      PROVE  LossInv'
  BY <1>1, <1>2, PutLoss
<1>3. ASSUME NEW p \in Party, NEW i \in wire[p], NEW u \in State, Get(p, i, u)
      PROVE  LossInv'
  BY <1>1, <1>3, GetLoss
<1>4. CASE /\ UNCHANGED <<st, sent, inbox, refused>>
           /\ \A p \in Party : wire'[p] \subseteq wire[p]
  BY <1>1, <1>4, LoseLoss DEF LossInv
<1> QED
  BY <1>2, <1>3, <1>4 DEF Goes

\* LossInv holds of every reachable state.
LEMMA LossKept ==
  ASSUME MaxDups = 0, "reorder" \notin Faults
  PROVE  Spec => []LossInv
<1>1. Init => LossInv
  BY InitLoss
<1>2. IInv /\ TurnInv /\ LossInv /\ [Next]_vars => LossInv'
  BY Steps, LossStep
<1> QED
  BY <1>1, <1>2, Invariance, TurnsTaken, PTL DEF Spec

\* Over a network that keeps the order and repeats nothing, the store of
\* skipped keys holds keys of lost messages only: it grows with what is lost,
\* and with nothing else.
THEOREM StoresOnlyGone ==
  ASSUME MaxDups = 0, "reorder" \notin Faults
  PROVE  Spec => [](\A p \in Party : OnlyGone(p))
<1>1. LossInv => \A p \in Party : OnlyGone(p)
  BY DEF LossInv
<1> QED
  BY <1>1, LossKept, PTL

-----------------------------------------------------------------------------
(* What a loss can damage.                                                 *)

\* The carrier of a ciphertext is lost; more messages are than p accepts to
\* skip at a time, in a session that p has.
CTGone(p) == \E i \in Gone(p) : sent[Peer(p)][i].ct # 0
GapGone(p) == st[p].dhRemote # 0 /\ Cardinality(Gone(p)) > MaxSkip
Damaged == \E p \in Party : CTGone(p) \/ GapGone(p)

\* p has refused nothing, and can read all of the chain it is on.
Reading(p) ==
  /\ refused[p] = {}
  /\ st[p].chainRecv # <<>> =>
       \A j \in DOMAIN sent[Peer(p)] :
         sent[Peer(p)][j].dh = st[p].dhRemote => sent[Peer(p)][j].key[1] = st[p].chainRecv

CutInv == Damaged \/ \A p \in Party : Reading(p)

\* There are finitely many messages.
LEMMA GoneFinite ==
  ASSUME TypeOK, NEW p \in Party
  PROVE  IsFiniteSet(Gone(p))
<1>1. sent[Peer(p)] \in Seq(Message)
  BY Parties DEF TypeOK
<1>2. DOMAIN sent[Peer(p)] = 1 .. Len(sent[Peer(p)]) /\ Len(sent[Peer(p)]) \in Int
  BY <1>1
<1>3. IsFiniteSet(DOMAIN sent[Peer(p)])
  BY <1>2, FS_Interval
<1>4. Gone(p) \in SUBSET DOMAIN sent[Peer(p)]
  BY DEF Gone
<1> QED
  BY <1>3, <1>4, FS_Subset

\* One message more than p accepts to skip, of one chain, makes a gap.
LEMMA ManyGone ==
  ASSUME TypeOK, NEW p \in Party, NEW d, NEW lo \in Nat,
         \A n \in lo .. lo + MaxSkip :
           \E k \in Gone(p) : sent[Peer(p)][k].dh = d /\ sent[Peer(p)][k].n = n
  PROVE  Cardinality(Gone(p)) > MaxSkip
<1> DEFINE numbers == lo .. lo + MaxSkip
           f == [n \in numbers |->
                   CHOOSE k \in Gone(p) : sent[Peer(p)][k].dh = d /\ sent[Peer(p)][k].n = n]
<1>1. f \in [numbers -> Gone(p)] /\ \A n \in numbers : sent[Peer(p)][f[n]].n = n
  OBVIOUS
<1>2. IsFiniteSet(numbers) /\ Cardinality(numbers) = MaxSkip + 1
  BY FS_Interval, RatchetAssumption DEF RatchetAssumption
<1>3. IsFiniteSet(Gone(p)) /\ Cardinality(Gone(p)) \in Nat
  BY GoneFinite, FS_CardinalityType
<1> HIDE DEF f, numbers
<1>4. ~(Cardinality(Gone(p)) < Cardinality(numbers))
  <2> SUFFICES ASSUME Cardinality(Gone(p)) < Cardinality(numbers) PROVE FALSE
    OBVIOUS
  <2>1. PICK x \in numbers, y \in numbers : x # y /\ f[x] = f[y]
    BY <1>1, <1>2, <1>3, FS_PigeonHole
  <2> QED
    BY <1>1, <2>1
<1> QED
  BY <1>2, <1>3, <1>4, RatchetAssumption DEF RatchetAssumption

\* What is damaged stays so.
LEMMA DamageStays ==
  ASSUME NEW p \in Party, Gone(p) \subseteq Gone(p)', IsFiniteSet(Gone(p)'),
         \A k \in Gone(p) : sent'[Peer(p)][k] = sent[Peer(p)][k],
         st[p].dhRemote # 0 => st'[p].dhRemote # 0,
         CTGone(p) \/ GapGone(p)
  PROVE  CTGone(p)' \/ GapGone(p)'
<1>1. CASE CTGone(p)
  BY <1>1 DEF CTGone
<1>2. CASE GapGone(p)
  <2>1. Cardinality(Gone(p)) <= Cardinality(Gone(p)')
    BY FS_Subset
  <2>2. IsFiniteSet(Gone(p)) /\ Cardinality(Gone(p)) \in Nat /\ Cardinality(Gone(p)') \in Nat
    BY FS_Subset, FS_CardinalityType
  <2>3. Cardinality(Gone(p)') > MaxSkip
    BY <1>2, <2>1, <2>2, RatchetAssumption DEF GapGone, RatchetAssumption
  <2> QED
    BY <1>2, <2>3 DEF GapGone
<1> QED
  BY <1>1, <1>2

\* Where nothing was refused the two ends agree.
LEMMA ReadingAgrees ==
  ASSUME SyncInv, \A p \in Party : refused[p] = {}
  PROVE  (\A p \in Party : Agree(p)) /\ InSync
<1>1. \A p \in Party : ~Apart(p)
  BY DEF Apart
<1>2. \A p \in Party : Agree(p)
  BY <1>1 DEF SyncInv
<1> QED
  BY <1>2, Zenon DEF Agree, InSync


\* Encrypting puts messages on a chain only with the chain's key.
LEMMA PutReads ==
  ASSUME TypeOK, SealInv, SyncInv, \A r \in Party : Reading(r),
         NEW p \in Party, NEW m \in Message, NEW new \in Nat, Put(p, new, m)
  PROVE  \A r \in Party : Reading(r)'
<1> DEFINE q == Peer(p)
           s == st[p]
           u == st'[p]
           t == st[q]
<1>1. q \in Party /\ Peer(q) = p /\ q # p /\ \A r \in Party : r = p \/ r = q
  BY Parties
<1>2. /\ st'[q] = t /\ sent'[q] = sent[q] /\ refused' = refused
      /\ DOMAIN sent'[p] = DOMAIN sent[p] \cup {new}
      /\ sent'[p][new] = m /\ \A i \in DOMAIN sent[p] : sent'[p][i] = sent[p][i]
      /\ Writes(p, s, u, m)
  BY DEF Put
<1>3. Reading(p) /\ Reading(q) /\ Agree(q)
  BY <1>1, ReadingAgrees DEF Reading
<1>4. Reading(p)'
  BY <1>2, <1>3 DEF Reading, Writes
<1>5. t.chainRecv # <<>> /\ m.dh = t.dhRemote => m.key[1] = t.chainRecv
  <2>1. m.dh = u.dhSelf /\ m.key[1] = u.chainSend
        /\ \/ u.dhSelf = s.dhSelf /\ u.chainSend = s.chainSend
           \/ u.dhSelf = s.dhSelf + 1
    BY <1>2 DEF Writes, WritesOn, WritesNew
  <2>2. t.dhRemote <= s.dhSelf /\ t.dhRemote \in Nat /\ s.dhSelf \in Nat
    BY <1>1, Fields DEF SealInv, Heard
  <2>3. t.dhRemote = s.dhSelf => t.chainRecv \in {<<>>, s.chainSend}
    BY <1>1, <1>3 DEF Agree
  <2> QED
    BY <2>1, <2>2, <2>3
<1>6. Reading(q)'
  BY <1>1, <1>2, <1>3, <1>5 DEF Reading
<1> HIDE DEF q
<1> QED
  BY <1>1, <1>4, <1>6

\* If p has refused nothing before and the gap that i leaves is small, nor has
\* it lost a ciphertext, p opens i.
LEMMA GetReads ==
  ASSUME "reorder" \notin Faults, TypeOK, SealInv, TurnInv, SyncInv, LossInv,
         \A r \in Party : Reading(r),
         NEW p \in Party, NEW i \in wire[p], NEW u \in State, Get(p, i, u),
         ~CTGone(p)', ~GapGone(p)'
  PROVE  /\ \A r \in Party : Reading(r)'
         /\ inbox'[p] = Append(inbox[p], i) /\ inbox'[Peer(p)] = inbox[Peer(p)]
<1> DEFINE q == Peer(p)
           s == st[p]
           t == st[q]
           m == sent[q][i]
<1>1. q \in Party /\ Peer(q) = p /\ q # p /\ \A r \in Party : r = p \/ r = q
  BY Parties
<1>2. /\ st'[p] = u /\ st'[q] = t /\ sent' = sent
      /\ \A k \in wire[p] : i <= k
      /\ SameSending(s, u) /\ Reaches(s, u, m)
      /\ OnSameChain(s, u, m) \/ OnNextChain(p, s, u, m)
  BY DEF Get, Got
<1>3. /\ i \in DOMAIN sent[q] /\ s.dhRemote \in Nat /\ s.nRecv \in Nat
      /\ m.dh \in Nat /\ m.n \in Nat /\ m.pn \in Nat
      /\ m.key \in Chain \X Nat
  <2>1. i \in DOMAIN sent[q] /\ m \in Message
    BY Sent
  <2> HIDE DEF m
  <2>2. m.dh \in Nat /\ m.n \in Nat /\ m.pn \in Nat /\ m.key \in Chain \X Nat
    BY <2>1 DEF Message, Key
  <2> QED
    BY <2>1, <2>2, Fields
<1>4. /\ Numbered(q) /\ Begun(p) /\ Opened(p) /\ Reading(p) /\ Reading(q)
      /\ Agree(p) /\ Agree(q) /\ Known(p)
  BY <1>1, ReadingAgrees DEF TurnInv, LossInv, Reading, SyncInv
<1>5. Gone(p)' = Gone(p) /\ Cardinality(Gone(p)') = Cardinality(Gone(p))
  BY <1>1, GetHandles
<1>6. ~Has(s, m.dh, m.n)
  BY NotStored
<1>7. m.dh # s.dhRemote => m.dh = s.dhRemote + 1 /\ t.dhSelf = m.dh
  BY <1>6, NextChain
<1>8. ~GapHere(s, m)
  <2> SUFFICES ASSUME GapHere(s, m) PROVE FALSE
    OBVIOUS
  <2>1. s.chainRecv # <<>> /\ SkipLimit(p, m) > s.nRecv + MaxSkip
    BY DEF GapHere, SkipTooFar, SkipLimit
  <2>2. u.dhRemote = s.dhRemote
    BY <1>2, <1>6 DEF Reaches
  <2>3. ASSUME NEW n \in s.nRecv .. s.nRecv + MaxSkip
        PROVE  \E k \in Gone(p) : sent[q][k].dh = s.dhRemote /\ sent[q][k].n = n
    <3>1. /\ n \in Nat /\ s.nRecv <= n /\ n <= s.nRecv + MaxSkip
          /\ n < SkipLimit(p, m)
      BY <1>3, <2>1, RatchetAssumption DEF RatchetAssumption, SkipLimit
    <3> QED
      BY <1>2, <3>1, SkippedHereGone
  <2>4. Cardinality(Gone(p)) > MaxSkip
    BY <1>3, <2>3, ManyGone
  <2> QED
    BY <1>2, <1>4, <1>5, <2>1, <2>2, <2>4 DEF GapGone, Opened
<1>9. ~GapThere(s, m)
  <2> SUFFICES ASSUME GapThere(s, m) PROVE FALSE
    OBVIOUS
  <2>1. m.dh # s.dhRemote /\ m.n > MaxSkip
    BY DEF GapThere
  <2>2. u.dhRemote = m.dh /\ m.dh # 0
    BY <1>2, <1>3, <1>6, <1>7, <1>8, <2>1 DEF Reaches
  <2>3. ASSUME NEW n \in 0 .. 0 + MaxSkip
        PROVE  \E k \in Gone(p) : sent[q][k].dh = m.dh /\ sent[q][k].n = n
    <3>1. n \in Nat /\ n < m.n
      BY <1>3, <2>1, RatchetAssumption DEF RatchetAssumption
    <3> QED
      BY <1>2, <1>8, <2>1, <3>1, SkippedThereGone
  <2>4. Cardinality(Gone(p)) > MaxSkip
    <3> DEFINE d == m.dh
    <3>1. \A n \in 0 .. 0 + MaxSkip :
            \E k \in Gone(p) : sent[q][k].dh = d /\ sent[q][k].n = n
      BY <2>3
    <3>2. 0 \in Nat
      OBVIOUS
    <3> HIDE DEF d
    <3> QED
      BY <3>1, <3>2, ManyGone
  <2> QED
    BY <1>2, <1>5, <2>2, <2>4 DEF GapGone
<1>10. u.dhRemote = m.dh /\ u.nRecv = m.n + 1
  BY <1>2, <1>6, <1>8, <1>9 DEF Reaches
<1>11. u.chainRecv = m.key[1]
  <2>1. CASE OnSameChain(s, u, m)
    <3>1. u.dhRemote = s.dhRemote /\ u.chainRecv = s.chainRecv
      BY <2>1 DEF OnSameChain, SameReceiving
    <3>2. s.chainRecv # <<>>
      <4>1. s.chainRecv = <<>> => s.dhRemote < m.dh
        BY <1>3, <1>4 DEF Begun
      <4>2. s.dhRemote = m.dh
        BY <1>10, <3>1
      <4> HIDE DEF s, m
      <4> QED
        BY <1>3, <4>1, <4>2
    <3> QED
      BY <1>3, <1>4, <1>10, <3>1, <3>2 DEF Reading
  <2>2. CASE OnNextChain(p, s, u, m)
    <3>1. m.dh # s.dhRemote /\ u.chainRecv # <<>>
      BY <2>2 DEF OnNextChain
    <3>2. t.dhSelf = m.dh
      BY <1>7, <3>1
    <3>3. refused'[p] \subseteq {i} /\ i \in Handled(p)'
      BY <1>1, <1>4, GetMarks, GetHandles DEF Reading
    <3>4. ~Apart(p)'
      <4> SUFFICES ASSUME NEW k \in DOMAIN sent[q], sent[q][k].ct # 0, k # i,
                          sent[q][k].dh = m.dh
                   PROVE  FALSE
        BY <1>1, <1>2, <3>3 DEF Apart
      <4>1. sent[q][k].n = 0
        BY <1>4 DEF Numbered
      <4>2. m.n # 0
        BY <1>1, <1>3, <1>4, <4>1, HeadersDiffer
      <4>3. PICK j \in Gone(p) : sent[q][j].dh = m.dh /\ sent[q][j].n = 0
        BY <1>2, <1>3, <1>8, <3>1, <4>2, SkippedThereGone
      <4>4. j = k
        BY <1>1, <1>4, <4>1, <4>3, HeadersDiffer DEF Gone
      <4> QED
        BY <1>1, <1>2, <1>5, <4>3, <4>4 DEF CTGone
    <3>5. Agree(p)'
      BY <1>1, <1>4, <3>4, GetAgrees
    <3>6. u.chainRecv \in {<<>>, t.chainSend}
      BY <1>1, <1>2, <1>10, <3>2, <3>5 DEF Agree
    <3>7. m.key[1] = t.chainSend
      BY <1>3, <1>4, <3>2 DEF Numbered
    <3> QED
      BY <3>1, <3>6, <3>7
  <2> QED
    BY <1>2, <2>1, <2>2
<1>12. \A key : Tries(s, u, m, key) => key = m.key
  <2>1. ~\E e \in s.skipped : e.dh = m.dh /\ e.n = m.n
    BY <1>6 DEF Has
  <2>2. m.key[2] = m.n
    BY <1>3, <1>4 DEF Numbered
  <2>3. m.key = <<u.chainRecv, m.n>>
    BY <1>3, <1>11, <2>2
  <2> QED
    BY <2>1, <2>3 DEF Tries
<1>13. /\ inbox'[p] = Append(inbox[p], i) /\ inbox'[q] = inbox[q]
       /\ refused'[p] = refused[p] /\ refused'[q] = refused[q]
  BY <1>8, <1>9, <1>12, GetMarks DEF TooFar
<1>14. \A k \in DOMAIN sent[q] : sent[q][k].dh = u.dhRemote => sent[q][k].key[1] = u.chainRecv
  BY <1>3, <1>4, <1>10, <1>11 DEF Numbered
<1>15. Reading(p)' /\ Reading(q)'
  BY <1>1, <1>2, <1>4, <1>13, <1>14 DEF Reading
<1> HIDE DEF q
<1> QED
  BY <1>1, <1>13, <1>15 DEF q

\* Every step keeps the two ends reading, or damages the session.
LEMMA CutStep ==
  ASSUME "reorder" \notin Faults, IInv, TurnInv, SyncInv, LossInv, CutInv, Goes
  PROVE  CutInv'
<1>1. TypeOK /\ SealInv
  BY DEF IInv
<1>2. ASSUME NEW p \in Party, NEW m \in Message, NEW new \in Nat, Put(p, new, m)
      PROVE  CutInv'
  <2>1. CASE \A r \in Party : Reading(r)
    BY <1>1, <1>2, <2>1, PutReads DEF CutInv
  <2>2. ASSUME NEW r \in Party, CTGone(r) \/ GapGone(r)
        PROVE  Damaged'
    <3>1. /\ \A k \in DOMAIN sent[Peer(r)] : sent'[Peer(r)][k] = sent[Peer(r)][k]
          /\ st'[r].dhRemote = st[r].dhRemote
      BY <1>2, Parties DEF Put, Writes
    <3>2. Gone(r)' = Gone(r)
      BY <1>1, <1>2, PutGone
    <3>3. IsFiniteSet(Gone(r)') /\ \A k \in Gone(r) : sent'[Peer(r)][k] = sent[Peer(r)][k]
      BY <1>1, <3>1, <3>2, GoneFinite DEF Gone
    <3> QED
      BY <2>2, <3>1, <3>2, <3>3, DamageStays DEF Damaged
  <2> QED
    BY <2>1, <2>2 DEF CutInv, Damaged
<1>3. ASSUME NEW p \in Party, NEW i \in wire[p], NEW u \in State, Get(p, i, u)
      PROVE  CutInv'
  <2>1. CASE \A r \in Party : Reading(r)
    BY <1>1, <1>3, <2>1, GetReads DEF CutInv, Damaged
  <2>2. ASSUME NEW r \in Party, CTGone(r) \/ GapGone(r)
        PROVE  Damaged'
    <3>1. Gone(r)' = Gone(r) /\ sent' = sent
      BY <1>1, <1>3, Parties, GetHandles DEF Get
    <3>2. st[r].dhRemote # 0 => st'[r].dhRemote # 0
      <4>1. CASE r = Peer(p)
        BY <1>3, <4>1 DEF Get
      <4>2. CASE r = p
        <5>1. u.dhRemote = st[p].dhRemote \/ u.dhRemote = st[p].dhRemote + 1
          BY <1>1, <1>3, GetNext DEF Get, Got, OnSameChain, SameReceiving
        <5> QED
          BY <1>1, <1>3, <4>2, <5>1, Fields DEF Get
      <4> QED
        BY <4>1, <4>2, Parties
    <3>3. IsFiniteSet(Gone(r)')
      BY <1>1, <3>1, GoneFinite
    <3> QED
      BY <2>2, <3>1, <3>2, <3>3, DamageStays DEF Damaged
  <2> QED
    BY <2>1, <2>2 DEF CutInv, Damaged
<1>4. CASE /\ UNCHANGED <<st, sent, inbox, refused>>
           /\ \A p \in Party : wire'[p] \subseteq wire[p]
  <2>1. CASE \A r \in Party : Reading(r)
    BY <1>4, <2>1 DEF CutInv, Reading
  <2>2. ASSUME NEW r \in Party, CTGone(r) \/ GapGone(r)
        PROVE  Damaged'
    <3>1. Gone(r) \subseteq Gone(r)'
      BY <1>1, <1>4, LoseLoss
    <3>2. IsFiniteSet(Gone(r)')
      <4>1. IsFiniteSet(DOMAIN sent[Peer(r)])
        <5>1. sent[Peer(r)] \in Seq(Message)
          BY <1>1, Parties DEF TypeOK
        <5>2. DOMAIN sent[Peer(r)] = 1 .. Len(sent[Peer(r)]) /\ Len(sent[Peer(r)]) \in Int
          BY <5>1
        <5> QED
          BY <5>2, FS_Interval
      <4>2. Gone(r)' \in SUBSET DOMAIN sent[Peer(r)]
        BY <1>4 DEF Gone
      <4> QED
        BY <4>1, <4>2, FS_Subset
    <3> QED
      BY <1>4, <2>2, <3>1, <3>2, DamageStays DEF Damaged
  <2> QED
    BY <2>1, <2>2 DEF CutInv, Damaged
<1> QED
  BY <1>2, <1>3, <1>4 DEF Goes

\* The two ends read each other at first.
LEMMA InitCut == Init => CutInv
<1> SUFFICES ASSUME Init PROVE CutInv
  OBVIOUS
<1>1. \A p \in Party : refused[p] = {} /\ st[p].chainRecv = <<>>
  BY InitStates DEF InitAlice, InitBob
<1> QED
  BY <1>1 DEF CutInv, Reading

\* CutInv holds of every reachable state.
LEMMA CutKept ==
  ASSUME MaxDups = 0, "reorder" \notin Faults
  PROVE  Spec => []CutInv
<1>1. Init => CutInv
  BY InitCut
<1>2. IInv /\ TurnInv /\ SyncInv /\ LossInv /\ CutInv /\ [Next]_vars => CutInv'
  BY Steps, CutStep
<1> QED
  BY <1>1, <1>2, Invariance, TurnsTaken, Synchronous, LossKept, PTL DEF Spec

\* Over a network that keeps the order and repeats nothing, the two ends part
\* and DecryptMessage refuses a message only after the carrier of a ciphertext
\* was lost, or more messages to one party than it accepts to skip at a time.
THEOREM DamageOnlyByLoss ==
  ASSUME MaxDups = 0, "reorder" \notin Faults
  PROVE  Spec => [](Damaged \/ (InSync /\ \A p \in Party : refused[p] = {}))
<1>1. SyncInv /\ CutInv => Damaged \/ (InSync /\ \A p \in Party : refused[p] = {})
  BY ReadingAgrees DEF CutInv, Reading
<1> QED
  BY <1>1, Synchronous, CutKept, PTL


-----------------------------------------------------------------------------
(* Nothing lost or reordered: the ordered channel.                         *)

\* Nothing is gone, and what was read was read in turn.
WholeInv == \A p \in Party : Gone(p) = {} /\ \A k \in DOMAIN inbox[p] : inbox[p][k] = k

\* Where nothing is gone nothing that matters is gone, before a step or after.
LEMMA NoneGone ==
  ASSUME NEW p \in Party
  PROVE  /\ Gone(p) = {} => ~CTGone(p) /\ ~GapGone(p)
         /\ Gone(p)' = {} => ~CTGone(p)' /\ ~GapGone(p)'
<1>1. Cardinality({}) = 0 /\ ~(0 > MaxSkip)
  BY FS_EmptySet, RatchetAssumption DEF RatchetAssumption
<1> QED
  BY <1>1 DEF CTGone, GapGone

\* Where nothing is lost nothing is refused.
LEMMA WholeReads ==
  ASSUME CutInv, WholeInv
  PROVE  \A p \in Party : Reading(p) /\ ~CTGone(p) /\ ~GapGone(p)
BY NoneGone DEF CutInv, Damaged, WholeInv

\* The message handed to p is the one after the last it read.
LEMMA NextInTurn ==
  ASSUME "reorder" \notin Faults, TypeOK, LossInv, CutInv, WholeInv,
         NEW p \in Party, NEW i \in wire[p], \A k \in wire[p] : i <= k
  PROVE  i = Len(inbox[p]) + 1
<1> DEFINE q == Peer(p)
           r == Len(inbox[p])
<1>1. /\ inbox[p] \in Seq(Nat) /\ sent[q] \in Seq(Message) /\ i \in DOMAIN sent[q]
      /\ refused[p] = {} /\ InOrder(p) /\ Gone(p) = {}
      /\ \A k \in DOMAIN inbox[p] : inbox[p][k] = k
  BY Parties, Sent, WholeReads DEF TypeOK, LossInv, WholeInv, Reading
<1>2. r \in Nat /\ DOMAIN inbox[p] = 1 .. r
      /\ Len(sent[q]) \in Nat /\ DOMAIN sent[q] = 1 .. Len(sent[q])
  BY <1>1
<1>3. Handled(p) = 1 .. r
  BY <1>1, <1>2 DEF Handled, Range
<1>4. i > r
  BY <1>1, <1>2, <1>3 DEF InOrder
<1>5. i <= r + 1
  <2> SUFFICES ASSUME i > r + 1 PROVE FALSE
    BY <1>1, <1>2
  <2>1. r + 1 \in DOMAIN sent[q] /\ r + 1 \notin Handled(p)
    BY <1>1, <1>2, <1>3
  <2>2. r + 1 \in wire[p]
    BY <1>1, <2>1 DEF Gone
  <2> QED
    BY <1>1, <1>2, <2>2
<1> QED
  BY <1>1, <1>2, <1>4, <1>5

\* Nothing lost, each step keeps the rest in turn.
LEMMA WholeStep ==
  ASSUME Faults = {}, IInv, TurnInv, SyncInv, LossInv, CutInv, WholeInv, Goes
  PROVE  WholeInv'
<1>1. TypeOK /\ SealInv
  BY DEF IInv
<1>2. ASSUME NEW p \in Party, NEW m \in Message, NEW new \in Nat, Put(p, new, m)
      PROVE  WholeInv'
  <2>1. \A r \in Party : Gone(r)' = Gone(r) /\ inbox'[r] = inbox[r]
    BY <1>1, <1>2, PutGone DEF Put
  <2> QED
    BY <2>1 DEF WholeInv
<1>3. ASSUME NEW p \in Party, NEW i \in wire[p], NEW u \in State, Get(p, i, u)
      PROVE  WholeInv'
  <2>1. Gone(p)' = Gone(p) /\ Gone(Peer(p))' = Gone(Peer(p))
    BY <1>1, <1>3, Parties, GetHandles
  <2>2. Gone(p)' = {}
    BY <2>1 DEF WholeInv
  <2>3. /\ inbox'[p] = Append(inbox[p], i) /\ inbox'[Peer(p)] = inbox[Peer(p)]
        /\ i = Len(inbox[p]) + 1
    <3>1. \A k \in wire[p] : i <= k
      BY <1>3 DEF Get
    <3>2. ~CTGone(p)' /\ ~GapGone(p)'
      BY <2>2, NoneGone
    <3> QED
      BY <1>1, <1>3, <3>1, <3>2, WholeReads, GetReads, NextInTurn
  <2>4. \A k \in DOMAIN inbox'[p] : inbox'[p][k] = k
    <3>1. inbox[p] \in Seq(Nat) /\ i \in Nat /\ Len(inbox[p]) \in Nat
          /\ DOMAIN inbox[p] = 1 .. Len(inbox[p])
      BY <1>1, <2>3 DEF TypeOK
    <3>2. /\ DOMAIN inbox'[p] = 1 .. i /\ inbox'[p][i] = i
          /\ \A k \in 1 .. Len(inbox[p]) : inbox'[p][k] = inbox[p][k]
      BY <2>3, <3>1, AppendProperties
    <3> QED
      BY <2>3, <3>1, <3>2 DEF WholeInv
  <2> QED
    BY <2>1, <2>3, <2>4, Parties DEF WholeInv
<1>4. CASE UNCHANGED <<st, sent, inbox, refused, wire>>
  BY <1>4 DEF WholeInv, Gone, Handled
<1> QED
  BY <1>2, <1>3, <1>4 DEF Goes

\* WholeInv holds of every reachable state.
LEMMA WholeKept ==
  ASSUME MaxDups = 0, Faults = {}
  PROVE  Spec => []WholeInv
<1>1. Init => WholeInv
  <2> SUFFICES ASSUME Init PROVE WholeInv
    OBVIOUS
  <2>1. \A p \in Party : sent[p] = <<>> /\ inbox[p] = <<>> /\ Peer(p) \in Party
    BY InitStates, Parties
  <2> QED
    BY <2>1 DEF WholeInv, Gone
<1>2. IInv /\ TurnInv /\ SyncInv /\ LossInv /\ CutInv /\ WholeInv /\ [Next]_vars => WholeInv'
  BY Steps, WholeStep
<1>3. "reorder" \notin Faults
  OBVIOUS
<1>4. Spec => [](IInv /\ TurnInv /\ SyncInv /\ LossInv /\ CutInv)
  BY <1>3, Invariance, TurnsTaken, Synchronous, LossKept, CutKept, PTL
<1> QED
  BY <1>1, <1>2, <1>4, PTL DEF Spec

\* Over a network that keeps the order and neither loses nor repeats anything
\* DecryptMessage never gives an error: no chain, skip or injection is ever
\* out of step, whatever the threshold and the skip window.
THEOREM NothingRefusedInOrder ==
  ASSUME MaxDups = 0, Faults = {}
  PROVE  Spec => [](\A p \in Party : refused[p] = {})
<1>1. CutInv /\ WholeInv => \A p \in Party : refused[p] = {}
  BY WholeReads DEF Reading
<1>2. "reorder" \notin Faults
  OBVIOUS
<1>3. Spec => [](CutInv /\ WholeInv)
  BY <1>2, CutKept, WholeKept, PTL
<1> QED
  BY <1>1, <1>3, PTL

\* Over that network the session implements the ordered channel: the messages
\* come out in the order they went in, none missing.
THEOREM ImplementsOrderedChannel ==
  ASSUME MaxDups = 0, Faults = {}
  PROVE  Spec => InOrderChannel
<1> DEFINE count == [p \in Party |-> Len(sent[Peer(p)])]
<1>1. Init => Ordered!Init
  BY Parties DEF Init, Ordered!Init
<1>2. IInv /\ TurnInv /\ SyncInv /\ LossInv /\ CutInv /\ WholeInv /\ WholeInv' /\ [Next]_vars
        => [Ordered!Next]_(Ordered!vars)
  <2> SUFFICES ASSUME IInv, TurnInv, SyncInv, LossInv, CutInv, WholeInv, WholeInv', [Next]_vars
               PROVE  [Ordered!Next]_(Ordered!vars)
    OBVIOUS
  <2>1. TypeOK /\ SealInv
    BY DEF IInv
  <2>2. ASSUME NEW p \in Party, NEW m \in Message, NEW new \in Nat, Put(p, new, m)
        PROVE  Ordered!Send(Peer(p))
    <3>1. /\ sent'[Peer(p)] = sent[Peer(p)] /\ inbox' = inbox
          /\ Len(sent'[p]) = Len(sent[p]) + 1
      BY <2>2 DEF Put
    <3>2. count' = [count EXCEPT ![Peer(p)] = @ + 1]
      BY <3>1, Parties
    <3> QED
      BY <3>1, <3>2 DEF Ordered!Send
  <2>3. ASSUME NEW p \in Party, NEW i \in wire[p], NEW u \in State, Get(p, i, u)
        PROVE  Ordered!Receive(p)
    <3>1. /\ i = Len(inbox[p]) + 1 /\ inbox'[p] = Append(inbox[p], i)
          /\ inbox'[Peer(p)] = inbox[Peer(p)]
      <4>1. \A k \in wire[p] : i <= k
        BY <2>3 DEF Get
      <4>2. ~CTGone(p)' /\ ~GapGone(p)'
        BY NoneGone DEF WholeInv
      <4> QED
        BY <2>1, <2>3, <4>1, <4>2, WholeReads, GetReads, NextInTurn
    <3>2. i \in 1 .. count[p] /\ count' = count
      <4>1. i \in DOMAIN sent[Peer(p)] /\ sent[Peer(p)] \in Seq(Message)
        BY <2>1, Sent, Parties DEF TypeOK
      <4> QED
        BY <2>3, <4>1 DEF Get
    <3>3. i \notin Range(inbox[p])
      <4>1. \A k \in DOMAIN inbox[p] : inbox[p][k] = k
        BY DEF WholeInv
      <4>2. inbox[p] \in Seq(Nat)
        BY <2>1 DEF TypeOK
      <4> QED
        BY <3>1, <4>1, <4>2 DEF Range
    <3>4. inbox' = [inbox EXCEPT ![p] = Append(@, i)]
      <4>1. inbox' = inbox \/ \E k : inbox' = [inbox EXCEPT ![p] = Append(@, k)]
        BY <2>3 DEF Get, Got, Open, Refuse
      <4>2. inbox \in [Party -> Seq(Nat)]
        BY <2>1 DEF TypeOK
      <4> QED
        BY <3>1, <4>1, <4>2, Parties
    <3> HIDE DEF count
    <3> QED
      BY <3>1, <3>2, <3>3, <3>4, Zenon DEF Ordered!Receive, Ordered!Range, Range, count
  <2>4. CASE UNCHANGED <<st, sent, inbox, refused>>
    BY <2>4 DEF Ordered!vars
  <2> QED
    BY <2>2, <2>3, <2>4, Steps, Parties DEF Ordered!Next, Goes
<1>3. "reorder" \notin Faults
  OBVIOUS
<1>4. Spec => [](IInv /\ TurnInv /\ SyncInv /\ LossInv /\ CutInv /\ WholeInv)
  BY <1>3, Invariance, TurnsTaken, Synchronous, LossKept, CutKept, WholeKept, PTL
<1> QED
  BY <1>1, <1>2, <1>4, PTL DEF Spec, InOrderChannel, Ordered!Spec
=============================================================================
