------------------------------ MODULE Ratchet ------------------------------
(***************************************************************************)
(* The session ratchet of crypto/ratchet, as the two parties of one        *)
(* session run it over a network: Double Ratchet with an ML-KEM-768        *)
(* injection carried by the first message of a sending chain.              *)
(*                                                                         *)
(* Keys are symbolic.  A root or chain key is the sequence of the secrets  *)
(* mixed into it so far, a message key is a chain key with the number of   *)
(* chain steps taken from it, an X25519 or ML-KEM key pair is the serial   *)
(* number its owner generated it under (0 is the nil pointer), and a KDF   *)
(* or an AEAD tells two values apart exactly when they differ.             *)
(***************************************************************************)
EXTENDS Integers, Sequences, FiniteSets, Functions

CONSTANTS
  Alice,             \* the session's initiator
  Bob,               \* its responder
  MessageThreshold,  \* State.MessageThreshold
  TimeDue,           \* the answers time.Since(lastInject) >= TimeThreshold gives
  MaxSkip,           \* MaxSkip
  Faults,            \* what the network does: "loss", "reorder"
  MaxDups,           \* how many deliveries it repeats
  MaxSend            \* bound: how many messages a party encrypts

ASSUME RatchetAssumption ==
  /\ Alice # Bob
  /\ MessageThreshold \in Nat /\ MaxSkip \in Nat
  /\ MaxDups \in Nat /\ MaxSend \in Nat
  /\ TimeDue \subseteq BOOLEAN
  /\ Faults \subseteq {"loss", "reorder"}

Party == {Alice, Bob}
Peer(p) == IF p = Alice THEN Bob ELSE Alice

VARIABLES
  st,       \* st[p]: p's ratchet.State
  sent,     \* sent[p]: the messages p has encrypted, in order
  wire,     \* wire[p]: numbers of the peer's messages in flight to p
  inbox,    \* inbox[p]: numbers of the peer's messages p has decrypted
  refused,  \* refused[p]: numbers of those DecryptMessage gave an error for
  dups      \* deliveries repeated so far

vars == <<st, sent, wire, inbox, refused, dups>>

-----------------------------------------------------------------------------
(* Symbolic keys.                                                          *)

\* X25519 between p's own key pair and the peer's: both sides get the same.
DH(p, own, remote) == [q \in Party |-> IF q = p THEN own ELSE remote]

\* ML-KEM: decapsulating, with the private key numbered priv, a ciphertext
\* made for the key numbered ct.  Encapsulation is the case priv = ct; any
\* other priv yields an unrelated secret and no error.
KEMSecret(priv, ct) == <<priv, ct>>
NoSecret == <<>>

\* rootKDF: what it returns stands for both the root and the chain key.
RootKDF(root, dh, kem) == Append(root, [dh |-> dh, kem |-> kem])

Mix   == [dh : [Party -> Nat], kem : {NoSecret} \cup (Nat \X Nat)]
Chain == Seq(Mix)
Key   == Chain \X Nat
Message == [dh : Nat, pn : Nat, n : Nat, pub : BOOLEAN, ct : Nat, key : Key]

-----------------------------------------------------------------------------
(* Operations on a State.                                                  *)

InitAlice ==
  LET root == RootKDF(<<>>, DH(Alice, 1, 1), NoSecret)
  IN [root |-> root, dhSelf |-> 1, dhRemote |-> 1,
      chainSend |-> root, chainRecv |-> <<>>,
      nSend |-> 0, nRecv |-> 0, pn |-> 0, needsNew |-> FALSE,
      skipped |-> {}, msgs |-> 0, pendingKEM |-> 0, peerKEM |-> 0]

InitBob ==
  [root |-> <<>>, dhSelf |-> 1, dhRemote |-> 0,
   chainSend |-> <<>>, chainRecv |-> <<>>,
   nSend |-> 0, nRecv |-> 0, pn |-> 0, needsNew |-> FALSE,
   skipped |-> {}, msgs |-> 0, pendingKEM |-> 0, peerKEM |-> 0]

InjectionDue(s, late) == s.msgs >= MessageThreshold \/ late

\* The ML-KEM secret a new sending chain mixes in: the answer to the key the
\* peer has advertised, if it has.
AnswerSecret(s) ==
  IF s.peerKEM = 0 THEN NoSecret ELSE KEMSecret(s.peerKEM, s.peerKEM)

\* Mutants of the next definition: the header announces the last number of the
\* previous chain instead of its length; the peer's key is not forgotten once
\* it has been answered.
NewSendingChainLastN(p, s, inject) ==
  LET own  == s.dhSelf + 1
      root == RootKDF(s.root, DH(p, own, s.dhRemote), AnswerSecret(s))
  IN [s EXCEPT !.dhSelf = own, !.root = root, !.chainSend = root,
               !.pn = s.nSend - 1, !.nSend = 0, !.needsNew = FALSE, !.peerKEM = 0,
               !.pendingKEM = IF inject THEN own ELSE @,
               !.msgs = IF inject THEN 0 ELSE @]

NewSendingChainKeepsOffer(p, s, inject) ==
  LET own  == s.dhSelf + 1
      root == RootKDF(s.root, DH(p, own, s.dhRemote), AnswerSecret(s))
  IN [s EXCEPT !.dhSelf = own, !.root = root, !.chainSend = root,
               !.pn = s.nSend, !.nSend = 0, !.needsNew = FALSE,
               !.pendingKEM = IF inject THEN own ELSE @,
               !.msgs = IF inject THEN 0 ELSE @]

\* prepareSendingChain when a new chain is owed: fresh X25519 key, answer to
\* an advertised ML-KEM key if there is one, and a new advertisement if due.
NewSendingChain(p, s, inject) ==
  LET own  == s.dhSelf + 1
      root == RootKDF(s.root, DH(p, own, s.dhRemote), AnswerSecret(s))
  IN [s EXCEPT !.dhSelf = own, !.root = root, !.chainSend = root,
               !.pn = s.nSend, !.nSend = 0, !.needsNew = FALSE, !.peerKEM = 0,
               !.pendingKEM = IF inject THEN own ELSE @,
               !.msgs = IF inject THEN 0 ELSE @]

\* skipMessageKeys(until): its error, and what it does otherwise.
SkipTooFar(s, until) == s.chainRecv # <<>> /\ until > s.nRecv + MaxSkip

\* Mutants: nothing is stored; the key of the message at hand is stored too.
SkippedNothing(s, until) == {}
SkippedNumbersAndOne(s, until) == s.nRecv .. until

SkippedNumbers(s, until) == s.nRecv .. until - 1

SkipTo(s, until) ==
  IF s.chainRecv = <<>> \/ until <= s.nRecv THEN s
  ELSE LET new == SkippedNumbers(s, until)
           kept == {e \in s.skipped : e.dh # s.dhRemote \/ e.n \notin new}
       IN [s EXCEPT !.nRecv = until,
                    !.skipped = kept \cup
                      {[dh |-> s.dhRemote, n |-> i, key |-> <<s.chainRecv, i>>] : i \in new}]

\* takeSkippedKey: the stored key, if any, for the message's header.
Stored(s, m) == {e \in s.skipped : e.dh = m.dh /\ e.n = m.n}

\* Mutant: a header without a ciphertext is refused as well.
UnexpectedNoCT(s, m) == s.pendingKEM = 0

\* dhRatchetStep, past its check for a ciphertext nobody is waiting for.
UnexpectedCT(s, m) == m.ct # 0 /\ s.pendingKEM = 0

\* Mutant: the ciphertext of the header is ignored.
ReceivedNothing(s, m) == NoSecret

ReceivedSecret(s, m) ==
  IF m.ct = 0 THEN NoSecret ELSE KEMSecret(s.pendingKEM, m.ct)

RatchetStep(p, s, m) ==
  LET root == RootKDF(s.root, DH(p, s.dhSelf, m.dh), ReceivedSecret(s, m))
  IN [s EXCEPT !.dhRemote = m.dh, !.root = root, !.chainRecv = root, !.nRecv = 0,
               !.pendingKEM = IF m.ct = 0 THEN @ ELSE 0,
               !.peerKEM = IF m.pub THEN m.dh ELSE @,
               !.needsNew = TRUE]

-----------------------------------------------------------------------------
Init ==
  /\ st = [p \in Party |-> IF p = Alice THEN InitAlice ELSE InitBob]
  /\ sent = [p \in Party |-> <<>>]
  /\ wire = [p \in Party |-> {}]
  /\ inbox = [p \in Party |-> <<>>]
  /\ refused = [p \in Party |-> {}]
  /\ dups = 0

(* EncryptMessage.                                                         *)

\* Mutant: the chain key is not stepped.
StepSendingStays(s) == [s EXCEPT !.msgs = @ + 1]

\* chainStep on the sending chain.
StepSending(s) == [s EXCEPT !.nSend = @ + 1, !.msgs = @ + 1]

\* Seal with the key at the head of s's sending chain and step the chain.
Seal(p, s, pub, ct) ==
  /\ st' = [st EXCEPT ![p] = StepSending(s)]
  /\ sent' = [sent EXCEPT ![p] =
       Append(@, [dh |-> s.dhSelf, pn |-> s.pn, n |-> s.nSend, pub |-> pub,
                  ct |-> ct, key |-> <<s.chainSend, s.nSend>>])]
  /\ wire' = [wire EXCEPT ![Peer(p)] = @ \cup {Len(sent[p]) + 1}]
  /\ UNCHANGED <<inbox, refused, dups>>

\* A party can encrypt once it has a State: from the start for the initiator,
\* after EstablishAsResponder has opened the first message for the responder.
CanEncrypt(p) == st[p].dhRemote # 0 /\ Len(sent[p]) < MaxSend

EncryptOnChain(p) ==
  /\ CanEncrypt(p)
  /\ ~st[p].needsNew
  /\ Seal(p, st[p], FALSE, 0)

EncryptNewChain(p, late) ==
  /\ CanEncrypt(p)
  /\ st[p].needsNew
  /\ LET inject == InjectionDue(st[p], late)
     IN Seal(p, NewSendingChain(p, st[p], inject), inject, st[p].peerKEM)

-----------------------------------------------------------------------------
(* The network: the relay's queue and what happens to it.                  *)

\* Mutant: the queue hands out any message.
DeliverAny(p, i) ==
  /\ i \in wire[p]
  /\ wire' = [wire EXCEPT ![p] = @ \ {i}]
  /\ UNCHANGED dups

\* The network hands p the peer's message number i, perhaps not for the last
\* time.  Without "reorder" it keeps the order in which they were sent.
Deliver(p, i) ==
  /\ i \in wire[p]
  /\ "reorder" \notin Faults => \A k \in wire[p] : i <= k
  /\ \/ /\ wire' = [wire EXCEPT ![p] = @ \ {i}]
        /\ UNCHANGED dups
     \/ /\ dups < MaxDups
        /\ dups' = dups + 1
        /\ UNCHANGED wire

Lose(p, i) ==
  /\ "loss" \in Faults
  /\ wire' = [wire EXCEPT ![p] = @ \ {i}]
  /\ UNCHANGED <<st, sent, inbox, refused, dups>>

(* DecryptMessage.                                                         *)

\* A responder's State exists only once the initiator's first message has
\* been opened by it (EstablishAsResponder).
Ready(p, i) == st[p].dhRemote = 0 => i = 1

\* The rest of a call that ends in aeadOpen with key, in state s: the state
\* stays as it is even when the key does not open the message.
Open(p, i, s, key) ==
  /\ st' = [st EXCEPT ![p] = s]
  /\ IF key = sent[Peer(p)][i].key
     THEN inbox' = [inbox EXCEPT ![p] = Append(@, i)] /\ UNCHANGED refused
     ELSE refused' = [refused EXCEPT ![p] = @ \cup {i}] /\ UNCHANGED inbox
  /\ UNCHANGED sent

\* The rest of a call that returns early with an error, in state s.
Refuse(p, i, s) ==
  /\ st' = [st EXCEPT ![p] = s]
  /\ refused' = [refused EXCEPT ![p] = @ \cup {i}]
  /\ UNCHANGED <<sent, inbox>>

\* skipMessageKeys(hdr.N), chainStep and aeadOpen.
OpenOnChain(p, i, s) ==
  LET m == sent[Peer(p)][i]
      t == SkipTo(s, m.n)
  IN /\ ~SkipTooFar(s, m.n)
     /\ Open(p, i, [t EXCEPT !.nRecv = @ + 1], <<t.chainRecv, t.nRecv>>)

OnChain(p, i) ==
  LET m == sent[Peer(p)][i]
  IN Ready(p, i) /\ Stored(st[p], m) = {} /\ m.dh = st[p].dhRemote

OnNewChain(p, i) ==
  LET m == sent[Peer(p)][i]
  IN Ready(p, i) /\ Stored(st[p], m) = {} /\ m.dh # st[p].dhRemote

\* Mutant: the stored key is not deleted.
DecryptStoredKeeps(p, i) ==
  /\ Deliver(p, i)
  /\ \E e \in Stored(st[p], sent[Peer(p)][i]) : Open(p, i, st[p], e.key)

DecryptStored(p, i) ==
  /\ Deliver(p, i)
  /\ \E e \in Stored(st[p], sent[Peer(p)][i]) :
       Open(p, i, [st[p] EXCEPT !.skipped = @ \ {e}], e.key)

DecryptOnChain(p, i) ==
  /\ Deliver(p, i)
  /\ OnChain(p, i)
  /\ OpenOnChain(p, i, st[p])

DecryptNewChain(p, i) ==
  /\ Deliver(p, i)
  /\ OnNewChain(p, i)
  /\ LET m == sent[Peer(p)][i]
     IN /\ ~SkipTooFar(st[p], m.pn)
        /\ ~UnexpectedCT(st[p], m)
        /\ OpenOnChain(p, i, RatchetStep(p, SkipTo(st[p], m.pn), m))

\* ErrSkipTooLarge on the current chain, for the rest of the previous chain,
\* and at the start of the new one; ErrUnexpectedKEMCT.
RefuseGap(p, i) ==
  /\ Deliver(p, i)
  /\ OnChain(p, i)
  /\ SkipTooFar(st[p], sent[Peer(p)][i].n)
  /\ Refuse(p, i, st[p])

RefusePreviousGap(p, i) ==
  /\ Deliver(p, i)
  /\ OnNewChain(p, i)
  /\ SkipTooFar(st[p], sent[Peer(p)][i].pn)
  /\ Refuse(p, i, st[p])

RefuseUnexpectedCT(p, i) ==
  /\ Deliver(p, i)
  /\ OnNewChain(p, i)
  /\ LET m == sent[Peer(p)][i]
     IN /\ ~SkipTooFar(st[p], m.pn)
        /\ UnexpectedCT(st[p], m)
        /\ Refuse(p, i, SkipTo(st[p], m.pn))

RefuseNewChainGap(p, i) ==
  /\ Deliver(p, i)
  /\ OnNewChain(p, i)
  /\ LET m == sent[Peer(p)][i]
         s == RatchetStep(p, SkipTo(st[p], m.pn), m)
     IN /\ ~SkipTooFar(st[p], m.pn)
        /\ ~UnexpectedCT(st[p], m)
        /\ SkipTooFar(s, m.n)
        /\ Refuse(p, i, s)

Decrypt(p, i) ==
  \/ DecryptStored(p, i)
  \/ DecryptOnChain(p, i)
  \/ DecryptNewChain(p, i)
  \/ RefuseGap(p, i)
  \/ RefusePreviousGap(p, i)
  \/ RefuseUnexpectedCT(p, i)
  \/ RefuseNewChainGap(p, i)

Encrypt(p) == EncryptOnChain(p) \/ \E late \in TimeDue : EncryptNewChain(p, late)

Next ==
  \E p \in Party :
    \/ Encrypt(p)
    \/ \E i \in wire[p] : Decrypt(p, i) \/ Lose(p, i)

Spec == Init /\ [][Next]_vars

\* A client that is online keeps polling the relay and decrypts what it gets.
FairSpec == Spec /\ \A p \in Party : WF_vars(\E i \in wire[p] : Decrypt(p, i))

-----------------------------------------------------------------------------
(* Properties.                                                             *)

Entry == [dh : Nat, n : Nat, key : Key]
State ==
  [root : Chain, dhSelf : Nat, dhRemote : Nat, chainSend : Chain, chainRecv : Chain,
   nSend : Nat, nRecv : Nat, pn : Nat, needsNew : BOOLEAN, skipped : SUBSET Entry,
   msgs : Nat, pendingKEM : Nat, peerKEM : Nat]

\* Every variable has its type, and only messages that were sent are in
\* flight, read or refused.
TypeOK ==
  /\ st \in [Party -> State]
  /\ sent \in [Party -> Seq(Message)]
  /\ wire \in [Party -> SUBSET Nat]
  /\ inbox \in [Party -> Seq(Nat)]
  /\ refused \in [Party -> SUBSET Nat]
  /\ dups \in Nat
  /\ \A p \in Party :
       wire[p] \cup refused[p] \cup Range(inbox[p]) \subseteq DOMAIN sent[Peer(p)]

\* No message key ever seals two messages, whoever sends them: the all-zero
\* AEAD nonce is safe only because of this (crypto/ratchet/aead.go).
SealedOnce ==
  \A p, q \in Party : \A i \in DOMAIN sent[p], j \in DOMAIN sent[q] :
    sent[p][i].key = sent[q][j].key => p = q /\ i = j

\* DecryptMessage hands the application only messages its peer encrypted, each
\* at most once, whatever the network repeats, reorders or loses: the session
\* implements an unordered channel.
AtMostOnce == INSTANCE Channel WITH
  count <- [p \in Party |-> Len(sent[Peer(p)])], got <- inbox, InOrder <- FALSE
AtMostOnceChannel == AtMostOnce!Spec

\* Over a network that keeps the order and loses and repeats nothing, the
\* messages come out in the order they went in, across every change of chain
\* and every injection: the session implements an ordered channel.
Ordered == INSTANCE Channel WITH
  count <- [p \in Party |-> Len(sent[Peer(p)])], got <- inbox, InOrder <- TRUE
InOrderChannel == Ordered!Spec

\* No key of the skipped-key store opens a message that was already read, and
\* no two entries hold the same key: what was read is erased (forward secrecy).
ReadKeysErased ==
  \A p \in Party :
    /\ \A e, f \in st[p].skipped : e.key = f.key => e = f
    /\ \A e \in st[p].skipped, i \in Range(inbox[p]) : e.key # sent[Peer(p)][i].key

\* A party that has ratcheted to the chain its peer is now sending on derived
\* the very chain key the peer uses.
InSync ==
  \A p \in Party :
    LET s == st[p]
        t == st[Peer(p)]
    IN s.chainRecv # <<>> /\ s.dhRemote = t.dhSelf => s.chainRecv = t.chainSend

\* DecryptMessage returns an error only for a message it has already opened.
NothingFreshRefused == \A p \in Party : refused[p] \subseteq Range(inbox[p])

\* A ciphertext is made for the ML-KEM key its receiver still holds, although
\* either side may advertise a new key at every chain it starts.
InjectionsPaired ==
  \A p \in Party :
    st[p].peerKEM # 0 => st[Peer(p)].pendingKEM = st[p].peerKEM

\* The only way out of sync: a party began to receive on a chain with another
\* message j than the one, i, that carries the chain's ML-KEM ciphertext; it
\* refused j and never reads i.
OvertakenCT(p) ==
  \E i \in DOMAIN sent[Peer(p)] \ Range(inbox[p]), j \in refused[p] :
    /\ sent[Peer(p)][i].ct # 0
    /\ j # i /\ sent[Peer(p)][j].dh = sent[Peer(p)][i].dh

DesyncOnlyByOvertakenCT == InSync \/ \E p \in Party : OvertakenCT(p)

\* p will refuse all that is in flight to it or that its peer can ever send:
\* the chain the peer sends on announces more unread messages of the previous
\* one than p accepts to skip, and none of those is still to come.
Stuck(p) ==
  LET t == st[Peer(p)]
  IN /\ t.nSend > 0 /\ st[p].dhRemote # t.dhSelf
     /\ \A i \in wire[p] : sent[Peer(p)][i].dh = t.dhSelf
     /\ SkipTooFar(st[p], t.pn)

\* The two ratchets cannot deadlock: no party ends up refusing everything.
NeverStuck == \A p \in Party : ~Stuck(p)

\* Every message sent is eventually read.
EveryMessageRead ==
  \A p \in Party, i \in 1 .. MaxSend :
    i \in DOMAIN sent[Peer(p)] ~> i \in Range(inbox[p])

\* Lost on the way to p, or waiting for an initial message that was.
Lost(p, i) ==
  \E k \in {1, i} :
    /\ k \in DOMAIN sent[Peer(p)] \ (wire[p] \cup refused[p] \cup Range(inbox[p]))
    /\ k = i \/ ~Ready(p, i)

\* Whatever the order in which messages arrive, whichever are lost, and whoever
\* injects when, each message that arrives is read in the end, unless a
\* ciphertext was overtaken.
ReadUnlessOvertaken ==
  \A p \in Party, i \in 1 .. MaxSend :
    i \in DOMAIN sent[Peer(p)]
      ~> i \in Range(inbox[p]) \/ Lost(p, i) \/ \E q \in Party : OvertakenCT(q)
=============================================================================
