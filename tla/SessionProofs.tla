---------------------------- MODULE SessionProofs ----------------------------
(***************************************************************************)
(* Proofs about Session, for any number of initiators, batches and         *)
(* identities: both ends of a session agree, one-time prekeys are fresh,   *)
(* and only initial messages to what was replaced are refused.             *)
(***************************************************************************)
EXTENDS Session, TLAPS

-----------------------------------------------------------------------------
(* The inductive invariant.                                                *)

\* What the relay has on offer is of the last batch, or a last resort.
DirectoryOK ==
  /\ batches \in 0 .. MaxBatches
  /\ stock \in [{Responder} -> SUBSET Keys]
  /\ spare \in [{Responder} -> 0 .. batches]
  /\ issued \in [{Responder} -> Seq(Keys)]
  /\ \A k \in stock[Responder] : k.batch = batches /\ k.index # Last
  /\ published <= identity

Holds(c) == attempt[c].at \in {"prekey", "sent"}

\* The session key of an initiator, whichever kind of prekey it is made over.
KeyOver(c, peer, prekey) ==
  Combine(c, [initiator |-> c, responder |-> peer, prekey |-> prekey])

\* What c has got is no newer than what there is, and what it holds is not on
\* offer any more.
AttemptOK(c) ==
  /\ attempt[c].at # "start" => attempt[c].peer <= identity
  /\ Holds(c) => attempt[c].prekey.batch <= batches /\ attempt[c].prekey \notin stock[Responder]
  /\ attempt[c].at = "sent" =>
       /\ attempt[c].key = KeyOver(c, attempt[c].peer, attempt[c].prekey)
       /\ signers[attempt[c].prekey.batch] = attempt[c].peer

AttemptsOK == \A c \in Initiator : AttemptOK(c)

OneTimeHeld ==
  \A c, d \in Initiator :
    Holds(c) /\ Holds(d) /\ attempt[c].prekey = attempt[d].prekey /\ attempt[c].prekey.index # Last
    => c = d

\* A message is the one its sender sent.
SentOK(m) ==
  /\ attempt[m.from].at = "sent"
  /\ m = InitialMessage(m.from, attempt[m.from].prekey, attempt[m.from].key)

QueueOK == \A i \in 1 .. Len(queue) : SentOK(queue[i])
InboxOK == \A i \in 1 .. Len(inbox) : SentOK(inbox[i])

SessionsOK ==
  \A s \in sessions :
    attempt[s.with].at = "sent" /\ attempt[s.with].prekey = s.prekey /\ attempt[s.with].key = s.key

IInv ==
  /\ TypeOK /\ DirectoryOK /\ AttemptsOK /\ OneTimeHeld
  /\ QueueOK /\ InboxOK /\ SessionsOK /\ OnlyReplacedAreRefused

-----------------------------------------------------------------------------
(* Types.                                                                  *)

LEMMA LastIs == Last = -1
BY DEF Last, Directory!Last

LEMMA PrekeyIs ==
  ASSUME NEW b, NEW i
  PROVE Prekey(b, i) = [batch |-> b, index |-> i]
BY DEF Prekey, Directory!Prekey

\* The kinds of attempts, apart.
LEMMA AttemptType ==
  ASSUME TypeOK, NEW c \in Initiator
  PROVE /\ attempt[c].at # "start" => attempt[c].peer \in Identities
        /\ Holds(c) => attempt[c].prekey \in Keys
        /\ attempt[c].at = "sent" => attempt[c].key \in SessionKeys
        /\ attempt[c].at \in {"identity", "resort", "failed", "prekey", "sent", "start"}
BY DEF TypeOK, Attempts, Holds

LEMMA InitOK == Init => IInv
<1> SUFFICES ASSUME Init PROVE IInv
  OBVIOUS
<1> USE SessionAssumption DEF Init
<1>1. TypeOK
  BY DEF TypeOK, Directory!Init, Identities, Attempts
<1>2. DirectoryOK
  BY DEF DirectoryOK, Directory!Init
<1>3. AttemptsOK /\ OneTimeHeld /\ SessionsOK /\ OnlyReplacedAreRefused
  BY DEF AttemptsOK, AttemptOK, OneTimeHeld, Holds, SessionsOK, OnlyReplacedAreRefused
<1>4. QueueOK /\ InboxOK
  BY DEF QueueOK, InboxOK
<1> QED
  BY <1>1, <1>2, <1>3, <1>4 DEF IInv

-----------------------------------------------------------------------------
(* Steps that leave every attempt as it is, and replace only keys.         *)

\* An initial message is of the keys it was sent with.
LEMMA Stays ==
  ASSUME UNCHANGED <<attempt, queue, inbox, sessions>>
  PROVE /\ OneTimeHeld => OneTimeHeld'
        /\ QueueOK => QueueOK'
        /\ InboxOK => InboxOK'
        /\ SessionsOK => SessionsOK'
<1>1. OneTimeHeld => OneTimeHeld'
  BY DEF OneTimeHeld, Holds
<1>2. QueueOK => QueueOK'
  BY DEF QueueOK, SentOK, InitialMessage, Encapsulate
<1>3. InboxOK => InboxOK'
  BY DEF InboxOK, SentOK, InitialMessage, Encapsulate
<1>4. SessionsOK => SessionsOK'
  BY DEF SessionsOK
<1> QED
  BY <1>1, <1>2, <1>3, <1>4

LEMMA RotateInv == IInv /\ RotateIdentity => IInv'
<1> SUFFICES ASSUME IInv, RotateIdentity PROVE IInv'
  OBVIOUS
<1> USE DEF RotateIdentity, directory
<1>1. TypeOK'
  BY SessionAssumption DEF IInv, TypeOK, Identities
<1>2. identity \in Nat /\ identity' = identity + 1 /\ published \in Nat
  BY SessionAssumption DEF IInv, TypeOK, Identities
<1>3. DirectoryOK'
  BY <1>2 DEF IInv, DirectoryOK
<1>4. AttemptsOK'
  BY <1>2, AttemptType DEF IInv, AttemptsOK, AttemptOK, Holds, KeyOver, Combine, Identities
<1>5. OnlyReplacedAreRefused'
  BY <1>2, SessionAssumption
     DEF IInv, OnlyReplacedAreRefused, TypeOK, Messages, SessionKeys, Transcripts, Identities
<1> QED
  BY <1>1, <1>3, <1>4, <1>5, Stays DEF IInv

LEMMA PublishIdentityInv == IInv /\ PublishIdentity => IInv'
<1> SUFFICES ASSUME IInv, PublishIdentity PROVE IInv'
  OBVIOUS
<1> USE DEF PublishIdentity, directory
<1>1. TypeOK'
  BY DEF IInv, TypeOK
<1>2. DirectoryOK'
  BY SessionAssumption DEF IInv, DirectoryOK, TypeOK, Identities
<1>3. AttemptsOK' /\ OnlyReplacedAreRefused'
  BY DEF IInv, AttemptsOK, AttemptOK, Holds, KeyOver, Combine, OnlyReplacedAreRefused
<1> QED
  BY <1>1, <1>2, <1>3, Stays DEF IInv

LEMMA PublishInv == IInv /\ PublishPrekeys => IInv'
<1> SUFFICES ASSUME IInv, PublishPrekeys PROVE IInv'
  OBVIOUS
<1> USE DEF PublishPrekeys
<1>1. batches \in 0 .. MaxBatches /\ batches < MaxBatches /\ batches' = batches + 1
      /\ MaxBatch \in Nat /\ MaxBatches \in Nat
  BY SessionAssumption DEF IInv, DirectoryOK, Directory!Publish
<1>2. PICK n \in 0 .. MaxBatch :
        stock' = [stock EXCEPT ![Responder] = {Prekey(batches', i) : i \in 0 .. n - 1}]
  BY DEF Directory!Publish, Prekey
<1>3. PICK b \in {0, batches'} : spare' = [spare EXCEPT ![Responder] = b]
  BY DEF Directory!Publish
<1>4. \A k \in stock'[Responder] : k \in Keys /\ k.batch = batches' /\ k.index # Last
  <2>1. stock'[Responder] = {Prekey(batches', i) : i \in 0 .. n - 1}
    BY <1>2 DEF IInv, DirectoryOK
  <2> QED
    BY <1>1, <2>1, PrekeyIs, LastIs DEF Keys
<1>5. DirectoryOK'
  <2>1. stock' \in [{Responder} -> SUBSET Keys]
    BY <1>2, <1>4 DEF IInv, DirectoryOK
  <2>2. spare' \in [{Responder} -> 0 .. batches']
    BY <1>1, <1>3 DEF IInv, DirectoryOK
  <2>3. issued' \in [{Responder} -> Seq(Keys)]
    BY DEF IInv, DirectoryOK, Directory!Publish
  <2> QED
    BY <1>1, <1>4, <2>1, <2>2, <2>3 DEF IInv, DirectoryOK
<1>6. /\ signers' = Append(signers, identity) /\ signers \in Seq(Identities)
      /\ Len(signers) = batches /\ identity \in Identities
  BY DEF IInv, TypeOK
<1>7. TypeOK'
  <2>1. signers' \in Seq(Identities) /\ Len(signers') = batches'
    BY <1>1, <1>6
  <2> QED
    BY <2>1 DEF IInv, TypeOK
<1>8. AttemptsOK'
  <2> SUFFICES ASSUME NEW c \in Initiator PROVE AttemptOK(c)'
    BY DEF AttemptsOK
  <2>1. AttemptOK(c) /\ attempt' = attempt /\ identity' = identity
    BY DEF IInv, AttemptsOK
  <2>2. CASE ~Holds(c)
    BY <2>1, <2>2 DEF AttemptOK, Holds
  <2>3. CASE Holds(c)
    <3>1. attempt[c].prekey \in Keys /\ attempt[c].prekey.batch \in 1 .. batches
      BY <1>1, <2>1, <2>3, AttemptType DEF IInv, AttemptOK, Keys
    <3>2. attempt[c].prekey.batch <= batches' /\ attempt[c].prekey \notin stock'[Responder]
      BY <1>1, <1>4, <3>1
    <3>3. signers'[attempt[c].prekey.batch] = signers[attempt[c].prekey.batch]
      BY <1>6, <3>1
    <3> QED
      BY <2>1, <3>2, <3>3 DEF AttemptOK, Holds, KeyOver, Combine
  <2> QED
    BY <2>2, <2>3
<1>9. OnlyReplacedAreRefused'
  BY <1>1 DEF IInv, OnlyReplacedAreRefused, TypeOK, Messages, Keys
<1> QED
  BY <1>5, <1>7, <1>8, <1>9, Stays DEF IInv

-----------------------------------------------------------------------------
(* Steps of an initiator.                                                  *)

\* What c had sent when it had sent nothing: no message and no session.
LEMMA NotSentYet ==
  ASSUME TypeOK, QueueOK, InboxOK, SessionsOK, NEW c \in Initiator, attempt[c].at # "sent",
         NEW a, attempt' = [attempt EXCEPT ![c] = a]
  PROVE /\ \A m \in Messages : SentOK(m) => SentOK(m)'
        /\ queue' = queue => QueueOK'
        /\ inbox' = inbox => InboxOK'
        /\ sessions' = sessions => SessionsOK'
<1>1. ASSUME NEW m \in Messages, SentOK(m)
      PROVE  SentOK(m)'
  <2>1. m.from \in Initiator /\ m.from # c
    BY <1>1 DEF Messages, SentOK
  <2>2. attempt'[m.from] = attempt[m.from]
    BY <2>1 DEF TypeOK
  <2> QED
    BY <1>1, <2>2 DEF SentOK, InitialMessage, Encapsulate
<1>2. queue' = queue => QueueOK'
  <2>1. \A i \in 1 .. Len(queue) : queue[i] \in Messages /\ SentOK(queue[i])
    BY DEF TypeOK, QueueOK
  <2> QED
    BY <1>1, <2>1 DEF QueueOK
<1>3. inbox' = inbox => InboxOK'
  <2>1. \A i \in 1 .. Len(inbox) : inbox[i] \in Messages /\ SentOK(inbox[i])
    BY DEF TypeOK, InboxOK
  <2> QED
    BY <1>1, <2>1 DEF InboxOK
<1>4. sessions' = sessions => SessionsOK'
  BY DEF TypeOK, SessionsOK
<1> QED
  BY <1>1, <1>2, <1>3, <1>4

\* A step in which c, that has sent nothing, goes on to a without sending, keeps
\* the invariant when it keeps the directory in order and a is as it should be.
LEMMA GoesOn ==
  ASSUME IInv, NEW c \in Initiator, attempt[c].at # "sent",
         NEW a \in Attempts, attempt' = [attempt EXCEPT ![c] = a], a.at # "sent",
         UNCHANGED <<identity, signers, published, batches, queue, inbox, sessions, refused, purged>>,
         DirectoryOK', stock'[Responder] \subseteq stock[Responder],
         a.at # "start" /\ a.peer <= identity,
         a.at = "prekey" =>
           /\ a.prekey \in Keys /\ a.prekey.batch <= batches /\ a.prekey \notin stock'[Responder]
           /\ a.prekey.index # Last =>
                \A d \in Initiator \ {c} : Holds(d) => attempt[d].prekey # a.prekey
  PROVE IInv'
<1>0. attempt \in [Initiator -> Attempts] /\ attempt'[c] = a
      /\ \A d \in Initiator \ {c} : attempt'[d] = attempt[d]
  BY DEF IInv, TypeOK
<1>1. TypeOK'
  BY <1>0 DEF IInv, TypeOK
<1>2. AttemptsOK'
  <2> SUFFICES ASSUME NEW d \in Initiator PROVE AttemptOK(d)'
    BY DEF AttemptsOK
  <2>1. CASE d = c
    BY <1>0, <2>1 DEF AttemptOK, Holds
  <2>2. CASE d # c
    BY <1>0, <2>2 DEF IInv, AttemptsOK, AttemptOK, Holds, KeyOver, Combine
  <2> QED
    BY <2>1, <2>2
<1>3. OneTimeHeld'
  BY <1>0 DEF IInv, OneTimeHeld, Holds
<1>4. QueueOK' /\ InboxOK' /\ SessionsOK'
  BY NotSentYet DEF IInv
<1>5. OnlyReplacedAreRefused'
  BY DEF IInv, OnlyReplacedAreRefused
<1> QED
  BY <1>1, <1>2, <1>3, <1>4, <1>5 DEF IInv

LEMMA FetchIdentityInv ==
  ASSUME NEW c \in Initiator
  PROVE IInv /\ FetchIdentity(c) => IInv'
<1> SUFFICES ASSUME IInv, FetchIdentity(c) PROVE IInv'
  OBVIOUS
<1> DEFINE a == [at |-> "identity", peer |-> published]
<1>1. a \in Attempts /\ a.peer <= identity
  BY DEF IInv, TypeOK, DirectoryOK, Attempts
<1>2. DirectoryOK' /\ stock' = stock
  BY DEF IInv, FetchIdentity, directory, DirectoryOK
<1> QED
  BY <1>1, <1>2, GoesOn DEF FetchIdentity, directory

LEMMA NoPrekeyInv ==
  ASSUME NEW c \in Initiator
  PROVE IInv /\ (NoPrekey(c) \/ RejectPrekey(c)) => IInv'
<1> SUFFICES ASSUME IInv, NoPrekey(c) \/ RejectPrekey(c) PROVE IInv'
  OBVIOUS
<1> USE DEF NoPrekey, RejectPrekey, directory
<1> DEFINE a == [at |-> "failed", peer |-> attempt[c].peer]
<1>1. attempt[c].at \in {"identity", "resort", "prekey"} /\ attempt' = [attempt EXCEPT ![c] = a]
  OBVIOUS
<1>2. a \in Attempts /\ a.peer <= identity
  BY <1>1, AttemptType DEF IInv, AttemptsOK, AttemptOK, Attempts
<1>3. DirectoryOK' /\ stock' = stock
  BY DEF IInv, DirectoryOK
<1> QED
  BY <1>1, <1>2, <1>3, GoesOn

LEMMA LastResortPrekeyInv ==
  ASSUME NEW c \in Initiator
  PROVE IInv /\ LastResortPrekey(c) => IInv'
<1> SUFFICES ASSUME IInv, LastResortPrekey(c) PROVE IInv'
  OBVIOUS
<1> USE DEF LastResortPrekey, directory
<1> DEFINE k == Prekey(spare[Responder], Last)
           a == [at |-> "prekey", peer |-> attempt[c].peer, prekey |-> k]
<1>1. spare[Responder] \in 1 .. batches /\ batches \in 1 .. MaxBatches
  BY SessionAssumption DEF IInv, DirectoryOK
<1>2. k \in Keys /\ k.batch <= batches /\ k.index = Last /\ k \notin stock[Responder]
  <2>1. k = [batch |-> spare[Responder], index |-> Last]
    BY PrekeyIs
  <2>2. k \in Keys
    <3>1. spare[Responder] \in 1 .. MaxBatches
      BY <1>1, SessionAssumption
    <3> QED
      BY <2>1, <3>1 DEF Keys
  <2>3. k \notin stock[Responder]
    BY <2>1 DEF IInv, DirectoryOK
  <2> QED
    BY <1>1, <2>1, <2>2, <2>3 DEF IInv, DirectoryOK
<1>3. attempt[c].peer \in Identities /\ attempt[c].peer <= identity
  BY AttemptType DEF IInv, AttemptsOK, AttemptOK
<1>4. a \in Attempts
  BY <1>2, <1>3 DEF Attempts
<1>5. DirectoryOK' /\ stock' = stock
  BY DEF IInv, DirectoryOK
<1>6. attempt[c].at # "sent" /\ attempt' = [attempt EXCEPT ![c] = a]
  OBVIOUS
<1>7. a.at = "prekey" /\ a.peer = attempt[c].peer /\ a.prekey = k
  OBVIOUS
<1> HIDE DEF a, k
<1> QED
  BY <1>2, <1>3, <1>4, <1>5, <1>6, <1>7, GoesOn

LEMMA FetchPrekeyInv ==
  ASSUME NEW c \in Initiator
  PROVE IInv /\ FetchPrekeyBundle(c) => IInv'
<1> SUFFICES ASSUME IInv, FetchPrekeyBundle(c) PROVE IInv'
  OBVIOUS
<1> DEFINE k == issued'[Responder][Len(issued'[Responder])]
           a == IF k.index = Last THEN [at |-> "resort", peer |-> attempt[c].peer]
                ELSE [at |-> "prekey", peer |-> attempt[c].peer, prekey |-> k]
<1>1. attempt[c].at = "identity" /\ attempt' = [attempt EXCEPT ![c] = a]
      /\ UNCHANGED <<identity, signers, published, queue, inbox, sessions, refused, purged>>
  BY DEF FetchPrekeyBundle
<1>2. /\ stock \in [{Responder} -> SUBSET Keys] /\ issued \in [{Responder} -> Seq(Keys)]
      /\ spare \in [{Responder} -> 0 .. batches] /\ batches \in 0 .. MaxBatches
  BY DEF IInv, DirectoryOK
<1>3. attempt[c].peer \in Identities /\ attempt[c].peer <= identity
  BY <1>1, AttemptType DEF IInv, AttemptsOK, AttemptOK
<1>4. CASE Directory!Issue(Responder)
  <2>1. PICK j \in stock[Responder] :
          /\ stock' = [stock EXCEPT ![Responder] = @ \ {j}]
          /\ issued' = [issued EXCEPT ![Responder] = Append(@, j)]
    BY <1>4 DEF Directory!Issue
  <2>2. UNCHANGED <<batches, spare>>
    BY <1>4 DEF Directory!Issue
  <2>3. j \in Keys /\ j.index # Last /\ j.batch = batches
    BY <1>2 DEF IInv, DirectoryOK
  <2>4. issued'[Responder] = Append(issued[Responder], j) /\ issued[Responder] \in Seq(Keys)
    BY <1>2, <2>1
  <2>5. k = j
    BY <2>3, <2>4
  <2>6. a = [at |-> "prekey", peer |-> attempt[c].peer, prekey |-> j]
    BY <2>3, <2>5
  <2>7. stock'[Responder] = stock[Responder] \ {j}
    BY <1>2, <2>1
  <2>8. DirectoryOK'
    <3>1. stock' \in [{Responder} -> SUBSET Keys]
      BY <1>2, <2>1
    <3>2. issued' \in [{Responder} -> Seq(Keys)]
      BY <1>2, <2>1, <2>3
    <3> QED
      BY <1>1, <2>2, <2>7, <3>1, <3>2 DEF IInv, DirectoryOK
  <2>9. \A d \in Initiator \ {c} : Holds(d) => attempt[d].prekey # j
    BY DEF IInv, AttemptsOK, AttemptOK
  <2>10. a \in Attempts /\ a.at = "prekey" /\ a.prekey = j /\ a.peer = attempt[c].peer
    BY <1>3, <2>3, <2>6 DEF Attempts
  <2>11. j.batch <= batches
    BY <1>2, <2>3
  <2> HIDE DEF a
  <2> QED
    BY <1>1, <1>3, <2>2, <2>3, <2>7, <2>8, <2>9, <2>10, <2>11, GoesOn
<1>5. CASE Directory!FallBack(Responder)
  <2>1. /\ UNCHANGED <<batches, spare, stock>> /\ spare[Responder] # 0
        /\ issued' = [issued EXCEPT ![Responder] = Append(@, Prekey(spare[Responder], Last))]
    BY <1>5 DEF Directory!FallBack, Prekey, Last
  <2>2. Prekey(spare[Responder], Last) = [batch |-> spare[Responder], index |-> Last]
    BY PrekeyIs
  <2>3. Prekey(spare[Responder], Last) \in Keys
    <3>1. spare[Responder] \in 1 .. MaxBatches
      BY <1>2, <2>1, SessionAssumption
    <3> QED
      BY <2>2, <3>1 DEF Keys
  <2>4. /\ issued'[Responder] = Append(issued[Responder], Prekey(spare[Responder], Last))
        /\ issued[Responder] \in Seq(Keys) /\ issued' \in [{Responder} -> Seq(Keys)]
    BY <1>2, <2>1, <2>3
  <2>5. k.index = Last
    <3>1. k = Prekey(spare[Responder], Last)
      BY <2>3, <2>4
    <3> QED
      BY <2>2, <3>1
  <2>6. a \in Attempts /\ a.at = "resort" /\ a.peer = attempt[c].peer
    BY <1>3, <2>5 DEF Attempts
  <2>7. DirectoryOK'
    BY <1>1, <2>1, <2>4 DEF IInv, DirectoryOK
  <2> HIDE DEF a
  <2> QED
    BY <1>1, <1>3, <2>1, <2>6, <2>7, GoesOn
<1> QED
  BY <1>4, <1>5 DEF FetchPrekeyBundle

\* Both kinds of prekey, once verified, open a session over the same transcript.
LEMMA OpenInv ==
  ASSUME NEW c \in Initiator
  PROVE IInv /\ (EstablishAsInitiator(c) \/ EstablishAsInitiatorLastResort(c)) => IInv'
<1> SUFFICES ASSUME IInv, EstablishAsInitiator(c) \/ EstablishAsInitiatorLastResort(c)
             PROVE  IInv'
  OBVIOUS
<1> DEFINE peer == attempt[c].peer
           prekey == attempt[c].prekey
           key == KeyOver(c, peer, prekey)
           a == [at |-> "sent", peer |-> peer, prekey |-> prekey, key |-> key]
           m == InitialMessage(c, prekey, key)
<1>1. attempt[c].at = "prekey"
  BY DEF EstablishAsInitiator, EstablishAsInitiatorLastResort
<1>2. peer \in Identities /\ prekey \in Keys /\ peer <= identity /\ prekey.batch <= batches
      /\ prekey \notin stock[Responder]
  BY <1>1, AttemptType DEF IInv, AttemptsOK, AttemptOK, Holds
<1>3. signers[prekey.batch] = peer
  BY DEF EstablishAsInitiator, EstablishAsInitiatorLastResort, VerifyBundle, VerifyLastResort
<1>4. prekey = [batch |-> prekey.batch, index |-> prekey.index]
  BY <1>2 DEF Keys
<1>5. Open(c, [initiator |-> c, responder |-> peer, prekey |-> prekey])
  <2>1. CASE EstablishAsInitiator(c)
    BY <1>4, <2>1, PrekeyIs DEF EstablishAsInitiator, buildTranscript
  <2>2. CASE EstablishAsInitiatorLastResort(c)
    BY <1>4, <2>2, PrekeyIs
       DEF EstablishAsInitiatorLastResort, buildLastResortTranscript, VerifyLastResort
  <2> QED
    BY <2>1, <2>2
<1>6. /\ queue' = Append(queue, m)
      /\ attempt' = [attempt EXCEPT ![c] = a]
      /\ UNCHANGED <<identity, signers, published, batches, stock, spare, issued>>
      /\ UNCHANGED <<inbox, sessions, refused, purged>>
  BY <1>5 DEF Open, KeyOver, directory
<1>7. key \in SessionKeys /\ a \in Attempts /\ m \in Messages
  <2>1. key \in SessionKeys
    BY <1>2 DEF KeyOver, Combine, SessionKeys, Transcripts
  <2>2. a \in Attempts
    BY <1>2, <2>1 DEF Attempts
  <2>3. (IF prekey.index = Last THEN 0 ELSE prekey.index) \in 0 .. MaxBatch
    BY <1>2, SessionAssumption DEF Keys
  <2>4. m \in Messages
    <3> HIDE DEF key, prekey
    <3> QED
      BY <1>2, <2>1, <2>3 DEF InitialMessage, Encapsulate, Messages
  <2> QED
    BY <2>1, <2>2, <2>4
<1>8. a.at = "sent" /\ a.peer = peer /\ a.prekey = prekey /\ a.key = key
  OBVIOUS
<1>9. m.from = c
  BY DEF InitialMessage
<1>10. attempt \in [Initiator -> Attempts] /\ attempt'[c] = a
      /\ \A d \in Initiator \ {c} : attempt'[d] = attempt[d]
  BY <1>6 DEF IInv, TypeOK
<1> HIDE DEF a, m
<1>11. TypeOK'
  <2>1. queue' \in Seq(Messages)
    BY <1>6, <1>7 DEF IInv, TypeOK
  <2> QED
    BY <1>6, <1>7, <2>1 DEF IInv, TypeOK
<1>12. DirectoryOK'
  BY <1>6 DEF IInv, DirectoryOK
<1>13. AttemptsOK'
  <2> SUFFICES ASSUME NEW d \in Initiator PROVE AttemptOK(d)'
    BY DEF AttemptsOK
  <2>1. CASE d = c
    BY <1>2, <1>3, <1>6, <1>8, <1>10, <2>1 DEF AttemptOK, Holds, KeyOver, Combine
  <2>2. CASE d # c
    BY <1>6, <1>10, <2>2 DEF IInv, AttemptsOK, AttemptOK, Holds, KeyOver, Combine
  <2> QED
    BY <2>1, <2>2
<1>14. OneTimeHeld'
  BY <1>1, <1>8, <1>10 DEF IInv, OneTimeHeld, Holds
<1>15. /\ \A n \in Messages : SentOK(n) => SentOK(n)'
       /\ InboxOK' /\ SessionsOK'
  BY <1>1, <1>6, NotSentYet DEF IInv
<1>16. QueueOK'
  <2>1. ASSUME NEW n \in Messages, n = m PROVE SentOK(n)'
    BY <1>8, <1>9, <1>10, <2>1 DEF SentOK, m, InitialMessage, Encapsulate
  <2>2. queue \in Seq(Messages) /\ \A i \in 1 .. Len(queue) : SentOK(queue[i])
    BY DEF IInv, TypeOK, QueueOK
  <2>3. Len(queue) \in Nat /\ \A i \in 1 .. Len(queue) : queue[i] \in Messages
    BY <2>2
  <2>4. \A i \in 1 .. Len(queue') : queue'[i] = m \/ \E j \in 1 .. Len(queue) : queue'[i] = queue[j]
    BY <1>6, <2>2, <2>3
  <2>5. ASSUME NEW i \in 1 .. Len(queue') PROVE SentOK(queue[i])'
    <3>1. CASE queue'[i] = m
      <4>1. PICK n \in Messages : n = queue'[i] /\ n = m
        BY <1>7, <3>1
      <4>2. SentOK(n)'
        BY <2>1, <4>1
      <4> QED
        BY <4>1, <4>2 DEF SentOK
    <3>2. CASE \E j \in 1 .. Len(queue) : queue'[i] = queue[j]
      <4>1. PICK n \in Messages : n = queue'[i] /\ SentOK(n)
        BY <2>2, <2>3, <3>2
      <4>2. SentOK(n)'
        BY <1>15, <4>1
      <4> QED
        BY <4>1, <4>2 DEF SentOK
    <3> QED
      BY <2>4, <3>1, <3>2
  <2> QED
    BY <2>5 DEF QueueOK
<1>17. OnlyReplacedAreRefused'
  BY <1>6 DEF IInv, OnlyReplacedAreRefused
<1> QED
  BY <1>11, <1>12, <1>13, <1>14, <1>15, <1>16, <1>17 DEF IInv

-----------------------------------------------------------------------------
(* Steps of the responder.                                                 *)

LEMMA PollInv == IInv /\ PollMessages => IInv'
<1> SUFFICES ASSUME IInv, PollMessages PROVE IInv'
  OBVIOUS
<1>1. /\ inbox' = inbox \o queue /\ queue' = <<>>
      /\ UNCHANGED <<identity, signers, published, batches, stock, spare, issued, attempt>>
      /\ UNCHANGED <<sessions, refused, purged>>
  BY DEF PollMessages, directory
<1>2. inbox \in Seq(Messages) /\ queue \in Seq(Messages)
  BY DEF IInv, TypeOK
<1>3. TypeOK'
  <2>1. inbox' \in Seq(Messages) /\ queue' \in Seq(Messages)
    BY <1>1, <1>2
  <2> QED
    BY <1>1, <2>1 DEF IInv, TypeOK
<1>4. DirectoryOK' /\ AttemptsOK' /\ OneTimeHeld' /\ SessionsOK' /\ OnlyReplacedAreRefused'
  BY <1>1 DEF IInv, DirectoryOK, AttemptsOK, AttemptOK, Holds, KeyOver, Combine, OneTimeHeld,
       SessionsOK, OnlyReplacedAreRefused
<1>5. QueueOK'
  BY <1>1 DEF QueueOK
<1>6. InboxOK'
  <2>1. Len(inbox) \in Nat /\ Len(queue) \in Nat
    BY <1>2
  <2>2. ASSUME NEW i \in 1 .. Len(inbox') PROVE SentOK(inbox[i])'
    <3>1. CASE i <= Len(inbox)
      <4>1. inbox'[i] = inbox[i] /\ i \in 1 .. Len(inbox)
        BY <1>1, <1>2, <2>1, <2>2, <3>1
      <4> QED
        BY <1>1, <4>1 DEF IInv, InboxOK, SentOK, InitialMessage, Encapsulate
    <3>2. CASE i > Len(inbox)
      <4>1. inbox'[i] = queue[i - Len(inbox)] /\ i - Len(inbox) \in 1 .. Len(queue)
        BY <1>1, <1>2, <2>1, <2>2, <3>2
      <4> QED
        BY <1>1, <4>1 DEF IInv, QueueOK, SentOK, InitialMessage, Encapsulate
    <3> QED
      BY <2>1, <2>2, <3>1, <3>2
  <2> QED
    BY <2>2 DEF InboxOK
<1> QED
  BY <1>3, <1>4, <1>5, <1>6 DEF IInv

\* What the janitor leaves was sent, too.
LEMMA PurgeInv == IInv /\ PurgeExpired => IInv'
<1> SUFFICES ASSUME IInv, PurgeExpired PROVE IInv'
  OBVIOUS
<1>1. PICK n \in DOMAIN queue :
        /\ queue' = SubSeq(queue, n + 1, Len(queue))
        /\ purged' = purged \cup {queue[k] : k \in 1 .. n}
        /\ UNCHANGED <<identity, signers, published, batches, stock, spare, issued, attempt>>
        /\ UNCHANGED <<inbox, sessions, refused>>
  BY DEF PurgeExpired, directory
<1>2. queue \in Seq(Messages) /\ Len(queue) \in Nat /\ n \in 1 .. Len(queue)
  BY DEF IInv, TypeOK
<1>3. /\ queue' \in Seq(Messages) /\ Len(queue') = Len(queue) - n
      /\ \A i \in 1 .. Len(queue') : queue'[i] = queue[i + n] /\ i + n \in 1 .. Len(queue)
  BY <1>1, <1>2
<1>4. TypeOK'
  <2>1. \A k \in 1 .. n : queue[k] \in Messages
    BY <1>2
  <2>2. purged' \subseteq Messages
    BY <1>1, <2>1 DEF IInv, TypeOK
  <2> QED
    BY <1>1, <1>3, <2>2 DEF IInv, TypeOK
<1>5. DirectoryOK' /\ AttemptsOK' /\ OneTimeHeld' /\ SessionsOK' /\ OnlyReplacedAreRefused'
  BY <1>1 DEF IInv, DirectoryOK, AttemptsOK, AttemptOK, Holds, KeyOver, Combine, OneTimeHeld,
       SessionsOK, OnlyReplacedAreRefused
<1>6. QueueOK'
  <2>1. ASSUME NEW i \in 1 .. Len(queue') PROVE SentOK(queue[i])'
    BY <1>1, <1>3, <2>1 DEF IInv, QueueOK, SentOK, InitialMessage, Encapsulate
  <2> QED
    BY <2>1 DEF QueueOK
<1>7. InboxOK'
  BY <1>1 DEF IInv, InboxOK, SentOK, InitialMessage, Encapsulate
<1> QED
  BY <1>4, <1>5, <1>6, <1>7 DEF IInv

\* What both ways of answering leave as it was.
LEMMA TakesFirst ==
  ASSUME IInv, inbox # <<>>, inbox' = Tail(inbox),
         UNCHANGED <<identity, signers, published, directory, attempt, queue>>
  PROVE /\ Head(inbox) \in Messages /\ SentOK(Head(inbox))
        /\ inbox' \in Seq(Messages)
        /\ DirectoryOK' /\ AttemptsOK' /\ OneTimeHeld' /\ QueueOK' /\ InboxOK'
<1>1. inbox \in Seq(Messages) /\ Len(inbox) \in Nat
  BY DEF IInv, TypeOK
<1>2. Len(inbox) >= 1 /\ Head(inbox) = inbox[1] /\ inbox' \in Seq(Messages)
      /\ Len(inbox') = Len(inbox) - 1
      /\ \A i \in 1 .. Len(inbox') : inbox'[i] = inbox[i + 1] /\ i + 1 \in 1 .. Len(inbox)
  BY <1>1
<1>3. Head(inbox) \in Messages /\ SentOK(Head(inbox))
  BY <1>1, <1>2 DEF IInv, InboxOK
<1>4. InboxOK'
  <2>1. ASSUME NEW i \in 1 .. Len(inbox') PROVE SentOK(inbox[i])'
    BY <1>2, <2>1 DEF IInv, InboxOK, SentOK, InitialMessage, Encapsulate
  <2> QED
    BY <2>1 DEF InboxOK
<1>5. QueueOK'
  BY DEF IInv, QueueOK, SentOK, InitialMessage, Encapsulate
<1>6. DirectoryOK' /\ AttemptsOK' /\ OneTimeHeld'
  BY DEF IInv, directory, DirectoryOK, AttemptsOK, AttemptOK, Holds, KeyOver, Combine, OneTimeHeld
<1> QED
  BY <1>2, <1>3, <1>4, <1>5, <1>6

\* The transcript of the responder, for whichever kind of prekey.
LEMMA ResponderKeyIs ==
  ASSUME NEW m
  PROVE ResponderKey(m) =
          Combine(IF m.kem.to = Named(m) THEN m.kem.secret ELSE "rejected",
            [initiator |-> m.from, responder |-> identity, prekey |-> Named(m)])
BY PrekeyIs DEF ResponderKey, Named, Decapsulate, buildTranscript, buildLastResortTranscript

\* A message that was sent: whose it is and what it holds.
LEMMA SentIs ==
  ASSUME IInv, NEW m \in Messages, SentOK(m)
  PROVE /\ m.from \in Initiator /\ attempt[m.from].at = "sent"
        /\ attempt[m.from].prekey \in Keys /\ attempt[m.from].prekey.batch <= batches
        /\ attempt[m.from].peer <= identity
        /\ m.kem.to = attempt[m.from].prekey /\ m.kem.secret = m.from
        /\ m.isLastResort = (attempt[m.from].prekey.index = Last)
        /\ m.index = IF attempt[m.from].prekey.index = Last THEN 0 ELSE attempt[m.from].prekey.index
        /\ m.sealedWith = KeyOver(m.from, attempt[m.from].peer, attempt[m.from].prekey)
        /\ attempt[m.from].key = m.sealedWith
<1>1. m.from \in Initiator /\ attempt[m.from].at = "sent" /\ Holds(m.from)
  BY DEF Messages, SentOK, Holds
<1>2. AttemptOK(m.from) /\ attempt[m.from].prekey \in Keys
  BY <1>1, AttemptType DEF IInv, AttemptsOK
<1>3. m = InitialMessage(m.from, attempt[m.from].prekey, attempt[m.from].key)
  BY DEF SentOK
<1> QED
  BY <1>1, <1>2, <1>3 DEF AttemptOK, InitialMessage, Encapsulate

LEMMA AcceptInv ==
  ASSUME NEW flag \in BOOLEAN
  PROVE IInv /\ Accept(flag) => IInv'
<1> SUFFICES ASSUME IInv, Accept(flag) PROVE IInv'
  OBVIOUS
<1> DEFINE m == Head(inbox)
           s == [with |-> m.from, prekey |-> Named(m), key |-> ResponderKey(m)]
<1>1. inbox # <<>> /\ inbox' = Tail(inbox) /\ Opens(m) /\ sessions' = sessions \cup {s}
      /\ UNCHANGED <<identity, signers, published, directory, attempt, queue, refused, purged>>
  BY DEF Accept
<1>2. m \in Messages /\ SentOK(m) /\ inbox' \in Seq(Messages)
      /\ DirectoryOK' /\ AttemptsOK' /\ OneTimeHeld' /\ QueueOK' /\ InboxOK'
  BY <1>1, TakesFirst
<1> HIDE DEF m
<1>3. attempt[m.from].at = "sent" /\ attempt[m.from].key = ResponderKey(m) /\ m.from \in Initiator
      /\ attempt[m.from].prekey \in Keys /\ m.sealedWith = ResponderKey(m)
  BY <1>1, <1>2, SentIs DEF Opens
<1>4. attempt[m.from].prekey = Named(m)
  <2>1. KeyOver(m.from, attempt[m.from].peer, attempt[m.from].prekey) = ResponderKey(m)
    BY <1>2, <1>3, SentIs
  <2> QED
    BY <2>1, ResponderKeyIs DEF KeyOver, Combine
<1>5. ResponderKey(m) \in SessionKeys
  BY <1>2, <1>3 DEF Messages
<1>6. s.with = m.from /\ s.prekey = Named(m) /\ s.key = ResponderKey(m)
      /\ s \in [with : Initiator, prekey : Keys, key : SessionKeys]
  BY <1>3, <1>4, <1>5
<1> HIDE DEF s
<1>7. TypeOK'
  BY <1>1, <1>2, <1>6 DEF IInv, TypeOK, directory
<1>8. SessionsOK'
  BY <1>1, <1>3, <1>4, <1>6 DEF IInv, SessionsOK
<1>9. OnlyReplacedAreRefused'
  BY <1>1 DEF IInv, OnlyReplacedAreRefused, directory
<1> QED
  BY <1>2, <1>7, <1>8, <1>9 DEF IInv

\* A message over the last batch, to the last identity, opens.
LEMMA CurrentOpens ==
  ASSUME IInv, NEW m \in Messages, SentOK(m),
         ~(m.kem.to.batch < batches), ~(m.sealedWith.transcript.responder < identity)
  PROVE Opens(m)
<1> DEFINE peer == attempt[m.from].peer
           prekey == attempt[m.from].prekey
<1>1. m.from \in Initiator /\ prekey \in Keys /\ peer \in Identities
  BY SentIs, AttemptType DEF IInv
<1>2. batches \in Nat /\ identity \in Nat /\ prekey.batch \in Nat /\ peer \in Nat
  BY <1>1, SessionAssumption DEF IInv, DirectoryOK, TypeOK, Identities, Keys
<1>3. prekey.batch <= batches /\ peer <= identity /\ m.kem.to = prekey
      /\ m.sealedWith = KeyOver(m.from, peer, prekey) /\ m.kem.secret = m.from
  BY SentIs
<1>4. m.sealedWith.transcript.responder = peer
  BY <1>3 DEF KeyOver, Combine
<1>5. prekey.batch = batches /\ peer = identity
  BY <1>2, <1>3, <1>4
<1>6. Named(m) = [batch |-> batches, index |-> prekey.index]
  BY SentIs, PrekeyIs DEF Named
<1>7. Named(m) = prekey
  BY <1>1, <1>5, <1>6 DEF Keys
<1> QED
  BY <1>3, <1>5, <1>7, ResponderKeyIs DEF Opens, KeyOver

LEMMA RefuseInv == IInv /\ RefuseInitial => IInv'
<1> SUFFICES ASSUME IInv, RefuseInitial PROVE IInv'
  OBVIOUS
<1> DEFINE m == Head(inbox)
<1>1. inbox # <<>> /\ inbox' = Tail(inbox) /\ ~Opens(m) /\ refused' = refused \cup {m}
      /\ UNCHANGED <<identity, signers, published, directory, attempt, queue, sessions, purged>>
  BY DEF RefuseInitial
<1>2. m \in Messages /\ SentOK(m) /\ inbox' \in Seq(Messages)
      /\ DirectoryOK' /\ AttemptsOK' /\ OneTimeHeld' /\ QueueOK' /\ InboxOK'
  BY <1>1, TakesFirst
<1> HIDE DEF m
<1>3. TypeOK' /\ SessionsOK'
  BY <1>1, <1>2 DEF IInv, TypeOK, SessionsOK, directory
<1>4. m.kem.to.batch < batches \/ m.sealedWith.transcript.responder < identity
  BY <1>1, <1>2, CurrentOpens
<1>5. OnlyReplacedAreRefused'
  BY <1>1, <1>4 DEF IInv, OnlyReplacedAreRefused, directory
<1> QED
  BY <1>2, <1>3, <1>5 DEF IInv

-----------------------------------------------------------------------------
(* Theorems.                                                               *)

LEMMA StutterInv == IInv /\ UNCHANGED vars => IInv'
<1> SUFFICES ASSUME IInv, UNCHANGED vars PROVE IInv'
  OBVIOUS
<1> USE DEF vars, directory
<1>1. TypeOK' /\ DirectoryOK' /\ AttemptsOK' /\ OnlyReplacedAreRefused'
  BY DEF IInv, TypeOK, DirectoryOK, AttemptsOK, AttemptOK, Holds, KeyOver, Combine,
       OnlyReplacedAreRefused
<1> QED
  BY <1>1, Stays DEF IInv

\* Whatever initiators, responder and relay do, messages and sessions are of the
\* keys they were made with, and what is on offer is of the last batch.
THEOREM Invariance == Spec => []IInv
<1>1. IInv /\ [Next]_vars => IInv'
  BY RotateInv, PublishIdentityInv, PublishInv, FetchIdentityInv, FetchPrekeyInv, NoPrekeyInv,
     LastResortPrekeyInv, OpenInv, PurgeInv, PollInv, AcceptInv, RefuseInv, StutterInv
     DEF Next, Proceed, Answer, EstablishAsResponder, EstablishAsResponderLastResort
<1> QED
  BY InitOK, <1>1, PTL DEF Spec

\* Every variable keeps its type, and every batch has its signer.
THEOREM TypeCorrect == Spec => []TypeOK
<1>1. IInv => TypeOK
  BY DEF IInv
<1> QED
  BY Invariance, <1>1, PTL

\* Both ends of a session have the same key, over the prekey and the identities
\* both mean, although the responder finds his keys by an index.
THEOREM EndsAgree == Spec => []SessionsAgree
<1>1. IInv => SessionsAgree
  <2> SUFFICES ASSUME IInv, NEW s \in sessions
               PROVE  /\ attempt[s.with].at = "sent"
                      /\ attempt[s.with].key = s.key /\ attempt[s.with].prekey = s.prekey
                      /\ s.key.transcript.initiator = s.with
                      /\ s.key.transcript.responder = signers[s.prekey.batch]
    BY DEF SessionsAgree
  <2>1. s.with \in Initiator /\ AttemptOK(s.with)
    BY DEF IInv, TypeOK, AttemptsOK
  <2> QED
    BY <2>1 DEF IInv, SessionsOK, AttemptOK, KeyOver, Combine
<1> QED
  BY Invariance, <1>1, PTL

\* A one-time prekey stands behind one session at most.
THEOREM FreshOnce == Spec => []OneTimeFresh
<1>1. IInv => OneTimeFresh
  <2> SUFFICES ASSUME IInv PROVE OneTimeFresh
    OBVIOUS
  <2>1. ASSUME NEW s \in sessions, NEW t \in sessions, s.prekey = t.prekey, s.prekey.index # Last
        PROVE  s = t
    <3>1. /\ s \in [with : Initiator, prekey : Keys, key : SessionKeys]
          /\ t \in [with : Initiator, prekey : Keys, key : SessionKeys]
      BY DEF IInv, TypeOK
    <3>2. s.with = t.with /\ s.key = t.key
      BY <2>1, <3>1 DEF IInv, SessionsOK, OneTimeHeld, Holds
    <3> QED
      BY <2>1, <3>1, <3>2
  <2> QED
    BY <2>1 DEF IInv, OneTimeFresh, OneTimeHeld, Holds
<1> QED
  BY Invariance, <1>1, PTL

\* Who is refused used a batch or an identity the responder has replaced.
THEOREM CurrentNotRefused == Spec => []OnlyReplacedAreRefused
<1>1. IInv => OnlyReplacedAreRefused
  BY DEF IInv
<1> QED
  BY Invariance, <1>1, PTL

=============================================================================
