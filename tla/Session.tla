------------------------------ MODULE Session ------------------------------
(***************************************************************************)
(* Session establishment (crypto/session, crypto/prekey, crypto/kemhybrid) *)
(* through the relay, as relay/e2e_test.go puts them together: initiators  *)
(* fetch an identity and a prekey in calls of their own, and send one      *)
(* initial message; the responder, who was offline, polls for them and     *)
(* answers each with what keys he then has.  Meanwhile he may take a new   *)
(* identity and top up his prekeys.                                        *)
(*                                                                         *)
(* The relay's directory is what Dispenser promises.  Cryptography is      *)
(* symbolic: a session key is what went into it, a decapsulation with      *)
(* another key than the one encapsulated to makes another secret, and a    *)
(* ciphertext opens under the key that made it.                            *)
(***************************************************************************)
EXTENDS Integers, Sequences, FiniteSets

CONSTANTS
  Initiator,      \* those who want a session with the responder
  Responder,
  MaxBatch,       \* the largest batch
  MaxBatches,     \* bound: how many batches the responder publishes
  MaxIdentities   \* bound: how many identities he takes

ASSUME SessionAssumption ==
  MaxBatch \in Nat /\ MaxBatches \in Nat \ {0} /\ MaxIdentities \in Nat \ {0}

VARIABLES
  identity,    \* the number of the responder's identity key pair
  signers,     \* signers[b]: the identity that signed batch b
  published,   \* the identity of the responder on the relay
  batches, stock, spare, issued,   \* the relay's prekeys: see Dispenser
  attempt,     \* attempt[c]: how far c's session is
  queue,       \* the responder's queue on the relay
  inbox,       \* what the responder has polled and not looked at
  sessions,    \* the sessions the responder has
  refused,     \* the initial messages he could not open
  purged       \* those the relay has deleted as too old

directory == <<batches, stock, spare, issued>>
vars ==
  <<identity, signers, published, directory, attempt, queue, inbox, sessions, refused, purged>>

Directory == INSTANCE Dispenser WITH User <- {Responder}

Last == Directory!Last
Prekey(b, i) == Directory!Prekey(b, i)

Init ==
  /\ identity = 1 /\ published = 1
  /\ signers = <<>>
  /\ Directory!Init
  /\ attempt = [c \in Initiator |-> [at |-> "start"]]
  /\ queue = <<>> /\ inbox = <<>>
  /\ sessions = {} /\ refused = {} /\ purged = {}

-----------------------------------------------------------------------------
(* The keys of a session.                                                  *)

\* Who, with which identity of the responder, over which slot of which batch, or
\* over which last-resort prekey.  Wire's TranscriptBinds is why the bytes say it.
buildTranscript(initiator, responder, batch, index) ==
  [initiator |-> initiator, responder |-> responder, prekey |-> Prekey(batch, index)]

buildLastResortTranscript(initiator, responder, batch) ==
  [initiator |-> initiator, responder |-> responder, prekey |-> Prekey(batch, Last)]

\* Encapsulate: the ciphertext holds a fresh secret for the prekey, and the
\* secret and the transcript make the session key.
Encapsulate(c, prekey) == [secret |-> c, to |-> prekey]
Combine(secret, transcript) == [secret |-> secret, transcript |-> transcript]

\* Decapsulate never fails: the wrong private key gives some other secret.
Decapsulate(prekey, kem, transcript) ==
  Combine(IF kem.to = prekey THEN kem.secret ELSE "rejected", transcript)

-----------------------------------------------------------------------------
(* The responder's part in the directory.                                  *)

RotateIdentity ==
  /\ identity < MaxIdentities
  /\ identity' = identity + 1
  /\ UNCHANGED <<signers, published, directory, attempt, queue, inbox, sessions, refused, purged>>

PublishIdentity ==
  /\ published # identity
  /\ published' = identity
  /\ UNCHANGED <<identity, signers, directory, attempt, queue, inbox, sessions, refused, purged>>

\* GenerateBatch, GenerateLastResort and PublishPrekeys.
PublishPrekeys ==
  /\ batches < MaxBatches
  /\ Directory!Publish(Responder)
  /\ signers' = Append(signers, identity)
  /\ UNCHANGED <<identity, published, attempt, queue, inbox, sessions, refused, purged>>

-----------------------------------------------------------------------------
(* An initiator.                                                           *)

FetchIdentity(c) ==
  /\ attempt[c].at = "start"
  /\ attempt' = [attempt EXCEPT ![c] = [at |-> "identity", peer |-> published]]
  /\ UNCHANGED <<identity, signers, published, directory, queue, inbox, sessions, refused, purged>>

\* Mutant: the relay shows a prekey without marking it consumed.
FetchPrekeyBundlePeeks(c) ==
  /\ attempt[c].at = "identity"
  /\ \E k \in stock[Responder] :
       attempt' = [attempt EXCEPT ![c] = [at |-> "prekey", peer |-> @.peer, prekey |-> k]]
  /\ UNCHANGED <<identity, signers, published, directory, queue, inbox, sessions, refused, purged>>

\* What the relay returns is what it says it has issued; of the last-resort
\* prekey it only says that it is to be used.
FetchPrekeyBundle(c) ==
  /\ attempt[c].at = "identity"
  /\ Directory!Issue(Responder) \/ Directory!FallBack(Responder)
  /\ LET k == issued'[Responder][Len(issued'[Responder])]
     IN attempt' = [attempt EXCEPT ![c] =
          IF k.index = Last THEN [at |-> "resort", peer |-> @.peer]
                            ELSE [at |-> "prekey", peer |-> @.peer, prekey |-> k]]
  /\ UNCHANGED <<identity, signers, published, queue, inbox, sessions, refused, purged>>

\* ErrNoPrekeysPublished and ErrNoPrekeysAvailable, of either call.
NoPrekey(c) ==
  /\ \/ attempt[c].at = "identity" /\ stock[Responder] = {}
     \/ attempt[c].at = "resort"
  /\ spare[Responder] = 0
  /\ attempt' = [attempt EXCEPT ![c] = [at |-> "failed", peer |-> @.peer]]
  /\ UNCHANGED <<identity, signers, published, directory, queue, inbox, sessions, refused, purged>>

LastResortPrekey(c) ==
  /\ attempt[c].at = "resort" /\ spare[Responder] # 0
  /\ attempt' = [attempt EXCEPT ![c] =
       [at |-> "prekey", peer |-> @.peer, prekey |-> Prekey(spare[Responder], Last)]]
  /\ UNCHANGED <<identity, signers, published, directory, queue, inbox, sessions, refused, purged>>

\* The batch's root, and the last-resort prekey published with it, are signed.
VerifyBundle(peer, bundle) == bundle.index # Last /\ signers[bundle.batch] = peer
VerifyLastResort(peer, lr) == lr.index = Last /\ signers[lr.batch] = peer

\* Mutant: the message forgets that its prekey is the last resort.
InitialMessageUnflagged(c, prekey, key) ==
  [from |-> c, kem |-> Encapsulate(c, prekey), isLastResort |-> FALSE,
   index |-> IF prekey.index = Last THEN 0 ELSE prekey.index, sealedWith |-> key]

\* What is sent: which prekey of the responder it was, and the first message,
\* sealed with the session key.  An index goes with a one-time prekey only.
InitialMessage(c, prekey, key) ==
  [from |-> c, kem |-> Encapsulate(c, prekey), isLastResort |-> prekey.index = Last,
   index |-> IF prekey.index = Last THEN 0 ELSE prekey.index, sealedWith |-> key]

\* SendMessage, and the session the initiator then has.
Open(c, transcript) ==
  LET a == attempt[c]
      key == Combine(c, transcript)
  IN /\ queue' = Append(queue, InitialMessage(c, a.prekey, key))
     /\ attempt' = [attempt EXCEPT ![c] =
          [at |-> "sent", peer |-> a.peer, prekey |-> a.prekey, key |-> key]]
     /\ UNCHANGED <<identity, signers, published, directory, inbox, sessions, refused, purged>>

EstablishAsInitiator(c) ==
  LET a == attempt[c]
  IN /\ a.at = "prekey" /\ VerifyBundle(a.peer, a.prekey)
     /\ Open(c, buildTranscript(c, a.peer, a.prekey.batch, a.prekey.index))

EstablishAsInitiatorLastResort(c) ==
  LET a == attempt[c]
  IN /\ a.at = "prekey" /\ VerifyLastResort(a.peer, a.prekey)
     /\ Open(c, buildLastResortTranscript(c, a.peer, a.prekey.batch))

\* ErrVerification: the prekey, although issued, is of no use.
RejectPrekey(c) ==
  /\ attempt[c].at = "prekey"
  /\ ~VerifyBundle(attempt[c].peer, attempt[c].prekey)
  /\ ~VerifyLastResort(attempt[c].peer, attempt[c].prekey)
  /\ attempt' = [attempt EXCEPT ![c] = [at |-> "failed", peer |-> @.peer]]
  /\ UNCHANGED <<identity, signers, published, directory, queue, inbox, sessions, refused, purged>>

-----------------------------------------------------------------------------
(* The relay's janitor, and the responder's part in the sessions.          *)

\* PurgeExpired: what has waited longest is deleted, be it one message or all.
\* RelayQueues is about which; MailboxKept there says it is a beginning.
PurgeExpired ==
  \E n \in DOMAIN queue :
    /\ queue' = SubSeq(queue, n + 1, Len(queue))
    /\ purged' = purged \cup {queue[k] : k \in 1 .. n}
    /\ UNCHANGED <<identity, signers, published, directory, attempt, inbox, sessions, refused>>

\* Mutant: one message is returned, and the queue deleted.
PollMessagesOne ==
  /\ queue # <<>>
  /\ inbox' = Append(inbox, Head(queue))
  /\ queue' = <<>>
  /\ UNCHANGED <<identity, signers, published, directory, attempt, sessions, refused, purged>>

PollMessages ==
  /\ queue # <<>>
  /\ inbox' = inbox \o queue
  /\ queue' = <<>>
  /\ UNCHANGED <<identity, signers, published, directory, attempt, sessions, refused, purged>>

\* The key pair a message names, in the batch he last made, for the message does
\* not say which.
Named(m) == Prekey(batches, IF m.isLastResort THEN Last ELSE m.index)

\* The session key he derives with it.
ResponderKey(m) ==
  Decapsulate(Named(m), m.kem,
    IF m.isLastResort THEN buildLastResortTranscript(m.from, identity, batches)
                      ELSE buildTranscript(m.from, identity, batches, m.index))

\* Mutant: what does not open is taken for an empty first message.
OpensAlways(m) == TRUE

\* The first message opens.  An index outside the batch has no private key, nor
\* has the last resort where none was made; then the keys differ as well.
Opens(m) == ResponderKey(m) = m.sealedWith

\* The first message of the inbox makes a session.
Accept(isLastResort) ==
  /\ inbox # <<>>
  /\ inbox' = Tail(inbox)
  /\ LET m == Head(inbox)
     IN /\ m.isLastResort = isLastResort /\ Opens(m)
        /\ sessions' = sessions \cup
             {[with |-> m.from, prekey |-> Named(m), key |-> ResponderKey(m)]}
  /\ UNCHANGED <<identity, signers, published, directory, attempt, queue, refused, purged>>

EstablishAsResponder == Accept(FALSE)
EstablishAsResponderLastResort == Accept(TRUE)

RefuseInitial ==
  /\ inbox # <<>>
  /\ inbox' = Tail(inbox)
  /\ ~Opens(Head(inbox))
  /\ refused' = refused \cup {Head(inbox)}
  /\ UNCHANGED <<identity, signers, published, directory, attempt, queue, sessions, purged>>

Answer == EstablishAsResponder \/ EstablishAsResponderLastResort \/ RefuseInitial

Proceed(c) ==
  \/ FetchIdentity(c) \/ FetchPrekeyBundle(c) \/ NoPrekey(c) \/ LastResortPrekey(c)
  \/ EstablishAsInitiator(c) \/ EstablishAsInitiatorLastResort(c) \/ RejectPrekey(c)

Next ==
  \/ RotateIdentity \/ PublishIdentity \/ PublishPrekeys
  \/ \E c \in Initiator : Proceed(c)
  \/ PurgeExpired \/ PollMessages \/ Answer

Spec == Init /\ [][Next]_vars

\* Initiators go on with what they began, and the responder comes online.  The
\* janitor may purge at any time, or never.
FairSpec ==
  /\ Spec
  /\ \A c \in Initiator : WF_vars(Proceed(c))
  /\ WF_vars(PollMessages) /\ WF_vars(Answer)

-----------------------------------------------------------------------------
(* Properties.                                                             *)

Keys == [batch : 1 .. MaxBatches, index : {Last} \cup 0 .. MaxBatch - 1]
Identities == 1 .. MaxIdentities
Transcripts == [initiator : Initiator, responder : Identities, prekey : Keys]
SessionKeys == [secret : Initiator \cup {"rejected"}, transcript : Transcripts]
Messages == [from : Initiator, kem : [secret : Initiator, to : Keys], isLastResort : BOOLEAN,
             index : 0 .. MaxBatch, sealedWith : SessionKeys]
Attempts ==
  [at : {"start"}] \cup [at : {"identity", "resort", "failed"}, peer : Identities]
    \cup [at : {"prekey"}, peer : Identities, prekey : Keys]
    \cup [at : {"sent"}, peer : Identities, prekey : Keys, key : SessionKeys]

\* Every variable has its type, and every batch its signer.
TypeOK ==
  /\ identity \in Identities /\ published \in Identities
  /\ signers \in Seq(Identities) /\ Len(signers) = batches
  /\ attempt \in [Initiator -> Attempts]
  /\ queue \in Seq(Messages) /\ inbox \in Seq(Messages)
  /\ sessions \subseteq [with : Initiator, prekey : Keys, key : SessionKeys]
  /\ refused \subseteq Messages /\ purged \subseteq Messages

\* A session of the responder is the one the initiator it names has: the same
\* key, made over the same prekey and the same two identities, of which the
\* responder's signed the prekey, although the responder chose his keys by an
\* index and may have made new ones meanwhile.
SessionsAgree ==
  \A s \in sessions :
    /\ attempt[s.with].at = "sent"
    /\ attempt[s.with].key = s.key /\ attempt[s.with].prekey = s.prekey
    /\ s.key.transcript.initiator = s.with
    /\ s.key.transcript.responder = signers[s.prekey.batch]

\* A one-time prekey is in the hands of one initiator only, and stands behind
\* one session only: the freshness the last-resort prekey does not give.
OneTimeFresh ==
  /\ \A c, d \in Initiator :
       attempt[c].at \in {"prekey", "sent"} /\ attempt[d].at \in {"prekey", "sent"}
         /\ attempt[c].prekey = attempt[d].prekey /\ attempt[c].prekey.index # Last
       => c = d
  /\ \A s, t \in sessions : s.prekey = t.prekey /\ s.prekey.index # Last => s = t

\* The responder can open every initial message, of whatever prekey, unless he
\* has replaced what it is for: its prekey's batch since, or his identity, maybe
\* already when the initiator fetched it and the relay had the old one.
OnlyReplacedAreRefused ==
  \A m \in refused :
    m.kem.to.batch < batches \/ m.sealedWith.transcript.responder < identity

\* No initial message goes missing between the initiator and the responder: it
\* makes a session, is refused, or waited until the janitor purged it.
InitialsAnswered ==
  \A c \in Initiator :
    attempt[c].at = "sent" ~>
      \/ \E s \in sessions : s.with = c
      \/ \E m \in refused \cup purged : m.from = c
=============================================================================
