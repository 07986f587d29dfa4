---------------------------- MODULE Conversation ----------------------------
(***************************************************************************)
(* The session ratchet over the relay: the two parties of one session      *)
(* (Ratchet) write to each other through the relay's queues (RelayQueues), *)
(* as relay/e2e_test.go puts them together.  EncryptMessage and            *)
(* SendMessage are two calls, and the relay may refuse the second when the *)
(* first has stepped the ratchet.  A party that polls has a batch to go    *)
(* through, which it decrypts message by message, while the other writes   *)
(* on and the janitor purges what nobody has polled.                       *)
(***************************************************************************)
EXTENDS RelayQueues

CONSTANTS
  Alice, Bob,                            \* the users: see Ratchet
  MessageThreshold, TimeDue, MaxSkip

ASSUME ConversationAssumption ==
  /\ User = {Alice, Bob} /\ Alice # Bob
  /\ MessageThreshold \in Nat /\ MaxSkip \in Nat /\ TimeDue \subseteq BOOLEAN

VARIABLES
  st, sent, inbox, refused,   \* the two ends: see Ratchet
  posted,                     \* posted[p][e]: the number of the message, of those p's
                              \* peer encrypted, that is envelope e of those for p
  unsent,                     \* unsent[p]: numbers of those the relay refused
  handled                     \* handled[p]: how many of delivered[p] p has gone through

ends == <<st, sent, inbox, refused>>
calls == <<posted, unsent, handled>>
all == <<vars, ends, calls>>

Peer(p) == IF p = Alice THEN Bob ELSE Alice

\* What p's peer has encrypted and not yet called SendMessage with.
Outbox(p) == DOMAIN sent[Peer(p)] \ (ToSet(posted[p]) \cup unsent[p])

\* p's batch, and the envelopes for p that it or the relay holds.
Unread(p) == SubSeq(delivered[p], handled[p] + 1, Len(delivered[p]))
Waiting(p) == ToSet(Unread(p)) \cup {queues[p][k].envelope : k \in DOMAIN queues[p]}

InFlight == [p \in User |-> Outbox(p) \cup {posted[p][e] : e \in Waiting(p)}]

\* The two ends make what they can of any message they are handed.
Ends == INSTANCE Ratchet WITH
  wire <- InFlight, Faults <- {"loss", "reorder"}, MaxDups <- 0, dups <- 0

Start ==
  /\ Init
  /\ posted = [p \in User |-> <<>>]
  /\ unsent = [p \in User |-> {}]
  /\ handled = [p \in User |-> 0]
  /\ Ends!Init

\* EncryptMessage and MarshalEnvelope.  A client sends what it has encrypted
\* before it encrypts again.
Write(p) ==
  /\ Outbox(Peer(p)) = {}
  /\ UNCHANGED <<vars, calls>>
  /\ Ends!Encrypt(p)

\* SendMessage, perhaps after calls that were refused.
Post(p) ==
  \E i \in Outbox(Peer(p)) :
    /\ SendMessage(Peer(p))
    /\ posted' = [posted EXCEPT ![Peer(p)] = Append(@, i)]
    /\ UNCHANGED <<ends, unsent, handled>>

\* SendMessage returns ErrUnknownUser, and the client gives up: the message is
\* lost, and the ratchet has been stepped for it.
PostRefused(p) ==
  \E i \in Outbox(Peer(p)) :
    /\ Peer(p) \notin identities
    /\ unsent' = [unsent EXCEPT ![Peer(p)] = @ \cup {i}]
    /\ UNCHANGED <<vars, ends, posted, handled>>

Send(p) == Post(p) \/ PostRefused(p)

\* A client goes through a batch before it polls again.
Poll(p) ==
  /\ Unread(p) = <<>>
  /\ PollMessages(p)
  /\ UNCHANGED <<ends, calls>>

\* The next envelope of the batch is p's.
Handle(p) ==
  /\ Unread(p) # <<>>
  /\ handled' = [handled EXCEPT ![p] = @ + 1]
  /\ UNCHANGED <<vars, sent, posted, unsent>>

NextMessage(p) == posted[p][Head(Unread(p))]

\* UnmarshalEnvelope, then EstablishAsResponder or DecryptMessage.
Read(p) ==
  /\ Handle(p)
  /\ Ends!Decrypt(p, NextMessage(p))

\* There is no session that a message could belong to: its initial message was
\* purged or never sent.
Drop(p) ==
  /\ Handle(p)
  /\ ~Ends!Ready(p, NextMessage(p))
  /\ UNCHANGED ends

Receive(p) == Poll(p) \/ Read(p) \/ Drop(p)

\* What else happens on the relay.
Serve ==
  /\ Tick \/ ReadTime \/ Purge \/ \E u \in User : PublishIdentity(u)
  /\ UNCHANGED <<ends, calls>>

Talk == Serve \/ \E p \in User : Write(p) \/ Send(p) \/ Receive(p)

Conversation == Start /\ [][Talk]_all

\* A client that has encrypted a message calls SendMessage with it, and one that
\* is online polls and goes through what it has polled.  Nothing is assumed of
\* who writes, of the janitor or of the clock.
FairConversation ==
  Conversation /\ \A p \in User : WF_all(Send(p)) /\ WF_all(Receive(p))

-----------------------------------------------------------------------------
(* Properties.                                                             *)

\* The messages to p that were purged, and those the relay refused.
Lost(p) == {posted[p][e] : e \in purged[p]} \cup unsent[p]

\* To the two ends the relay is a network that keeps the order, repeats nothing
\* and loses a message only when it is purged, when the relay refuses it, or
\* when it belongs to no session because the initial message was lost; it may
\* lose several at once.
Session == INSTANCE Ratchet WITH
  wire <- InFlight, Faults <- {}, MaxDups <- 0, dups <- 0

LoseSome ==
  /\ UNCHANGED ends
  /\ \A p \in User :
       /\ InFlight'[p] \subseteq InFlight[p]
       /\ \A i \in InFlight[p] \ InFlight'[p] :
            i \in Lost(p)' \/ (1 \in Lost(p) /\ ~Ends!Ready(p, i))

RelayIsNetwork == Session!Init /\ [][LoseSome \/ Session!Next]_(Session!vars)

\* Some message that carried an ML-KEM ciphertext was purged.
CTPurged ==
  \E p \in User : \E e \in purged[p] : sent[Peer(p)][posted[p][e]].ct # 0

\* More messages were lost of those to a party in session than it accepts to
\* skip at a time.
GapLost == \E p \in User : st[p].dhRemote # 0 /\ Cardinality(Lost(p)) > MaxSkip

\* What the relay loses may be too much for the ratchet: the keys of the two
\* ends part, or a message that arrives is refused, only after the carrier of a
\* ciphertext was purged, or more than the skip window was purged or refused by
\* the relay when EncryptMessage had stepped the ratchet for it.  A message that
\* is refused never carries a ciphertext: its recipient has not been heard of,
\* so that it has read nothing, and advertised nothing.
KeysPartOnlyByLoss ==
  CTPurged \/ GapLost \/ (Ends!InSync /\ \A p \in User : refused[p] = {})

\* Message keys are kept only for messages that were lost, so that the store,
\* for which the code sets no limit, grows only with what a client leaves
\* unpolled for longer than the retention time and what its peer encrypts for
\* it before it has published an identity.
OnlyLostAreSkipped ==
  \A p \in User : \A e \in st[p].skipped :
    \E i \in Lost(p) : sent[Peer(p)][i].dh = e.dh /\ sent[Peer(p)][i].n = e.n

\* Message i to p is read, or lost, or belongs to no session because the initial
\* message was lost, or no more to the one p has.
Settled(p, i) ==
  \/ i \in ToSet(inbox[p]) \cup Lost(p)
  \/ 1 \in Lost(p) /\ ~Ends!Ready(p, i)
  \/ i \in refused[p] /\ (CTPurged \/ GapLost)

\* What the relay accepts and does not purge is read, by a client that was
\* offline for however long, unless the initial message, a ciphertext or more
\* than the skip window was lost.
AcceptedAreRead == []<>(\A p \in User : \A i \in DOMAIN sent[Peer(p)] : Settled(p, i))
=============================================================================
