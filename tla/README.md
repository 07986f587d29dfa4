# PQChat in TLA+

Specifications, model checks and machine-checked proofs for the Go code of
PQChat: session establishment, the Double Ratchet with ML-KEM injections, the
relay, and the identity transparency log with its clients.  The comment at the
top of `crypto/ratchet/ratchet.go` asks for a model of the ratchet at the
injection boundary; it is the first module here.

To check a run: `tlc -config <run>.cfg <module>.tla`, with the module named in
`PROJECT.json`.  To check proofs: `tlapm <Module>Proofs.tla`.

## 1. Inventory

| Part (source) | State | Operations | Interacts with |
|---|---|---|---|
| Ratchet (`crypto/ratchet`) | `State`: root, two chains, own and remote X25519 key, counters, skipped keys, ML-KEM keys pending and advertised | `EncryptMessage`, `DecryptMessage` | its peer's `State` by headers and ciphertexts, over the relay's queue |
| Session (`crypto/session`) | none of its own; makes a ratchet `State` | `EstablishAsInitiator/Responder` and the last-resort pair | prekeys, identity, hybrid KEM, ratchet |
| Encodings (`crypto/session/wire.go`, `crypto/ratchet/header.go`) | none | `MarshalEnvelope`, `UnmarshalEnvelope`, `Header.Marshal`, `UnmarshalHeader` | session and ratchet; the relay sees only their bytes |
| Prekeys (`crypto/prekey`) | a batch: private keys, tree, signed root; one last-resort key | `GenerateBatch`, `Bundle`, `VerifyBundle`, `PrivateKey`, last-resort pair | Merkle tree, identity |
| Merkle tree (`crypto/merkle`) | levels of hashes | `BuildTree`, `InclusionProof`, `VerifyInclusionProof` | used by prekeys and log |
| Hybrid KEM, identity (`crypto/kemhybrid`, `crypto/identity`) | key pairs | `Encapsulate`, `Decapsulate`; `Sign`, `Verify` | used by everything |
| Relay (`relay`) | identities, prekeys with consumed flags and a cursor, message queues, one mutex | `PublishIdentity`, `FetchIdentity`, `PublishPrekeys`, `FetchPrekeyBundle`, `LastResortPrekey`, `PrekeyTelemetry`, `SendMessage`, `PollMessages`, `PurgeExpired` | any number of clients at once |
| Transparency log (`translog/log.go`, `sth.go`) | entries, latest index per user, current tree head, one mutex | `Append`, `PublishSTH`, `LatestEntryForUser`, `InclusionProof` | clients, several calls per check |
| Key check (`translog/client.go`) | the caller's pins | `VerifyInclusion`, `CheckKeyChange` | log, relay |
| Gossip (`translog/witness.go`, `simulate.go`) | heads seen, by tree size | `Observe`, `GossipWith`, `VerifyEvidence` | other clients, the log's operator |

What is hard to test in it, line by line, is the list of hazards in
`PROJECT.json`.  In short: messages that overtake, repeat or get lost around a
change of chain and around an injection; a call that fails after it has changed
the state; concurrent fetches and publications; identity, prekey, log and proof
fetched in calls of their own while their owner changes them; heads of a log
that lies; trees whose size is no power of two; a janitor that purges what a
session needs to go on; envelopes that arrive damaged.

What makes each part correct:

* ratchet: the two sides derive the same keys; no message key seals twice; the
  application sees a message at most once, and in order if the network keeps
  it; what was read cannot be read again; the session never comes to a halt;
* relay: a one-time prekey goes to one caller; the last resort only when the
  pool is drained; an envelope is delivered once, or purged when it is too old;
* session: both ends hold the same session, over a fresh prekey, under the
  identities they believe in; every initial message is answered, or waited until
  it was purged;
* log: append-only; a client accepts logged keys only, and does not go back to an
  older one if it asks for the latest;
* gossip: a lie is found, and no honest operator is ever implicated;
* tree: a proof verifies for its leaf only, and a root stands for one sequence;
* encodings: what arrives whole is read as it was meant, what does not is refused
  or shows, and a transcript stands for one handshake.

## 2. Modules

| Module | Models | Runs | Proofs |
|---|---|---|---|
| `Channel` | what a session promises the application | | |
| `Ratchet` | two `State`s, every path of `EncryptMessage` and `DecryptMessage`, the network | six | `RatchetProofs`, `RatchetSyncProofs` |
| `Dispenser` | what the prekey directory promises | | |
| `RelayPrekeys` | directory, mutex and the scan for a free slot | one | `RelayPrekeysProofs` |
| `Mailbox` | what a queue promises | | |
| `RelayQueues` | queues, poll, send, purge, clock | in `Conversation` | `ConversationProofs` |
| `Conversation` | two ends of a session, `Ratchet`, over the queues of `RelayQueues` | one | `ConversationProofs` |
| `TransLog` | log and clients that check keys | one | `TransLogProofs` |
| `Gossip`, `MCGossip` | heads, evidence, exchange | one | `GossipProofs` |
| `Session` | both ends of establishment, over `Dispenser` and a queue | one | `SessionProofs` |
| `Merkle` | the tree as operators | in `Encodings` | `EncodingsProofs` |
| `Wire` | envelopes, headers and transcripts as bytes, and what may become of them | in `Encodings` | `EncodingsProofs` |
| `Encodings` | `Merkle` and `Wire` together: what is computed from bytes alone | one | |

`Ratchet` implements `Channel`, `RelayPrekeys` implements `Dispenser`,
`RelayQueues` implements `Mailbox`, each by a refinement mapping checked as a
property.

`Conversation` puts the parts together.  It extends `RelayQueues` and takes the
two ends from `Ratchet` by `INSTANCE`, with `Ratchet`'s network replaced by what
the relay's queues and the polled batches hold.  `RelayIsNetwork` shows that the
relay is one of the networks `Ratchet` is about, one that loses messages, only those
it purges or refuses and those that follow a lost initial message, and does
nothing else to them; so the runs of `Ratchet` that allow loss, and all its
theorems, apply to a session over the relay.  `RelayIsOrderly` proves it, and
`ConversationProofs` uses those theorems.

`Session` is composed of `Dispenser`, which is what `RelayPrekeys` was shown to
implement, and of its own queue.  Its sessions end where `Ratchet` begins:
`InitAlice` and `InitBob` start from one session key, which `SessionsAgree` is
about.  Its transcripts are records; that the bytes of a transcript say the same
is `TranscriptBinds` of `Wire`.  `Ratchet` and `Session` hand messages over as
records, which `ParsesBack` justifies, and take headers for authenticated, which
is sound as the receiver authenticates the header it writes again
(`DamageShows`).  `TransLog` and `Session` take roots and tree heads for the
sequences under them, which `RootsDiffer` and `OnlyLeavesVerify` of `Merkle`
justify.

### How the models correspond to the code

*Ratchet.*  `st[p]` has the fields of `State`.  A root or chain key is the
sequence of the secrets mixed into it, so two keys are equal when their
histories are; a message key is a chain key and how often it was stepped; a key
pair is a serial number of its owner, with 0 for nil.  A party generates an
ML-KEM pair only together with an X25519 pair, so one number names both.  A KDF
or AEAD tells two values apart exactly if they differ, a KEM decapsulation with
the wrong key gives another secret and no error.  `EncryptOnChain` and
`EncryptNewChain` are `EncryptMessage` without and with a new chain;
`TimeDue` is what the clock may say of the time threshold.  `DecryptMessage` has
one action per way through it: the stored key, the current chain, a new chain,
and the four early errors, each with the state the code leaves behind, which is
not always the one it found.  `Open` succeeds when the key is the sender's and
keeps the changed state when it is not.  The messages a party can decrypt are
those its peer made: headers are authenticated as associated data.

*RelayPrekeys.*  A call waits for the mutex, takes it, runs, returns.  The loop
of `FetchPrekeyBundle` is one step per slot, and marking the slot another, so
that the mutex is all that keeps callers apart (the mutant `LockShared` shows
it).  `issued` records what was returned.

*RelayQueues.*  Methods are single steps, justified by the mutex held
throughout; the `now` given to `PurgeExpired` is read in a step before.

*Conversation.*  `Write` is `EncryptMessage` and `MarshalEnvelope`; then the client
calls `SendMessage`, which takes the message (`Post`) or returns `ErrUnknownUser`
while the recipient has no identity on the relay (`PostRefused`).  A client that is
refused tries again, or gives up and goes on with the ratchet it has: the message
is lost, its number used.  A client sends what it has encrypted before it encrypts
again, so the order of envelopes is that of the messages, with gaps: `posted` has
the number of the message in each envelope, `unsent` those that were given up.
`Poll` is `PollMessages`, which gives a batch; `Read` takes the next message of the
batch to `EstablishAsResponder`, if it is the first, or to `DecryptMessage`, with all
its outcomes.  `Drop` is a message of a session the recipient does not have, because
its initial message was purged or refused.  Between any two of these the peer
writes, users register, time passes, and the janitor reads the clock or purges.

*TransLog.*  A root is the sequence of entries under it.  A user logs a key and
then gives it to the relay.  A client makes several checks at a time, of one contact
or of several.  A check is `Observe` (`FetchIdentity`), a call that finds an entry
of the contact, and a last step with `InclusionProof`, one call of the log, and
what is computed from its answer: `Accept` or `Block`.  The code has no function
that puts these calls together, and `CheckKeyChange` is told only whether the
observed key is logged; so there are two ways to find the entry.  `AskLatest`
(`LatestEntryForUser`) goes by the contact's latest entry; `FindEntry` (`Entry`,
index after index) by any entry that has the key, as far as the comments of
`client.go` (25-43) ask for.  With `Substitutes` the relay may answer with a key
nobody logged, with an older key of the contact, or with one the contact has
logged and not yet published.

*Gossip.*  An operator who is `honest` appends and signs what he has; one who is
not signs any tree.  Which he is, is chosen at the start.  Anyone else can sign heads of another log or make up heads
in his name that do not verify.  A view keeps the first head of each size.

*Session.*  Initiators fetch the identity, then a prekey, which for the last
resort is another call, check it (`VerifyBundle`, `VerifyLastResort`: who signed
the batch) and send.  What an initial message carries is what the code puts into
it: the sender, the KEM ciphertext, `isLastResort` and an index, and the first
message, sealed with the session key.  The responder rotates his identity,
publishes it, and publishes batches at any moment, polls, and answers with the
keys he has then: `Named` is what flag and index mean to him, `ResponderKey` what
he derives from it, over the transcript of that kind, and the first message
opens or not.  `Decapsulate` with the wrong key gives another secret and no
error.  A batch may be empty and the last-resort prekey missing, as
`PublishPrekeys` accepts both.  As `PollMessages` gives the whole queue, the
polled messages are looked at one after another.  `PurgeExpired` takes any number of
messages from the front of the queue; the clock is in `RelayQueues`, where
`MailboxKept` says that a purge does no other thing.

*Wire.*  Each `...Marshal` appends the fields the code appends, with their
lengths; each `Unmarshal...` is a chain of readers, of which the first to run out
of bytes makes the result a failure, as does one byte too many.  What may be nil
is a sequence of no or one element.  Sizes of keys are constants; a byte is a
number less than `Word`, and a `uint32` takes one of them.  `Send` makes an
envelope of any initial or subsequent message; `Truncate`, `Lengthen` and
`Change` are what may become of it.  A transcript is made of the keys, the root
and the index without lengths between them, or of the keys alone.

*Merkle.*  `BuildTree`, `InclusionProof`, `VerifyInclusionProof` over symbolic
hashes, for trees a caller builds leaf by leaf.  Each loop is a function of the
rounds it has made: `power` of one that doubles, `Shifted` of `idx >>= 1`, the
levels of a tree, the hash on the way up.  `Depth` is the number of rounds after
which `nextPowerOfTwo` stops, which is also how often a level, or
`VerifyInclusionProof`'s own counter, can be halved.

## 3. Runs

| Run | Shows |
|---|---|
| `RatchetOrdered` | order kept, no loss: an ordered channel, everything read, with injections due at any time on both sides |
| `RatchetLossy` | any order, loss, injections: the two halves of an injection always match; keys part only if the carrier of a ciphertext is overtaken, and until then whatever arrives is read |
| `RatchetFaulty` | loss, reordering, repetition, injections, small skip limit: no key reused, read keys erased, at-most-once channel |
| `RelayPrekeys` | directory implements the dispenser, telemetry exact, fetch finds its slot at the cursor, calls return |
| `Conversation` | the relay is a network that loses only what is purged, refused or follows a lost initial message, its queues are mailboxes, nothing is purged early; keys part, and the ratchet refuses messages, only when the carrier of a ciphertext was purged or more than the skip window was lost, skipped keys are those of lost messages, what is not lost is read |
| `TransLog` | append-only heads, only logged keys pinned; a caller that goes by the latest entry never goes back to an older key, and a caller is blocked with a key that a head covers only if it goes by the latest entry and there is a newer key; pins converge, all with a relay that substitutes keys, made up or old, and two checks at a time |
| `Gossip` | no evidence against an honest operator; evidence convinces, both victims learn, splits are found along a row of clients |
| `Session` | both ends agree, prekeys fresh, only replaced keys cause refusals, each initial message makes a session, is refused or is purged |
| `Encodings` | proofs, forgeries, roots, for all trees up to the bound; envelopes are read as meant, damage is refused or shows, transcripts bind |

Three runs end in a violation.  Each checks what a document or comment of the
repository says and the code does not do; `PROJECT.json` quotes both sides
under "findings".

| Run | What is said | What happens |
|---|---|---|
| `RatchetDesync` | no silent desync under reordering (PRD C4) | the carrier of a ciphertext is overtaken; the roots part |
| `RatchetRepeated` | duplicates are refused (`ErrDuplicateOrTooOld`) | a duplicate burns the key of a message to come |
| `RatchetGap` | no deadlock under loss (PRD C4) | everything is refused after a long gap at the end of a chain |

### What the properties leave out, because the code does not promise it

* `MaxSkip` limits one gap.  The store of skipped keys keeps those of every gap
  and every chain, and nothing trims it, so it can grow past `MaxSkip`
  (`ratchet.go:305`).  `OnlyLostAreSkipped` says that over the relay each key in
  it is that of a message that was purged or refused, so that their number bounds
  it.
* A purge takes the oldest messages, so the initial message, or the carrier of a
  ciphertext, before what depends on it (`relay.go:223`).  What then arrives is
  refused.  So is everything after more than `MaxSkip` messages to a party in
  session are lost, as `skipMessageKeys` compares and gives up (`ratchet.go:305`).
* `SendMessage` refuses a message to a user who has not published an identity when
  `EncryptMessage` has stepped the ratchet for it (`relay.go:192`).  This is a loss,
  like a purge: of the initial message, after which there is no session, or of as
  many messages as the client gives up on, which may be more than `MaxSkip`.  It
  never takes an injection's ciphertext (`Unheard` of `ConversationProofs`): a user
  the relay does not know has been handed nothing, so he has advertised no ML-KEM
  key.
* `KeysPartOnlyByLoss` and `AcceptedAreRead` say that purges and refusals are the
  only causes.  They are no sure ones: a gap that is wide enough, but split over
  several chains, does no harm.
* The last-resort flag of an initial message is any byte but zero, so that one
  byte of an envelope can change unseen (`wire.go:99`).  `DamageShows` names it
  as the only one.
* An injection that falls due waits for the next new sending chain, that is for
  a message of the peer.  A party nobody answers never injects
  (`ratchet.go:175`).
* Between `Append` and the next tree head an entry has no proof (`log.go:176`).  A
  caller that goes by the latest entry is then blocked with the new key, as no head
  covers it, and also with the key the relay still has, which a head covers, as it
  is no more the latest; and so is one whose contact rotates between `FetchIdentity`
  and `LatestEntryForUser`.
  `NoFalseAlarm` says that a key a head covers is blocked in no other way, and
  never when the caller goes by the key's own entry.
* That caller, in turn, takes any logged key, an older one included, for a
  legitimate rotation, with a soft notice: `CheckKeyChange` cannot tell
  (`client.go:54`).  `PinsMoveForward` is about callers that go by the latest entry.
* Gossip compares heads of one size.  A fork that is only shown at different
  sizes is not found, as there is no consistency proof (`witness.go:83`).
  `EverySplitFound` is about one size.
* The index in an initial message does not name a batch.  After a top-up it
  names another key, and the message is refused (`session.go:99`), as it is after the
  responder has made a new identity.  `OnlyReplacedAreRefused` says that a message
  for a prekey of his last batch and for his identity of the moment never is.

### Bounds

* `MaxSend` 4 or 5 messages per party: three changes of chain each way, an
  injection offered, answered and offered again, and a gap at both ends of a
  chain.  `MessageThreshold` 1 or 2 puts injections at every or every other
  chain; 20 is out of reach and switches them off.  `MaxSkip` 1 makes refusals
  reachable, 10 makes them unreachable.  `MaxDups` 1 is one repeated delivery.
  Bounded sending does not weaken the liveness properties: they ask what
  happens to messages that were sent.
* `RelayPrekeys`: three clients of two calls, batches of zero to two: two race
  for the last key while the third publishes, and the cursor wraps.
* `Conversation`: TTL 0 and time up to 2: ages at and beyond the TTL, and a
  janitor whose time is one or two ticks old; three messages each way with an
  injection at every chain: a purge cuts a queue in the middle, takes the initial
  message, or the carrier of a ciphertext, between a poll and the answer.
  `MaxSkip` 1, so that a purge, or refusals before the recipient publishes his
  identity, can also take more than the skip window.
* `TransLog`: two users with two keys each, one of them the client's contact, and
  two checks at a time.  Two keys give a rotation at every point of a check and an
  older key to go back to, two checks one that is overtaken by another with a newer
  key.  The other user's entries come between the contact's and move their indices.
  Contacts have nothing in common but the log, and so do clients.
* `Gossip`: a row of three clients, so that two never speak; trees of up to two
  entries over two values, so that an honest log grows and a lying operator has
  four trees of one size; two heads, which is a disagreement, and time 2, so
  that one of them can be a republication of the other.
* `Session`: two initiators, three batches of up to two prekeys, two identities:
  the last resort is reused, a batch is replaced twice and an identity once
  between any two steps.  The janitor may purge the queue, or some of it, at any.
* `Encodings`: six leaves reach depths 0 to 3, with padding of none, one, two and
  three leaves.  Keys of one or two bytes and two values of each: enough to tell
  fields apart that follow each other, and `EncodingsProofs` is about any sizes.  One
  truncation, one added byte, or one byte changed to any value, lengths included.

No symmetry reduction is used.  `CHECK_DEADLOCK FALSE` stands in each cfg, as
all actions are bounded and a system that has sent all its messages stops.

### Fairness

* Ratchet: a party keeps decrypting what reaches it.  A client that is online
  polls; nothing is assumed of sending.
* RelayPrekeys: weak fairness of each call's next step.  Go's scheduler runs a
  goroutine that can run and its mutex does not starve one; as the number of
  calls is bounded, weak fairness of `Lock` is enough.
* Conversation: a client that is online polls, and goes through a batch before it
  polls again, and a client that has encrypted a message calls `SendMessage` with it,
  as in `relay/e2e_test.go`; whether it tries again when it is refused is left open.
  Nothing is assumed of who writes or registers, of the janitor or of the clock.
* TransLog: tree heads are published every epoch, whoever logged a key
  publishes it, a client carries through a check it began and keeps checking
  (strong fairness, for each of its checks, of `Observe` with the key the contact
  has on the relay, since checks of other contacts, and answers the relay
  substitutes, get in between; a relay that substitutes every answer can keep a
  client blocked for ever).
  The code has no timer of its own: its comments give the five-minute epoch,
  and the check "on every identity/bundle fetch" (PRD F5).
* Gossip: peers keep exchanging envelopes, on which heads travel.  Nothing is
  assumed of what the operator shows to whom.
* Session: an initiator goes on, the responder polls and looks at what he has.
  Nothing is assumed of the janitor.

## 4. Proofs

All theorems hold for every value of the constants that satisfies the named
assumption of the module.  Two modules have theorems with a hypothesis besides,
which stands in the theorem: those of `RatchetSyncProofs` say what network they
are about, and those about `Wire` in `EncodingsProofs` that lengths fit.

**`RatchetProofs`.**  `TypeCorrect`, `KeysNeverReused` (`SealedOnce`),
`KeysErased` (`ReadKeysErased`), `ImplementsChannel` (`AtMostOnceChannel`), from
`Invariance`.  None is inductive alone.  For reading, the invariant (`ReadInv`)
says that the receiving chain and the stored keys are ahead of every key a
message was read with, and that stored keys are distinct; a message read twice
would need a key that is behind.  For sealing (`SealInv`), a party is past every
key it has sealed with on its current chain; and the chains of the two parties
are disjoint, because a party starts a chain with a key pair younger than any
its peer has heard of, which puts a number into the chain that the peer's chains
cannot have.  Both parts are preserved by the failing calls, too, which change
the state.  `ImplementsChannel` maps encryption to `Send`, a successful
decryption to `Receive`, everything else to a stutter.

**`RatchetSyncProofs`.**  What the two ends of a session know of one another.
Its theorems are about a network that repeats nothing (`MaxDups = 0`), as the
relay does; the code does lose synchrony under repetition (`RatchetRepeated`).

* Under any loss and reordering: `TurnsTaken`, `KeysOfInjectionsPair`
  (`InjectionsPaired`), `Synchronous`, `PartOnlyByOvertaking`
  (`DesyncOnlyByOvertakenCT`).  The argument goes in two layers.  `TurnInv`
  knows nothing of secrets: a party starts a chain only after it has read from
  its peer's last one, so that the two take turns and neither is more than one
  chain behind the other, numbers along a chain have no gaps, the key of each
  message in flight that was stepped over is stored, and a ciphertext on a chain
  its receiver has not reached was made for the key that one has pending.  `SyncInv` adds the secrets:
  the receiver's root is the sender's, or one secret short of it with the carrier
  of that secret still ahead, or else the carrier was overtaken.  It is
  preserved by a change of chain because, by `TurnInv`, the carrier is the first
  message of the chain, so that whoever reads another one first overtakes it.
* Where the network keeps the order, too (`"reorder" \notin Faults`):
  `StoresOnlyGone` and `DamageOnlyByLoss`.  `LossInv` says that what a party
  was handed is behind all that is in flight to it, that the chains before it
  list their numbers in order, and hence that it stores keys for lost messages
  only.  `CutInv` says that unless a ciphertext was lost, or more than `MaxSkip`
  messages to one party in session, both are still reading: they have refused
  nothing and hold the chains their messages were sealed on.  What a gap skips is
  lost, so no gap is then wider than `MaxSkip`.
* Where nothing is lost either (`Faults = {}`): `NothingRefusedInOrder` and
  `ImplementsOrderedChannel` (`InOrderChannel`), from `WholeInv`: nothing is gone,
  and the n-th message read is the n-th written.

**`RelayPrekeysProofs`.**  `TypeCorrect`, `ScansDrained`
(`ScansOnlyTheDrained`), `ImplementsDispenser` (`PromiseKept`), from an invariant
that says: a client inside a call holds the mutex; the used slots are a prefix
of the batch with the cursor behind it, back at the first when all are used; a
slot that was found is unused and at the cursor.  That prefix makes the modulo
scan either succeed at once or run through a drained batch.  `TelemetryTrue`
(`TelemetryExact`) is inductive
together with `Numbered`: a new batch begins with nothing issued under its
number, and each grant uses up one slot of that prefix.

**`ConversationProofs`.**  First the queues alone: `QueuesInvariance`,
`ImplementsMailbox` (`MailboxKept`), `PurgedInTime` (`PurgedOnlyExpired`).
`QueuesInv` says that the envelopes of a queue are the last ones accepted, with
the times they were accepted at, which ascend, and that each other one was
polled or purged.  Hence the loop of `PurgeExpired`, which looks at each envelope
for itself, keeps an end of the queue: `Kept` is shown, by induction over its
rounds, to be what is left after the expired ones at the front.

Then a session over them: `TalkInvariance`, `ConversationsUseQueues`,
`RelayIsOrderly` (`RelayIsNetwork`), `StoresOnlyLost` (`OnlyLostAreSkipped`),
`KeysPartByLoss` (`KeysPartOnlyByLoss`).  `TalkInv` is made of `QueuesInv`,
the invariants of `RatchetProofs` and `RatchetSyncProofs` under the
substitution of `Conversation`, and three parts that tie the two together.
`Posted`: every message is the last one written and still to be sent, or was
accepted in its turn, or refused, and never two of these.  `Matched`: what a party
has gone through was handed to `DecryptMessage`, unless its session never began
because the initial message was lost.  `Unheard`: a user without an identity on the
relay has been handed nothing, and so is where he began; hence no refused message
carries a ciphertext.  So what is gone for the ratchet of a party in session was
purged or refused, and a ciphertext that is gone was purged.  Each step of the
conversation is then one of `Ratchet` over a network without reordering, or several
losses at once, and the lemmas of `RatchetSyncProofs` are reused for it step by step.

**`TransLogProofs`.**  `TypeCorrect`, `AppendOnly` (`HeadsConsistent`),
`OnlyLoggedPinned` (`PinnedIsLogged`), `NeverBackwards` (`PinsMoveForward`), from
an invariant that says: published trees are beginnings of the log; the keys of
a user ascend along it; what is pinned stands under a published head; and the
index a caller was told is the latest is at or after the entry of what was pinned
when it asked.  What such a caller accepts is what is pinned already or that very
entry, whatever other checks have pinned meanwhile.

`AlarmsAreNotFalse` (`NoFalseAlarm`) follows from
`LogIsAhead`, an invariant on top of the one above: the log has every key of a user
that the relay or a caller has; the latest entry a caller was told of is no older
than its key, and an entry it looked for is that of its key.  With the keys of a
user ascending, an entry that is not that of the key is one of a newer key, and the
key's own entry has a proof as soon as a head covers it.

**`GossipProofs`.**  `TypeCorrect`, `HonestSafe` (`HonestNeverImplicated`),
`EvidenceIsProof` (`EvidenceConvinces`), from an invariant that says: what is
remembered and held as evidence was signed by the operator; the trees an honest
one has signed are beginnings of his log, so that two of one size are the same.

**`SessionProofs`.**  `TypeCorrect`, `EndsAgree` (`SessionsAgree`), `FreshOnce`
(`OneTimeFresh`), `CurrentNotRefused` (`OnlyReplacedAreRefused`), from an
invariant that says: the one-time prekeys on offer are of the last batch; what
an initiator holds is not on offer, and no one else holds it unless it is the
last resort; a message in the queue or the inbox is the one its sender sent; a
session is the one of the attempt it names.  With them, a message that opens was
sealed over the very prekey its index names now.  It uses nothing of the relay
but `Dispenser`, which `ImplementsDispenser` says the directory implements.

**`EncodingsProofs`.**  About trees of any size: `OnlyPaddedVerify`,
`TreesProve` (`ProofsVerify`), `NoForgeries` (`OnlyLeavesVerify`), `RootsBind`
(`RootsDiffer`).  `Levels` says what `BuildTree` computes, level by level.
`Ascent`: the hash `VerifyInclusionProof` has after k rounds along a path of
`InclusionProof` is the one at level k, above the leaf.  `Descent` is the
converse, from the root down: whatever path led to the root, the hash before
each round is the one in the tree at that place, so that what was hashed first is
the leaf or the padding there.  It uses that hashes of leaves and of nodes
differ (the tags), which also fixes the length of the path, and with it makes
the size the verifier is told harmless.  `SameLevels` goes down two trees of one
root in the same way.  That a leaf is no padding comes from the caller's leaf data
(`LeavesInv`).

About envelopes, `RoundTrip`: every message of whatever bytes is read from its
envelope as it was written, nil fields as nil.  `ReadsAsMeant` (`ParsesBack`) is
the same of the envelopes that are sent.  `ReadOneWay` goes the other way: an
envelope of whatever bytes that can be read is, byte for byte, what would be
written for it, but for the flag of a last-resort message; `NothingMore`: with
anything after it it cannot be read.  `DamageIsSeen` (`DamageShows`) follows, by an
invariant (`WayInv`): an envelope on its way is as long as it was, or has lost or
gained something at its end.  `TranscriptsBind`: two handshakes have one
transcript only if they agree in initiator, responder, root and index, or public
key, and kind.  `HandshakesBound` (`TranscriptBinds`) says so of what a reader
makes of an envelope however damaged.  What is written is brought into
the form of a row of fields, and each reader is shown to take a field off the
front (`FieldOff`) and to take nothing that is not one (`FieldTaken`); that
lengths come before contents, or are known, makes the split unique.
These theorems have a hypothesis, `Sizes`: keys have at least one byte, every
length fits the number it is written as, and a public key is not as long as a
root and an index together.  The last holds in the code (1216 bytes against 36)
and is what keeps the two kinds of transcripts apart.

Each module with proofs states only what TLC has checked before, and each
invariant was checked by TLC on small instances before it was proved.

The loops and the recursive functions (`Kept`, `power`, `Shifted`, the levels of
a tree) are reasoned about by the least number for which a claim fails
(`SetInduction`, from the library's theorem on well-founded relations): a set of
numbers that has 0 and the successor of each member is `Nat`.  This states an
induction as one about a set, which the installed provers can cite, where the
library's induction theorems take an operator, which they cannot.

Only model-checked: every liveness property, as the provers do no fairness and no
ENABLED.  Every invariant and every action property that a run expects to hold
is proved.

## 5. Not modelled

* Errors of the random source, and public keys whose bytes are no point or no
  module element.  They end a call with an error.  In the ratchet some of the
  state may have changed by then (`ratchet.go:178`, after a new root), which the
  models do not follow.
* The two halves of identity signatures and of the hybrid KEM, both of which
  must hold; either is one symbolic key.  Strength of cryptography is outside of
  this method.
* Key generation, and the known-answer tests of the primitives, which have no
  state.
* Crashes.  The program keeps everything in memory and recovers nothing.
* An `InitialMessage` that is delivered twice.  The relay never does it, and the
  code has no place where a responder would notice.
* Several sessions of one user with one peer: the code leaves to its caller which
  state a message goes to.

What is left of the source, about a third of its lines, is this and the
formatting of errors, constructors that only copy, and accessors.

## 6. Plan

Done, in this order: `Ratchet` with its channel and proofs, `RelayPrekeys` with
its dispenser and proofs, `RelayQueues`, `TransLog` with proofs, `Gossip` with
proofs, `Session`, `Merkle`, `Conversation`, `SessionProofs`, `Wire` with proofs,
`RatchetSyncProofs`, `ConversationProofs`, the proofs about `Merkle`.

Left: a repeated initial message, if the code gets a place to refuse it.
