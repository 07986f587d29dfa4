-------------------------------- MODULE Wire --------------------------------
(***************************************************************************)
(* What crosses the relay, byte for byte: envelopes of initial and         *)
(* subsequent messages (crypto/session/wire.go), their headers             *)
(* (crypto/ratchet/header.go), the keys and ciphertexts in them            *)
(* (crypto/identity, crypto/kemhybrid), and what is made of them and never *)
(* sent: the transcripts of handshakes (crypto/session/session.go).  An    *)
(* envelope is sent, and then cut short, lengthened, or changed in one     *)
(* place, as a relay that sees only opaque bytes could.                    *)
(*                                                                         *)
(* A byte is a number, and a uint32 takes the room of one byte here.  What *)
(* may be missing, a nil field or the result of a failed reading, is a     *)
(* sequence of no or one element.                                          *)
(***************************************************************************)
EXTENDS Integers, Sequences

CONSTANTS
  Word,                                \* uint32: numbers are less than this
  Ed25519Size, MLDSASize,              \* sizes in bytes, of the halves of an identity,
  X25519Size, MLKEMSize, KEMSize,      \* of a public key and of a ciphertext,
  HashSize                             \* and of a Merkle root

VARIABLES
  sent,     \* the message in the envelope, and the handshake it belongs to
  buf,      \* the envelope
  damaged   \* whether it still is as it was sent

vars == <<sent, buf, damaged>>

-----------------------------------------------------------------------------
(* Writing.                                                                *)

uint32(n) == <<n % Word>>

\* appendBytes and appendLenPrefixed.
appendLenPrefixed(buffer, data) == buffer \o uint32(Len(data)) \o data

\* Mutant: a field of no bytes is there.
OptionalKept(data) == <<data>>

\* A field of the header that may be nil, which it is when it has no bytes.
Optional(data) == IF data = <<>> THEN <<>> ELSE <<data>>
Data(optional) == IF optional = <<>> THEN <<>> ELSE optional[1]

HeaderMarshal(h) ==
  LET numbers == appendLenPrefixed(<<>>, h.DHPub) \o uint32(h.PN) \o uint32(h.N)
  IN appendLenPrefixed(appendLenPrefixed(numbers, Data(h.MLKEMPub)), Data(h.MLKEMCiphertext))

\* identity.PublicKey, kemhybrid.PublicKey and kemhybrid.Ciphertext.
IdentityMarshal(id) == id.Ed25519 \o id.MLDSA
PublicKeyMarshal(pub) == pub.X25519 \o pub.MLKEM
CiphertextMarshal(ct) == ct.X25519Ephemeral \o ct.MLKEMCiphertext

InitialMessageMarshal(m) ==
  LET id == appendLenPrefixed(<<>>, IdentityMarshal(m.SenderIdentity))
      kem == appendLenPrefixed(id, CiphertextMarshal(m.KEMCiphertext))
      prekey == kem \o uint32(m.PrekeyIndex) \o <<IF m.IsLastResort THEN 1 ELSE 0>>
  IN appendLenPrefixed(appendLenPrefixed(prekey, HeaderMarshal(m.Header)), m.Ciphertext)

SubsequentMessageMarshal(m) ==
  appendLenPrefixed(appendLenPrefixed(<<>>, HeaderMarshal(m.Header)), m.Ciphertext)

Initial == 1
Subsequent == 2

MarshalEnvelope(m) ==
  <<m.type>> \o IF m.type = Initial THEN InitialMessageMarshal(m) ELSE SubsequentMessageMarshal(m)

\* Mutant: the slot in the batch is left out.
buildTranscriptNoIndex(initiator, responder, root, index) ==
  IdentityMarshal(initiator) \o IdentityMarshal(responder) \o root

buildTranscript(initiator, responder, root, index) ==
  IdentityMarshal(initiator) \o IdentityMarshal(responder) \o root \o uint32(index)

buildLastResortTranscript(initiator, responder, pub) ==
  IdentityMarshal(initiator) \o IdentityMarshal(responder) \o PublicKeyMarshal(pub)

-----------------------------------------------------------------------------
(* Reading.  A reader has the fields read so far and the bytes that are    *)
(* left, or has failed.                                                    *)

Reader(data) == [ok |-> TRUE, fields |-> <<>>, rest |-> data]
Truncated == [ok |-> FALSE, fields |-> <<>>, rest |-> <<>>]

\* The next n bytes are a field.
Take(r, n) ==
  IF r.ok /\ Len(r.rest) >= n
  THEN [ok |-> TRUE, fields |-> Append(r.fields, SubSeq(r.rest, 1, n)),
        rest |-> SubSeq(r.rest, n + 1, Len(r.rest))]
  ELSE Truncated

readUint32(r) == Take(r, 1)

\* readBytes and readLenPrefixed: the length is no field.
readLenPrefixed(r) ==
  IF readUint32(r).ok
  THEN Take([ok |-> TRUE, fields |-> r.fields, rest |-> Tail(r.rest)], Head(r.rest))
  ELSE Truncated

\* Mutant: what is left over is ignored.
DoneAnyway(r) == r.ok
Done(r) == r.ok /\ r.rest = <<>>

UnmarshalHeader(data) ==
  LET r == readLenPrefixed(readLenPrefixed(readUint32(readUint32(readLenPrefixed(Reader(data))))))
  IN IF Done(r)
     THEN <<[DHPub |-> r.fields[1], PN |-> r.fields[2][1], N |-> r.fields[3][1],
             MLKEMPub |-> Optional(r.fields[4]), MLKEMCiphertext |-> Optional(r.fields[5])]>>
     ELSE <<>>

\* unmarshalIdentityPublicKey: that each half is a key is not looked into.
UnmarshalIdentity(data) ==
  LET r == Take(Take(Reader(data), Ed25519Size), MLDSASize)
  IN IF Done(r) THEN <<[Ed25519 |-> r.fields[1], MLDSA |-> r.fields[2]]>> ELSE <<>>

UnmarshalCiphertext(data) ==
  LET r == Take(Take(Reader(data), X25519Size), KEMSize)
  IN IF Done(r) THEN <<[X25519Ephemeral |-> r.fields[1], MLKEMCiphertext |-> r.fields[2]]>> ELSE <<>>

\* One check or another fails: the code stops at the first.
UnmarshalInitialMessage(data) ==
  LET prekey == Take(readUint32(readLenPrefixed(readLenPrefixed(Reader(data)))), 1)
      r == readLenPrefixed(readLenPrefixed(prekey))
      id == UnmarshalIdentity(r.fields[1])
      ct == UnmarshalCiphertext(r.fields[2])
      h == UnmarshalHeader(r.fields[5])
  IN IF Done(r) /\ <<>> \notin {id, ct, h}
     THEN <<[type |-> Initial, SenderIdentity |-> id[1], KEMCiphertext |-> ct[1],
             PrekeyIndex |-> r.fields[3][1], IsLastResort |-> r.fields[4] # <<0>>,
             Header |-> h[1], Ciphertext |-> r.fields[6]]>>
     ELSE <<>>

UnmarshalSubsequentMessage(data) ==
  LET r == readLenPrefixed(readLenPrefixed(Reader(data)))
      h == UnmarshalHeader(r.fields[1])
  IN IF Done(r) /\ h # <<>>
     THEN <<[type |-> Subsequent, Header |-> h[1], Ciphertext |-> r.fields[2]]>>
     ELSE <<>>

UnmarshalEnvelope(data) ==
  IF data = <<>> THEN <<>>
  ELSE CASE Head(data) = Initial -> UnmarshalInitialMessage(Tail(data))
         [] Head(data) = Subsequent -> UnmarshalSubsequentMessage(Tail(data))
         [] OTHER -> <<>>

-----------------------------------------------------------------------------
(* An envelope on its way.                                                 *)

\* Two values of every size stand for all.
Zeros(n) == [i \in 1 .. n |-> 0]
Bytes(n) == {[i \in 1 .. n |-> b] : b \in 0 .. 1}
Perhaps(values) == {<<>>} \cup {<<v>> : v \in values}

Identities == [Ed25519 : Bytes(Ed25519Size), MLDSA : Bytes(MLDSASize)]
Handshakes ==
  [initiator : Identities, responder : Identities, root : Bytes(HashSize), index : 0 .. 1,
   pub : {[X25519 |-> <<>>, MLKEM |-> <<>>]}]
    \cup [initiator : Identities, responder : Identities, root : {<<>>}, index : {0},
          pub : [X25519 : Bytes(X25519Size), MLKEM : Bytes(MLKEMSize)]]

LastResort(handshake) == handshake.root = <<>>

Transcript(handshake) ==
  IF LastResort(handshake)
  THEN buildLastResortTranscript(handshake.initiator, handshake.responder, handshake.pub)
  ELSE buildTranscript(handshake.initiator, handshake.responder, handshake.root, handshake.index)

\* EstablishAsInitiator and EstablishAsInitiatorLastResort: the header is that
\* of a first message.
InitialMessages(handshake) ==
  [type : {Initial}, SenderIdentity : {handshake.initiator},
   KEMCiphertext : [X25519Ephemeral : Bytes(X25519Size), MLKEMCiphertext : {Zeros(KEMSize)}],
   PrekeyIndex : {handshake.index}, IsLastResort : {LastResort(handshake)},
   Header : [DHPub : {Zeros(X25519Size)}, PN : {0}, N : {0}, MLKEMPub : {<<>>}, MLKEMCiphertext : {<<>>}],
   Ciphertext : {Zeros(2)}]

SubsequentMessages ==
  [type : {Subsequent},
   Header : [DHPub : Bytes(X25519Size), PN : 0 .. 2, N : 0 .. 2,
             MLKEMPub : Perhaps(Bytes(MLKEMSize)), MLKEMCiphertext : Perhaps(Bytes(KEMSize))],
   Ciphertext : {Zeros(2)}]

Init == sent = <<>> /\ buf = <<>> /\ damaged = FALSE

Send ==
  /\ sent = <<>>
  /\ sent' \in {<<m>> : m \in SubsequentMessages}
       \cup UNION {{<<m, h>> : m \in InitialMessages(h)} : h \in Handshakes}
  /\ buf' = MarshalEnvelope(sent'[1])
  /\ UNCHANGED damaged

Damage(wrong) == sent # <<>> /\ ~damaged /\ damaged' = TRUE /\ buf' = wrong /\ UNCHANGED sent

Truncate == \E n \in 0 .. Len(buf) - 1 : Damage(SubSeq(buf, 1, n))
Lengthen == \E b \in 0 .. 2 : Damage(Append(buf, b))
Change == \E i \in DOMAIN buf, b \in 0 .. Word - 1 : b # buf[i] /\ Damage([buf EXCEPT ![i] = b])

Next == Send \/ Truncate \/ Lengthen \/ Change

Spec == Init /\ [][Next]_vars

-----------------------------------------------------------------------------
(* Properties.                                                             *)

\* An envelope nobody touched is read as it was meant, with the very fields that
\* were nil still nil: a ratchet takes a field of no bytes for an injection.
ParsesBack == sent # <<>> /\ ~damaged => UnmarshalEnvelope(buf) = <<sent[1]>>

\* Where the last-resort flag of an initial message is.
FlagAt == 1 + (1 + Ed25519Size + MLDSASize) + (1 + X25519Size + KEMSize) + 1 + 1

\* An envelope that can be read at all is whole, and says what it says in one
\* way only, but for the last-resort flag, which is any byte but zero: so the
\* header that the receiver writes again, as associated data of the AEAD, holds
\* every byte of the header that came.
DamageShows ==
  LET m == UnmarshalEnvelope(buf)
      again == MarshalEnvelope(m[1])
  IN sent # <<>> /\ m # <<>> =>
       /\ Len(buf) = Len(MarshalEnvelope(sent[1])) /\ Len(buf) = Len(again)
       /\ \A i \in DOMAIN buf :
            buf[i] # again[i] => m[1].type = Initial /\ m[1].IsLastResort /\ i = FlagAt

\* Whatever becomes of an initial message on its way, a responder of whatever
\* identity who takes from it the initiator, the kind of prekey and the index
\* arrives at the initiator's transcript only when initiator, responder and
\* prekey are those the initiator meant; the two kinds never meet.
TranscriptBinds ==
  LET m == UnmarshalEnvelope(buf)
  IN Len(sent) = 2 /\ m # <<>> /\ m[1].type = Initial =>
       \A h \in Handshakes :
         /\ h.initiator = m[1].SenderIdentity
         /\ LastResort(h) = m[1].IsLastResort
         /\ Transcript([h EXCEPT !.index = m[1].PrekeyIndex]) = Transcript(sent[2])
         => /\ h = [sent[2] EXCEPT !.index = h.index]
            /\ LastResort(h) \/ m[1].PrekeyIndex = sent[2].index
=============================================================================
