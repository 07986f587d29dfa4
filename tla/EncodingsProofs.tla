--------------------------- MODULE EncodingsProofs ---------------------------
(***************************************************************************)
(* Proofs about what is computed from bytes alone.  About Wire, for keys   *)
(* and hashes of any size and messages of any bytes: what is written is    *)
(* read back, field for field, and what is read was written so.  About     *)
(* Merkle, for trees of any size: what verifies against a root is the      *)
(* leaf, or the padding, at that position.                                 *)
(*                                                                         *)
(* The loops of Merkle are recursive functions over Nat.  What they come   *)
(* to is shown by the least number for which it would not be so.           *)
(***************************************************************************)
EXTENDS Encodings, SequenceTheorems, WellFoundedInduction, TLAPS

\* The sizes fit: no length is too large for the number it is written as, and a
\* public key is not as long as a root and an index.
Sizes ==
  /\ Ed25519Size \in Nat \ {0} /\ MLDSASize \in Nat \ {0}
  /\ X25519Size \in Nat \ {0} /\ MLKEMSize \in Nat \ {0} /\ KEMSize \in Nat \ {0}
  /\ HashSize \in Nat \ {0}
  /\ Word \in Nat /\ 2 < Word
  /\ Ed25519Size + MLDSASize < Word
  /\ X25519Size + MLKEMSize + KEMSize + 5 < Word
  /\ X25519Size + MLKEMSize # HashSize + 1

Byte == 0 .. Word - 1

-----------------------------------------------------------------------------
(* Sequences of bytes.                                                     *)

LEMMA EmptyIn == <<>> \in Seq(Byte) /\ Len(<<>>) = 0
OBVIOUS

LEMMA OneIn ==
  ASSUME NEW b \in Byte
  PROVE <<b>> \in Seq(Byte) /\ Len(<<b>>) = 1 /\ <<b>>[1] = b
OBVIOUS

LEMMA ConcatIn ==
  ASSUME NEW s \in Seq(Byte), NEW t \in Seq(Byte)
  PROVE s \o t \in Seq(Byte) /\ Len(s \o t) = Len(s) + Len(t) /\ Len(s) \in Nat /\ Len(t) \in Nat
BY ConcatProperties, LenProperties

\* Two sequences put together are told apart by the length of the first.
LEMMA Split ==
  ASSUME NEW s \in Seq(Byte), NEW t \in Seq(Byte), NEW u \in Seq(Byte), NEW v \in Seq(Byte),
         Len(s) = Len(u), s \o t = u \o v
  PROVE s = u /\ t = v
<1>1. Len(s) \in Nat /\ Len(t) \in Nat /\ Len(v) \in Nat
  BY LenProperties
<1>2. Len(s) + Len(t) = Len(u) + Len(v)
  <2>1. Len(s \o t) = Len(s) + Len(t)
    BY ConcatIn
  <2>2. Len(u \o v) = Len(u) + Len(v)
    BY ConcatIn
  <2> QED
    BY <2>1, <2>2
<1>3. Len(t) = Len(v)
  BY <1>1, <1>2
<1>4. \A i \in 1 .. Len(s) + Len(t) :
        /\ (s \o t)[i] = IF i <= Len(s) THEN s[i] ELSE t[i - Len(s)]
        /\ (u \o v)[i] = IF i <= Len(s) THEN u[i] ELSE v[i - Len(s)]
  BY <1>2, ConcatProperties
<1>5. ASSUME NEW i \in 1 .. Len(s) PROVE s[i] = u[i]
  <2>1. i \in 1 .. Len(s) + Len(t) /\ i <= Len(s)
    BY <1>1
  <2> QED
    BY <1>4, <2>1
<1>6. ASSUME NEW i \in 1 .. Len(t) PROVE t[i] = v[i]
  <2>1. PICK j : j = i + Len(s)
    OBVIOUS
  <2>2. j \in 1 .. Len(s) + Len(t) /\ ~(j <= Len(s)) /\ j - Len(s) = i
    BY <1>1, <2>1
  <2>3. (s \o t)[j] = t[j - Len(s)] /\ (u \o v)[j] = v[j - Len(s)]
    BY <1>4, <2>2
  <2> QED
    BY <2>2, <2>3
<1> QED
  BY <1>3, <1>5, <1>6, SeqEqual

LEMMA Part ==
  ASSUME NEW s \in Seq(Byte), NEW m \in Nat \ {0}, NEW n \in Nat, n <= Len(s)
  PROVE /\ SubSeq(s, m, n) \in Seq(Byte)
        /\ Len(SubSeq(s, m, n)) = IF m <= n THEN n - m + 1 ELSE 0
        /\ \A i \in 1 .. n - m + 1 : SubSeq(s, m, n)[i] = s[m + i - 1]
<1>1. \A i \in m .. n : s[i] \in Byte
  BY ElementOfSeq, LenProperties
<1>2. m \in Int /\ n \in Int
  OBVIOUS
<1> QED
  BY <1>1, <1>2, SubSeqProperties

\* The parts of two sequences put together.
LEMMA Parts ==
  ASSUME NEW s \in Seq(Byte), NEW t \in Seq(Byte)
  PROVE /\ SubSeq(s \o t, 1, Len(s)) = s
        /\ SubSeq(s \o t, Len(s) + 1, Len(s \o t)) = t
<1> DEFINE l == SubSeq(s \o t, 1, Len(s))
           r == SubSeq(s \o t, Len(s) + 1, Len(s \o t))
<1>1. /\ Len(s) \in Nat /\ Len(t) \in Nat /\ s \o t \in Seq(Byte)
      /\ Len(s \o t) = Len(s) + Len(t)
  BY ConcatIn
<1>2. \A i \in 1 .. Len(s) + Len(t) :
        (s \o t)[i] \in Byte /\ (s \o t)[i] = IF i <= Len(s) THEN s[i] ELSE t[i - Len(s)]
  BY <1>1, ConcatProperties, ElementOfSeq
<1>3. l \in Seq(Byte) /\ Len(l) = Len(s) /\ \A i \in 1 .. Len(s) : l[i] = s[i]
  <2>1. \A i \in 1 .. Len(s) : (s \o t)[i] \in Byte /\ (s \o t)[i] = s[i]
    BY <1>1, <1>2
  <2>2. /\ l \in Seq(Byte)
        /\ Len(l) = IF 1 <= Len(s) THEN Len(s) - 1 + 1 ELSE 0
        /\ \A i \in 1 .. Len(s) - 1 + 1 : l[i] = (s \o t)[1 + i - 1]
    BY <1>1, <2>1, SubSeqProperties
  <2> QED
    BY <1>1, <2>1, <2>2
<1>4. r \in Seq(Byte) /\ Len(r) = Len(t) /\ \A i \in 1 .. Len(t) : r[i] = t[i]
  <2> DEFINE m == Len(s) + 1
             n == Len(s) + Len(t)
  <2>1. m \in Int /\ n \in Int /\ r = SubSeq(s \o t, m, n)
    BY <1>1
  <2>2. \A i \in m .. n : (s \o t)[i] \in Byte
    BY <1>1, <1>2
  <2>3. /\ r \in Seq(Byte)
        /\ Len(r) = IF m <= n THEN n - m + 1 ELSE 0
        /\ \A i \in 1 .. n - m + 1 : r[i] = (s \o t)[m + i - 1]
    <3>1. m \in Nat \ {0} /\ n \in Nat /\ n <= Len(s \o t) /\ s \o t \in Seq(Byte)
      BY <1>1
    <3> HIDE DEF m, n, r
    <3> QED
      BY <2>1, <3>1, Part
  <2>4. Len(r) = Len(t) /\ n - m + 1 = Len(t)
    BY <1>1, <2>3
  <2>5. ASSUME NEW i \in 1 .. Len(t) PROVE r[i] = t[i]
    <3>1. /\ m + i - 1 \in 1 .. Len(s) + Len(t) /\ ~(m + i - 1 <= Len(s))
          /\ m + i - 1 - Len(s) = i
      BY <1>1
    <3> QED
      BY <1>2, <2>3, <2>4, <3>1
  <2> QED
    BY <2>3, <2>4, <2>5
<1> HIDE DEF l, r
<1>5. l = s /\ r = t
  BY <1>1, <1>3, <1>4, SeqEqual
<1> QED
  BY <1>5 DEF l, r

-----------------------------------------------------------------------------
(* What is written is read back, a field at a time.                        *)

At(fields, rest) == [ok |-> TRUE, fields |-> fields, rest |-> rest]
Field(data) == uint32(Len(data)) \o data

LEMMA TakeBack ==
  ASSUME NEW f, NEW s \in Seq(Byte), NEW t \in Seq(Byte)
  PROVE Take(At(f, s \o t), Len(s)) = At(Append(f, s), t)
<1>1. Len(s \o t) >= Len(s)
  <2>1. Len(s \o t) = Len(s) + Len(t) /\ Len(s) \in Nat /\ Len(t) \in Nat
    BY ConcatIn
  <2> QED
    BY <2>1
<1>2. SubSeq(s \o t, 1, Len(s)) = s /\ SubSeq(s \o t, Len(s) + 1, Len(s \o t)) = t
  BY Parts
<1> QED
  BY <1>1, <1>2 DEF Take, At

LEMMA Number ==
  ASSUME NEW n \in Byte, Word \in Nat
  PROVE uint32(n) = <<n>>
BY DEF uint32, Byte

LEMMA ReadNumber ==
  ASSUME NEW f, NEW b \in Byte, NEW t \in Seq(Byte)
  PROVE Take(At(f, <<b>> \o t), 1) = At(Append(f, <<b>>), t)
<1>1. <<b>> \in Seq(Byte) /\ Len(<<b>>) = 1
  BY OneIn
<1> QED
  BY <1>1, TakeBack

LEMMA FieldIn ==
  ASSUME NEW s \in Seq(Byte), Len(s) < Word, Word \in Nat
  PROVE /\ Field(s) = <<Len(s)>> \o s /\ Field(s) \in Seq(Byte)
        /\ Len(Field(s)) = Len(s) + 1 /\ Len(s) \in Byte
<1>1. Len(s) \in Byte
  BY LenProperties DEF Byte
<1>2. <<Len(s)>> \in Seq(Byte) /\ Len(<<Len(s)>>) = 1 /\ Len(s) \in Nat
  BY <1>1, OneIn, LenProperties
<1>3. Field(s) = <<Len(s)>> \o s
  BY <1>1, Number DEF Field
<1>4. <<Len(s)>> \o s \in Seq(Byte) /\ Len(<<Len(s)>> \o s) = 1 + Len(s)
  BY <1>2, ConcatIn
<1> QED
  BY <1>1, <1>2, <1>3, <1>4

\* A length is read, and then as many bytes.
LEMMA LengthFirst ==
  ASSUME NEW f, NEW q, NEW b, NEW t, q # <<>>, Len(q) \in Nat, Len(q) >= 1,
         Head(q) = b, Tail(q) = t
  PROVE readLenPrefixed(At(f, q)) = Take(At(f, t), b)
<1>1. readUint32(At(f, q)).ok
  BY DEF readUint32, Take, At
<1>2. At(f, q).rest = q /\ At(f, q).fields = f
  BY DEF At
<1>3. At(f, t) = [ok |-> TRUE, fields |-> f, rest |-> t]
  BY DEF At
<1> QED
  BY <1>1, <1>2, <1>3 DEF readLenPrefixed

LEMMA ReadField ==
  ASSUME NEW f, NEW s \in Seq(Byte), NEW t \in Seq(Byte), Len(s) < Word, Word \in Nat
  PROVE readLenPrefixed(At(f, Field(s) \o t)) = At(Append(f, s), t)
<1>1. Field(s) = <<Len(s)>> \o s /\ Len(s) \in Byte /\ <<Len(s)>> \in Seq(Byte)
  BY FieldIn, OneIn
<1>2. Field(s) \o t = <<Len(s)>> \o (s \o t)
  BY <1>1, ConcatAssociative
<1>3. s \o t \in Seq(Byte)
  BY ConcatIn
<1>4. Head(<<Len(s)>> \o (s \o t)) = Len(s) /\ Tail(<<Len(s)>> \o (s \o t)) = s \o t
  BY <1>1, <1>3
<1>5. /\ <<Len(s)>> \o (s \o t) # <<>> /\ Len(<<Len(s)>> \o (s \o t)) \in Nat
      /\ Len(<<Len(s)>> \o (s \o t)) >= 1
  <2>1. Len(<<Len(s)>> \o (s \o t)) = 1 + Len(s \o t) /\ Len(s \o t) \in Nat
    BY <1>1, <1>3, ConcatIn, OneIn
  <2> QED
    BY <2>1, EmptyIn
<1>6. readLenPrefixed(At(f, <<Len(s)>> \o (s \o t))) = Take(At(f, s \o t), Len(s))
  BY <1>4, <1>5, LengthFirst
<1> QED
  BY <1>2, <1>6, TakeBack

\* Writing is putting fields one after the other.
LEMMA Appended ==
  ASSUME NEW s \in Seq(Byte), NEW t \in Seq(Byte), Len(t) < Word, Word \in Nat
  PROVE appendLenPrefixed(s, t) = s \o Field(t)
<1>1. uint32(Len(t)) = <<Len(t)>> /\ <<Len(t)>> \in Seq(Byte)
  BY FieldIn, Number, OneIn
<1> QED
  BY <1>1, ConcatAssociative DEF appendLenPrefixed, Field

LEMMA FirstAppended ==
  ASSUME NEW t \in Seq(Byte), Len(t) < Word, Word \in Nat
  PROVE appendLenPrefixed(<<>>, t) = Field(t)
<1>1. <<>> \in Seq(Byte) /\ Field(t) \in Seq(Byte)
  BY EmptyIn, FieldIn
<1>2. appendLenPrefixed(<<>>, t) = <<>> \o Field(t)
  BY <1>1, Appended
<1> QED
  BY <1>1, <1>2, ConcatEmptySeq

\* Kept folded, for the provers: put together, of one byte, of none.
Cat(s, t) == s \o t
One(b) == <<b>>
None == <<>>

LEMMA CatIn ==
  ASSUME NEW a \in Seq(Byte), NEW b \in Seq(Byte)
  PROVE /\ Cat(a, b) \in Seq(Byte) /\ Len(Cat(a, b)) = Len(a) + Len(b)
        /\ Len(a) \in Nat /\ Len(b) \in Nat
BY ConcatIn DEF Cat

LEMMA SingleIn ==
  ASSUME NEW b \in Byte
  PROVE One(b) \in Seq(Byte) /\ Len(One(b)) = 1 /\ One(b)[1] = b
BY OneIn DEF One

LEMMA NoneIn == None \in Seq(Byte) /\ Len(None) = 0
BY EmptyIn DEF None

LEMMA NothingAfter ==
  ASSUME NEW s \in Seq(Byte)
  PROVE Cat(s, None) = s
BY ConcatEmptySeq DEF Cat, None

LEMMA Length3 ==
  ASSUME NEW a \in Seq(Byte), NEW b \in Seq(Byte), NEW c \in Seq(Byte)
  PROVE Len(Cat(a, Cat(b, c))) = Len(a) + (Len(b) + Len(c))
<1>1. Cat(b, c) \in Seq(Byte) /\ Len(Cat(b, c)) = Len(b) + Len(c)
  BY CatIn
<1>2. Len(Cat(a, Cat(b, c))) = Len(a) + Len(Cat(b, c))
  BY <1>1, CatIn
<1> QED
  BY <1>1, <1>2

LEMMA Length4 ==
  ASSUME NEW a \in Seq(Byte), NEW b \in Seq(Byte), NEW c \in Seq(Byte), NEW d \in Seq(Byte)
  PROVE Len(Cat(a, Cat(b, Cat(c, d)))) = Len(a) + (Len(b) + (Len(c) + Len(d)))
<1>1. Cat(c, d) \in Seq(Byte) /\ Len(Cat(c, d)) = Len(c) + Len(d)
  BY CatIn
<1>2. Len(Cat(a, Cat(b, Cat(c, d)))) = Len(a) + (Len(b) + Len(Cat(c, d)))
  BY <1>1, Length3
<1> QED
  BY <1>1, <1>2

LEMMA Length5 ==
  ASSUME NEW a \in Seq(Byte), NEW b \in Seq(Byte), NEW c \in Seq(Byte), NEW d \in Seq(Byte),
         NEW e \in Seq(Byte)
  PROVE Len(Cat(a, Cat(b, Cat(c, Cat(d, e)))))
          = Len(a) + (Len(b) + (Len(c) + (Len(d) + Len(e))))
<1>1. PICK t : t = Cat(b, Cat(c, Cat(d, e)))
  OBVIOUS
<1>2. Len(t) = Len(b) + (Len(c) + (Len(d) + Len(e)))
  BY <1>1, Length4
<1>3. Cat(d, e) \in Seq(Byte) /\ Cat(c, Cat(d, e)) \in Seq(Byte)
  BY CatIn
<1>4. t \in Seq(Byte)
  BY <1>1, <1>3, CatIn
<1>5. Len(Cat(a, t)) = Len(a) + Len(t)
  BY <1>4, CatIn
<1> QED
  BY <1>1, <1>2, <1>5

\* Several fields in a row, as they are read.
LEMMA Assoc ==
  ASSUME NEW a \in Seq(Byte), NEW b \in Seq(Byte), NEW c \in Seq(Byte)
  PROVE Cat(Cat(a, b), c) = Cat(a, Cat(b, c))
BY ConcatAssociative DEF Cat

LEMMA Assoc4 ==
  ASSUME NEW a \in Seq(Byte), NEW b \in Seq(Byte), NEW c \in Seq(Byte), NEW d \in Seq(Byte)
  PROVE Cat(Cat(Cat(a, b), c), d) = Cat(a, Cat(b, Cat(c, d)))
<1>1. Cat(a, b) \in Seq(Byte) /\ Cat(c, d) \in Seq(Byte)
  BY CatIn
<1>2. Cat(Cat(Cat(a, b), c), d) = Cat(Cat(a, b), Cat(c, d))
  BY <1>1, Assoc
<1>3. Cat(Cat(a, b), Cat(c, d)) = Cat(a, Cat(b, Cat(c, d)))
  BY <1>1, Assoc
<1> QED
  BY <1>2, <1>3

Five(a, b, c, d, e) ==
  a \in Seq(Byte) /\ b \in Seq(Byte) /\ c \in Seq(Byte) /\ d \in Seq(Byte) /\ e \in Seq(Byte)

LEMMA Assoc5 ==
  ASSUME NEW a, NEW b, NEW c, NEW d, NEW e, Five(a, b, c, d, e)
  PROVE Cat(Cat(Cat(Cat(a, b), c), d), e) = Cat(a, Cat(b, Cat(c, Cat(d, e))))
<1> a \in Seq(Byte) /\ b \in Seq(Byte) /\ c \in Seq(Byte) /\ d \in Seq(Byte) /\ e \in Seq(Byte)
  BY DEF Five
<1>1. Cat(a, b) \in Seq(Byte) /\ Cat(d, e) \in Seq(Byte)
  BY CatIn
<1>2. Cat(Cat(Cat(Cat(a, b), c), d), e) = Cat(Cat(a, b), Cat(c, Cat(d, e)))
  BY <1>1, Assoc4
<1>3. Cat(c, Cat(d, e)) \in Seq(Byte)
  BY <1>1, CatIn
<1>4. Cat(Cat(a, b), Cat(c, Cat(d, e))) = Cat(a, Cat(b, Cat(c, Cat(d, e))))
  BY <1>3, Assoc
<1> QED
  BY <1>2, <1>4

-----------------------------------------------------------------------------
(* Writing fields at the end and reading them off the front.               *)

LEMMA FieldOn ==
  ASSUME NEW s \in Seq(Byte), NEW t \in Seq(Byte), Len(t) < Word, Word \in Nat
  PROVE /\ appendLenPrefixed(s, t) = Cat(s, Field(t))
        /\ Field(t) \in Seq(Byte) /\ Len(Field(t)) = Len(t) + 1
BY Appended, FieldIn DEF Cat

LEMMA NumberOn ==
  ASSUME NEW s, NEW b \in Byte, Word \in Nat
  PROVE s \o uint32(b) = Cat(s, One(b))
BY Number DEF Cat, One

LEMMA FieldOff ==
  ASSUME NEW f, NEW s \in Seq(Byte), NEW t \in Seq(Byte), Len(s) < Word, Word \in Nat
  PROVE readLenPrefixed(At(f, Cat(Field(s), t))) = At(Append(f, s), t)
BY ReadField DEF Cat

LEMMA NumberOff ==
  ASSUME NEW f, NEW b \in Byte, NEW t \in Seq(Byte)
  PROVE /\ Take(At(f, Cat(One(b), t)), 1) = At(Append(f, One(b)), t)
        /\ readUint32(At(f, Cat(One(b), t))) = At(Append(f, One(b)), t)
BY ReadNumber DEF Cat, One, readUint32

LEMMA PartOff ==
  ASSUME NEW f, NEW s \in Seq(Byte), NEW t \in Seq(Byte), NEW n, Len(s) = n
  PROVE Take(At(f, Cat(s, t)), n) = At(Append(f, s), t)
BY TakeBack DEF Cat

LEMMA LastFieldOff ==
  ASSUME NEW f, NEW s \in Seq(Byte), Len(s) < Word, Word \in Nat
  PROVE readLenPrefixed(At(f, Field(s))) = At(Append(f, s), None)
<1>1. Cat(Field(s), None) = Field(s)
  BY FieldOn, NothingAfter, NoneIn
<1>2. readLenPrefixed(At(f, Cat(Field(s), None))) = At(Append(f, s), None)
  BY NoneIn, FieldOff
<1> QED
  BY <1>1, <1>2

LEMMA LastPartOff ==
  ASSUME NEW f, NEW s \in Seq(Byte), NEW n, Len(s) = n
  PROVE Take(At(f, s), n) = At(Append(f, s), None)
<1>1. Cat(s, None) = s
  BY NothingAfter
<1>2. Take(At(f, Cat(s, None)), n) = At(Append(f, s), None)
  BY NoneIn, PartOff
<1> QED
  BY <1>1, <1>2

\* The fields that were read, in order.
Read2(a, b) == Append(Append(None, a), b)
Read5(a, b, c, d, e) == Append(Append(Append(Read2(a, b), c), d), e)
Read6(a, b, c, d, e, f) == Append(Read5(a, b, c, d, e), f)

LEMMA AppendedAt ==
  ASSUME NEW f \in Seq(Seq(Byte)), NEW a \in Seq(Byte)
  PROVE /\ Append(f, a) \in Seq(Seq(Byte)) /\ Len(Append(f, a)) = Len(f) + 1 /\ Len(f) \in Nat
        /\ \A i \in 1 .. Len(f) : Append(f, a)[i] = f[i]
        /\ Append(f, a)[Len(f) + 1] = a
BY AppendProperties, LenProperties

LEMMA ReadAt2 ==
  ASSUME NEW a \in Seq(Byte), NEW b \in Seq(Byte)
  PROVE /\ Read2(a, b) \in Seq(Seq(Byte)) /\ Len(Read2(a, b)) = 2
        /\ Read2(a, b)[1] = a /\ Read2(a, b)[2] = b
<1>1. None \in Seq(Seq(Byte)) /\ Len(None) = 0
  BY DEF None
<1>2. Append(None, a) \in Seq(Seq(Byte)) /\ Len(Append(None, a)) = 1 /\ Append(None, a)[1] = a
  BY <1>1, AppendedAt
<1> QED
  BY <1>2, AppendedAt DEF Read2

\* What a reader with one field more has.
LEMMA OneMore ==
  ASSUME NEW f \in Seq(Seq(Byte)), NEW n \in Nat, Len(f) = n, NEW a \in Seq(Byte)
  PROVE /\ Append(f, a) \in Seq(Seq(Byte)) /\ Len(Append(f, a)) = n + 1
        /\ \A i \in 1 .. n : Append(f, a)[i] = f[i]
        /\ Append(f, a)[n + 1] = a
BY AppendedAt

LEMMA Third ==
  ASSUME NEW f \in Seq(Seq(Byte)), Len(f) = 2, NEW a \in Seq(Byte)
  PROVE /\ Append(f, a) \in Seq(Seq(Byte)) /\ Len(Append(f, a)) = 3
        /\ Append(f, a)[1] = f[1] /\ Append(f, a)[2] = f[2] /\ Append(f, a)[3] = a
<1>1. /\ Append(f, a) \in Seq(Seq(Byte)) /\ Len(Append(f, a)) = Len(f) + 1
      /\ \A i \in 1 .. Len(f) : Append(f, a)[i] = f[i]
      /\ Append(f, a)[Len(f) + 1] = a
  BY AppendedAt
<1> QED
  BY <1>1

LEMMA Fourth ==
  ASSUME NEW f \in Seq(Seq(Byte)), Len(f) = 3, NEW a \in Seq(Byte)
  PROVE /\ Append(f, a) \in Seq(Seq(Byte)) /\ Len(Append(f, a)) = 4
        /\ Append(f, a)[1] = f[1] /\ Append(f, a)[2] = f[2] /\ Append(f, a)[3] = f[3]
        /\ Append(f, a)[4] = a
<1>1. /\ Append(f, a) \in Seq(Seq(Byte)) /\ Len(Append(f, a)) = Len(f) + 1
      /\ \A i \in 1 .. Len(f) : Append(f, a)[i] = f[i]
      /\ Append(f, a)[Len(f) + 1] = a
  BY AppendedAt
<1> QED
  BY <1>1

LEMMA Fifth ==
  ASSUME NEW f \in Seq(Seq(Byte)), Len(f) = 4, NEW a \in Seq(Byte)
  PROVE /\ Append(f, a) \in Seq(Seq(Byte)) /\ Len(Append(f, a)) = 5
        /\ Append(f, a)[1] = f[1] /\ Append(f, a)[2] = f[2] /\ Append(f, a)[3] = f[3]
        /\ Append(f, a)[4] = f[4] /\ Append(f, a)[5] = a
<1>1. /\ Append(f, a) \in Seq(Seq(Byte)) /\ Len(Append(f, a)) = Len(f) + 1
      /\ \A i \in 1 .. Len(f) : Append(f, a)[i] = f[i]
      /\ Append(f, a)[Len(f) + 1] = a
  BY AppendedAt
<1> QED
  BY <1>1

LEMMA Sixth ==
  ASSUME NEW f \in Seq(Seq(Byte)), Len(f) = 5, NEW a \in Seq(Byte)
  PROVE /\ Append(f, a)[1] = f[1] /\ Append(f, a)[2] = f[2] /\ Append(f, a)[3] = f[3]
        /\ Append(f, a)[4] = f[4] /\ Append(f, a)[5] = f[5] /\ Append(f, a)[6] = a
<1>1. /\ Append(f, a) \in Seq(Seq(Byte)) /\ Len(Append(f, a)) = Len(f) + 1
      /\ \A i \in 1 .. Len(f) : Append(f, a)[i] = f[i]
      /\ Append(f, a)[Len(f) + 1] = a
  BY AppendedAt
<1> QED
  BY <1>1

LEMMA ReadAt5 ==
  ASSUME NEW a \in Seq(Byte), NEW b \in Seq(Byte), NEW c \in Seq(Byte), NEW d \in Seq(Byte),
         NEW e \in Seq(Byte)
  PROVE /\ Read5(a, b, c, d, e) \in Seq(Seq(Byte)) /\ Len(Read5(a, b, c, d, e)) = 5
        /\ Read5(a, b, c, d, e)[1] = a /\ Read5(a, b, c, d, e)[2] = b
        /\ Read5(a, b, c, d, e)[3] = c /\ Read5(a, b, c, d, e)[4] = d
        /\ Read5(a, b, c, d, e)[5] = e
<1>2. PICK f2 : f2 = Read2(a, b)
  OBVIOUS
<1>3. PICK f3 : f3 = Append(f2, c)
  OBVIOUS
<1>4. PICK f4 : f4 = Append(f3, d)
  OBVIOUS
<1>5. PICK f5 : f5 = Append(f4, e)
  OBVIOUS
<1>6. f2 \in Seq(Seq(Byte)) /\ Len(f2) = 2 /\ f2[1] = a /\ f2[2] = b
  BY <1>2, ReadAt2
<1>7. f3 \in Seq(Seq(Byte)) /\ Len(f3) = 3 /\ f3[1] = a /\ f3[2] = b /\ f3[3] = c
  BY <1>3, <1>6, Third
<1>8. /\ f4 \in Seq(Seq(Byte)) /\ Len(f4) = 4
      /\ f4[1] = a /\ f4[2] = b /\ f4[3] = c /\ f4[4] = d
  BY <1>4, <1>7, Fourth
<1>9. /\ f5 \in Seq(Seq(Byte)) /\ Len(f5) = 5
      /\ f5[1] = a /\ f5[2] = b /\ f5[3] = c /\ f5[4] = d /\ f5[5] = e
  BY <1>5, <1>8, Fifth
<1>10. Read5(a, b, c, d, e) = f5
  BY <1>2, <1>3, <1>4, <1>5 DEF Read5
<1> QED
  BY <1>9, <1>10

LEMMA ReadAt6 ==
  ASSUME NEW a, NEW b, NEW c, NEW d, NEW e, Five(a, b, c, d, e), NEW f \in Seq(Byte)
  PROVE /\ Read6(a, b, c, d, e, f)[1] = a /\ Read6(a, b, c, d, e, f)[2] = b
        /\ Read6(a, b, c, d, e, f)[3] = c /\ Read6(a, b, c, d, e, f)[4] = d
        /\ Read6(a, b, c, d, e, f)[5] = e /\ Read6(a, b, c, d, e, f)[6] = f
<1> a \in Seq(Byte) /\ b \in Seq(Byte) /\ c \in Seq(Byte) /\ d \in Seq(Byte) /\ e \in Seq(Byte)
  BY DEF Five
<1>1. PICK g : g = Read5(a, b, c, d, e)
  OBVIOUS
<1>2. /\ g \in Seq(Seq(Byte)) /\ Len(g) = 5
      /\ g[1] = a /\ g[2] = b /\ g[3] = c /\ g[4] = d /\ g[5] = e
  <2>1. /\ Read5(a, b, c, d, e) \in Seq(Seq(Byte)) /\ Len(Read5(a, b, c, d, e)) = 5
        /\ Read5(a, b, c, d, e)[1] = a /\ Read5(a, b, c, d, e)[2] = b
        /\ Read5(a, b, c, d, e)[3] = c /\ Read5(a, b, c, d, e)[4] = d
        /\ Read5(a, b, c, d, e)[5] = e
    BY ReadAt5
  <2> QED
    BY <1>1, <2>1
<1>3. /\ Append(g, f)[1] = a /\ Append(g, f)[2] = b /\ Append(g, f)[3] = c
      /\ Append(g, f)[4] = d /\ Append(g, f)[5] = e /\ Append(g, f)[6] = f
  BY <1>2, Sixth
<1> QED
  BY <1>1, <1>3 DEF Read6

-----------------------------------------------------------------------------
(* Headers.                                                                *)

\* The fields of a header, each short enough for its length.
HeaderFits(x, m, n, p, c) ==
  /\ x \in Seq(Byte) /\ m \in Byte /\ n \in Byte /\ p \in Seq(Byte) /\ c \in Seq(Byte)
  /\ Word \in Nat /\ Len(x) < Word /\ Len(p) < Word /\ Len(c) < Word

HeaderRow(x, m, n, p, c) ==
  Cat(Field(x), Cat(One(m), Cat(One(n), Cat(Field(p), Field(c)))))

LEMMA HeaderOn ==
  ASSUME NEW x, NEW m, NEW n, NEW p, NEW c, HeaderFits(x, m, n, p, c)
  PROVE /\ appendLenPrefixed(appendLenPrefixed(
               appendLenPrefixed(<<>>, x) \o uint32(m) \o uint32(n), p), c)
             = HeaderRow(x, m, n, p, c)
        /\ HeaderRow(x, m, n, p, c) \in Seq(Byte)
        /\ Len(HeaderRow(x, m, n, p, c)) = Len(x) + Len(p) + Len(c) + 5
<1> /\ x \in Seq(Byte) /\ m \in Byte /\ n \in Byte /\ p \in Seq(Byte) /\ c \in Seq(Byte)
    /\ Word \in Nat /\ Len(x) < Word /\ Len(p) < Word /\ Len(c) < Word
  BY DEF HeaderFits
<1>1. PICK fx : fx = Field(x)
  OBVIOUS
<1>2. PICK fp : fp = Field(p)
  OBVIOUS
<1>3. PICK fc : fc = Field(c)
  OBVIOUS
<1>4. PICK om : om = One(m)
  OBVIOUS
<1>5. PICK on : on = One(n)
  OBVIOUS
<1>6. /\ fx \in Seq(Byte) /\ fp \in Seq(Byte) /\ fc \in Seq(Byte)
      /\ om \in Seq(Byte) /\ on \in Seq(Byte)
      /\ Len(fx) = Len(x) + 1 /\ Len(fp) = Len(p) + 1 /\ Len(fc) = Len(c) + 1
      /\ Len(om) = 1 /\ Len(on) = 1
  BY <1>1, <1>2, <1>3, <1>4, <1>5, FieldOn, SingleIn, NoneIn
<1>7. Cat(fx, om) \in Seq(Byte) /\ Cat(Cat(fx, om), on) \in Seq(Byte)
      /\ Cat(Cat(Cat(fx, om), on), fp) \in Seq(Byte)
  BY <1>6, CatIn
<1>8. appendLenPrefixed(<<>>, x) \o uint32(m) \o uint32(n) = Cat(Cat(fx, om), on)
  <2>1. appendLenPrefixed(<<>>, x) = fx
    BY <1>1, FirstAppended
  <2>2. fx \o uint32(m) = Cat(fx, om)
    BY <1>4, NumberOn
  <2>3. Cat(fx, om) \o uint32(n) = Cat(Cat(fx, om), on)
    BY <1>5, NumberOn
  <2> QED
    BY <2>1, <2>2, <2>3
<1>9. appendLenPrefixed(Cat(Cat(fx, om), on), p) = Cat(Cat(Cat(fx, om), on), fp)
  BY <1>2, <1>7, FieldOn
<1>10. appendLenPrefixed(Cat(Cat(Cat(fx, om), on), fp), c) = Cat(Cat(Cat(Cat(fx, om), on), fp), fc)
  BY <1>3, <1>7, FieldOn
<1>11. Cat(Cat(Cat(Cat(fx, om), on), fp), fc) = Cat(fx, Cat(om, Cat(on, Cat(fp, fc))))
  <2>1. Five(fx, om, on, fp, fc)
    BY <1>6 DEF Five
  <2> QED
    BY <2>1, Assoc5
<1>12. HeaderRow(x, m, n, p, c) = Cat(fx, Cat(om, Cat(on, Cat(fp, fc))))
  BY <1>1, <1>2, <1>3, <1>4, <1>5 DEF HeaderRow
<1>13. /\ Cat(fp, fc) \in Seq(Byte) /\ Cat(on, Cat(fp, fc)) \in Seq(Byte)
       /\ Cat(om, Cat(on, Cat(fp, fc))) \in Seq(Byte)
       /\ Cat(fx, Cat(om, Cat(on, Cat(fp, fc)))) \in Seq(Byte)
  BY <1>6, CatIn
<1>14. Len(Cat(fx, Cat(om, Cat(on, Cat(fp, fc)))))
         = Len(x) + 1 + (1 + (1 + (Len(p) + 1 + (Len(c) + 1))))
  <2>1. Len(Cat(fx, Cat(om, Cat(on, Cat(fp, fc)))))
          = Len(fx) + (Len(om) + (Len(on) + (Len(fp) + Len(fc))))
    <3>1. fx \in Seq(Byte) /\ fp \in Seq(Byte) /\ fc \in Seq(Byte) /\ om \in Seq(Byte) /\ on \in Seq(Byte)
      BY <1>6
    <3> QED
      BY <3>1, Length5
  <2> QED
    BY <1>6, <2>1
<1>15. Len(x) \in Nat /\ Len(p) \in Nat /\ Len(c) \in Nat
  BY LenProperties
<1>16. Len(x) + 1 + (1 + (1 + (Len(p) + 1 + (Len(c) + 1)))) = Len(x) + Len(p) + Len(c) + 5
  BY <1>15
<1> QED
  BY <1>8, <1>9, <1>10, <1>11, <1>12, <1>13, <1>14, <1>16

LEMMA HeaderOff ==
  ASSUME NEW x, NEW m, NEW n, NEW p, NEW c, HeaderFits(x, m, n, p, c)
  PROVE readLenPrefixed(readLenPrefixed(readUint32(readUint32(readLenPrefixed(
            Reader(HeaderRow(x, m, n, p, c)))))))
          = At(Read5(x, One(m), One(n), p, c), None)
<1> /\ x \in Seq(Byte) /\ m \in Byte /\ n \in Byte /\ p \in Seq(Byte) /\ c \in Seq(Byte)
    /\ Word \in Nat /\ Len(x) < Word /\ Len(p) < Word /\ Len(c) < Word
  BY DEF HeaderFits
<1>1. PICK t4 : t4 = Cat(Field(p), Field(c))
  OBVIOUS
<1>2. PICK t3 : t3 = Cat(One(n), t4)
  OBVIOUS
<1>3. PICK t2 : t2 = Cat(One(m), t3)
  OBVIOUS
<1>4. Field(p) \in Seq(Byte) /\ Field(c) \in Seq(Byte) /\ One(n) \in Seq(Byte) /\ One(m) \in Seq(Byte)
  BY FieldOn, SingleIn, NoneIn
<1>5. t4 \in Seq(Byte)
  BY <1>1, <1>4, CatIn
<1>6. t3 \in Seq(Byte)
  BY <1>2, <1>4, <1>5, CatIn
<1>7. t2 \in Seq(Byte)
  BY <1>3, <1>4, <1>6, CatIn
<1>8. Reader(HeaderRow(x, m, n, p, c)) = At(None, Cat(Field(x), t2))
  BY <1>1, <1>2, <1>3 DEF HeaderRow, Reader, At, None
<1>9. readLenPrefixed(At(None, Cat(Field(x), t2))) = At(Append(None, x), t2)
  BY <1>7, FieldOff
<1>10. readUint32(At(Append(None, x), t2)) = At(Read2(x, One(m)), t3)
  BY <1>3, <1>6, NumberOff DEF Read2
<1>11. readUint32(At(Read2(x, One(m)), t3)) = At(Append(Read2(x, One(m)), One(n)), t4)
  BY <1>2, <1>5, NumberOff
<1>12. readLenPrefixed(At(Append(Read2(x, One(m)), One(n)), t4))
         = At(Append(Append(Read2(x, One(m)), One(n)), p), Field(c))
  BY <1>1, <1>4, FieldOff
<1>13. readLenPrefixed(At(Append(Append(Read2(x, One(m)), One(n)), p), Field(c)))
         = At(Append(Append(Append(Read2(x, One(m)), One(n)), p), c), None)
  BY LastFieldOff
<1> QED
  BY <1>8, <1>9, <1>10, <1>11, <1>12, <1>13 DEF Read5

Headers ==
  {h \in [DHPub : Seq(Byte), PN : Byte, N : Byte,
          MLKEMPub : {<<>>} \cup {<<d>> : d \in Seq(Byte) \ {<<>>}},
          MLKEMCiphertext : {<<>>} \cup {<<d>> : d \in Seq(Byte) \ {<<>>}}] :
     /\ Len(h.DHPub) < Word
     /\ Len(Data(h.MLKEMPub)) < Word /\ Len(Data(h.MLKEMCiphertext)) < Word}

LEMMA OptionalBack ==
  ASSUME NEW o \in {<<>>} \cup {<<d>> : d \in Seq(Byte) \ {<<>>}}
  PROVE Data(o) \in Seq(Byte) /\ Optional(Data(o)) = o
<1>1. CASE o = <<>>
  BY <1>1, EmptyIn DEF Data, Optional
<1>2. ASSUME NEW d \in Seq(Byte) \ {<<>>}, o = <<d>> PROVE Data(o) = d /\ Optional(d) = <<d>>
  BY <1>2 DEF Data, Optional
<1> QED
  BY <1>1, <1>2

LEMMA HeaderParts ==
  ASSUME NEW h \in Headers
  PROVE /\ h.DHPub \in Seq(Byte) /\ Len(h.DHPub) < Word /\ h.PN \in Byte /\ h.N \in Byte
        /\ Data(h.MLKEMPub) \in Seq(Byte) /\ Len(Data(h.MLKEMPub)) < Word
        /\ Data(h.MLKEMCiphertext) \in Seq(Byte) /\ Len(Data(h.MLKEMCiphertext)) < Word
        /\ h = [DHPub |-> h.DHPub, PN |-> h.PN, N |-> h.N,
                MLKEMPub |-> Optional(Data(h.MLKEMPub)),
                MLKEMCiphertext |-> Optional(Data(h.MLKEMCiphertext))]
<1>1. /\ h \in [DHPub : Seq(Byte), PN : Byte, N : Byte,
                MLKEMPub : {<<>>} \cup {<<d>> : d \in Seq(Byte) \ {<<>>}},
                MLKEMCiphertext : {<<>>} \cup {<<d>> : d \in Seq(Byte) \ {<<>>}}]
      /\ Len(h.DHPub) < Word
      /\ Len(Data(h.MLKEMPub)) < Word /\ Len(Data(h.MLKEMCiphertext)) < Word
  BY DEF Headers
<1>2. h = [DHPub |-> h.DHPub, PN |-> h.PN, N |-> h.N,
           MLKEMPub |-> h.MLKEMPub, MLKEMCiphertext |-> h.MLKEMCiphertext]
  BY <1>1
<1>3. Data(h.MLKEMPub) \in Seq(Byte) /\ Optional(Data(h.MLKEMPub)) = h.MLKEMPub
  BY <1>1, OptionalBack
<1>4. Data(h.MLKEMCiphertext) \in Seq(Byte) /\ Optional(Data(h.MLKEMCiphertext)) = h.MLKEMCiphertext
  BY <1>1, OptionalBack
<1> QED
  BY <1>1, <1>2, <1>3, <1>4

LEMMA HeaderIn ==
  ASSUME NEW h \in Headers, Word \in Nat
  PROVE /\ HeaderMarshal(h)
             = HeaderRow(h.DHPub, h.PN, h.N, Data(h.MLKEMPub), Data(h.MLKEMCiphertext))
        /\ HeaderMarshal(h) \in Seq(Byte)
        /\ Len(HeaderMarshal(h))
             = Len(h.DHPub) + Len(Data(h.MLKEMPub)) + Len(Data(h.MLKEMCiphertext)) + 5
<1>1. PICK x, m, n, p, c :
        x = h.DHPub /\ m = h.PN /\ n = h.N /\ p = Data(h.MLKEMPub) /\ c = Data(h.MLKEMCiphertext)
  OBVIOUS
<1>2. HeaderFits(x, m, n, p, c)
  BY <1>1, HeaderParts DEF HeaderFits
<1>3. HeaderMarshal(h) = appendLenPrefixed(appendLenPrefixed(
               appendLenPrefixed(<<>>, x) \o uint32(m) \o uint32(n), p), c)
  BY <1>1 DEF HeaderMarshal
<1>4. /\ appendLenPrefixed(appendLenPrefixed(
             appendLenPrefixed(<<>>, x) \o uint32(m) \o uint32(n), p), c)
           = HeaderRow(x, m, n, p, c)
      /\ HeaderRow(x, m, n, p, c) \in Seq(Byte)
      /\ Len(HeaderRow(x, m, n, p, c)) = Len(x) + Len(p) + Len(c) + 5
  BY <1>2, HeaderOn
<1> QED
  BY <1>1, <1>3, <1>4

\* A header is read as it was written, nil fields as nil.
LEMMA HeaderBack ==
  ASSUME NEW h \in Headers, Word \in Nat
  PROVE UnmarshalHeader(HeaderMarshal(h)) = <<h>>
<1>1. PICK x, m, n, p, c :
        x = h.DHPub /\ m = h.PN /\ n = h.N /\ p = Data(h.MLKEMPub) /\ c = Data(h.MLKEMCiphertext)
  OBVIOUS
<1>2. /\ x \in Seq(Byte) /\ m \in Byte /\ n \in Byte /\ p \in Seq(Byte) /\ c \in Seq(Byte)
      /\ HeaderFits(x, m, n, p, c)
      /\ h = [DHPub |-> x, PN |-> m, N |-> n, MLKEMPub |-> Optional(p), MLKEMCiphertext |-> Optional(c)]
  BY <1>1, HeaderParts DEF HeaderFits
<1>3. PICK r : r = readLenPrefixed(readLenPrefixed(readUint32(readUint32(
                     readLenPrefixed(Reader(HeaderMarshal(h)))))))
  OBVIOUS
<1>4. HeaderMarshal(h) = HeaderRow(x, m, n, p, c)
  BY <1>1, HeaderIn
<1>5. readLenPrefixed(readLenPrefixed(readUint32(readUint32(readLenPrefixed(
          Reader(HeaderRow(x, m, n, p, c)))))))
        = At(Read5(x, One(m), One(n), p, c), None)
  BY <1>2, HeaderOff
<1>6. r = At(Read5(x, One(m), One(n), p, c), None)
  BY <1>3, <1>4, <1>5
<1>7. Done(r) /\ r.fields = Read5(x, One(m), One(n), p, c)
  BY <1>6 DEF At, Done, None
<1>8. One(m) \in Seq(Byte) /\ One(n) \in Seq(Byte) /\ One(m)[1] = m /\ One(n)[1] = n
  BY <1>2, SingleIn
<1>9. /\ Read5(x, One(m), One(n), p, c)[1] = x /\ Read5(x, One(m), One(n), p, c)[2] = One(m)
      /\ Read5(x, One(m), One(n), p, c)[3] = One(n) /\ Read5(x, One(m), One(n), p, c)[4] = p
      /\ Read5(x, One(m), One(n), p, c)[5] = c
  BY <1>2, <1>8, ReadAt5
<1>10. /\ r.fields[1] = x /\ r.fields[2][1] = m /\ r.fields[3][1] = n
       /\ r.fields[4] = p /\ r.fields[5] = c
  BY <1>7, <1>8, <1>9
<1>11. UnmarshalHeader(HeaderMarshal(h)) =
         <<[DHPub |-> r.fields[1], PN |-> r.fields[2][1], N |-> r.fields[3][1],
            MLKEMPub |-> Optional(r.fields[4]), MLKEMCiphertext |-> Optional(r.fields[5])]>>
  BY <1>3, <1>7 DEF UnmarshalHeader
<1> QED
  BY <1>2, <1>10, <1>11

-----------------------------------------------------------------------------
(* Identities and ciphertexts: two keys of known sizes.                    *)

AnyIdentity ==
  {id \in [Ed25519 : Seq(Byte), MLDSA : Seq(Byte)] :
     Len(id.Ed25519) = Ed25519Size /\ Len(id.MLDSA) = MLDSASize}

AnyCiphertext ==
  {ct \in [X25519Ephemeral : Seq(Byte), MLKEMCiphertext : Seq(Byte)] :
     Len(ct.X25519Ephemeral) = X25519Size /\ Len(ct.MLKEMCiphertext) = KEMSize}

LEMMA PairOff ==
  ASSUME NEW a \in Seq(Byte), NEW b \in Seq(Byte), NEW m, NEW n, Len(a) = m, Len(b) = n
  PROVE Take(Take(Reader(a \o b), m), n) = At(Read2(a, b), None)
<1>1. Reader(a \o b) = At(None, Cat(a, b))
  BY DEF Reader, At, None, Cat
<1>2. Take(At(None, Cat(a, b)), m) = At(Append(None, a), b)
  BY PartOff
<1>3. Take(At(Append(None, a), b), n) = At(Read2(a, b), None)
  BY LastPartOff DEF Read2
<1> QED
  BY <1>1, <1>2, <1>3

LEMMA IdentityBack ==
  ASSUME NEW id \in AnyIdentity
  PROVE /\ IdentityMarshal(id) \in Seq(Byte)
        /\ Len(IdentityMarshal(id)) = Ed25519Size + MLDSASize
        /\ UnmarshalIdentity(IdentityMarshal(id)) = <<id>>
<1>1. PICK a, b : a = id.Ed25519 /\ b = id.MLDSA
  OBVIOUS
<1>2. /\ a \in Seq(Byte) /\ b \in Seq(Byte) /\ Len(a) = Ed25519Size /\ Len(b) = MLDSASize
      /\ id = [Ed25519 |-> a, MLDSA |-> b]
  BY <1>1 DEF AnyIdentity
<1>3. IdentityMarshal(id) = a \o b
  BY <1>1 DEF IdentityMarshal
<1>4. PICK r : r = Take(Take(Reader(a \o b), Ed25519Size), MLDSASize)
  OBVIOUS
<1>5. r = At(Read2(a, b), None)
  BY <1>2, <1>4, PairOff
<1>6. Done(r) /\ r.fields = Read2(a, b)
  BY <1>5 DEF Done, At, None
<1>7. Read2(a, b)[1] = a /\ Read2(a, b)[2] = b
  BY <1>2, ReadAt2
<1>8. UnmarshalIdentity(a \o b) = <<[Ed25519 |-> r.fields[1], MLDSA |-> r.fields[2]]>>
  BY <1>4, <1>6 DEF UnmarshalIdentity
<1>9. a \o b \in Seq(Byte) /\ Len(a \o b) = Ed25519Size + MLDSASize
  BY <1>2, ConcatIn
<1> QED
  BY <1>2, <1>3, <1>6, <1>7, <1>8, <1>9

LEMMA CiphertextBack ==
  ASSUME NEW ct \in AnyCiphertext
  PROVE /\ CiphertextMarshal(ct) \in Seq(Byte)
        /\ Len(CiphertextMarshal(ct)) = X25519Size + KEMSize
        /\ UnmarshalCiphertext(CiphertextMarshal(ct)) = <<ct>>
<1>1. PICK a, b : a = ct.X25519Ephemeral /\ b = ct.MLKEMCiphertext
  OBVIOUS
<1>2. /\ a \in Seq(Byte) /\ b \in Seq(Byte) /\ Len(a) = X25519Size /\ Len(b) = KEMSize
      /\ ct = [X25519Ephemeral |-> a, MLKEMCiphertext |-> b]
  BY <1>1 DEF AnyCiphertext
<1>3. CiphertextMarshal(ct) = a \o b
  BY <1>1 DEF CiphertextMarshal
<1>4. PICK r : r = Take(Take(Reader(a \o b), X25519Size), KEMSize)
  OBVIOUS
<1>5. r = At(Read2(a, b), None)
  BY <1>2, <1>4, PairOff
<1>6. Done(r) /\ r.fields = Read2(a, b)
  BY <1>5 DEF Done, At, None
<1>7. Read2(a, b)[1] = a /\ Read2(a, b)[2] = b
  BY <1>2, ReadAt2
<1>8. UnmarshalCiphertext(a \o b) = <<[X25519Ephemeral |-> r.fields[1], MLKEMCiphertext |-> r.fields[2]]>>
  BY <1>4, <1>6 DEF UnmarshalCiphertext
<1>9. a \o b \in Seq(Byte) /\ Len(a \o b) = X25519Size + KEMSize
  BY <1>2, ConcatIn
<1> QED
  BY <1>2, <1>3, <1>6, <1>7, <1>8, <1>9

-----------------------------------------------------------------------------
(* Messages.                                                               *)

InitialFits(i, k, x, l, h, c) ==
  /\ i \in Seq(Byte) /\ k \in Seq(Byte) /\ x \in Byte /\ l \in Byte
  /\ h \in Seq(Byte) /\ c \in Seq(Byte)
  /\ Word \in Nat /\ Len(i) < Word /\ Len(k) < Word /\ Len(h) < Word /\ Len(c) < Word

InitialRow(i, k, x, l, h, c) ==
  Cat(Field(i), Cat(Field(k), Cat(One(x), Cat(One(l), Cat(Field(h), Field(c))))))

LEMMA InitialOn ==
  ASSUME NEW i, NEW k, NEW x, NEW l, NEW h, NEW c, InitialFits(i, k, x, l, h, c)
  PROVE /\ appendLenPrefixed(appendLenPrefixed(
               appendLenPrefixed(appendLenPrefixed(<<>>, i), k) \o uint32(x) \o <<l>>, h), c)
             = InitialRow(i, k, x, l, h, c)
        /\ InitialRow(i, k, x, l, h, c) \in Seq(Byte)
<1> /\ i \in Seq(Byte) /\ k \in Seq(Byte) /\ x \in Byte /\ l \in Byte
    /\ h \in Seq(Byte) /\ c \in Seq(Byte)
    /\ Word \in Nat /\ Len(i) < Word /\ Len(k) < Word /\ Len(h) < Word /\ Len(c) < Word
  BY DEF InitialFits
<1>1. PICK fi, fk, ox, ol, fh, fc :
        fi = Field(i) /\ fk = Field(k) /\ ox = One(x) /\ ol = One(l) /\ fh = Field(h) /\ fc = Field(c)
  OBVIOUS
<1>2. fi \in Seq(Byte) /\ fk \in Seq(Byte) /\ fh \in Seq(Byte) /\ fc \in Seq(Byte)
  BY <1>1, FieldOn, NoneIn
<1>3. ox \in Seq(Byte) /\ ol \in Seq(Byte)
  BY <1>1, SingleIn
<1>4. Cat(fi, fk) \in Seq(Byte)
  BY <1>2, CatIn
<1>5. Cat(Cat(Cat(fi, fk), ox), ol) \in Seq(Byte)
  BY <1>3, <1>4, CatIn
<1>6. Cat(Cat(Cat(Cat(fi, fk), ox), ol), fh) \in Seq(Byte)
  BY <1>2, <1>5, CatIn
<1>7. appendLenPrefixed(<<>>, i) = fi
  BY <1>1, FirstAppended
<1>8. appendLenPrefixed(fi, k) = Cat(fi, fk)
  BY <1>1, <1>2, FieldOn
<1>9. Cat(fi, fk) \o uint32(x) = Cat(Cat(fi, fk), ox)
  BY <1>1, NumberOn
<1>10. Cat(Cat(fi, fk), ox) \o <<l>> = Cat(Cat(Cat(fi, fk), ox), ol)
  BY <1>1 DEF Cat, One
<1>11. appendLenPrefixed(Cat(Cat(Cat(fi, fk), ox), ol), h) = Cat(Cat(Cat(Cat(fi, fk), ox), ol), fh)
  BY <1>1, <1>5, FieldOn
<1>12. appendLenPrefixed(Cat(Cat(Cat(Cat(fi, fk), ox), ol), fh), c)
         = Cat(Cat(Cat(Cat(Cat(fi, fk), ox), ol), fh), fc)
  BY <1>1, <1>6, FieldOn
<1>13. Cat(Cat(Cat(Cat(Cat(fi, fk), ox), ol), fh), fc)
         = Cat(fi, Cat(fk, Cat(ox, Cat(ol, Cat(fh, fc)))))
  <2>1. PICK u, t : u = Cat(fi, fk) /\ t = Cat(ox, Cat(ol, Cat(fh, fc)))
    OBVIOUS
  <2>2. u \in Seq(Byte)
    BY <1>4, <2>1
  <2>3. Cat(Cat(Cat(Cat(u, ox), ol), fh), fc) = Cat(u, t)
    <3>1. Five(u, ox, ol, fh, fc)
      BY <1>2, <1>3, <2>2 DEF Five
    <3> QED
      BY <2>1, <3>1, Assoc5
  <2>4. Cat(fh, fc) \in Seq(Byte) /\ Cat(ol, Cat(fh, fc)) \in Seq(Byte)
    BY <1>2, <1>3, CatIn
  <2>5. t \in Seq(Byte)
    BY <1>3, <2>1, <2>4, CatIn
  <2>6. Cat(Cat(fi, fk), t) = Cat(fi, Cat(fk, t))
    BY <1>2, <2>5, Assoc
  <2> QED
    BY <2>1, <2>3, <2>6
<1>14. InitialRow(i, k, x, l, h, c) = Cat(fi, Cat(fk, Cat(ox, Cat(ol, Cat(fh, fc)))))
  BY <1>1 DEF InitialRow
<1>15. Cat(Cat(Cat(Cat(Cat(fi, fk), ox), ol), fh), fc) \in Seq(Byte)
  BY <1>2, <1>6, CatIn
<1> QED
  BY <1>7, <1>8, <1>9, <1>10, <1>11, <1>12, <1>13, <1>14, <1>15

LEMMA InitialOff ==
  ASSUME NEW i, NEW k, NEW x, NEW l, NEW h, NEW c, InitialFits(i, k, x, l, h, c)
  PROVE readLenPrefixed(readLenPrefixed(Take(readUint32(readLenPrefixed(readLenPrefixed(
            Reader(InitialRow(i, k, x, l, h, c))))), 1)))
          = At(Read6(i, k, One(x), One(l), h, c), None)
<1> /\ i \in Seq(Byte) /\ k \in Seq(Byte) /\ x \in Byte /\ l \in Byte
    /\ h \in Seq(Byte) /\ c \in Seq(Byte)
    /\ Word \in Nat /\ Len(i) < Word /\ Len(k) < Word /\ Len(h) < Word /\ Len(c) < Word
  BY DEF InitialFits
<1>1. PICK t5, t4, t3, t2 :
        /\ t5 = Cat(Field(h), Field(c)) /\ t4 = Cat(One(l), t5)
        /\ t3 = Cat(One(x), t4) /\ t2 = Cat(Field(k), t3)
  OBVIOUS
<1>2. Field(k) \in Seq(Byte) /\ Field(h) \in Seq(Byte) /\ Field(c) \in Seq(Byte)
  BY FieldOn, NoneIn
<1>3. One(x) \in Seq(Byte) /\ One(l) \in Seq(Byte)
  BY SingleIn
<1>4. t5 \in Seq(Byte)
  BY <1>1, <1>2, CatIn
<1>5. t4 \in Seq(Byte)
  BY <1>1, <1>3, <1>4, CatIn
<1>6. t3 \in Seq(Byte)
  BY <1>1, <1>3, <1>5, CatIn
<1>7. t2 \in Seq(Byte)
  BY <1>1, <1>2, <1>6, CatIn
<1>8. PICK f1, f2, f3, f4, f5 :
        /\ f1 = Append(None, i) /\ f2 = Append(f1, k) /\ f3 = Append(f2, One(x))
        /\ f4 = Append(f3, One(l)) /\ f5 = Append(f4, h)
  OBVIOUS
<1>9. Reader(InitialRow(i, k, x, l, h, c)) = At(None, Cat(Field(i), t2))
  BY <1>1 DEF InitialRow, Reader, At, None
<1>10. readLenPrefixed(At(None, Cat(Field(i), t2))) = At(f1, t2)
  BY <1>7, <1>8, FieldOff
<1>11. readLenPrefixed(At(f1, t2)) = At(f2, t3)
  BY <1>1, <1>6, <1>8, FieldOff
<1>12. readUint32(At(f2, t3)) = At(f3, t4)
  BY <1>1, <1>5, <1>8, NumberOff
<1>13. Take(At(f3, t4), 1) = At(f4, t5)
  BY <1>1, <1>4, <1>8, NumberOff
<1>14. readLenPrefixed(At(f4, t5)) = At(f5, Field(c))
  BY <1>1, <1>2, <1>8, FieldOff
<1>15. readLenPrefixed(At(f5, Field(c))) = At(Append(f5, c), None)
  BY LastFieldOff
<1>16. Append(f5, c) = Read6(i, k, One(x), One(l), h, c)
  BY <1>8 DEF Read6, Read5, Read2
<1> QED
  BY <1>9, <1>10, <1>11, <1>12, <1>13, <1>14, <1>15, <1>16

InitialSet ==
  {m \in [type : {Initial}, SenderIdentity : AnyIdentity, KEMCiphertext : AnyCiphertext,
          PrekeyIndex : Byte, IsLastResort : BOOLEAN, Header : Headers, Ciphertext : Seq(Byte)] :
     Len(HeaderMarshal(m.Header)) < Word /\ Len(m.Ciphertext) < Word}

SubsequentSet ==
  {m \in [type : {Subsequent}, Header : Headers, Ciphertext : Seq(Byte)] :
     Len(HeaderMarshal(m.Header)) < Word /\ Len(m.Ciphertext) < Word}

LEMMA InitialBack ==
  ASSUME NEW m \in InitialSet, Sizes
  PROVE /\ InitialMessageMarshal(m) \in Seq(Byte)
        /\ UnmarshalInitialMessage(InitialMessageMarshal(m)) = <<m>>
<1>1. /\ m.SenderIdentity \in AnyIdentity /\ m.KEMCiphertext \in AnyCiphertext
      /\ m.PrekeyIndex \in Byte /\ m.IsLastResort \in BOOLEAN /\ m.Header \in Headers
      /\ m.Ciphertext \in Seq(Byte) /\ Len(m.Ciphertext) < Word
      /\ Len(HeaderMarshal(m.Header)) < Word
      /\ m = [type |-> Initial, SenderIdentity |-> m.SenderIdentity, KEMCiphertext |-> m.KEMCiphertext,
              PrekeyIndex |-> m.PrekeyIndex, IsLastResort |-> m.IsLastResort,
              Header |-> m.Header, Ciphertext |-> m.Ciphertext]
  BY DEF InitialSet
<1>2. PICK i, k, x, l, h, c :
        /\ i = IdentityMarshal(m.SenderIdentity) /\ k = CiphertextMarshal(m.KEMCiphertext)
        /\ x = m.PrekeyIndex /\ l = (IF m.IsLastResort THEN 1 ELSE 0)
        /\ h = HeaderMarshal(m.Header) /\ c = m.Ciphertext
  OBVIOUS
<1>3. Word \in Nat /\ 2 < Word
  BY DEF Sizes
<1>4. i \in Seq(Byte) /\ Len(i) < Word /\ UnmarshalIdentity(i) = <<m.SenderIdentity>>
  BY <1>1, <1>2, IdentityBack DEF Sizes
<1>5. k \in Seq(Byte) /\ Len(k) < Word /\ UnmarshalCiphertext(k) = <<m.KEMCiphertext>>
  <2>1. k \in Seq(Byte) /\ Len(k) = X25519Size + KEMSize /\ UnmarshalCiphertext(k) = <<m.KEMCiphertext>>
    BY <1>1, <1>2, CiphertextBack
  <2>2. X25519Size + KEMSize < Word
    BY DEF Sizes
  <2> QED
    BY <2>1, <2>2
<1>6. h \in Seq(Byte) /\ Len(h) < Word /\ UnmarshalHeader(h) = <<m.Header>>
  BY <1>1, <1>2, <1>3, HeaderIn, HeaderBack
<1>7. x \in Byte /\ l \in Byte /\ (l # 0 <=> m.IsLastResort)
  BY <1>1, <1>2, <1>3 DEF Byte
<1>8. InitialFits(i, k, x, l, h, c)
  BY <1>1, <1>2, <1>3, <1>4, <1>5, <1>6, <1>7 DEF InitialFits
<1>9. InitialMessageMarshal(m) = appendLenPrefixed(appendLenPrefixed(
          appendLenPrefixed(appendLenPrefixed(<<>>, i), k) \o uint32(x) \o <<l>>, h), c)
  BY <1>2 DEF InitialMessageMarshal
<1>10. InitialMessageMarshal(m) = InitialRow(i, k, x, l, h, c) /\ InitialRow(i, k, x, l, h, c) \in Seq(Byte)
  BY <1>8, <1>9, InitialOn
<1>11. PICK r : r = readLenPrefixed(readLenPrefixed(Take(readUint32(readLenPrefixed(readLenPrefixed(
                      Reader(InitialRow(i, k, x, l, h, c))))), 1)))
  OBVIOUS
<1>12. r = At(Read6(i, k, One(x), One(l), h, c), None)
  BY <1>8, <1>11, InitialOff
<1>13. Done(r) /\ r.fields = Read6(i, k, One(x), One(l), h, c)
  BY <1>12 DEF Done, At, None
<1>14. One(x) \in Seq(Byte) /\ One(l) \in Seq(Byte) /\ One(x)[1] = x /\ One(l)[1] = l
  BY <1>7, SingleIn
<1>15. /\ r.fields[1] = i /\ r.fields[2] = k /\ r.fields[3] = One(x)
       /\ r.fields[4] = One(l) /\ r.fields[5] = h /\ r.fields[6] = c
  <2>1. /\ Read6(i, k, One(x), One(l), h, c)[1] = i /\ Read6(i, k, One(x), One(l), h, c)[2] = k
        /\ Read6(i, k, One(x), One(l), h, c)[3] = One(x) /\ Read6(i, k, One(x), One(l), h, c)[4] = One(l)
        /\ Read6(i, k, One(x), One(l), h, c)[5] = h /\ Read6(i, k, One(x), One(l), h, c)[6] = c
    <3>1. Five(i, k, One(x), One(l), h) /\ c \in Seq(Byte)
      BY <1>1, <1>2, <1>4, <1>5, <1>6, <1>14 DEF Five
    <3> QED
      BY <3>1, ReadAt6
  <2> QED
    BY <1>13, <2>1
<1>16. One(l) # <<0>> <=> m.IsLastResort
  BY <1>7 DEF One
<1>17. UnmarshalInitialMessage(InitialRow(i, k, x, l, h, c)) =
         <<[type |-> Initial, SenderIdentity |-> m.SenderIdentity, KEMCiphertext |-> m.KEMCiphertext,
            PrekeyIndex |-> x, IsLastResort |-> One(l) # <<0>>, Header |-> m.Header, Ciphertext |-> c]>>
  <2>1. PICK id, ct, hd : id = UnmarshalIdentity(r.fields[1]) /\ ct = UnmarshalCiphertext(r.fields[2])
                          /\ hd = UnmarshalHeader(r.fields[5])
    OBVIOUS
  <2>2. id = <<m.SenderIdentity>> /\ ct = <<m.KEMCiphertext>> /\ hd = <<m.Header>>
    BY <1>4, <1>5, <1>6, <1>15, <2>1
  <2>3. <<>> \notin {id, ct, hd}
    BY <2>2
  <2>4. UnmarshalInitialMessage(InitialRow(i, k, x, l, h, c)) =
          <<[type |-> Initial, SenderIdentity |-> id[1], KEMCiphertext |-> ct[1],
             PrekeyIndex |-> r.fields[3][1], IsLastResort |-> r.fields[4] # <<0>>,
             Header |-> hd[1], Ciphertext |-> r.fields[6]]>>
    BY <1>11, <1>13, <2>1, <2>3 DEF UnmarshalInitialMessage
  <2>5. id[1] = m.SenderIdentity /\ ct[1] = m.KEMCiphertext /\ hd[1] = m.Header
    BY <2>2
  <2>6. r.fields[3][1] = x /\ r.fields[4] = One(l) /\ r.fields[6] = c
    BY <1>14, <1>15
  <2> QED
    BY <2>4, <2>5, <2>6
<1>18. (One(l) # <<0>>) = m.IsLastResort
  BY <1>1, <1>16
<1> QED
  BY <1>1, <1>2, <1>10, <1>17, <1>18

LEMMA SubsequentBack ==
  ASSUME NEW m \in SubsequentSet, Sizes
  PROVE /\ SubsequentMessageMarshal(m) \in Seq(Byte)
        /\ UnmarshalSubsequentMessage(SubsequentMessageMarshal(m)) = <<m>>
<1>1. /\ m.Header \in Headers /\ m.Ciphertext \in Seq(Byte) /\ Len(m.Ciphertext) < Word
      /\ Len(HeaderMarshal(m.Header)) < Word
      /\ m = [type |-> Subsequent, Header |-> m.Header, Ciphertext |-> m.Ciphertext]
  BY DEF SubsequentSet
<1>2. PICK h, c : h = HeaderMarshal(m.Header) /\ c = m.Ciphertext
  OBVIOUS
<1>3. Word \in Nat
  BY DEF Sizes
<1>4. h \in Seq(Byte) /\ Len(h) < Word /\ UnmarshalHeader(h) = <<m.Header>>
  BY <1>1, <1>2, <1>3, HeaderIn, HeaderBack
<1>5. c \in Seq(Byte) /\ Len(c) < Word
  BY <1>1, <1>2
<1>6. Field(h) \in Seq(Byte) /\ Field(c) \in Seq(Byte)
  BY <1>3, <1>4, <1>5, FieldOn, NoneIn
<1>7. SubsequentMessageMarshal(m) = Cat(Field(h), Field(c))
  <2>1. appendLenPrefixed(<<>>, h) = Field(h)
    BY <1>3, <1>4, FirstAppended
  <2>2. appendLenPrefixed(Field(h), c) = Cat(Field(h), Field(c))
    BY <1>3, <1>5, <1>6, FieldOn
  <2> QED
    BY <1>2, <2>1, <2>2 DEF SubsequentMessageMarshal
<1>8. PICK r : r = readLenPrefixed(readLenPrefixed(Reader(Cat(Field(h), Field(c)))))
  OBVIOUS
<1>9. r = At(Read2(h, c), None)
  <2>1. Reader(Cat(Field(h), Field(c))) = At(None, Cat(Field(h), Field(c)))
    BY DEF Reader, At, None
  <2>2. readLenPrefixed(At(None, Cat(Field(h), Field(c)))) = At(Append(None, h), Field(c))
    BY <1>3, <1>4, <1>6, FieldOff
  <2>3. readLenPrefixed(At(Append(None, h), Field(c))) = At(Append(Append(None, h), c), None)
    BY <1>3, <1>5, LastFieldOff
  <2> QED
    BY <1>8, <2>1, <2>2, <2>3 DEF Read2
<1>10. Done(r) /\ r.fields = Read2(h, c)
  BY <1>9 DEF Done, At, None
<1>11. r.fields[1] = h /\ r.fields[2] = c
  BY <1>4, <1>5, <1>10, ReadAt2
<1>12. UnmarshalSubsequentMessage(Cat(Field(h), Field(c))) =
         <<[type |-> Subsequent, Header |-> m.Header, Ciphertext |-> c]>>
  <2>1. PICK hd : hd = UnmarshalHeader(r.fields[1])
    OBVIOUS
  <2>2. hd = <<m.Header>> /\ hd # <<>> /\ hd[1] = m.Header
    BY <1>4, <1>11, <2>1
  <2>3. UnmarshalSubsequentMessage(Cat(Field(h), Field(c))) =
          <<[type |-> Subsequent, Header |-> hd[1], Ciphertext |-> r.fields[2]]>>
    BY <1>8, <1>10, <2>1, <2>2 DEF UnmarshalSubsequentMessage
  <2> QED
    BY <1>11, <2>2, <2>3
<1> QED
  BY <1>1, <1>2, <1>6, <1>7, <1>12, CatIn

\* Every message the code can make, with keys of the right sizes, is read back
\* from its envelope exactly as it was (MarshalEnvelope, UnmarshalEnvelope).
THEOREM RoundTrip ==
  ASSUME NEW m \in InitialSet \cup SubsequentSet, Sizes
  PROVE /\ MarshalEnvelope(m) \in Seq(Byte)
        /\ UnmarshalEnvelope(MarshalEnvelope(m)) = <<m>>
<1>1. ASSUME NEW t \in Byte, NEW s \in Seq(Byte)
      PROVE /\ <<t>> \o s \in Seq(Byte) /\ <<t>> \o s # <<>>
            /\ Head(<<t>> \o s) = t /\ Tail(<<t>> \o s) = s
  <2>1. <<t>> \in Seq(Byte) /\ Len(<<t>>) = 1
    BY OneIn
  <2>2. <<t>> \o s \in Seq(Byte) /\ Len(<<t>> \o s) = 1 + Len(s) /\ Len(s) \in Nat
    BY <2>1, ConcatIn
  <2>3. <<t>> \o s # <<>>
    BY <2>2, EmptyIn
  <2> QED
    BY <2>1, <2>2, <2>3
<1>2. Initial \in Byte /\ Subsequent \in Byte /\ Initial # Subsequent
  BY DEF Initial, Subsequent, Byte, Sizes
<1>3. CASE m \in InitialSet
  <2>1. PICK s : s = InitialMessageMarshal(m)
    OBVIOUS
  <2>2. s \in Seq(Byte) /\ UnmarshalInitialMessage(s) = <<m>> /\ m.type = Initial
    BY <1>3, <2>1, InitialBack DEF InitialSet
  <2>3. MarshalEnvelope(m) = <<Initial>> \o s
    BY <2>1, <2>2 DEF MarshalEnvelope
  <2>4. /\ <<Initial>> \o s \in Seq(Byte) /\ <<Initial>> \o s # <<>>
        /\ Head(<<Initial>> \o s) = Initial /\ Tail(<<Initial>> \o s) = s
    BY <1>1, <1>2, <2>2
  <2>5. UnmarshalEnvelope(<<Initial>> \o s) = <<m>>
    BY <1>2, <2>2, <2>4 DEF UnmarshalEnvelope
  <2> QED
    BY <2>3, <2>4, <2>5
<1>4. CASE m \in SubsequentSet
  <2>1. PICK s : s = SubsequentMessageMarshal(m)
    OBVIOUS
  <2>2. s \in Seq(Byte) /\ UnmarshalSubsequentMessage(s) = <<m>> /\ m.type = Subsequent
    BY <1>4, <2>1, SubsequentBack DEF SubsequentSet
  <2>3. MarshalEnvelope(m) = <<Subsequent>> \o s
    BY <1>2, <2>1, <2>2 DEF MarshalEnvelope
  <2>4. /\ <<Subsequent>> \o s \in Seq(Byte) /\ <<Subsequent>> \o s # <<>>
        /\ Head(<<Subsequent>> \o s) = Subsequent /\ Tail(<<Subsequent>> \o s) = s
    BY <1>1, <1>2, <2>2
  <2>5. UnmarshalEnvelope(<<Subsequent>> \o s) = <<m>>
    BY <1>2, <2>2, <2>4 DEF UnmarshalEnvelope
  <2> QED
    BY <2>3, <2>4, <2>5
<1> QED
  BY <1>3, <1>4

-----------------------------------------------------------------------------
(* The messages the specification sends are such messages.                 *)

LEMMA BytesIn ==
  ASSUME Sizes, NEW n \in Nat, NEW s \in Bytes(n)
  PROVE s \in Seq(Byte) /\ Len(s) = n
<1>1. PICK b \in 0 .. 1 : s = [i \in 1 .. n |-> b]
  BY DEF Bytes
<1>2. b \in Byte
  BY <1>1 DEF Sizes, Byte
<1> QED
  BY <1>1, <1>2

LEMMA ZerosIn ==
  ASSUME Sizes, NEW n \in Nat
  PROVE Zeros(n) \in Seq(Byte) /\ Len(Zeros(n)) = n
<1>1. Zeros(n) \in Bytes(n)
  BY DEF Zeros, Bytes
<1> QED
  BY <1>1, BytesIn

LEMMA IdentitiesIn ==
  ASSUME Sizes, NEW id \in Identities
  PROVE id \in AnyIdentity
<1>1. id.Ed25519 \in Bytes(Ed25519Size) /\ id.MLDSA \in Bytes(MLDSASize)
      /\ id = [Ed25519 |-> id.Ed25519, MLDSA |-> id.MLDSA]
  BY DEF Identities
<1>2. Ed25519Size \in Nat /\ MLDSASize \in Nat
  BY DEF Sizes
<1>3. /\ id.Ed25519 \in Seq(Byte) /\ Len(id.Ed25519) = Ed25519Size
      /\ id.MLDSA \in Seq(Byte) /\ Len(id.MLDSA) = MLDSASize
  BY <1>1, <1>2, BytesIn
<1> QED
  BY <1>1, <1>3 DEF AnyIdentity

LEMMA PerhapsIn ==
  ASSUME Sizes, NEW n \in Nat \ {0}, NEW o \in Perhaps(Bytes(n))
  PROVE /\ o \in {<<>>} \cup {<<d>> : d \in Seq(Byte) \ {<<>>}}
        /\ Data(o) \in Seq(Byte) /\ Len(Data(o)) <= n
<1>1. CASE o = <<>>
  BY <1>1, EmptyIn DEF Data
<1>2. ASSUME NEW v \in Bytes(n), o = <<v>>
      PROVE /\ o \in {<<d>> : d \in Seq(Byte) \ {<<>>}}
            /\ Data(o) \in Seq(Byte) /\ Len(Data(o)) <= n
  <2>1. v \in Seq(Byte) /\ Len(v) = n
    BY BytesIn
  <2>2. v # <<>>
    BY <2>1, EmptyIn
  <2>3. Data(o) = v
    BY <1>2 DEF Data
  <2> QED
    BY <1>2, <2>1, <2>2, <2>3
<1> QED
  BY <1>1, <1>2 DEF Perhaps

\* The header of a message, and the lengths it is made of.
LEMMA HeadersIn ==
  ASSUME Sizes, NEW h,
         h \in [DHPub : Bytes(X25519Size), PN : 0 .. 2, N : 0 .. 2,
                MLKEMPub : Perhaps(Bytes(MLKEMSize)), MLKEMCiphertext : Perhaps(Bytes(KEMSize))]
  PROVE h \in Headers /\ Len(HeaderMarshal(h)) < Word
<1>1. /\ X25519Size \in Nat /\ MLKEMSize \in Nat \ {0} /\ KEMSize \in Nat \ {0} /\ Word \in Nat
      /\ X25519Size + MLKEMSize + KEMSize + 5 < Word
  BY DEF Sizes
<1>2. PICK x, m, n, p, c :
        x = h.DHPub /\ m = h.PN /\ n = h.N /\ p = h.MLKEMPub /\ c = h.MLKEMCiphertext
  OBVIOUS
<1>3. /\ x \in Bytes(X25519Size) /\ m \in 0 .. 2 /\ n \in 0 .. 2
      /\ p \in Perhaps(Bytes(MLKEMSize)) /\ c \in Perhaps(Bytes(KEMSize))
      /\ h = [DHPub |-> x, PN |-> m, N |-> n, MLKEMPub |-> p, MLKEMCiphertext |-> c]
  BY <1>2
<1>4. x \in Seq(Byte) /\ Len(x) = X25519Size
  BY <1>1, <1>3, BytesIn
<1>5. m \in Byte /\ n \in Byte
  BY <1>3 DEF Byte, Sizes
<1>6. /\ p \in {<<>>} \cup {<<d>> : d \in Seq(Byte) \ {<<>>}}
      /\ Data(p) \in Seq(Byte) /\ Len(Data(p)) <= MLKEMSize
  BY <1>1, <1>3, PerhapsIn
<1>7. /\ c \in {<<>>} \cup {<<d>> : d \in Seq(Byte) \ {<<>>}}
      /\ Data(c) \in Seq(Byte) /\ Len(Data(c)) <= KEMSize
  BY <1>1, <1>3, PerhapsIn
<1>8. Len(Data(p)) \in Nat /\ Len(Data(c)) \in Nat
  BY <1>6, <1>7, LenProperties
<1>9. Len(x) < Word /\ Len(Data(p)) < Word /\ Len(Data(c)) < Word
  BY <1>1, <1>4, <1>6, <1>7, <1>8
<1>10. h \in Headers
  <2>1. h \in [DHPub : Seq(Byte), PN : Byte, N : Byte,
               MLKEMPub : {<<>>} \cup {<<d>> : d \in Seq(Byte) \ {<<>>}},
               MLKEMCiphertext : {<<>>} \cup {<<d>> : d \in Seq(Byte) \ {<<>>}}]
    BY <1>3, <1>4, <1>5, <1>6, <1>7
  <2> QED
    BY <1>2, <1>9, <2>1 DEF Headers
<1>11. Len(HeaderMarshal(h)) = Len(x) + Len(Data(p)) + Len(Data(c)) + 5
  BY <1>1, <1>2, <1>10, HeaderIn
<1>12. Len(x) + Len(Data(p)) + Len(Data(c)) + 5 < Word
  BY <1>1, <1>4, <1>6, <1>7, <1>8
<1> QED
  BY <1>10, <1>11, <1>12

LEMMA SubsequentIn ==
  ASSUME Sizes, NEW m \in SubsequentMessages
  PROVE m \in SubsequentSet
<1>1. /\ m \in [type : {Subsequent},
                Header : [DHPub : Bytes(X25519Size), PN : 0 .. 2, N : 0 .. 2,
                          MLKEMPub : Perhaps(Bytes(MLKEMSize)),
                          MLKEMCiphertext : Perhaps(Bytes(KEMSize))],
                Ciphertext : {Zeros(2)}]
  BY DEF SubsequentMessages
<1>2. m.Header \in Headers /\ Len(HeaderMarshal(m.Header)) < Word
  BY <1>1, HeadersIn
<1>3. m.Ciphertext \in Seq(Byte) /\ Len(m.Ciphertext) = 2
  BY <1>1, ZerosIn
<1>4. m \in [type : {Subsequent}, Header : Headers, Ciphertext : Seq(Byte)]
  BY <1>1, <1>2, <1>3
<1>5. 2 < Word
  BY DEF Sizes
<1> QED
  BY <1>2, <1>3, <1>4, <1>5 DEF SubsequentSet

LEMMA InitialIn ==
  ASSUME Sizes, NEW h \in Handshakes, NEW m \in InitialMessages(h)
  PROVE m \in InitialSet
<1>1. PICK d, ct, k :
        d = m.Header /\ ct = m.KEMCiphertext /\ k = m.SenderIdentity
  OBVIOUS
<1>2. /\ k = h.initiator /\ m.type = Initial /\ m.PrekeyIndex = h.index
      /\ m.IsLastResort = LastResort(h) /\ m.Ciphertext = Zeros(2)
      /\ ct \in [X25519Ephemeral : Bytes(X25519Size), MLKEMCiphertext : {Zeros(KEMSize)}]
      /\ d = [DHPub |-> Zeros(X25519Size), PN |-> 0, N |-> 0, MLKEMPub |-> <<>>, MLKEMCiphertext |-> <<>>]
      /\ m = [type |-> Initial, SenderIdentity |-> k, KEMCiphertext |-> ct,
              PrekeyIndex |-> m.PrekeyIndex, IsLastResort |-> m.IsLastResort,
              Header |-> d, Ciphertext |-> m.Ciphertext]
  BY <1>1 DEF InitialMessages
<1>3. h.initiator \in Identities /\ h.index \in 0 .. 1
  BY DEF Handshakes
<1>4. k \in AnyIdentity
  BY <1>2, <1>3, IdentitiesIn
<1>5. ct \in AnyCiphertext
  <2>1. /\ ct.X25519Ephemeral \in Bytes(X25519Size) /\ ct.MLKEMCiphertext = Zeros(KEMSize)
        /\ ct = [X25519Ephemeral |-> ct.X25519Ephemeral, MLKEMCiphertext |-> ct.MLKEMCiphertext]
    BY <1>2
  <2>2. X25519Size \in Nat /\ KEMSize \in Nat
    BY DEF Sizes
  <2>3. ct.X25519Ephemeral \in Seq(Byte) /\ Len(ct.X25519Ephemeral) = X25519Size
    BY <2>1, <2>2, BytesIn
  <2>4. ct.MLKEMCiphertext \in Seq(Byte) /\ Len(ct.MLKEMCiphertext) = KEMSize
    BY <2>1, <2>2, ZerosIn
  <2> QED
    BY <2>1, <2>3, <2>4 DEF AnyCiphertext
<1>6. d \in Headers /\ Len(HeaderMarshal(d)) < Word
  <2>1. Zeros(X25519Size) \in Bytes(X25519Size)
    BY DEF Zeros, Bytes
  <2>2. <<>> \in Perhaps(Bytes(MLKEMSize)) /\ <<>> \in Perhaps(Bytes(KEMSize))
    BY DEF Perhaps
  <2>3. d \in [DHPub : Bytes(X25519Size), PN : 0 .. 2, N : 0 .. 2,
               MLKEMPub : Perhaps(Bytes(MLKEMSize)), MLKEMCiphertext : Perhaps(Bytes(KEMSize))]
    BY <1>2, <2>1, <2>2
  <2> QED
    BY <2>3, HeadersIn
<1>7. m.PrekeyIndex \in Byte
  BY <1>2, <1>3 DEF Byte, Sizes
<1>8. m.IsLastResort \in BOOLEAN
  BY <1>2 DEF LastResort
<1>9. m.Ciphertext \in Seq(Byte) /\ Len(m.Ciphertext) < Word
  BY <1>2, ZerosIn DEF Sizes
<1>10. m \in [type : {Initial}, SenderIdentity : AnyIdentity, KEMCiphertext : AnyCiphertext,
              PrekeyIndex : Byte, IsLastResort : BOOLEAN, Header : Headers, Ciphertext : Seq(Byte)]
  BY <1>2, <1>4, <1>5, <1>6, <1>7, <1>8, <1>9
<1> QED
  BY <1>1, <1>6, <1>9, <1>10 DEF InitialSet

-----------------------------------------------------------------------------
(* The invariant.                                                          *)

\* What was sent is a message, an initial one with its handshake; an envelope
\* nobody touched is the message's; an envelope is made of bytes.
IInv ==
  /\ sent # <<>> => /\ sent[1] \in InitialSet \cup SubsequentSet
                    /\ ~damaged => buf = MarshalEnvelope(sent[1])
  /\ Len(sent) = 2 => sent[2] \in Handshakes
  /\ buf \in Seq(Byte)

LEMMA InitHolds == Init => IInv
BY EmptyIn DEF Init, IInv

LEMMA NextHolds ==
  ASSUME Sizes, IInv, [Next]_vars
  PROVE IInv'
<1>1. CASE Send
  <2>1. PICK s : s = sent'
    OBVIOUS
  <2>2. /\ s[1] \in InitialSet \cup SubsequentSet
        /\ Len(s) = 2 => s[2] \in Handshakes
    <3>1. ASSUME NEW m \in SubsequentMessages, s = <<m>>
          PROVE s[1] \in SubsequentSet /\ Len(s) # 2
      BY <3>1, SubsequentIn
    <3>2. ASSUME NEW h \in Handshakes, NEW m \in InitialMessages(h), s = <<m, h>>
          PROVE s[1] \in InitialSet /\ s[2] \in Handshakes
      BY <3>2, InitialIn
    <3>3. \/ \E m \in SubsequentMessages : s = <<m>>
          \/ \E h \in Handshakes : \E m \in InitialMessages(h) : s = <<m, h>>
      BY <1>1, <2>1 DEF Send
    <3> QED
      BY <3>1, <3>2, <3>3
  <2>3. buf' = MarshalEnvelope(s[1])
    BY <1>1, <2>1 DEF Send
  <2>4. MarshalEnvelope(s[1]) \in Seq(Byte)
    BY <2>2, RoundTrip
  <2> QED
    BY <2>1, <2>2, <2>3, <2>4 DEF IInv
<1>2. ASSUME NEW wrong \in Seq(Byte), Damage(wrong)
      PROVE IInv'
  BY <1>2 DEF Damage, IInv
<1>3. CASE Truncate
  <2>1. PICK n \in 0 .. Len(buf) - 1 : Damage(SubSeq(buf, 1, n))
    BY <1>3 DEF Truncate
  <2>2. buf \in Seq(Byte) /\ Len(buf) \in Nat
    BY LenProperties DEF IInv
  <2>3. SubSeq(buf, 1, n) \in Seq(Byte)
    <3>1. n \in Nat /\ n <= Len(buf)
      BY <2>1, <2>2
    <3> QED
      BY <2>2, <3>1, Part
  <2> QED
    BY <1>2, <2>1, <2>3
<1>4. CASE Lengthen
  <2>1. PICK b \in 0 .. 2 : Damage(Append(buf, b))
    BY <1>4 DEF Lengthen
  <2>2. b \in Byte /\ buf \in Seq(Byte)
    BY DEF Sizes, Byte, IInv
  <2>3. Append(buf, b) \in Seq(Byte)
    BY <2>2, AppendProperties
  <2> QED
    BY <1>2, <2>1, <2>3
<1>5. CASE Change
  <2>1. PICK i \in DOMAIN buf, b \in 0 .. Word - 1 : Damage([buf EXCEPT ![i] = b])
    BY <1>5 DEF Change
  <2>2. b \in Byte /\ buf \in Seq(Byte)
    BY DEF Byte, IInv
  <2>3. i \in 1 .. Len(buf)
    BY <2>2, LenProperties
  <2>4. [buf EXCEPT ![i] = b] \in Seq(Byte)
    BY <2>2, <2>3, ExceptSeq
  <2> QED
    BY <1>2, <2>1, <2>4
<1>6. CASE UNCHANGED vars
  BY <1>6 DEF vars, IInv
<1> QED
  BY <1>1, <1>3, <1>4, <1>5, <1>6 DEF Next

\* With keys of any sizes that fit, what the relay does not touch is read as it
\* was meant: MarshalEnvelope and UnmarshalEnvelope, with all they call.
THEOREM ReadsAsMeant == Sizes => (Spec => []ParsesBack)
<1> SUFFICES ASSUME Sizes PROVE Spec => []ParsesBack
  OBVIOUS
<1>1. Init => IInv
  BY InitHolds
<1>2. IInv /\ [Next]_vars => IInv'
  BY NextHolds
<1>3. IInv => ParsesBack
  BY RoundTrip DEF IInv, ParsesBack
<1> QED
  BY <1>1, <1>2, <1>3, PTL DEF Spec

-----------------------------------------------------------------------------
(* Transcripts.                                                            *)

AnyPublicKey ==
  {pub \in [X25519 : Seq(Byte), MLKEM : Seq(Byte)] :
     Len(pub.X25519) = X25519Size /\ Len(pub.MLKEM) = MLKEMSize}

\* Two identities one after the other, and what follows.
Parties(i, r) == IdentityMarshal(i) \o IdentityMarshal(r)

LEMMA PartiesIn ==
  ASSUME NEW i \in AnyIdentity, NEW r \in AnyIdentity, Sizes
  PROVE /\ Parties(i, r) \in Seq(Byte)
        /\ Len(Parties(i, r)) = Ed25519Size + MLDSASize + (Ed25519Size + MLDSASize)
BY IdentityBack, ConcatIn DEF Parties

Same(i, r, s, j, q, t) ==
  /\ i \in AnyIdentity /\ r \in AnyIdentity /\ s \in Seq(Byte)
  /\ j \in AnyIdentity /\ q \in AnyIdentity /\ t \in Seq(Byte)
  /\ Parties(i, r) \o s = Parties(j, q) \o t

LEMMA PartiesBind ==
  ASSUME NEW i, NEW r, NEW s, NEW j, NEW q, NEW t, Same(i, r, s, j, q, t), Sizes
  PROVE i = j /\ r = q /\ s = t
<1> /\ i \in AnyIdentity /\ r \in AnyIdentity /\ s \in Seq(Byte)
    /\ j \in AnyIdentity /\ q \in AnyIdentity /\ t \in Seq(Byte)
    /\ Parties(i, r) \o s = Parties(j, q) \o t
  BY DEF Same
<1>1. Parties(i, r) \in Seq(Byte) /\ Parties(j, q) \in Seq(Byte) /\ Len(Parties(i, r)) = Len(Parties(j, q))
  BY PartiesIn
<1>2. Parties(i, r) = Parties(j, q) /\ s = t
  BY <1>1, Split
<1>3. /\ IdentityMarshal(i) \in Seq(Byte) /\ IdentityMarshal(r) \in Seq(Byte)
      /\ IdentityMarshal(j) \in Seq(Byte) /\ IdentityMarshal(q) \in Seq(Byte)
      /\ Len(IdentityMarshal(i)) = Len(IdentityMarshal(j))
  BY IdentityBack
<1>4. IdentityMarshal(i) = IdentityMarshal(j) /\ IdentityMarshal(r) = IdentityMarshal(q)
  BY <1>2, <1>3, Split DEF Parties
<1>5. <<i>> = <<j>> /\ <<r>> = <<q>>
  BY <1>4, IdentityBack
<1> QED
  BY <1>2, <1>5

OneTime(i, r, root, x) == i \in AnyIdentity /\ r \in AnyIdentity /\ root \in Seq(Byte) /\ x \in Byte

LEMMA OneTimeTranscript ==
  ASSUME NEW i, NEW r, NEW root, NEW x, OneTime(i, r, root, x), Sizes
  PROVE /\ buildTranscript(i, r, root, x) = Parties(i, r) \o (root \o <<x>>)
        /\ root \o <<x>> \in Seq(Byte) /\ Len(root \o <<x>>) = Len(root) + 1
<1> i \in AnyIdentity /\ r \in AnyIdentity /\ root \in Seq(Byte) /\ x \in Byte
  BY DEF OneTime
<1>1. Parties(i, r) \in Seq(Byte) /\ <<x>> \in Seq(Byte) /\ Len(<<x>>) = 1
  BY PartiesIn, OneIn
<1>2. uint32(x) = <<x>>
  BY Number DEF Sizes
<1>3. (Parties(i, r) \o root) \o <<x>> = Parties(i, r) \o (root \o <<x>>)
  BY <1>1, ConcatAssociative
<1>4. root \o <<x>> \in Seq(Byte) /\ Len(root \o <<x>>) = Len(root) + 1
  BY <1>1, ConcatIn
<1> QED
  BY <1>2, <1>3, <1>4 DEF buildTranscript, Parties

LEMMA LastResortTranscript ==
  ASSUME NEW i \in AnyIdentity, NEW r \in AnyIdentity, NEW pub \in AnyPublicKey
  PROVE /\ buildLastResortTranscript(i, r, pub) = Parties(i, r) \o PublicKeyMarshal(pub)
        /\ PublicKeyMarshal(pub) \in Seq(Byte)
        /\ Len(PublicKeyMarshal(pub)) = X25519Size + MLKEMSize
<1>1. /\ pub.X25519 \in Seq(Byte) /\ pub.MLKEM \in Seq(Byte)
      /\ Len(pub.X25519) = X25519Size /\ Len(pub.MLKEM) = MLKEMSize
  BY DEF AnyPublicKey
<1>2. PublicKeyMarshal(pub) \in Seq(Byte) /\ Len(PublicKeyMarshal(pub)) = X25519Size + MLKEMSize
  BY <1>1, ConcatIn DEF PublicKeyMarshal
<1> QED
  BY <1>2 DEF buildLastResortTranscript, Parties

\* The bytes that are hashed into the KEM's secret and signed by the initiator say
\* who speaks to whom and with which prekey, and of which kind: buildTranscript
\* and buildLastResortTranscript write no lengths, and need none.
THEOREM TranscriptsBind ==
  ASSUME Sizes,
         NEW i \in AnyIdentity, NEW r \in AnyIdentity, NEW j \in AnyIdentity, NEW q \in AnyIdentity
  PROVE /\ \A root \in Seq(Byte), other \in Seq(Byte), x \in Byte, y \in Byte :
             /\ Len(root) = Len(other)
             /\ buildTranscript(i, r, root, x) = buildTranscript(j, q, other, y)
             => i = j /\ r = q /\ root = other /\ x = y
        /\ \A pub \in AnyPublicKey, other \in AnyPublicKey :
             buildLastResortTranscript(i, r, pub) = buildLastResortTranscript(j, q, other)
             => i = j /\ r = q /\ pub = other
        /\ \A root \in Seq(Byte), x \in Byte, pub \in AnyPublicKey :
             Len(root) = HashSize =>
               buildTranscript(i, r, root, x) # buildLastResortTranscript(j, q, pub)
<1>1. ASSUME NEW root \in Seq(Byte), NEW other \in Seq(Byte), NEW x \in Byte, NEW y \in Byte,
             Len(root) = Len(other),
             buildTranscript(i, r, root, x) = buildTranscript(j, q, other, y)
      PROVE i = j /\ r = q /\ root = other /\ x = y
  <2>1. PICK s, t : s = root \o <<x>> /\ t = other \o <<y>>
    OBVIOUS
  <2>2. /\ s \in Seq(Byte) /\ t \in Seq(Byte)
        /\ buildTranscript(i, r, root, x) = Parties(i, r) \o s
        /\ buildTranscript(j, q, other, y) = Parties(j, q) \o t
    <3>1. buildTranscript(i, r, root, x) = Parties(i, r) \o (root \o <<x>>) /\ root \o <<x>> \in Seq(Byte)
      <4>1. OneTime(i, r, root, x)
        BY DEF OneTime
      <4> QED
        BY <4>1, OneTimeTranscript
    <3>2. buildTranscript(j, q, other, y) = Parties(j, q) \o (other \o <<y>>) /\ other \o <<y>> \in Seq(Byte)
      <4>1. OneTime(j, q, other, y)
        BY DEF OneTime
      <4> QED
        BY <4>1, OneTimeTranscript
    <3> QED
      BY <2>1, <3>1, <3>2
  <2>3. i = j /\ r = q /\ s = t
    <3>1. Same(i, r, s, j, q, t)
      BY <1>1, <2>2 DEF Same
    <3> QED
      BY <3>1, PartiesBind
  <2>4. <<x>> \in Seq(Byte) /\ <<y>> \in Seq(Byte)
    BY OneIn
  <2>5. root = other /\ <<x>> = <<y>>
    BY <1>1, <2>1, <2>3, <2>4, Split
  <2> QED
    BY <2>3, <2>5
<1>2. ASSUME NEW pub \in AnyPublicKey, NEW other \in AnyPublicKey,
             buildLastResortTranscript(i, r, pub) = buildLastResortTranscript(j, q, other)
      PROVE i = j /\ r = q /\ pub = other
  <2>1. PICK s, t : s = PublicKeyMarshal(pub) /\ t = PublicKeyMarshal(other)
    OBVIOUS
  <2>2. /\ s \in Seq(Byte) /\ t \in Seq(Byte)
        /\ buildLastResortTranscript(i, r, pub) = Parties(i, r) \o s
        /\ buildLastResortTranscript(j, q, other) = Parties(j, q) \o t
    BY <2>1, LastResortTranscript
  <2>3. i = j /\ r = q /\ s = t
    <3>1. Same(i, r, s, j, q, t)
      BY <1>2, <2>2 DEF Same
    <3> QED
      BY <3>1, PartiesBind
  <2>4. /\ pub.X25519 \in Seq(Byte) /\ pub.MLKEM \in Seq(Byte)
        /\ other.X25519 \in Seq(Byte) /\ other.MLKEM \in Seq(Byte)
        /\ Len(pub.X25519) = Len(other.X25519)
        /\ pub = [X25519 |-> pub.X25519, MLKEM |-> pub.MLKEM]
        /\ other = [X25519 |-> other.X25519, MLKEM |-> other.MLKEM]
    BY DEF AnyPublicKey
  <2>5. pub.X25519 = other.X25519 /\ pub.MLKEM = other.MLKEM
    BY <2>1, <2>3, <2>4, Split DEF PublicKeyMarshal
  <2> QED
    BY <2>3, <2>4, <2>5
<1>3. ASSUME NEW root \in Seq(Byte), NEW x \in Byte, NEW pub \in AnyPublicKey, Len(root) = HashSize,
             buildTranscript(i, r, root, x) = buildLastResortTranscript(j, q, pub)
      PROVE FALSE
  <2>1. PICK s, t : s = root \o <<x>> /\ t = PublicKeyMarshal(pub)
    OBVIOUS
  <2>2. /\ s \in Seq(Byte) /\ Len(s) = HashSize + 1
        /\ buildTranscript(i, r, root, x) = Parties(i, r) \o s
    <3>1. OneTime(i, r, root, x)
      BY DEF OneTime
    <3> QED
      BY <1>3, <2>1, <3>1, OneTimeTranscript
  <2>3. /\ t \in Seq(Byte) /\ Len(t) = X25519Size + MLKEMSize
        /\ buildLastResortTranscript(j, q, pub) = Parties(j, q) \o t
    BY <2>1, LastResortTranscript
  <2>4. s = t
    <3>1. Same(i, r, s, j, q, t)
      BY <1>3, <2>2, <2>3 DEF Same
    <3> QED
      BY <3>1, PartiesBind
  <2> QED
    BY <2>2, <2>3, <2>4 DEF Sizes
<1> QED
  BY <1>1, <1>2, <1>3

-----------------------------------------------------------------------------
(* What can be read was written so, and has nothing after it.              *)

LEMMA TakeOk ==
  ASSUME NEW r, NEW n, Take(r, n).ok
  PROVE r.ok
BY DEF Take, Truncated

LEMMA FieldOk ==
  ASSUME NEW r, readLenPrefixed(r).ok
  PROVE r.ok
<1>1. readUint32(r).ok
  BY DEF readLenPrefixed, Truncated
<1> QED
  BY <1>1, TakeOk DEF readUint32

\* What is taken off the front, with or without more at the end.
LEMMA PartTaken ==
  ASSUME NEW f, NEW d \in Seq(Byte), NEW n \in Nat, Take(At(f, d), n).ok
  PROVE \E s, t \in Seq(Byte) :
          /\ d = Cat(s, t) /\ Len(s) = n
          /\ Take(At(f, d), n) = At(Append(f, s), t)
          /\ \A y \in Seq(Byte) : Take(At(f, Cat(d, y)), n) = At(Append(f, s), Cat(t, y))
<1>1. Len(d) >= n /\ Len(d) \in Nat
  BY LenProperties DEF Take, Truncated, At
<1>2. PICK s, t : s = SubSeq(d, 1, n) /\ t = SubSeq(d, n + 1, Len(d))
  OBVIOUS
<1>3. s \in Seq(Byte) /\ Len(s) = n
  <2>1. 1 \in Nat \ {0} /\ n <= Len(d)
    BY <1>1
  <2>2. s \in Seq(Byte) /\ Len(s) = IF 1 <= n THEN n - 1 + 1 ELSE 0
    BY <1>2, <2>1, Part
  <2> QED
    BY <2>2
<1>4. t \in Seq(Byte)
  <2>1. n + 1 \in Nat \ {0} /\ Len(d) <= Len(d)
    BY <1>1
  <2> QED
    BY <1>1, <1>2, <2>1, Part
<1>5. d = Cat(s, t)
  <2>1. 1 \in 1 .. Len(d) + 1 /\ n \in 1 - 1 .. Len(d) /\ Len(d) \in n .. Len(d)
    BY <1>1
  <2>2. SubSeq(d, 1, n) \o SubSeq(d, n + 1, Len(d)) = SubSeq(d, 1, Len(d))
    BY <2>1, ConcatAdjacentSubSeq
  <2>3. SubSeq(d, 1, Len(d)) = d
    BY SubSeqFull
  <2> QED
    BY <1>2, <2>2, <2>3 DEF Cat
<1>6. Take(At(f, d), n) = At(Append(f, s), t)
  BY <1>3, <1>4, <1>5, PartOff
<1>7. ASSUME NEW y \in Seq(Byte) PROVE Take(At(f, Cat(d, y)), n) = At(Append(f, s), Cat(t, y))
  <2>1. Cat(d, y) = Cat(s, Cat(t, y)) /\ Cat(t, y) \in Seq(Byte)
    BY <1>3, <1>4, <1>5, Assoc, CatIn
  <2> QED
    BY <1>3, <2>1, PartOff
<1> QED
  BY <1>3, <1>4, <1>5, <1>6, <1>7

LEMMA NumberTaken ==
  ASSUME NEW f, NEW d \in Seq(Byte), Take(At(f, d), 1).ok
  PROVE \E b \in Byte, t \in Seq(Byte) :
          /\ d = Cat(One(b), t)
          /\ Take(At(f, d), 1) = At(Append(f, One(b)), t)
          /\ \A y \in Seq(Byte) : Take(At(f, Cat(d, y)), 1) = At(Append(f, One(b)), Cat(t, y))
<1>1. PICK s, t \in Seq(Byte) :
        /\ d = Cat(s, t) /\ Len(s) = 1
        /\ Take(At(f, d), 1) = At(Append(f, s), t)
        /\ \A y \in Seq(Byte) : Take(At(f, Cat(d, y)), 1) = At(Append(f, s), Cat(t, y))
  <2>1. PICK n \in Nat : n = 1
    OBVIOUS
  <2>2. Take(At(f, d), n).ok
    BY <2>1
  <2>3. \E s, t \in Seq(Byte) :
          /\ d = Cat(s, t) /\ Len(s) = n
          /\ Take(At(f, d), n) = At(Append(f, s), t)
          /\ \A y \in Seq(Byte) : Take(At(f, Cat(d, y)), n) = At(Append(f, s), Cat(t, y))
    BY <2>2, PartTaken
  <2> QED
    BY <2>1, <2>3
<1>2. s[1] \in Byte
  <2>1. 1 \in 1 .. Len(s)
    BY <1>1
  <2> QED
    BY <2>1, ElementOfSeq
<1>3. s = One(s[1])
  <2>1. One(s[1]) \in Seq(Byte) /\ Len(One(s[1])) = 1 /\ One(s[1])[1] = s[1]
    BY <1>2, SingleIn
  <2>2. \A i \in 1 .. Len(s) : s[i] = One(s[1])[i]
    BY <1>1, <2>1
  <2> QED
    BY <1>1, <2>1, <2>2, SeqEqual
<1> QED
  BY <1>1, <1>2, <1>3

LEMMA FieldTaken ==
  ASSUME NEW f, NEW d \in Seq(Byte), Word \in Nat, readLenPrefixed(At(f, d)).ok
  PROVE \E s, t \in Seq(Byte) :
          /\ d = Cat(Field(s), t) /\ Len(s) < Word
          /\ readLenPrefixed(At(f, d)) = At(Append(f, s), t)
          /\ \A y \in Seq(Byte) : readLenPrefixed(At(f, Cat(d, y))) = At(Append(f, s), Cat(t, y))
<1>1. readUint32(At(f, d)).ok
  BY DEF readLenPrefixed, Truncated
<1>2. PICK b \in Byte, e \in Seq(Byte) : d = Cat(One(b), e)
  BY <1>1, NumberTaken DEF readUint32
<1>3. b \in Nat /\ b < Word
  BY DEF Byte
<1>4. /\ d # <<>> /\ Len(d) \in Nat /\ Len(d) >= 1 /\ Head(d) = b /\ Tail(d) = e
  <2>1. <<b>> \in Seq(Byte) /\ Len(<<b>>) = 1
    BY OneIn
  <2>2. Len(<<b>> \o e) = 1 + Len(e) /\ Len(e) \in Nat
    BY <2>1, ConcatIn
  <2>3. <<b>> \o e # <<>>
    BY <2>2, EmptyIn
  <2> QED
    BY <1>2, <2>1, <2>2, <2>3 DEF Cat, One
<1>5. readLenPrefixed(At(f, d)) = Take(At(f, e), b)
  BY <1>4, LengthFirst
<1>6. PICK s, t \in Seq(Byte) : e = Cat(s, t) /\ Len(s) = b
  BY <1>3, <1>5, PartTaken
<1>7. Field(s) = Cat(One(b), s) /\ Field(s) \in Seq(Byte)
  BY <1>3, <1>6, FieldIn DEF Cat, One
<1>8. d = Cat(Field(s), t)
  BY <1>2, <1>6, <1>7, Assoc, SingleIn
<1>9. readLenPrefixed(At(f, d)) = At(Append(f, s), t)
  BY <1>3, <1>6, <1>8, FieldOff
<1>10. ASSUME NEW y \in Seq(Byte)
       PROVE readLenPrefixed(At(f, Cat(d, y))) = At(Append(f, s), Cat(t, y))
  <2>1. Cat(d, y) = Cat(Field(s), Cat(t, y)) /\ Cat(t, y) \in Seq(Byte)
    BY <1>7, <1>8, Assoc, CatIn
  <2> QED
    BY <1>3, <1>6, <2>1, FieldOff
<1> QED
  BY <1>3, <1>6, <1>8, <1>9, <1>10

LEMMA ReadFive ==
  ASSUME NEW a, NEW b, NEW c, NEW d, NEW e, Five(a, b, c, d, e)
  PROVE /\ Read5(a, b, c, d, e)[1] = a /\ Read5(a, b, c, d, e)[2] = b
        /\ Read5(a, b, c, d, e)[3] = c /\ Read5(a, b, c, d, e)[4] = d
        /\ Read5(a, b, c, d, e)[5] = e
BY ReadAt5 DEF Five

LEMMA OptionalData ==
  ASSUME NEW p \in Seq(Byte)
  PROVE Data(Optional(p)) = p
BY DEF Data, Optional

\* A header that can be read is what is written for it.
LEMMA HeaderTaken ==
  ASSUME NEW b \in Seq(Byte), Word \in Nat, UnmarshalHeader(b) # <<>>
  PROVE \E h : UnmarshalHeader(b) = <<h>> /\ HeaderMarshal(h) = b
<1>1. PICK r0, r1, r2, r3, r4, r :
        /\ r0 = At(None, b) /\ r1 = readLenPrefixed(r0) /\ r2 = readUint32(r1)
        /\ r3 = readUint32(r2) /\ r4 = readLenPrefixed(r3) /\ r = readLenPrefixed(r4)
  OBVIOUS
<1>2. PICK h :
        h = [DHPub |-> r.fields[1], PN |-> r.fields[2][1], N |-> r.fields[3][1],
             MLKEMPub |-> Optional(r.fields[4]), MLKEMCiphertext |-> Optional(r.fields[5])]
  OBVIOUS
<1>3. UnmarshalHeader(b) = IF Done(r) THEN <<h>> ELSE <<>>
  <2>1. Reader(b) = At(None, b)
    BY DEF Reader, At, None
  <2> QED
    BY <1>1, <1>2, <2>1 DEF UnmarshalHeader
<1>4. Done(r) /\ UnmarshalHeader(b) = <<h>>
  BY <1>3
<1>5. r.ok /\ r4.ok /\ r3.ok /\ r2.ok /\ r1.ok
  <2>1. r.ok
    BY <1>4 DEF Done
  <2>2. r4.ok
    BY <1>1, <2>1, FieldOk
  <2>3. r3.ok
    BY <1>1, <2>2, FieldOk
  <2>4. r2.ok
    BY <1>1, <2>3, TakeOk DEF readUint32
  <2>5. r1.ok
    BY <1>1, <2>4, TakeOk DEF readUint32
  <2> QED
    BY <2>1, <2>2, <2>3, <2>4, <2>5
<1>6. PICK x, t1 \in Seq(Byte) :
        b = Cat(Field(x), t1) /\ Len(x) < Word /\ r1 = At(Append(None, x), t1)
  BY <1>1, <1>5, FieldTaken
<1>7. PICK m \in Byte, t2 \in Seq(Byte) :
        t1 = Cat(One(m), t2) /\ r2 = At(Read2(x, One(m)), t2)
  BY <1>1, <1>5, <1>6, NumberTaken DEF readUint32, Read2
<1>8. PICK n \in Byte, t3 \in Seq(Byte) :
        t2 = Cat(One(n), t3) /\ r3 = At(Append(Read2(x, One(m)), One(n)), t3)
  BY <1>1, <1>5, <1>7, NumberTaken DEF readUint32
<1>9. PICK p, t4 \in Seq(Byte) :
        /\ t3 = Cat(Field(p), t4) /\ Len(p) < Word
        /\ r4 = At(Append(Append(Read2(x, One(m)), One(n)), p), t4)
  BY <1>1, <1>5, <1>8, FieldTaken
<1>10. PICK c, t5 \in Seq(Byte) :
        /\ t4 = Cat(Field(c), t5) /\ Len(c) < Word
        /\ r = At(Read5(x, One(m), One(n), p, c), t5)
  BY <1>1, <1>5, <1>9, FieldTaken DEF Read5
<1>11. t4 = Field(c)
  <2>1. t5 = None
    BY <1>4, <1>10 DEF Done, At, None
  <2>2. Field(c) \in Seq(Byte)
    BY <1>10, FieldIn
  <2> QED
    BY <1>10, <2>1, <2>2, NothingAfter
<1>12. b = HeaderRow(x, m, n, p, c) /\ HeaderFits(x, m, n, p, c)
  BY <1>6, <1>7, <1>8, <1>9, <1>10, <1>11 DEF HeaderRow, HeaderFits
<1>13. h = [DHPub |-> x, PN |-> m, N |-> n, MLKEMPub |-> Optional(p), MLKEMCiphertext |-> Optional(c)]
  <2>1. /\ One(m) \in Seq(Byte) /\ One(n) \in Seq(Byte) /\ One(m)[1] = m /\ One(n)[1] = n
        /\ x \in Seq(Byte) /\ p \in Seq(Byte) /\ c \in Seq(Byte)
    BY SingleIn
  <2>2. r.fields = Read5(x, One(m), One(n), p, c)
    BY <1>10 DEF At
  <2>3. /\ Read5(x, One(m), One(n), p, c)[1] = x /\ Read5(x, One(m), One(n), p, c)[2] = One(m)
        /\ Read5(x, One(m), One(n), p, c)[3] = One(n) /\ Read5(x, One(m), One(n), p, c)[4] = p
        /\ Read5(x, One(m), One(n), p, c)[5] = c
    <3>1. Five(x, One(m), One(n), p, c)
      BY <2>1 DEF Five
    <3> QED
      BY <3>1, ReadFive
  <2> QED
    BY <1>2, <2>1, <2>2, <2>3
<1>14. HeaderMarshal(h) = appendLenPrefixed(appendLenPrefixed(
               appendLenPrefixed(<<>>, x) \o uint32(m) \o uint32(n), p), c)
  <2>1. /\ h.DHPub = x /\ h.PN = m /\ h.N = n
        /\ h.MLKEMPub = Optional(p) /\ h.MLKEMCiphertext = Optional(c)
    BY <1>13
  <2>2. Data(Optional(p)) = p /\ Data(Optional(c)) = c
    BY OptionalData
  <2> QED
    BY <2>1, <2>2 DEF HeaderMarshal
<1>15. HeaderMarshal(h) = b
  BY <1>12, <1>14, HeaderOn
<1> QED
  BY <1>4, <1>15

\* What is read as two parts of given sizes, and nothing else, is those parts.
IsPair(r, b, m, n) ==
  /\ b \in Seq(Byte) /\ m \in Nat /\ n \in Nat
  /\ r = Take(Take(Reader(b), m), n) /\ Done(r)

LEMMA PairTaken ==
  ASSUME NEW r, NEW b, NEW m, NEW n, IsPair(r, b, m, n)
  PROVE /\ r.fields[1] \in Seq(Byte) /\ r.fields[2] \in Seq(Byte)
        /\ b = r.fields[1] \o r.fields[2] /\ Len(r.fields[1]) = m /\ Len(r.fields[2]) = n
<1> /\ b \in Seq(Byte) /\ m \in Nat /\ n \in Nat
    /\ r = Take(Take(Reader(b), m), n) /\ Done(r)
  BY DEF IsPair
<1>1. PICK r1 : r1 = Take(At(None, b), m)
  OBVIOUS
<1>2. r = Take(r1, n)
  <2>1. Reader(b) = At(None, b)
    BY DEF Reader, At, None
  <2> QED
    BY <1>1, <2>1
<1>3. r.ok /\ r1.ok /\ r.rest = <<>>
  <2>1. r.ok /\ r.rest = <<>>
    BY DEF Done
  <2> QED
    BY <1>2, <2>1, TakeOk
<1>4. PICK s, d \in Seq(Byte) : b = Cat(s, d) /\ Len(s) = m /\ r1 = At(Append(None, s), d)
  BY <1>1, <1>3, PartTaken
<1>5. PICK t, e \in Seq(Byte) : d = Cat(t, e) /\ Len(t) = n /\ r = At(Read2(s, t), e)
  BY <1>2, <1>3, <1>4, PartTaken DEF Read2
<1>6. d = t
  <2>1. e = None
    BY <1>3, <1>5 DEF At, None
  <2> QED
    BY <1>5, <2>1, NothingAfter
<1>7. r.fields[1] = s /\ r.fields[2] = t
  <2>1. r.fields = Read2(s, t)
    BY <1>5 DEF At
  <2> QED
    BY <2>1, ReadAt2
<1> QED
  BY <1>4, <1>5, <1>6, <1>7 DEF Cat

LEMMA IdentityTaken ==
  ASSUME NEW b \in Seq(Byte), Sizes, UnmarshalIdentity(b) # <<>>
  PROVE \E id : UnmarshalIdentity(b) = <<id>> /\ IdentityMarshal(id) = b /\ Len(b) = Ed25519Size + MLDSASize
<1>1. PICK r : r = Take(Take(Reader(b), Ed25519Size), MLDSASize)
  OBVIOUS
<1>2. Done(r) /\ UnmarshalIdentity(b) = <<[Ed25519 |-> r.fields[1], MLDSA |-> r.fields[2]]>>
  BY <1>1 DEF UnmarshalIdentity
<1>3. Ed25519Size \in Nat /\ MLDSASize \in Nat
  BY DEF Sizes
<1>4. PICK s, t :
        /\ s = r.fields[1] /\ t = r.fields[2] /\ s \in Seq(Byte) /\ t \in Seq(Byte)
        /\ b = s \o t /\ Len(s) = Ed25519Size /\ Len(t) = MLDSASize
  <2>1. IsPair(r, b, Ed25519Size, MLDSASize)
    BY <1>1, <1>2, <1>3 DEF IsPair
  <2> QED
    BY <2>1, PairTaken
<1>5. PICK id : id = [Ed25519 |-> s, MLDSA |-> t]
  OBVIOUS
<1>6. UnmarshalIdentity(b) = <<id>>
  BY <1>2, <1>4, <1>5
<1>7. IdentityMarshal(id) = b
  BY <1>4, <1>5 DEF IdentityMarshal
<1>8. Len(b) = Ed25519Size + MLDSASize
  BY <1>4, ConcatIn
<1> QED
  BY <1>6, <1>7, <1>8

LEMMA CiphertextTaken ==
  ASSUME NEW b \in Seq(Byte), Sizes, UnmarshalCiphertext(b) # <<>>
  PROVE \E ct : UnmarshalCiphertext(b) = <<ct>> /\ CiphertextMarshal(ct) = b /\ Len(b) = X25519Size + KEMSize
<1>1. PICK r : r = Take(Take(Reader(b), X25519Size), KEMSize)
  OBVIOUS
<1>2. /\ Done(r)
      /\ UnmarshalCiphertext(b) = <<[X25519Ephemeral |-> r.fields[1], MLKEMCiphertext |-> r.fields[2]]>>
  BY <1>1 DEF UnmarshalCiphertext
<1>3. X25519Size \in Nat /\ KEMSize \in Nat
  BY DEF Sizes
<1>4. PICK s, t :
        /\ s = r.fields[1] /\ t = r.fields[2] /\ s \in Seq(Byte) /\ t \in Seq(Byte)
        /\ b = s \o t /\ Len(s) = X25519Size /\ Len(t) = KEMSize
  <2>1. IsPair(r, b, X25519Size, KEMSize)
    BY <1>1, <1>2, <1>3 DEF IsPair
  <2> QED
    BY <2>1, PairTaken
<1>5. PICK ct : ct = [X25519Ephemeral |-> s, MLKEMCiphertext |-> t]
  OBVIOUS
<1>6. UnmarshalCiphertext(b) = <<ct>>
  BY <1>2, <1>4, <1>5
<1>7. CiphertextMarshal(ct) = b
  BY <1>4, <1>5 DEF CiphertextMarshal
<1>8. Len(b) = X25519Size + KEMSize
  BY <1>4, ConcatIn
<1> QED
  BY <1>6, <1>7, <1>8

\* A subsequent message that can be read is what is written for it, and with
\* anything after it cannot be read.
LEMMA SubsequentTaken ==
  ASSUME NEW d \in Seq(Byte), Sizes, UnmarshalSubsequentMessage(d) # <<>>
  PROVE /\ \E m : /\ UnmarshalSubsequentMessage(d) = <<m>> /\ m.type = Subsequent
                  /\ SubsequentMessageMarshal(m) = d
        /\ \A y \in Seq(Byte) : y # None => UnmarshalSubsequentMessage(Cat(d, y)) = <<>>
<1>0. Word \in Nat
  BY DEF Sizes
<1>1. PICK r1, r : r1 = readLenPrefixed(At(None, d)) /\ r = readLenPrefixed(r1)
  OBVIOUS
<1>2. PICK hd : hd = UnmarshalHeader(r.fields[1])
  OBVIOUS
<1>3. UnmarshalSubsequentMessage(d) =
        IF Done(r) /\ hd # <<>>
        THEN <<[type |-> Subsequent, Header |-> hd[1], Ciphertext |-> r.fields[2]]>> ELSE <<>>
  <2>1. Reader(d) = At(None, d)
    BY DEF Reader, At, None
  <2> QED
    BY <1>1, <1>2, <2>1 DEF UnmarshalSubsequentMessage
<1>4. Done(r) /\ hd # <<>> /\ r.ok /\ r1.ok
  <2>1. Done(r) /\ hd # <<>>
    BY <1>3
  <2> QED
    BY <1>1, <2>1, FieldOk DEF Done
<1>5. PICK h, e \in Seq(Byte) :
        /\ d = Cat(Field(h), e) /\ Len(h) < Word /\ r1 = At(Append(None, h), e)
        /\ \A y \in Seq(Byte) : readLenPrefixed(At(None, Cat(d, y))) = At(Append(None, h), Cat(e, y))
  BY <1>0, <1>1, <1>4, FieldTaken
<1>6. PICK c, t \in Seq(Byte) :
        /\ e = Cat(Field(c), t) /\ Len(c) < Word /\ r = At(Read2(h, c), t)
        /\ \A y \in Seq(Byte) :
             readLenPrefixed(At(Append(None, h), Cat(e, y))) = At(Read2(h, c), Cat(t, y))
  BY <1>0, <1>1, <1>4, <1>5, FieldTaken DEF Read2
<1>7. t = None /\ r.fields[1] = h /\ r.fields[2] = c
  <2>1. t = None
    BY <1>4, <1>6 DEF Done, At, None
  <2>2. r.fields = Read2(h, c)
    BY <1>6 DEF At
  <2> QED
    <3>1. Read2(h, c)[1] = h /\ Read2(h, c)[2] = c
      BY ReadAt2
    <3> QED
      BY <2>1, <2>2, <3>1
<1>8. PICK hh : UnmarshalHeader(h) = <<hh>> /\ HeaderMarshal(hh) = h
  BY <1>0, <1>2, <1>4, <1>5, <1>7, HeaderTaken
<1>9. PICK m : m = [type |-> Subsequent, Header |-> hh, Ciphertext |-> c]
  OBVIOUS
<1>10. UnmarshalSubsequentMessage(d) = <<m>>
  <2>1. hd = <<hh>> /\ hd[1] = hh
    BY <1>2, <1>7, <1>8
  <2> QED
    BY <1>3, <1>4, <1>7, <1>9, <2>1
<1>11. d = Cat(Field(h), Field(c)) /\ Field(h) \in Seq(Byte)
  <2>1. Field(c) \in Seq(Byte) /\ Field(h) \in Seq(Byte)
    BY <1>0, <1>5, <1>6, FieldIn
  <2> QED
    BY <1>5, <1>6, <1>7, <2>1, NothingAfter
<1>12. SubsequentMessageMarshal(m) = d
  <2>1. SubsequentMessageMarshal(m) = appendLenPrefixed(appendLenPrefixed(<<>>, h), c)
    BY <1>8, <1>9 DEF SubsequentMessageMarshal
  <2>2. appendLenPrefixed(<<>>, h) = Field(h)
    BY <1>0, <1>5, FirstAppended
  <2>3. appendLenPrefixed(Field(h), c) = Cat(Field(h), Field(c))
    BY <1>0, <1>6, <1>11, FieldOn
  <2> QED
    BY <1>11, <2>1, <2>2, <2>3
<1>13. ASSUME NEW y \in Seq(Byte), y # None
       PROVE UnmarshalSubsequentMessage(Cat(d, y)) = <<>>
  <2>1. Reader(Cat(d, y)) = At(None, Cat(d, y))
    BY DEF Reader, At, None
  <2>2. readLenPrefixed(readLenPrefixed(Reader(Cat(d, y)))) = At(Read2(h, c), Cat(t, y))
    BY <1>5, <1>6, <2>1
  <2>3. Cat(t, y) = y
    BY <1>7, ConcatEmptySeq DEF Cat, None
  <2>4. ~Done(At(Read2(h, c), Cat(t, y)))
    BY <1>13, <2>3 DEF Done, At, None
  <2> QED
    BY <2>2, <2>4 DEF UnmarshalSubsequentMessage
<1> QED
  BY <1>9, <1>10, <1>12, <1>13

\* Two encodings that differ in at most one byte, the one at position n.
OnlyAt(a, b, n) ==
  Len(a) = Len(b) /\ \A j \in 1 .. Len(a) : a[j] # b[j] => j = n

LEMMA OneApart ==
  ASSUME NEW a \in Seq(Byte), NEW t \in Seq(Byte), NEW k \in Byte, NEW l \in Byte
  PROVE OnlyAt(Cat(a, Cat(One(k), t)), Cat(a, Cat(One(l), t)), Len(a) + 1)
<1>1. PICK u, v : u = Cat(One(k), t) /\ v = Cat(One(l), t)
  OBVIOUS
<1>2. /\ u \in Seq(Byte) /\ v \in Seq(Byte) /\ Len(u) = Len(t) + 1 /\ Len(v) = Len(t) + 1
      /\ Len(t) \in Nat /\ Len(a) \in Nat
      /\ \A j \in 2 .. Len(t) + 1 : u[j] = v[j]
  <2>1. /\ <<k>> \in Seq(Byte) /\ <<l>> \in Seq(Byte) /\ Len(<<k>>) = 1 /\ Len(<<l>>) = 1
        /\ u = <<k>> \o t /\ v = <<l>> \o t
    BY <1>1, OneIn DEF Cat, One
  <2>2. /\ u \in Seq(Byte) /\ v \in Seq(Byte) /\ Len(u) = 1 + Len(t) /\ Len(v) = 1 + Len(t)
        /\ Len(t) \in Nat /\ Len(a) \in Nat
    BY <2>1, ConcatIn, LenProperties
  <2>3. \A j \in 1 .. 1 + Len(t) :
          /\ u[j] = IF j <= 1 THEN <<k>>[j] ELSE t[j - 1]
          /\ v[j] = IF j <= 1 THEN <<l>>[j] ELSE t[j - 1]
    BY <2>1, ConcatProperties
  <2>4. ASSUME NEW j \in 2 .. Len(t) + 1 PROVE u[j] = v[j]
    <3>1. j \in 1 .. 1 + Len(t) /\ ~(j <= 1)
      BY <2>2
    <3> QED
      BY <2>3, <3>1
  <2> QED
    BY <2>2, <2>4
<1>3. Len(Cat(a, u)) = Len(a) + Len(u) /\ Len(Cat(a, v)) = Len(a) + Len(v)
  BY <1>2, CatIn
<1>4. \A j \in 1 .. Len(a) + Len(t) + 1 :
        /\ Cat(a, u)[j] = IF j <= Len(a) THEN a[j] ELSE u[j - Len(a)]
        /\ Cat(a, v)[j] = IF j <= Len(a) THEN a[j] ELSE v[j - Len(a)]
  <2>1. \A j \in 1 .. Len(a) + Len(u) : (a \o u)[j] = IF j <= Len(a) THEN a[j] ELSE u[j - Len(a)]
    BY <1>2, ConcatProperties
  <2>2. \A j \in 1 .. Len(a) + Len(v) : (a \o v)[j] = IF j <= Len(a) THEN a[j] ELSE v[j - Len(a)]
    BY <1>2, ConcatProperties
  <2>3. Len(a) + Len(u) = Len(a) + Len(t) + 1 /\ Len(a) + Len(v) = Len(a) + Len(t) + 1
    BY <1>2
  <2> QED
    BY <2>1, <2>2, <2>3 DEF Cat
<1>5. ASSUME NEW j \in 1 .. Len(a) + Len(t) + 1, j # Len(a) + 1
      PROVE Cat(a, u)[j] = Cat(a, v)[j]
  <2>1. CASE j <= Len(a)
    BY <1>4, <2>1
  <2>2. CASE ~(j <= Len(a))
    <3>1. j - Len(a) \in 2 .. Len(t) + 1
      BY <1>2, <1>5, <2>2
    <3>2. u[j - Len(a)] = v[j - Len(a)]
      BY <1>2, <3>1
    <3> QED
      BY <1>4, <2>2, <3>2
  <2> QED
    BY <2>1, <2>2
<1>6. /\ Len(Cat(a, u)) = Len(a) + Len(t) + 1 /\ Len(Cat(a, v)) = Len(a) + Len(t) + 1
  BY <1>2, <1>3
<1> QED
  BY <1>1, <1>5, <1>6 DEF OnlyAt

InitialReader(d) ==
  readLenPrefixed(readLenPrefixed(Take(readUint32(readLenPrefixed(readLenPrefixed(Reader(d)))), 1)))

\* The fields of an initial message that can be read, and that with anything
\* after it it cannot.
LEMMA InitialFields ==
  ASSUME NEW d \in Seq(Byte), Word \in Nat, Done(InitialReader(d))
  PROVE /\ \E i, k, h, c \in Seq(Byte), x, l \in Byte :
             /\ InitialFits(i, k, x, l, h, c) /\ d = InitialRow(i, k, x, l, h, c)
             /\ InitialReader(d).fields = Read6(i, k, One(x), One(l), h, c)
        /\ \A y \in Seq(Byte) : y # None => ~Done(InitialReader(Cat(d, y)))
<1>1. PICK r1, r2, r3, r4, r5, r :
        /\ r1 = readLenPrefixed(At(None, d)) /\ r2 = readLenPrefixed(r1) /\ r3 = readUint32(r2)
        /\ r4 = Take(r3, 1) /\ r5 = readLenPrefixed(r4) /\ r = readLenPrefixed(r5)
  OBVIOUS
<1>2. \A z : Reader(z) = At(None, z)
  BY DEF Reader, At, None
<1>3. InitialReader(d) = r
  BY <1>1, <1>2 DEF InitialReader
<1>4. r.rest = <<>> /\ r.ok /\ r5.ok /\ r4.ok /\ r3.ok /\ r2.ok /\ r1.ok
  <2>1. r.ok /\ r.rest = <<>>
    BY <1>3 DEF Done
  <2>2. r5.ok
    BY <1>1, <2>1, FieldOk
  <2>3. r4.ok
    BY <1>1, <2>2, FieldOk
  <2>4. r3.ok
    BY <1>1, <2>3, TakeOk
  <2>5. r2.ok
    BY <1>1, <2>4, TakeOk DEF readUint32
  <2>6. r1.ok
    BY <1>1, <2>5, FieldOk
  <2> QED
    BY <2>1, <2>2, <2>3, <2>4, <2>5, <2>6
<1>5. PICK i, t1 \in Seq(Byte) :
        /\ d = Cat(Field(i), t1) /\ Len(i) < Word /\ r1 = At(Append(None, i), t1)
        /\ \A y \in Seq(Byte) : readLenPrefixed(At(None, Cat(d, y))) = At(Append(None, i), Cat(t1, y))
  BY <1>1, <1>4, FieldTaken
<1>6. PICK f1 : f1 = Append(None, i)
  OBVIOUS
<1>7. PICK k, t2 \in Seq(Byte) :
        /\ t1 = Cat(Field(k), t2) /\ Len(k) < Word /\ r2 = At(Append(f1, k), t2)
        /\ \A y \in Seq(Byte) : readLenPrefixed(At(f1, Cat(t1, y))) = At(Append(f1, k), Cat(t2, y))
  BY <1>1, <1>4, <1>5, <1>6, FieldTaken
<1>8. PICK f2 : f2 = Append(f1, k)
  OBVIOUS
<1>9. PICK x \in Byte, t3 \in Seq(Byte) :
        /\ t2 = Cat(One(x), t3) /\ r3 = At(Append(f2, One(x)), t3)
        /\ \A y \in Seq(Byte) : readUint32(At(f2, Cat(t2, y))) = At(Append(f2, One(x)), Cat(t3, y))
  BY <1>1, <1>4, <1>7, <1>8, NumberTaken DEF readUint32
<1>10. PICK f3 : f3 = Append(f2, One(x))
  OBVIOUS
<1>11. PICK l \in Byte, t4 \in Seq(Byte) :
        /\ t3 = Cat(One(l), t4) /\ r4 = At(Append(f3, One(l)), t4)
        /\ \A y \in Seq(Byte) : Take(At(f3, Cat(t3, y)), 1) = At(Append(f3, One(l)), Cat(t4, y))
  BY <1>1, <1>4, <1>9, <1>10, NumberTaken
<1>12. PICK f4 : f4 = Append(f3, One(l))
  OBVIOUS
<1>13. PICK h, t5 \in Seq(Byte) :
        /\ t4 = Cat(Field(h), t5) /\ Len(h) < Word /\ r5 = At(Append(f4, h), t5)
        /\ \A y \in Seq(Byte) : readLenPrefixed(At(f4, Cat(t4, y))) = At(Append(f4, h), Cat(t5, y))
  BY <1>1, <1>4, <1>11, <1>12, FieldTaken
<1>14. PICK f5 : f5 = Append(f4, h)
  OBVIOUS
<1>15. PICK c, t6 \in Seq(Byte) :
        /\ t5 = Cat(Field(c), t6) /\ Len(c) < Word /\ r = At(Append(f5, c), t6)
        /\ \A y \in Seq(Byte) : readLenPrefixed(At(f5, Cat(t5, y))) = At(Append(f5, c), Cat(t6, y))
  BY <1>1, <1>4, <1>13, <1>14, FieldTaken
<1>16. PICK f6 : f6 = Append(f5, c)
  OBVIOUS
<1>17. t6 = None
  BY <1>4, <1>15 DEF At, None
<1>18. t5 = Field(c)
  <2>1. Field(c) \in Seq(Byte)
    BY <1>15, FieldIn
  <2> QED
    BY <1>15, <1>17, <2>1, NothingAfter
<1>19. d = InitialRow(i, k, x, l, h, c)
  BY <1>5, <1>7, <1>9, <1>11, <1>13, <1>18 DEF InitialRow
<1>20. InitialFits(i, k, x, l, h, c)
  BY <1>5, <1>7, <1>13, <1>15 DEF InitialFits
<1>21. r.fields = Read6(i, k, One(x), One(l), h, c)
  BY <1>6, <1>8, <1>10, <1>12, <1>14, <1>15 DEF Read6, Read5, Read2, At
<1>22. ASSUME NEW y \in Seq(Byte), y # None PROVE ~Done(InitialReader(Cat(d, y)))
  <2>1. readLenPrefixed(At(None, Cat(d, y))) = At(f1, Cat(t1, y))
    BY <1>5, <1>6
  <2>2. readLenPrefixed(At(f1, Cat(t1, y))) = At(f2, Cat(t2, y))
    BY <1>7, <1>8
  <2>3. readUint32(At(f2, Cat(t2, y))) = At(f3, Cat(t3, y))
    BY <1>9, <1>10
  <2>4. Take(At(f3, Cat(t3, y)), 1) = At(f4, Cat(t4, y))
    BY <1>11, <1>12
  <2>5. readLenPrefixed(At(f4, Cat(t4, y))) = At(f5, Cat(t5, y))
    BY <1>13, <1>14
  <2>6. readLenPrefixed(At(f5, Cat(t5, y))) = At(f6, Cat(t6, y))
    BY <1>15, <1>16
  <2>7. InitialReader(Cat(d, y)) = At(f6, Cat(t6, y))
    BY <1>2, <2>1, <2>2, <2>3, <2>4, <2>5, <2>6 DEF InitialReader
  <2>8. Cat(t6, y) = y
    BY <1>17, ConcatEmptySeq DEF Cat, None
  <2> QED
    BY <1>22, <2>7, <2>8 DEF Done, At, None
<1>23. /\ InitialFits(i, k, x, l, h, c) /\ d = InitialRow(i, k, x, l, h, c)
       /\ InitialReader(d).fields = Read6(i, k, One(x), One(l), h, c)
  BY <1>3, <1>19, <1>20, <1>21
<1> QED
  BY <1>22, <1>23

\* The place of the flag in an initial message.
LEMMA FlagInRow ==
  ASSUME NEW i, NEW k, NEW x, NEW l, NEW h, NEW c, InitialFits(i, k, x, l, h, c),
         NEW g \in Byte, NEW n, Len(i) + Len(k) + 3 = n
  PROVE OnlyAt(InitialRow(i, k, x, l, h, c), InitialRow(i, k, x, g, h, c), n + 1)
<1> /\ i \in Seq(Byte) /\ k \in Seq(Byte) /\ x \in Byte /\ l \in Byte
    /\ h \in Seq(Byte) /\ c \in Seq(Byte)
    /\ Word \in Nat /\ Len(i) < Word /\ Len(k) < Word /\ Len(h) < Word /\ Len(c) < Word
  BY DEF InitialFits
<1>1. PICK fi, fk, ox, t :
        fi = Field(i) /\ fk = Field(k) /\ ox = One(x) /\ t = Cat(Field(h), Field(c))
  OBVIOUS
<1>2. /\ fi \in Seq(Byte) /\ fk \in Seq(Byte) /\ Len(fi) = Len(i) + 1 /\ Len(fk) = Len(k) + 1
  BY <1>1, FieldIn
<1>3. ox \in Seq(Byte) /\ Len(ox) = 1
  BY <1>1, SingleIn
<1>4. t \in Seq(Byte)
  <2>1. Field(h) \in Seq(Byte) /\ Field(c) \in Seq(Byte)
    BY FieldIn
  <2> QED
    BY <1>1, <2>1, CatIn
<1>5. PICK a : a = Cat(fi, Cat(fk, ox))
  OBVIOUS
<1>6. Cat(fk, ox) \in Seq(Byte) /\ a \in Seq(Byte)
  BY <1>2, <1>3, <1>5, CatIn
<1>7. Len(a) = n
  <2>1. Len(a) = Len(fi) + (Len(fk) + Len(ox))
    BY <1>2, <1>3, <1>5, Length3
  <2>2. Len(i) \in Nat /\ Len(k) \in Nat
    BY LenProperties
  <2> QED
    BY <1>2, <1>3, <2>1, <2>2
<1>8. ASSUME NEW b \in Byte PROVE InitialRow(i, k, x, b, h, c) = Cat(a, Cat(One(b), t))
  <2>1. PICK u : u = Cat(One(b), t)
    OBVIOUS
  <2>2. u \in Seq(Byte)
    BY <1>4, <2>1, SingleIn, CatIn
  <2>3. Cat(a, u) = Cat(fi, Cat(Cat(fk, ox), u))
    BY <1>2, <1>5, <1>6, <2>2, Assoc
  <2>4. Cat(Cat(fk, ox), u) = Cat(fk, Cat(ox, u))
    BY <1>2, <1>3, <2>2, Assoc
  <2> QED
    BY <1>1, <2>1, <2>3, <2>4 DEF InitialRow
<1> QED
  BY <1>4, <1>6, <1>7, <1>8, OneApart

\* An initial message that can be read is what is written for it, but for the
\* flag of a last-resort one, and with anything after it cannot be read.
LEMMA InitialTaken ==
  ASSUME NEW d \in Seq(Byte), Sizes, UnmarshalInitialMessage(d) # <<>>
  PROVE /\ \E m : /\ UnmarshalInitialMessage(d) = <<m>> /\ m.type = Initial
                  /\ m.PrekeyIndex \in Byte /\ InitialMessageMarshal(m) \in Seq(Byte)
                  /\ OnlyAt(d, InitialMessageMarshal(m), FlagAt - 1)
                  /\ d = InitialMessageMarshal(m) \/ m.IsLastResort
        /\ \A y \in Seq(Byte) : y # None => UnmarshalInitialMessage(Cat(d, y)) = <<>>
<1>0. Word \in Nat /\ 2 < Word /\ 0 \in Byte /\ 1 \in Byte
  BY DEF Sizes, Byte
<1>1. PICK r : r = InitialReader(d)
  OBVIOUS
<1>2. PICK id, ct, hd : /\ id = UnmarshalIdentity(r.fields[1]) /\ ct = UnmarshalCiphertext(r.fields[2])
                        /\ hd = UnmarshalHeader(r.fields[5])
  OBVIOUS
<1>3. UnmarshalInitialMessage(d) =
        IF Done(r) /\ <<>> \notin {id, ct, hd}
        THEN <<[type |-> Initial, SenderIdentity |-> id[1], KEMCiphertext |-> ct[1],
                PrekeyIndex |-> r.fields[3][1], IsLastResort |-> r.fields[4] # <<0>>,
                Header |-> hd[1], Ciphertext |-> r.fields[6]]>>
        ELSE <<>>
  BY <1>1, <1>2 DEF UnmarshalInitialMessage, InitialReader
<1>4. Done(r) /\ id # <<>> /\ ct # <<>> /\ hd # <<>>
  BY <1>3
<1>5. PICK i, k, h, c \in Seq(Byte), x, l \in Byte :
        /\ InitialFits(i, k, x, l, h, c) /\ d = InitialRow(i, k, x, l, h, c)
        /\ r.fields = Read6(i, k, One(x), One(l), h, c)
  <2>1. Word \in Nat /\ Done(InitialReader(d))
    BY <1>0, <1>1, <1>4
  <2>2. \E i, k, h, c \in Seq(Byte), x, l \in Byte :
          /\ InitialFits(i, k, x, l, h, c) /\ d = InitialRow(i, k, x, l, h, c)
          /\ InitialReader(d).fields = Read6(i, k, One(x), One(l), h, c)
    BY <2>1, InitialFields
  <2> QED
    BY <1>1, <2>2
<1>6. One(x) \in Seq(Byte) /\ One(l) \in Seq(Byte) /\ One(x)[1] = x
  BY SingleIn
<1>7. /\ r.fields[1] = i /\ r.fields[2] = k /\ r.fields[3] = One(x)
      /\ r.fields[4] = One(l) /\ r.fields[5] = h /\ r.fields[6] = c
  <2>1. Five(i, k, One(x), One(l), h) /\ c \in Seq(Byte)
    BY <1>6 DEF Five
  <2>2. /\ Read6(i, k, One(x), One(l), h, c)[1] = i /\ Read6(i, k, One(x), One(l), h, c)[2] = k
        /\ Read6(i, k, One(x), One(l), h, c)[3] = One(x) /\ Read6(i, k, One(x), One(l), h, c)[4] = One(l)
        /\ Read6(i, k, One(x), One(l), h, c)[5] = h /\ Read6(i, k, One(x), One(l), h, c)[6] = c
    BY <2>1, ReadAt6
  <2> QED
    BY <1>5, <2>2
<1>8. PICK ii : /\ UnmarshalIdentity(i) = <<ii>> /\ IdentityMarshal(ii) = i
                /\ Len(i) = Ed25519Size + MLDSASize
  BY <1>2, <1>4, <1>7, IdentityTaken
<1>9. PICK kk : /\ UnmarshalCiphertext(k) = <<kk>> /\ CiphertextMarshal(kk) = k
                /\ Len(k) = X25519Size + KEMSize
  BY <1>2, <1>4, <1>7, CiphertextTaken
<1>10. PICK hh : UnmarshalHeader(h) = <<hh>> /\ HeaderMarshal(hh) = h
  BY <1>0, <1>2, <1>4, <1>7, HeaderTaken
<1>11. PICK m : m = [type |-> Initial, SenderIdentity |-> ii, KEMCiphertext |-> kk,
                     PrekeyIndex |-> x, IsLastResort |-> One(l) # <<0>>,
                     Header |-> hh, Ciphertext |-> c]
  OBVIOUS
<1>12. UnmarshalInitialMessage(d) = <<m>>
  <2>1. id[1] = ii /\ ct[1] = kk /\ hd[1] = hh
    BY <1>2, <1>7, <1>8, <1>9, <1>10
  <2>2. UnmarshalInitialMessage(d) =
          <<[type |-> Initial, SenderIdentity |-> id[1], KEMCiphertext |-> ct[1],
             PrekeyIndex |-> r.fields[3][1], IsLastResort |-> r.fields[4] # <<0>>,
             Header |-> hd[1], Ciphertext |-> r.fields[6]]>>
    BY <1>3, <1>4
  <2>3. r.fields[3][1] = x /\ r.fields[4] = One(l) /\ r.fields[6] = c
    BY <1>6, <1>7
  <2> QED
    BY <1>11, <2>1, <2>2, <2>3
<1>13. PICK g : g = IF m.IsLastResort THEN 1 ELSE 0
  OBVIOUS
<1>14. g \in Byte /\ (g = l \/ m.IsLastResort)
  <2>1. m.IsLastResort = (One(l) # <<0>>)
    BY <1>11
  <2>2. One(l) = <<0>> => l = 0
    BY <1>0, OneIn DEF One
  <2>3. CASE m.IsLastResort
    BY <1>0, <1>13, <2>3
  <2>4. CASE ~m.IsLastResort
    BY <1>0, <1>13, <2>1, <2>2, <2>4
  <2> QED
    BY <2>3, <2>4
<1>15. InitialFits(i, k, x, g, h, c)
  BY <1>5, <1>14 DEF InitialFits
<1>16. InitialMessageMarshal(m) = InitialRow(i, k, x, g, h, c)
  <2>1. /\ IdentityMarshal(m.SenderIdentity) = i /\ CiphertextMarshal(m.KEMCiphertext) = k
        /\ m.PrekeyIndex = x /\ HeaderMarshal(m.Header) = h /\ m.Ciphertext = c
    BY <1>8, <1>9, <1>10, <1>11
  <2>2. InitialMessageMarshal(m) = appendLenPrefixed(appendLenPrefixed(
            appendLenPrefixed(appendLenPrefixed(<<>>, i), k) \o uint32(x) \o <<g>>, h), c)
    BY <1>13, <2>1 DEF InitialMessageMarshal
  <2> QED
    BY <1>15, <2>2, InitialOn
<1>17. InitialRow(i, k, x, g, h, c) \in Seq(Byte)
  BY <1>15, InitialOn
<1>18. OnlyAt(d, InitialRow(i, k, x, g, h, c), FlagAt - 1)
  <2>1. PICK n \in Nat : n = Len(i) + Len(k) + 3
    BY LenProperties
  <2>2. OnlyAt(InitialRow(i, k, x, l, h, c), InitialRow(i, k, x, g, h, c), n + 1)
    BY <1>5, <1>14, <2>1, FlagInRow
  <2>3. FlagAt - 1 = n + 1
    BY <1>8, <1>9, <2>1 DEF FlagAt, Sizes
  <2> QED
    BY <1>5, <2>2, <2>3
<1>19. d = InitialMessageMarshal(m) \/ m.IsLastResort
  BY <1>5, <1>14, <1>16
<1>20. ASSUME NEW y \in Seq(Byte), y # None PROVE UnmarshalInitialMessage(Cat(d, y)) = <<>>
  <2>1. ~Done(InitialReader(Cat(d, y)))
    BY <1>0, <1>1, <1>4, <1>20, InitialFields
  <2> QED
    BY <2>1 DEF UnmarshalInitialMessage, InitialReader
<1>21. m.type = Initial /\ m.PrekeyIndex \in Byte
  BY <1>11
<1> QED
  BY <1>12, <1>16, <1>17, <1>18, <1>19, <1>20, <1>21

LEMMA OneBefore ==
  ASSUME NEW t \in Byte, NEW a \in Seq(Byte), NEW b \in Seq(Byte), NEW n \in Int, OnlyAt(a, b, n)
  PROVE OnlyAt(<<t>> \o a, <<t>> \o b, n + 1)
<1>1. Len(a) = Len(b) /\ Len(a) \in Nat /\ \A j \in 1 .. Len(a) : a[j] # b[j] => j = n
  BY LenProperties DEF OnlyAt
<1>2. /\ <<t>> \in Seq(Byte) /\ Len(<<t>>) = 1
      /\ Len(<<t>> \o a) = 1 + Len(a) /\ Len(<<t>> \o b) = 1 + Len(a)
  <2>1. <<t>> \in Seq(Byte) /\ Len(<<t>>) = 1
    BY OneIn
  <2>2. Len(<<t>> \o a) = 1 + Len(a) /\ Len(<<t>> \o b) = 1 + Len(b)
    BY <2>1, ConcatIn
  <2> QED
    BY <1>1, <2>1, <2>2
<1>3. \A j \in 1 .. 1 + Len(a) :
        /\ (<<t>> \o a)[j] = IF j <= 1 THEN <<t>>[j] ELSE a[j - 1]
        /\ (<<t>> \o b)[j] = IF j <= 1 THEN <<t>>[j] ELSE b[j - 1]
  BY <1>1, <1>2, ConcatProperties
<1>4. ASSUME NEW j \in 1 .. 1 + Len(a), (<<t>> \o a)[j] # (<<t>> \o b)[j] PROVE j = n + 1
  <2>1. ~(j <= 1) /\ a[j - 1] # b[j - 1]
    BY <1>3, <1>4
  <2>2. j - 1 \in 1 .. Len(a)
    BY <1>1, <2>1
  <2>3. j - 1 = n
    BY <1>1, <2>1, <2>2
  <2> QED
    BY <2>3
<1> QED
  BY <1>2, <1>4 DEF OnlyAt

\* An envelope of whatever bytes that UnmarshalEnvelope can read is the one that
\* MarshalEnvelope writes for what was read, but for the flag of a last-resort
\* message, which is read as set whatever byte but zero it is.
THEOREM ReadOneWay ==
  ASSUME NEW b \in Seq(Byte), Sizes, UnmarshalEnvelope(b) # <<>>
  PROVE LET m == UnmarshalEnvelope(b)[1]
        IN /\ OnlyAt(b, MarshalEnvelope(m), FlagAt)
           /\ b = MarshalEnvelope(m) \/ (m.type = Initial /\ m.IsLastResort)
<1> PICK m : m = UnmarshalEnvelope(b)[1]
  OBVIOUS
<1>1. PICK t, d : t = Head(b) /\ d = Tail(b)
  OBVIOUS
<1>2. b # <<>> /\ t \in Byte /\ d \in Seq(Byte) /\ b = <<t>> \o d
  <2>1. b # <<>>
    BY DEF UnmarshalEnvelope
  <2> QED
    BY <1>1, <2>1, HeadTailProperties
<1>3. Initial # Subsequent
  BY DEF Initial, Subsequent
<1>4. t = Initial \/ t = Subsequent
  BY <1>1, <1>2 DEF UnmarshalEnvelope
<1>5. CASE t = Initial
  <2>1. UnmarshalEnvelope(b) = UnmarshalInitialMessage(d)
    BY <1>1, <1>2, <1>3, <1>5 DEF UnmarshalEnvelope
  <2>2. /\ m.type = Initial /\ InitialMessageMarshal(m) \in Seq(Byte)
        /\ OnlyAt(d, InitialMessageMarshal(m), FlagAt - 1)
        /\ d = InitialMessageMarshal(m) \/ m.IsLastResort
    BY <1>2, <2>1, InitialTaken
  <2>3. MarshalEnvelope(m) = <<t>> \o InitialMessageMarshal(m)
    BY <1>5, <2>2 DEF MarshalEnvelope
  <2>4. FlagAt - 1 \in Int /\ FlagAt - 1 + 1 = FlagAt
    BY DEF FlagAt, Sizes
  <2>5. OnlyAt(b, MarshalEnvelope(m), FlagAt)
    BY <1>2, <2>2, <2>3, <2>4, OneBefore
  <2> QED
    BY <1>2, <2>2, <2>3, <2>5
<1>6. CASE t = Subsequent
  <2>1. UnmarshalEnvelope(b) = UnmarshalSubsequentMessage(d)
    BY <1>1, <1>2, <1>3, <1>6 DEF UnmarshalEnvelope
  <2>2. m.type = Subsequent /\ SubsequentMessageMarshal(m) = d
    BY <1>2, <2>1, SubsequentTaken
  <2>3. MarshalEnvelope(m) = b
    BY <1>2, <1>3, <1>6, <2>2 DEF MarshalEnvelope
  <2> QED
    BY <2>3 DEF OnlyAt
<1> QED
  BY <1>4, <1>5, <1>6

\* The index in an initial message is a number.
LEMMA IndexRead ==
  ASSUME NEW b \in Seq(Byte), Sizes, UnmarshalEnvelope(b) # <<>>,
         UnmarshalEnvelope(b)[1].type = Initial
  PROVE UnmarshalEnvelope(b)[1].PrekeyIndex \in Byte
<1>1. PICK t, d : t = Head(b) /\ d = Tail(b)
  OBVIOUS
<1>2. b # <<>> /\ d \in Seq(Byte) /\ Initial # Subsequent
  <2>1. b # <<>>
    BY DEF UnmarshalEnvelope
  <2> QED
    BY <1>1, <2>1, HeadTailProperties DEF Initial, Subsequent
<1>3. CASE t = Initial
  <2>1. UnmarshalEnvelope(b) = UnmarshalInitialMessage(d)
    BY <1>1, <1>2, <1>3 DEF UnmarshalEnvelope
  <2> QED
    BY <1>2, <2>1, InitialTaken
<1>4. CASE t = Subsequent
  <2>1. UnmarshalEnvelope(b) = UnmarshalSubsequentMessage(d)
    BY <1>1, <1>2, <1>4 DEF UnmarshalEnvelope
  <2> QED
    BY <1>2, <2>1, SubsequentTaken
<1>5. t = Initial \/ t = Subsequent
  BY <1>1, <1>2 DEF UnmarshalEnvelope
<1> QED
  BY <1>3, <1>4, <1>5

\* With anything after it an envelope that can be read cannot.
LEMMA NothingMore ==
  ASSUME NEW b \in Seq(Byte), NEW y \in Seq(Byte), y # <<>>, Sizes, UnmarshalEnvelope(b) # <<>>
  PROVE UnmarshalEnvelope(b \o y) = <<>>
<1>1. PICK t, d : t = Head(b) /\ d = Tail(b)
  OBVIOUS
<1>2. b # <<>> /\ t \in Byte /\ d \in Seq(Byte) /\ b = <<t>> \o d
  <2>1. b # <<>>
    BY DEF UnmarshalEnvelope
  <2> QED
    BY <1>1, <2>1, HeadTailProperties
<1>3. Initial # Subsequent /\ y # None
  BY DEF Initial, Subsequent, None
<1>4. PICK e : e = Cat(d, y)
  OBVIOUS
<1>5. e \in Seq(Byte)
  BY <1>2, <1>4, CatIn
<1>6. b \o y = <<t>> \o e /\ <<t>> \o e # <<>> /\ Head(<<t>> \o e) = t /\ Tail(<<t>> \o e) = e
  <2>1. <<t>> \in Seq(Byte) /\ Len(<<t>>) = 1
    BY <1>2, OneIn
  <2>2. b \o y = <<t>> \o e
    BY <1>2, <1>4, <2>1, ConcatAssociative DEF Cat
  <2>3. <<t>> \o e \in Seq(Byte) /\ Len(<<t>> \o e) = 1 + Len(e) /\ Len(e) \in Nat
    BY <1>5, <2>1, ConcatIn
  <2>4. <<t>> \o e # <<>>
    BY <2>3, EmptyIn
  <2> QED
    BY <1>2, <1>5, <2>1, <2>2, <2>3, <2>4
<1>7. CASE t = Initial
  <2>1. UnmarshalInitialMessage(d) # <<>>
    BY <1>1, <1>2, <1>3, <1>7 DEF UnmarshalEnvelope
  <2>2. UnmarshalInitialMessage(e) = <<>>
    BY <1>2, <1>3, <1>4, <2>1, InitialTaken
  <2> QED
    BY <1>3, <1>6, <1>7, <2>2 DEF UnmarshalEnvelope
<1>8. CASE t = Subsequent
  <2>1. UnmarshalSubsequentMessage(d) # <<>>
    BY <1>1, <1>2, <1>3, <1>8 DEF UnmarshalEnvelope
  <2>2. UnmarshalSubsequentMessage(e) = <<>>
    BY <1>2, <1>3, <1>4, <2>1, SubsequentTaken
  <2> QED
    BY <1>3, <1>6, <1>8, <2>2 DEF UnmarshalEnvelope
<1>9. t = Initial \/ t = Subsequent
  BY <1>1, <1>2 DEF UnmarshalEnvelope
<1> QED
  BY <1>7, <1>8, <1>9

-----------------------------------------------------------------------------
(* What the way does to an envelope.                                       *)

\* What the way has made of an envelope: it is as long as it was, or it has lost
\* or gained something at its end.
Whole(o) == Len(buf) = Len(o)
Cut(o) == \E y \in Seq(Byte) : y # <<>> /\ o = buf \o y
Grown(o) == \E y \in Seq(Byte) : y # <<>> /\ buf = o \o y

WayInv ==
  sent # <<>> =>
    \/ Whole(MarshalEnvelope(sent[1])) \/ Cut(MarshalEnvelope(sent[1]))
    \/ Grown(MarshalEnvelope(sent[1]))

LEMMA WayHolds ==
  ASSUME Sizes, IInv, WayInv, [Next]_vars
  PROVE WayInv'
<1>1. CASE Send
  BY <1>1 DEF Send, WayInv, Whole
<1>2. ASSUME NEW wrong, Damage(wrong)
      PROVE /\ sent' = sent /\ buf' = wrong /\ sent # <<>> /\ buf = MarshalEnvelope(sent[1])
            /\ buf \in Seq(Byte) /\ Len(buf) \in Nat
  BY <1>2, LenProperties DEF Damage, IInv
<1>3. CASE Truncate
  <2>1. PICK n \in 0 .. Len(buf) - 1 : Damage(SubSeq(buf, 1, n))
    BY <1>3 DEF Truncate
  <2>2. /\ sent' = sent /\ buf' = SubSeq(buf, 1, n) /\ buf = MarshalEnvelope(sent[1])
        /\ buf \in Seq(Byte) /\ Len(buf) \in Nat
    BY <1>2, <2>1
  <2>3. PICK y : y = SubSeq(buf, n + 1, Len(buf))
    OBVIOUS
  <2>4. n \in Nat /\ n + 1 \in Nat \ {0} /\ n < Len(buf) /\ n + 1 <= Len(buf) /\ Len(buf) <= Len(buf)
    BY <2>2
  <2>5. y \in Seq(Byte) /\ Len(y) = Len(buf) - (n + 1) + 1
    BY <2>2, <2>3, <2>4, Part
  <2>6. y # <<>>
    BY <2>2, <2>4, <2>5, EmptyIn
  <2>7. SubSeq(buf, 1, n) \o y = buf
    <3>1. 1 \in 1 .. Len(buf) + 1 /\ n \in 1 - 1 .. Len(buf) /\ Len(buf) \in n .. Len(buf)
      BY <2>2, <2>4
    <3>2. SubSeq(buf, 1, n) \o SubSeq(buf, n + 1, Len(buf)) = SubSeq(buf, 1, Len(buf))
      BY <2>2, <3>1, ConcatAdjacentSubSeq
    <3> QED
      BY <2>2, <2>3, <3>2, SubSeqFull
  <2>8. Cut(MarshalEnvelope(sent[1]))'
    BY <2>2, <2>5, <2>6, <2>7 DEF Cut
  <2> QED
    BY <2>8 DEF WayInv
<1>4. CASE Lengthen
  <2>1. PICK b \in 0 .. 2 : Damage(Append(buf, b))
    BY <1>4 DEF Lengthen
  <2>2. /\ sent' = sent /\ buf' = Append(buf, b) /\ buf = MarshalEnvelope(sent[1])
        /\ buf \in Seq(Byte)
    BY <1>2, <2>1
  <2>3. b \in Byte
    BY DEF Byte, Sizes
  <2>4. buf' = buf \o <<b>> /\ <<b>> \in Seq(Byte) /\ <<b>> # <<>>
    <3>1. <<b>> \in Seq(Byte) /\ Len(<<b>>) = 1
      BY <2>3, OneIn
    <3> QED
      BY <2>2, <2>3, <3>1, AppendIsConcat, EmptyIn
  <2>5. Grown(MarshalEnvelope(sent[1]))'
    BY <2>2, <2>4 DEF Grown
  <2> QED
    BY <2>5 DEF WayInv
<1>5. CASE Change
  <2>1. PICK i \in DOMAIN buf, b \in 0 .. Word - 1 : Damage([buf EXCEPT ![i] = b])
    BY <1>5 DEF Change
  <2>2. /\ sent' = sent /\ buf' = [buf EXCEPT ![i] = b] /\ buf = MarshalEnvelope(sent[1])
        /\ buf \in Seq(Byte)
    BY <1>2, <2>1
  <2>3. Len(buf') = Len(buf)
    <3>1. b \in Byte /\ i \in 1 .. Len(buf)
      BY <2>2, LenProperties DEF Byte
    <3> QED
      BY <2>2, <3>1, ExceptSeq
  <2> QED
    BY <2>2, <2>3 DEF WayInv, Whole
<1>6. CASE UNCHANGED vars
  BY <1>6 DEF vars, WayInv, Whole, Cut, Grown
<1> QED
  BY <1>1, <1>3, <1>4, <1>5, <1>6 DEF Next

\* With keys of any sizes that fit: what the relay has cut short or lengthened is
\* not read, and what is read is what would be written for it, but for the flag
\* of a last-resort message (UnmarshalEnvelope, with all it calls).
THEOREM DamageIsSeen == Sizes => (Spec => []DamageShows)
<1> SUFFICES ASSUME Sizes PROVE Spec => []DamageShows
  OBVIOUS
<1>1. Init => IInv /\ WayInv
  BY InitHolds DEF Init, WayInv
<1>2. (IInv /\ WayInv) /\ [Next]_vars => (IInv /\ WayInv)'
  BY NextHolds, WayHolds
<1>3. IInv /\ WayInv => DamageShows
  <2> SUFFICES ASSUME IInv, WayInv, sent # <<>>, UnmarshalEnvelope(buf) # <<>>
               PROVE LET m == UnmarshalEnvelope(buf)
                         again == MarshalEnvelope(m[1])
                     IN /\ Len(buf) = Len(MarshalEnvelope(sent[1])) /\ Len(buf) = Len(again)
                        /\ \A i \in DOMAIN buf :
                             buf[i] # again[i] => m[1].type = Initial /\ m[1].IsLastResort /\ i = FlagAt
    BY DEF DamageShows
  <2> PICK m, o, again :
        m = UnmarshalEnvelope(buf)[1] /\ o = MarshalEnvelope(sent[1]) /\ again = MarshalEnvelope(m)
    OBVIOUS
  <2>1. buf \in Seq(Byte) /\ o \in Seq(Byte) /\ UnmarshalEnvelope(o) # <<>>
    <3>1. sent[1] \in InitialSet \cup SubsequentSet /\ buf \in Seq(Byte)
      BY DEF IInv
    <3>2. o \in Seq(Byte) /\ UnmarshalEnvelope(o) = <<sent[1]>>
      BY <3>1, RoundTrip
    <3> QED
      BY <3>1, <3>2
  <2>2. ~Cut(o)
    BY <2>1, NothingMore DEF Cut
  <2>3. ~Grown(o)
    BY <2>1, NothingMore DEF Grown
  <2>4. Len(buf) = Len(o)
    BY <2>2, <2>3 DEF WayInv, Whole
  <2>5. OnlyAt(buf, again, FlagAt) /\ (buf = again \/ (m.type = Initial /\ m.IsLastResort))
    BY <2>1, ReadOneWay
  <2>6. Len(buf) = Len(again) /\ \A i \in DOMAIN buf : buf[i] # again[i] => i = FlagAt
    BY <2>1, <2>5, LenProperties DEF OnlyAt
  <2> QED
    BY <2>4, <2>5, <2>6
<1> QED
  BY <1>1, <1>2, <1>3, PTL DEF Spec

-----------------------------------------------------------------------------
(* What a responder makes of an initial message.                           *)

\* The two kinds of handshakes, and what their transcripts are made of.
LEMMA HandshakeParts ==
  ASSUME Sizes, NEW h \in Handshakes
  PROVE /\ h.initiator \in AnyIdentity /\ h.responder \in AnyIdentity /\ h.index \in Byte
        /\ h = [initiator |-> h.initiator, responder |-> h.responder, root |-> h.root,
                index |-> h.index, pub |-> h.pub]
        /\ LastResort(h) => /\ h.pub \in AnyPublicKey /\ h.index = 0
        /\ ~LastResort(h) => /\ h.root \in Seq(Byte) /\ Len(h.root) = HashSize
                             /\ h.pub = [X25519 |-> <<>>, MLKEM |-> <<>>]
<1>1. /\ h.initiator \in Identities /\ h.responder \in Identities /\ h.index \in 0 .. 1
      /\ h = [initiator |-> h.initiator, responder |-> h.responder, root |-> h.root,
              index |-> h.index, pub |-> h.pub]
  BY DEF Handshakes
<1>2. h.initiator \in AnyIdentity /\ h.responder \in AnyIdentity
  BY <1>1, IdentitiesIn
<1>3. h.index \in Byte
  BY <1>1 DEF Sizes, Byte
<1>4. \/ h.root \in Bytes(HashSize) /\ h.pub = [X25519 |-> <<>>, MLKEM |-> <<>>]
      \/ /\ h.root = <<>> /\ h.index = 0
         /\ h.pub \in [X25519 : Bytes(X25519Size), MLKEM : Bytes(MLKEMSize)]
  BY DEF Handshakes
<1>5. HashSize \in Nat /\ HashSize # 0 /\ X25519Size \in Nat /\ MLKEMSize \in Nat
  BY DEF Sizes
<1>6. CASE h.root \in Bytes(HashSize) /\ h.pub = [X25519 |-> <<>>, MLKEM |-> <<>>]
  <2>1. h.root \in Seq(Byte) /\ Len(h.root) = HashSize
    BY <1>5, <1>6, BytesIn
  <2>2. h.root # <<>>
    BY <1>5, <2>1, EmptyIn
  <2> QED
    BY <1>1, <1>2, <1>3, <1>6, <2>1, <2>2 DEF LastResort
<1>7. CASE /\ h.root = <<>> /\ h.index = 0
           /\ h.pub \in [X25519 : Bytes(X25519Size), MLKEM : Bytes(MLKEMSize)]
  <2>1. /\ h.pub.X25519 \in Bytes(X25519Size) /\ h.pub.MLKEM \in Bytes(MLKEMSize)
        /\ h.pub = [X25519 |-> h.pub.X25519, MLKEM |-> h.pub.MLKEM]
    BY <1>7
  <2>2. /\ h.pub.X25519 \in Seq(Byte) /\ Len(h.pub.X25519) = X25519Size
        /\ h.pub.MLKEM \in Seq(Byte) /\ Len(h.pub.MLKEM) = MLKEMSize
    BY <1>5, <2>1, BytesIn
  <2>3. h.pub \in AnyPublicKey
    BY <2>1, <2>2 DEF AnyPublicKey
  <2> QED
    BY <1>1, <1>2, <1>3, <1>7, <2>3 DEF LastResort
<1> QED
  BY <1>4, <1>6, <1>7

\* The same, when a responder puts the index he read in the place of his own.
LEMMA HandshakesDiffer ==
  ASSUME Sizes, NEW h \in Handshakes, NEW g \in Handshakes, NEW x \in Byte,
         Transcript([h EXCEPT !.index = x]) = Transcript(g)
  PROVE /\ h = [g EXCEPT !.index = h.index]
        /\ LastResort(h) \/ x = g.index
<1>1. /\ h.initiator \in AnyIdentity /\ h.responder \in AnyIdentity
      /\ h = [initiator |-> h.initiator, responder |-> h.responder, root |-> h.root,
              index |-> h.index, pub |-> h.pub]
      /\ LastResort(h) => h.pub \in AnyPublicKey /\ h.index = 0
      /\ ~LastResort(h) => /\ h.root \in Seq(Byte) /\ Len(h.root) = HashSize
                           /\ h.pub = [X25519 |-> <<>>, MLKEM |-> <<>>]
  BY HandshakeParts
<1>2. /\ g.initiator \in AnyIdentity /\ g.responder \in AnyIdentity /\ g.index \in Byte
      /\ g = [initiator |-> g.initiator, responder |-> g.responder, root |-> g.root,
              index |-> g.index, pub |-> g.pub]
      /\ LastResort(g) => g.pub \in AnyPublicKey /\ g.index = 0
      /\ ~LastResort(g) => /\ g.root \in Seq(Byte) /\ Len(g.root) = HashSize
                           /\ g.pub = [X25519 |-> <<>>, MLKEM |-> <<>>]
  BY HandshakeParts
<1>3. PICK k : k = [h EXCEPT !.index = x]
  OBVIOUS
<1>4. /\ k.initiator = h.initiator /\ k.responder = h.responder /\ k.root = h.root
      /\ k.index = x /\ k.pub = h.pub
  BY <1>1, <1>3
<1>5. /\ LastResort(h) =>
           Transcript(k) = buildLastResortTranscript(h.initiator, h.responder, h.pub)
      /\ ~LastResort(h) => Transcript(k) = buildTranscript(h.initiator, h.responder, h.root, x)
  BY <1>4 DEF Transcript, LastResort
<1>6. /\ LastResort(g) =>
           Transcript(g) = buildLastResortTranscript(g.initiator, g.responder, g.pub)
      /\ ~LastResort(g) => Transcript(g) = buildTranscript(g.initiator, g.responder, g.root, g.index)
  BY DEF Transcript
<1>7. Transcript(k) = Transcript(g)
  BY <1>3
<1>8. ASSUME h.initiator = g.initiator, h.responder = g.responder, h.root = g.root, h.pub = g.pub
      PROVE h = [g EXCEPT !.index = h.index]
  BY <1>1, <1>2, <1>8
<1>9. CASE LastResort(h) /\ LastResort(g)
  <2>1. h.root = g.root
    BY <1>9 DEF LastResort
  <2>2. h.initiator = g.initiator /\ h.responder = g.responder /\ h.pub = g.pub
    BY <1>1, <1>2, <1>5, <1>6, <1>7, <1>9, TranscriptsBind
  <2> QED
    BY <1>8, <1>9, <2>1, <2>2
<1>10. CASE ~LastResort(h) /\ ~LastResort(g)
  <2>1. h.pub = g.pub
    BY <1>1, <1>2, <1>10
  <2>2. /\ h.initiator = g.initiator /\ h.responder = g.responder /\ h.root = g.root
        /\ x = g.index
    BY <1>1, <1>2, <1>5, <1>6, <1>7, <1>10, TranscriptsBind
  <2> QED
    BY <1>8, <2>1, <2>2
<1>11. CASE ~LastResort(h) /\ LastResort(g)
  BY <1>1, <1>2, <1>5, <1>6, <1>7, <1>11, TranscriptsBind
<1>12. CASE LastResort(h) /\ ~LastResort(g)
  BY <1>1, <1>2, <1>5, <1>6, <1>7, <1>12, TranscriptsBind
<1> QED
  BY <1>9, <1>10, <1>11, <1>12

\* With keys of any sizes that fit and whatever byte of an initial message changes
\* on its way, the responder arrives at the initiator's transcript only if he is
\* the responder, and opens with the prekey, that the initiator meant.
THEOREM HandshakesBound == Sizes => (Spec => []TranscriptBinds)
<1> SUFFICES ASSUME Sizes PROVE Spec => []TranscriptBinds
  OBVIOUS
<1>1. Init => IInv
  BY InitHolds
<1>2. IInv /\ [Next]_vars => IInv'
  BY NextHolds
<1>3. IInv => TranscriptBinds
  <2> SUFFICES ASSUME IInv PROVE TranscriptBinds
    OBVIOUS
  <2>1. PICK m, g, b : m = UnmarshalEnvelope(buf) /\ g = sent[2] /\ b = buf
    OBVIOUS
  <2>2. ASSUME Len(sent) = 2, m # <<>>, m[1].type = Initial, NEW h \in Handshakes,
               Transcript([h EXCEPT !.index = m[1].PrekeyIndex]) = Transcript(g)
        PROVE /\ h = [g EXCEPT !.index = h.index]
              /\ LastResort(h) \/ m[1].PrekeyIndex = g.index
    <3>1. g \in Handshakes /\ b \in Seq(Byte) /\ m = UnmarshalEnvelope(b)
      BY <2>1, <2>2 DEF IInv
    <3>2. m[1].PrekeyIndex \in Byte
      BY <2>2, <3>1, IndexRead
    <3> QED
      BY <2>2, <3>1, <3>2, HandshakesDiffer
  <2> QED
    BY <2>1, <2>2 DEF TranscriptBinds
<1> QED
  BY <1>1, <1>2, <1>3, PTL DEF Spec

-----------------------------------------------------------------------------
(* Numbers and loops.                                                      *)

Less == {ss \in Nat \X Nat : ss[1] < ss[2]}

\* A set of numbers that is not empty has a least one.
LEMMA LeastNumber ==
  ASSUME NEW T \in SUBSET Nat, T # {}
  PROVE  \E x \in T : \A y \in T : x <= y
<1>1. IsWellFoundedOn(Less, Nat)
  BY NatLessThanWellFounded DEF OpToRel, Less
<1>2. PICK x \in T : \A y \in T : ~(<<y, x>> \in Less)
  BY <1>1, WFMin
<1>3. \A y \in T : y < x => <<y, x>> \in Less
  BY DEF Less
<1>4. \A y \in T : ~(y < x)
  BY <1>2, <1>3, Zenon
<1>5. \A y \in T : y \in Nat
  OBVIOUS
<1> QED
  BY <1>4, <1>5

\* A set of numbers that holds 0 and the successor of each it holds is Nat.
LEMMA SetInduction ==
  ASSUME NEW T \in SUBSET Nat, 0 \in T, \A n \in T : n + 1 \in T
  PROVE  T = Nat
<1> SUFFICES ASSUME T # Nat PROVE FALSE
  OBVIOUS
<1>1. PICK x \in Nat \ T : \A y \in Nat \ T : x <= y
  <2>1. Nat \ T \in SUBSET Nat /\ Nat \ T # {}
    OBVIOUS
  <2> QED
    BY <2>1, LeastNumber
<1>2. x - 1 \in Nat /\ (x - 1) + 1 = x /\ x - 1 < x
  OBVIOUS
<1>3. x - 1 \in T
  BY <1>1, <1>2
<1> QED
  BY <1>2, <1>3

\* A loop that goes from a by step has a value after every number of rounds.
LEMMA Loop ==
  ASSUME NEW a \in Nat, NEW step \in [Nat -> Nat]
  PROVE  \E f \in [Nat -> Nat] : f[0] = a /\ \A k \in Nat : f[k + 1] = step[f[k]]
<1> DEFINE Run(g, k) == /\ g \in [0 .. k -> Nat] /\ g[0] = a
                        /\ \A j \in 0 .. k - 1 : g[j + 1] = step[g[j]]
           T == {k \in Nat : \E g : Run(g, k)}
           G(k) == CHOOSE g : Run(g, k)
           f == [k \in Nat |-> G(k)[k]]
<1>1. T = Nat
  <2>1. 0 \in T
    <3>1. Run([j \in 0 .. 0 |-> a], 0)
      OBVIOUS
    <3> QED
      BY <3>1
  <2>2. ASSUME NEW k \in T PROVE k + 1 \in T
    <3>1. PICK g : Run(g, k)
      OBVIOUS
    <3> DEFINE u == [j \in 0 .. k + 1 |-> IF j \in 0 .. k THEN g[j] ELSE step[g[k]]]
    <3>2. g[k] \in Nat /\ step[g[k]] \in Nat
      BY <3>1
    <3>3. u \in [0 .. k + 1 -> Nat] /\ u[0] = a
      <4>1. \A j \in 0 .. k : g[j] \in Nat
        BY <3>1
      <4>2. 0 \in 0 .. k /\ 0 \in 0 .. k + 1
        OBVIOUS
      <4> QED
        BY <3>1, <3>2, <4>1, <4>2
    <3>4. ASSUME NEW j \in 0 .. (k + 1) - 1 PROVE u[j + 1] = step[u[j]]
      <4>1. j \in 0 .. k /\ u[j] = g[j] /\ j + 1 \in 0 .. k + 1
        OBVIOUS
      <4>2. CASE j = k
        <5>1. k + 1 \notin 0 .. k
          OBVIOUS
        <5> QED
          BY <4>1, <4>2, <5>1
      <4>3. CASE j # k
        <5>1. j \in 0 .. k - 1 /\ j + 1 \in 0 .. k
          BY <4>3
        <5> QED
          BY <3>1, <4>1, <5>1
      <4> QED
        BY <4>2, <4>3
    <3>5. Run(u, k + 1)
      BY <3>3, <3>4
    <3> HIDE DEF u, Run
    <3> QED
      BY <3>5
  <2> QED
    BY <2>1, <2>2, SetInduction
<1>2. \A k \in Nat : Run(G(k), k)
  <2> TAKE k \in Nat
  <2>1. \E g : Run(g, k)
    BY <1>1
  <2> QED
    BY <2>1
<1>3. ASSUME NEW k \in Nat PROVE G(k + 1)[k] = G(k)[k]
  <2> DEFINE g == G(k)
             h == G(k + 1)
             U == {j \in Nat : j <= k => h[j] = g[j]}
  <2>1. Run(g, k) /\ Run(h, k + 1)
    <3>1. k + 1 \in Nat
      OBVIOUS
    <3> HIDE DEF Run, G
    <3> QED
      BY <1>2, <3>1
  <2> HIDE DEF g, h
  <2>2. 0 \in U
    BY <2>1
  <2>3. ASSUME NEW j \in U PROVE j + 1 \in U
    <3> SUFFICES ASSUME j + 1 <= k PROVE h[j + 1] = g[j + 1]
      OBVIOUS
    <3>1. h[j] = g[j] /\ j \in 0 .. k - 1 /\ j \in 0 .. (k + 1) - 1
      OBVIOUS
    <3> QED
      BY <2>1, <3>1
  <2>4. U = Nat
    BY <2>2, <2>3, SetInduction
  <2>5. h[k] = g[k]
    BY <2>4
  <2> QED
    BY <2>5 DEF g, h
<1>4. \A k \in Nat : G(k)[k] \in Nat /\ G(k + 1)[k + 1] = step[G(k + 1)[k]]
  <2> TAKE k \in Nat
  <2>1. k \in 0 .. k /\ k \in 0 .. (k + 1) - 1 /\ k + 1 \in Nat
    OBVIOUS
  <2> HIDE DEF G
  <2> QED
    BY <1>2, <2>1
<1>5. f \in [Nat -> Nat] /\ f[0] = a
  <2>1. G(0)[0] = a
    BY <1>2
  <2> HIDE DEF G
  <2> QED
    BY <1>4, <2>1
<1>6. \A k \in Nat : f[k + 1] = step[f[k]]
  <2> TAKE k \in Nat
  <2>1. k + 1 \in Nat
    OBVIOUS
  <2> HIDE DEF G
  <2>2. f[k + 1] = G(k + 1)[k + 1] /\ f[k] = G(k)[k]
    BY <2>1
  <2> QED
    BY <1>3, <1>4, <2>2
<1> HIDE DEF f
<1> QED
  BY <1>5, <1>6

\* The powers of two.
LEMMA Powers ==
  /\ power[0] = 1
  /\ \A k \in Nat : power[k] \in Nat /\ power[k + 1] = 2 * power[k] /\ k < power[k]
<1> DEFINE step == [x \in Nat |-> 2 * x]
<1>1. PICK f \in [Nat -> Nat] : f[0] = 1 /\ \A k \in Nat : f[k + 1] = step[f[k]]
  <2>1. step \in [Nat -> Nat]
    OBVIOUS
  <2> HIDE DEF step
  <2> QED
    BY <2>1, 1 \in Nat, Loop, Zenon
<1>2. f = [k \in Nat |-> IF k = 0 THEN 1 ELSE 2 * f[k - 1]]
  <2>1. ASSUME NEW k \in Nat, k # 0 PROVE f[k] = 2 * f[k - 1]
    <3>1. k - 1 \in Nat /\ (k - 1) + 1 = k
      BY <2>1
    <3> QED
      BY <1>1, <3>1
  <2> QED
    BY <1>1, <2>1
<1>3. power = [k \in Nat |-> IF k = 0 THEN 1 ELSE 2 * power[k - 1]]
  BY <1>2 DEF power
<1> DEFINE T == {k \in Nat : power[k] \in Nat /\ power[k + 1] = 2 * power[k] /\ k < power[k]}
<1>4. \A k \in Nat : power[k + 1] = 2 * power[k]
  <2> TAKE k \in Nat
  <2>1. k + 1 \in Nat /\ k + 1 # 0 /\ (k + 1) - 1 = k
    OBVIOUS
  <2> QED
    BY <1>3, <2>1, Zenon
<1>5. power[0] = 1
  BY <1>3, Zenon
<1>6. 0 \in T /\ \A k \in T : k + 1 \in T
  BY <1>4, <1>5
<1>7. T = Nat
  BY <1>6, SetInduction
<1> QED
  BY <1>5, <1>7

LEMMA DepthFits ==
  ASSUME NEW n \in Nat
  PROVE  Depth(n) \in Nat /\ n <= power[Depth(n)]
<1> DEFINE T == {d \in Nat : n <= power[d]}
<1>1. PICK d \in T : \A e \in T : d <= e
  <2>1. n \in T
    BY Powers
  <2> QED
    BY <2>1, LeastNumber
<1>2. d \in 0 .. n
  BY <1>1, Powers
<1>3. d = 0 \/ power[d - 1] < n
  <2> SUFFICES ASSUME d # 0 PROVE power[d - 1] < n
    OBVIOUS
  <2>1. d - 1 \in Nat /\ d - 1 \notin T /\ power[d - 1] \in Nat
    BY <1>1, Powers
  <2> QED
    BY <2>1
<1>4. \E e \in 0 .. n : n <= power[e] /\ (e = 0 \/ power[e - 1] < n)
  BY <1>1, <1>2, <1>3
<1> QED
  BY <1>4 DEF Depth

LEMMA Shifts ==
  ASSUME NEW index \in Nat
  PROVE  /\ Shifted(index, 0) = index
         /\ \A k \in Nat : /\ Shifted(index, k) \in Nat
                           /\ Shifted(index, k + 1) = Shifted(index, k) \div 2
<1> DEFINE step == [x \in Nat |-> x \div 2]
           Eq(f) == f = [j \in Nat |-> IF j = 0 THEN index ELSE f[j - 1] \div 2]
           idx == CHOOSE f : Eq(f)
<1>1. PICK f \in [Nat -> Nat] : f[0] = index /\ \A k \in Nat : f[k + 1] = step[f[k]]
  <2>1. step \in [Nat -> Nat]
    OBVIOUS
  <2> HIDE DEF step
  <2> QED
    BY <2>1, Loop
<1>2. Eq(f)
  <2>1. ASSUME NEW k \in Nat, k # 0 PROVE f[k] = f[k - 1] \div 2
    <3>1. k - 1 \in Nat /\ (k - 1) + 1 = k
      BY <2>1
    <3> QED
      BY <1>1, <3>1
  <2> QED
    BY <1>1, <2>1
<1>3. Eq(idx)
  BY <1>2
<1>4. \A k \in Nat : Shifted(index, k) = idx[k]
  BY DEF Shifted
<1> HIDE DEF idx
<1>5. idx[0] = index /\ \A k \in Nat : idx[k + 1] = idx[k] \div 2
  <2>1. \A k \in Nat : k + 1 \in Nat /\ k + 1 # 0 /\ (k + 1) - 1 = k
    OBVIOUS
  <2> QED
    BY <1>3, <2>1, Zenon
<1> DEFINE T == {k \in Nat : idx[k] \in Nat}
<1>6. 0 \in T /\ \A k \in T : k + 1 \in T
  BY <1>5
<1>7. T = Nat
  BY <1>6, SetInduction
<1>8. \A k \in Nat : k + 1 \in Nat /\ idx[k] \in Nat
  BY <1>7
<1> QED
  BY <1>4, <1>5, <1>8, 0 \in Nat, Zenon

\* In a tree of depth d the position at each level is one of that level.
LEMMA ShiftedInLevel ==
  ASSUME NEW d \in Nat, NEW index \in 0 .. power[d] - 1, NEW k \in 0 .. d
  PROVE  Shifted(index, k) \in 0 .. power[d - k] - 1
<1> DEFINE T == {j \in Nat : j <= d => Shifted(index, j) \in 0 .. power[d - j] - 1}
<1>0. index \in Nat
  BY Powers
<1>1. 0 \in T
  BY <1>0, Shifts
<1>2. ASSUME NEW j \in T PROVE j + 1 \in T
  <2> SUFFICES ASSUME j + 1 <= d PROVE Shifted(index, j + 1) \in 0 .. power[d - (j + 1)] - 1
    OBVIOUS
  <2>1. d - (j + 1) \in Nat /\ (d - (j + 1)) + 1 = d - j
    OBVIOUS
  <2>2. power[d - j] = 2 * power[d - (j + 1)] /\ power[d - (j + 1)] \in Nat
    BY <2>1, Powers
  <2>3. Shifted(index, j) \in 0 .. power[d - j] - 1
    OBVIOUS
  <2>4. Shifted(index, j + 1) = Shifted(index, j) \div 2
    BY <1>0, Shifts
  <2>5. \A x, y \in Nat : x < 2 * y => x \div 2 \in 0 .. y - 1
    OBVIOUS
  <2> QED
    BY <2>2, <2>3, <2>4, <2>5
<1>3. T = Nat
  BY <1>1, <1>2, SetInduction
<1> QED
  BY <1>3

-----------------------------------------------------------------------------
(* Hashes.                                                                 *)

LEMMA HashesDiffer ==
  /\ \A a, b : leafHash(a) = leafHash(b) => a = b
  /\ \A a, b, c : leafHash(a) # nodeHash(b, c)
  /\ \A a, b, c, d : nodeHash(a, b) = nodeHash(c, d) => a = c /\ b = d
<1>1. \A a : leafHash(a).of = a /\ leafHash(a).tag = 0
  BY DEF leafHash
<1>2. \A a, b : /\ nodeHash(a, b).of.left = a /\ nodeHash(a, b).of.right = b
                /\ nodeHash(a, b).tag = 1
  BY DEF nodeHash, Pair
<1>3. \A a, b : leafHash(a) = leafHash(b) => a = b
  BY <1>1
<1>4. ASSUME NEW a, NEW b, NEW c, leafHash(a) = nodeHash(b, c) PROVE FALSE
  <2>1. 0 = 1
    BY <1>1, <1>2, <1>4
  <2> QED
    BY <2>1
<1>5. \A a, b, c, d : nodeHash(a, b) = nodeHash(c, d) => a = c /\ b = d
  BY <1>2
<1> QED
  BY <1>3, <1>4, <1>5

\* The leaves and the padding.
Padded(data, i) == IF i < Len(data) THEN data[i + 1] ELSE paddingLeaf(data, i)
TreeDepth(data) == Depth(IF data = <<>> THEN 1 ELSE Len(data))

\* The levels of a tree.
LEMMA Levels ==
  ASSUME NEW S, NEW data \in Seq(S)
  PROVE  LET tree == BuildTree(data)
             d == TreeDepth(data)
         IN /\ tree.depth = d /\ d \in Nat /\ Len(data) <= power[d]
            /\ \A i \in 0 .. power[d] - 1 : tree.levels[0][i] = leafHash(Padded(data, i))
            /\ \A k \in 1 .. d : \A i \in 0 .. power[d - k] - 1 :
                 tree.levels[k][i] = nodeHash(tree.levels[k - 1][2 * i], tree.levels[k - 1][2 * i + 1])
<1> DEFINE n == IF data = <<>> THEN 1 ELSE Len(data)
           d == Depth(n)
           base == [i \in 0 .. nextPowerOfTwo(n) - 1 |->
                      leafHash(IF i < Len(data) THEN data[i + 1] ELSE paddingLeaf(data, i))]
           next(k, below) ==
             [i \in 0 .. power[d - k] - 1 |-> nodeHash(below[2 * i], below[2 * i + 1])]
           Upto(f, m) == f = [k \in 0 .. m |-> IF k = 0 THEN base ELSE next(k, f[k - 1])]
           level == CHOOSE f : Upto(f, d)
           T == {m \in Nat : \E f : Upto(f, m)}
<1>1. Len(data) \in Nat /\ n \in Nat /\ d \in Nat /\ Len(data) <= power[d]
  <2>1. Len(data) \in Nat /\ n \in Nat /\ Len(data) <= n
    OBVIOUS
  <2>2. d \in Nat /\ n <= power[d] /\ power[d] \in Nat
    BY <2>1, DepthFits, Powers
  <2> HIDE DEF n, d
  <2> QED
    BY <2>1, <2>2
<1>2. BuildTree(data) = [n |-> Len(data), depth |-> d, levels |-> level]
  BY DEF BuildTree
<1> HIDE DEF base, next, d, n
<1>3. T = Nat
  <2>1. 0 \in T
    <3>1. Upto([k \in 0 .. 0 |-> base], 0)
      OBVIOUS
    <3> QED
      BY <3>1
  <2>2. ASSUME NEW m \in T PROVE m + 1 \in T
    <3>1. PICK f : Upto(f, m)
      OBVIOUS
    <3> DEFINE g == [k \in 0 .. m + 1 |-> IF k \in 0 .. m THEN f[k] ELSE next(m + 1, f[m])]
    <3>2. ASSUME NEW k \in 0 .. m + 1
          PROVE  g[k] = IF k = 0 THEN base ELSE next(k, g[k - 1])
      <4>1. CASE k = 0
        BY <3>1, <4>1
      <4>2. CASE k \in 1 .. m
        <5>1. k - 1 \in 0 .. m /\ k \in 0 .. m /\ k - 1 \in 0 .. m + 1 /\ k # 0
          BY <4>2
        <5>2. f[k] = next(k, f[k - 1])
          BY <3>1, <5>1
        <5> QED
          BY <5>1, <5>2
      <4>3. CASE k = m + 1
        <5>1. k - 1 = m /\ m \in 0 .. m /\ m \in 0 .. m + 1 /\ k \notin 0 .. m /\ k # 0
          BY <4>3
        <5> QED
          BY <4>3, <5>1
      <4> QED
        BY <4>1, <4>2, <4>3
    <3>3. Upto(g, m + 1)
      BY <3>2
    <3> HIDE DEF Upto, g
    <3> QED
      BY <3>3
  <2> QED
    BY <2>1, <2>2, SetInduction
<1>4. Upto(level, d)
  <2>1. \E f : Upto(f, d)
    BY <1>1, <1>3
  <2> QED
    BY <2>1
<1> HIDE DEF level
<1>5. level[0] = base /\ \A k \in 1 .. d : level[k] = next(k, level[k - 1])
  <2>1. 0 \in 0 .. d /\ \A k \in 1 .. d : k \in 0 .. d /\ k # 0
    BY <1>1
  <2> QED
    BY <1>4, <2>1
<1>6. nextPowerOfTwo(n) = power[d]
  BY DEF nextPowerOfTwo, d
<1>7. BuildTree(data).depth = d /\ BuildTree(data).levels = level
  BY <1>2
<1>8. \A i \in 0 .. power[d] - 1 : level[0][i] = leafHash(Padded(data, i))
  BY <1>5, <1>6 DEF base, Padded
<1>9. ASSUME NEW k \in 1 .. d, NEW i \in 0 .. power[d - k] - 1
      PROVE  level[k][i] = nodeHash(level[k - 1][2 * i], level[k - 1][2 * i + 1])
  BY <1>5 DEF next
<1>10. d = TreeDepth(data)
  BY DEF d, n, TreeDepth
<1> QED
  BY <1>1, <1>7, <1>8, <1>9, <1>10

\* What VerifyInclusionProof hashes: h after each round.
Climb(data, index, path, m, h) ==
  /\ h[0] = leafHash(data)
  /\ \A k \in 1 .. m :
       h[k] = IF Shifted(index, k - 1) % 2 = 0 THEN nodeHash(h[k - 1], path[k])
                                               ELSE nodeHash(path[k], h[k - 1])

LEMMA Climbs ==
  ASSUME NEW data, NEW index, NEW path, Len(path) \in Nat, NEW size, NEW root
  PROVE  \E h : /\ Climb(data, index, path, Len(path), h)
                /\ VerifyInclusionProof(data, index, size, path, root) <=>
                     index \in 0 .. size - 1 /\ Len(path) = Depth(size) /\ h[Len(path)] = root
<1> DEFINE L == Len(path)
           base == leafHash(data)
           next(k, x) == IF Shifted(index, k - 1) % 2 = 0 THEN nodeHash(x, path[k])
                                                          ELSE nodeHash(path[k], x)
           Upto(f, m) == f = [k \in 0 .. m |-> IF k = 0 THEN base ELSE next(k, f[k - 1])]
           h == CHOOSE f : Upto(f, L)
           T == {m \in Nat : \E f : Upto(f, m)}
<1>2. VerifyInclusionProof(data, index, size, path, root) <=>
        index \in 0 .. size - 1 /\ L = Depth(size) /\ h[L] = root
  BY DEF VerifyInclusionProof
<1>1. L \in Nat
  OBVIOUS
<1> HIDE DEF base, next, L
<1>3. T = Nat
  <2>1. 0 \in T
    <3>1. Upto([k \in 0 .. 0 |-> base], 0)
      OBVIOUS
    <3> QED
      BY <3>1
  <2>2. ASSUME NEW m \in T PROVE m + 1 \in T
    <3>1. PICK f : Upto(f, m)
      OBVIOUS
    <3> DEFINE g == [k \in 0 .. m + 1 |-> IF k \in 0 .. m THEN f[k] ELSE next(m + 1, f[m])]
    <3>2. ASSUME NEW k \in 0 .. m + 1
          PROVE  g[k] = IF k = 0 THEN base ELSE next(k, g[k - 1])
      <4>1. CASE k = 0
        BY <3>1, <4>1
      <4>2. CASE k \in 1 .. m
        <5>1. k - 1 \in 0 .. m /\ k \in 0 .. m /\ k - 1 \in 0 .. m + 1 /\ k # 0
          BY <4>2
        <5>2. f[k] = next(k, f[k - 1])
          BY <3>1, <5>1
        <5> QED
          BY <5>1, <5>2
      <4>3. CASE k = m + 1
        <5>1. k - 1 = m /\ m \in 0 .. m /\ m \in 0 .. m + 1 /\ k \notin 0 .. m /\ k # 0
          BY <4>3
        <5> QED
          BY <4>3, <5>1
      <4> QED
        BY <4>1, <4>2, <4>3
    <3>3. Upto(g, m + 1)
      BY <3>2
    <3> HIDE DEF Upto, g
    <3> QED
      BY <3>3
  <2> QED
    BY <2>1, <2>2, SetInduction
<1>4. Upto(h, L)
  <2>1. \E f : Upto(f, L)
    BY <1>1, <1>3
  <2> QED
    BY <2>1
<1> HIDE DEF h
<1>5. h[0] = base /\ \A k \in 1 .. L : h[k] = next(k, h[k - 1])
  <2>1. 0 \in 0 .. L /\ \A k \in 1 .. L : k \in 0 .. L /\ k # 0
    BY <1>1
  <2> QED
    BY <1>4, <2>1
<1>6. Climb(data, index, path, L, h)
  BY <1>5 DEF Climb, base, next
<1> HIDE DEF Climb
<1> QED
  BY <1>2, <1>6 DEF L

\* From leaf, h gets to the root of data's tree.
GetsUp(S, data, leaf, index, path, m, h) ==
  /\ data \in Seq(S) /\ m \in Nat /\ index \in 0 .. power[m] - 1
  /\ Climb(leaf, index, path, m, h)
  /\ h[m] = Root(BuildTree(data))

\* Down from the root, what is hashed on the way up from index is the tree's.
LEMMA Descent ==
  ASSUME NEW S, NEW data, NEW leaf, NEW index, NEW path, NEW m, NEW h,
         GetsUp(S, data, leaf, index, path, m, h)
  PROVE  \A t \in Nat : t <= m /\ t <= TreeDepth(data) =>
           h[m - t] = BuildTree(data).levels[TreeDepth(data) - t][Shifted(index, m - t)]
<1> DEFINE levels == BuildTree(data).levels
           d == TreeDepth(data)
           T == {t \in Nat : t <= m /\ t <= d => h[m - t] = levels[d - t][Shifted(index, m - t)]}
<1>0. /\ data \in Seq(S) /\ m \in Nat /\ index \in 0 .. power[m] - 1
      /\ Climb(leaf, index, path, m, h) /\ h[m] = Root(BuildTree(data))
  BY DEF GetsUp
<1>1. /\ BuildTree(data).depth = d /\ d \in Nat
      /\ \A k \in 1 .. d : \A i \in 0 .. power[d - k] - 1 :
           levels[k][i] = nodeHash(levels[k - 1][2 * i], levels[k - 1][2 * i + 1])
  BY <1>0, Levels
<1>2. index \in Nat /\ power[0] = 1
  BY <1>0, Powers
<1> HIDE DEF levels, d
<1>3. 0 \in T
  <2>1. Shifted(index, m) = 0
    <3>1. Shifted(index, m) \in 0 .. power[m - m] - 1 /\ m - m = 0
      BY <1>0, ShiftedInLevel
    <3>2. Shifted(index, m) \in 0 .. 1 - 1
      BY <1>2, <3>1
    <3> QED
      BY <3>2
  <2>2. h[m] = levels[d][0]
    BY <1>0, <1>1 DEF Root, levels
  <2> QED
    BY <1>0, <1>1, <2>1, <2>2
<1>4. ASSUME NEW t \in T PROVE t + 1 \in T
  <2> SUFFICES ASSUME t + 1 <= m, t + 1 <= d
               PROVE  h[m - (t + 1)] = levels[d - (t + 1)][Shifted(index, m - (t + 1))]
    OBVIOUS
  <2> DEFINE k == m - t
             s == Shifted(index, k - 1)
             j == d - t
  <2>1. /\ k \in 1 .. m /\ k - 1 \in Nat /\ (k - 1) + 1 = k /\ m - (t + 1) = k - 1
        /\ j \in 1 .. d /\ d - j = t /\ d - (t + 1) = j - 1 /\ m - k = t /\ k \in 0 .. m
    BY <1>0, <1>1
  <2>2. h[k] = levels[j][Shifted(index, k)]
    BY <1>0, <1>1, <2>1
  <2>3. s \in Nat /\ Shifted(index, k) = s \div 2
    <3>1. s \in Nat /\ Shifted(index, (k - 1) + 1) = s \div 2
      <4> HIDE DEF k
      <4> QED
        BY <1>2, <2>1, Shifts
    <3> QED
      BY <2>1, <3>1
  <2>4. Shifted(index, k) \in 0 .. power[t] - 1
    BY <1>0, <2>1, ShiftedInLevel
  <2>5. h[k] = IF s % 2 = 0 THEN nodeHash(h[k - 1], path[k]) ELSE nodeHash(path[k], h[k - 1])
    BY <1>0, <2>1 DEF Climb
  <2> HIDE DEF k, j, s
  <2>6. h[k] = nodeHash(levels[j - 1][2 * (s \div 2)], levels[j - 1][2 * (s \div 2) + 1])
    BY <1>1, <2>1, <2>2, <2>3, <2>4
  <2>7. s = IF s % 2 = 0 THEN 2 * (s \div 2) ELSE 2 * (s \div 2) + 1
    BY <2>3
  <2>8. h[k - 1] = levels[j - 1][s]
    <3>1. CASE s % 2 = 0
      BY <2>5, <2>6, <2>7, <3>1, HashesDiffer
    <3>2. CASE s % 2 # 0
      <4>1. nodeHash(path[k], h[k - 1])
              = nodeHash(levels[j - 1][2 * (s \div 2)], levels[j - 1][2 * (s \div 2) + 1])
        BY <2>5, <2>6, <3>2
      <4> QED
        BY <2>7, <3>2, <4>1, HashesDiffer
    <3> QED
      BY <3>1, <3>2
  <2> QED
    BY <2>1, <2>8 DEF s
<1>5. T = Nat
  BY <1>3, <1>4, SetInduction
<1> QED
  BY <1>1, <1>5 DEF levels, d

\* Whatever path, index and size it is given with, only what is in a tree
\* verifies against its root: a leaf, or padding, at that very index.
THEOREM OnlyPaddedVerify ==
  ASSUME NEW S, NEW data \in Seq(S), NEW leaf, NEW path, Len(path) \in Nat,
         NEW size \in Nat, NEW index \in 0 .. size - 1,
         VerifyInclusionProof(leaf, index, size, path, Root(BuildTree(data)))
  PROVE  /\ index \in 0 .. power[TreeDepth(data)] - 1
         /\ leaf = Padded(data, index)
<1> DEFINE levels == BuildTree(data).levels
           d == TreeDepth(data)
           m == Len(path)
<1>1. /\ BuildTree(data).depth = d /\ d \in Nat
      /\ \A i \in 0 .. power[d] - 1 : levels[0][i] = leafHash(Padded(data, i))
      /\ \A k \in 1 .. d : \A i \in 0 .. power[d - k] - 1 :
           levels[k][i] = nodeHash(levels[k - 1][2 * i], levels[k - 1][2 * i + 1])
  BY Levels
<1>2. PICK h : /\ Climb(leaf, index, path, m, h) /\ m = Depth(size)
               /\ h[m] = Root(BuildTree(data))
  BY Climbs
<1>3. index \in 0 .. power[m] - 1 /\ m \in Nat /\ index \in Nat
  <2>1. size <= power[m] /\ power[m] \in Nat /\ m \in Nat
    BY <1>2, DepthFits, Powers
  <2> HIDE DEF m
  <2> QED
    BY <2>1
<1>4. \A t \in Nat : t <= m /\ t <= d => h[m - t] = levels[d - t][Shifted(index, m - t)]
  <2>1. GetsUp(S, data, leaf, index, path, m, h)
    BY <1>2, <1>3 DEF GetsUp
  <2> HIDE DEF m
  <2> QED
    BY <2>1, Descent
<1>5. \A k \in 0 .. m : Shifted(index, k) \in 0 .. power[m - k] - 1
  BY <1>3, ShiftedInLevel
<1>6. /\ h[0] = leafHash(leaf)
      /\ \A k \in 1 .. m : \E a, b : h[k] = nodeHash(a, b)
  BY <1>2, Zenon DEF Climb
<1>7. Shifted(index, 0) = index
  BY <1>3, Shifts
<1> HIDE DEF m, d, levels
<1>8. m = d
  <2>1. CASE m < d
    <3>1. h[0] = levels[d - m][Shifted(index, 0)]
      BY <1>1, <1>3, <1>4, <2>1
    <3>2. index \in 0 .. power[d - (d - m)] - 1 /\ d - m \in 1 .. d
      BY <1>1, <1>3, <2>1
    <3>3. \E a, b : levels[d - m][index] = nodeHash(a, b)
      BY <1>1, <3>2
    <3> QED
      BY <1>6, <1>7, <3>1, <3>3, HashesDiffer, Zenon
  <2>2. CASE d < m
    <3>1. h[m - d] = levels[0][Shifted(index, m - d)]
      BY <1>1, <1>3, <1>4, <2>2
    <3>2. m - d \in 1 .. m /\ m - d \in 0 .. m /\ m - (m - d) = d
      BY <1>1, <1>3, <2>2
    <3>3. \E b : h[m - d] = leafHash(b)
      BY <1>1, <1>5, <3>1, <3>2
    <3> QED
      BY <1>6, <3>2, <3>3, HashesDiffer
  <2> QED
    BY <1>1, <1>3, <2>1, <2>2
<1>9. h[0] = levels[0][index]
  BY <1>1, <1>3, <1>4, <1>7, <1>8
<1>10. index \in 0 .. power[d] - 1 /\ leafHash(leaf) = leafHash(Padded(data, index))
  BY <1>1, <1>3, <1>6, <1>8, <1>9
<1>11. leaf = Padded(data, index)
  BY <1>10, HashesDiffer, Zenon
<1> QED
  BY <1>10, <1>11 DEF d

\* Up from a leaf along the path InclusionProof gives for it.
LEMMA Ascent ==
  ASSUME NEW S, NEW data \in Seq(S), NEW index \in 0 .. Len(data) - 1, NEW h,
         Climb(data[index + 1], index, InclusionProof(BuildTree(data), index), TreeDepth(data), h)
  PROVE  h[TreeDepth(data)] = Root(BuildTree(data))
<1> DEFINE levels == BuildTree(data).levels
           d == TreeDepth(data)
           path == InclusionProof(BuildTree(data), index)
           T == {k \in Nat : k <= d => h[k] = levels[k][Shifted(index, k)]}
<1>1. /\ BuildTree(data).depth = d /\ d \in Nat /\ Len(data) <= power[d]
      /\ \A i \in 0 .. power[d] - 1 : levels[0][i] = leafHash(Padded(data, i))
      /\ \A k \in 1 .. d : \A i \in 0 .. power[d - k] - 1 :
           levels[k][i] = nodeHash(levels[k - 1][2 * i], levels[k - 1][2 * i + 1])
  BY Levels
<1>2. /\ index \in Nat /\ Len(data) \in Nat /\ power[d] \in Nat /\ index \in 0 .. power[d] - 1
      /\ Shifted(index, 0) = index /\ power[0] = 1 /\ index < Len(data)
  <2>1. power[d] \in Nat /\ power[0] = 1
    BY <1>1, Powers
  <2>2. index \in Nat /\ Shifted(index, 0) = index /\ Len(data) \in Nat
    BY Shifts
  <2> HIDE DEF d
  <2> QED
    BY <1>1, <2>1, <2>2
<1>3. \A k \in 1 .. d : path[k] = levels[k - 1][sibling(Shifted(index, k - 1))]
  BY <1>1 DEF InclusionProof
<1>4. /\ h[0] = leafHash(data[index + 1])
      /\ \A k \in 1 .. d :
           h[k] = IF Shifted(index, k - 1) % 2 = 0 THEN nodeHash(h[k - 1], path[k])
                                                   ELSE nodeHash(path[k], h[k - 1])
  BY DEF Climb
<1> HIDE DEF levels, d, path
<1>5. 0 \in T
  BY <1>1, <1>2, <1>4 DEF Padded
<1>6. ASSUME NEW k \in T PROVE k + 1 \in T
  <2> SUFFICES ASSUME k + 1 <= d PROVE h[k + 1] = levels[k + 1][Shifted(index, k + 1)]
    OBVIOUS
  <2> DEFINE s == Shifted(index, k)
  <2>1. k + 1 \in 1 .. d /\ (k + 1) - 1 = k /\ k + 1 \in 0 .. d
    BY <1>1
  <2>2. s \in Nat /\ Shifted(index, k + 1) = s \div 2 /\ h[k] = levels[k][s]
    BY <1>1, <1>2, <2>1, Shifts
  <2>3. s \div 2 \in 0 .. power[d - (k + 1)] - 1
    BY <1>1, <1>2, <2>1, <2>2, ShiftedInLevel
  <2> HIDE DEF s
  <2>4. levels[k + 1][s \div 2] = nodeHash(levels[k][2 * (s \div 2)], levels[k][2 * (s \div 2) + 1])
    BY <1>1, <2>1, <2>3
  <2>5. path[k + 1] = levels[k][sibling(s)]
    BY <1>3, <2>1 DEF s
  <2>6. h[k + 1] = IF s % 2 = 0 THEN nodeHash(h[k], path[k + 1]) ELSE nodeHash(path[k + 1], h[k])
    BY <1>4, <2>1 DEF s
  <2>7. CASE s % 2 = 0
    <3>1. s = 2 * (s \div 2) /\ sibling(s) = 2 * (s \div 2) + 1
      BY <2>2, <2>7 DEF sibling
    <3> QED
      BY <2>2, <2>4, <2>5, <2>6, <2>7, <3>1
  <2>8. CASE s % 2 # 0
    <3>1. s = 2 * (s \div 2) + 1 /\ sibling(s) = 2 * (s \div 2)
      BY <2>2, <2>8 DEF sibling
    <3> QED
      BY <2>2, <2>4, <2>5, <2>6, <2>8, <3>1
  <2> QED
    BY <2>7, <2>8
<1>7. T = Nat
  BY <1>5, <1>6, SetInduction
<1>8. h[d] = levels[d][Shifted(index, d)]
  BY <1>1, <1>7
<1>9. Shifted(index, d) = 0
  <2>1. Shifted(index, d) \in 0 .. power[d - d] - 1 /\ d - d = 0
    BY <1>1, <1>2, ShiftedInLevel
  <2>2. Shifted(index, d) \in 0 .. 1 - 1
    BY <1>2, <2>1
  <2> QED
    BY <2>2
<1> QED
  BY <1>1, <1>8, <1>9 DEF Root, levels, d

\* What an honest caller puts into a tree.
Leaf == [key : Key, index : Nat]
IsLeaves(q) == q \in Seq(Leaf) /\ \A k \in 1 .. Len(q) : q[k].index = k - 1

\* A key and its index are neither padding nor a pair of hashes.
LEMMA LeavesDiffer ==
  /\ \A key, index, data, i : LeafData(key, index) # paddingLeaf(data, i)
  /\ \A a, b, data, i : Pair(a, b) # paddingLeaf(data, i)
  /\ \A l \in Leaf : \A data, i : l # paddingLeaf(data, i)
<1>1. \A key, index : DOMAIN LeafData(key, index) = {"key", "index"}
  BY DEF LeafData
<1>2. \A data, i : DOMAIN paddingLeaf(data, i) = {"domain", "index"}
  BY DEF paddingLeaf
<1>3. \A a, b : DOMAIN Pair(a, b) = {"left", "right"}
  BY DEF Pair
<1>4. \A l \in Leaf : DOMAIN l = {"key", "index"}
  BY DEF Leaf
<1>5. "key" \notin {"domain", "index"} /\ "left" \notin {"domain", "index"}
  OBVIOUS
<1> QED
  BY <1>1, <1>2, <1>3, <1>4, <1>5

LEMMA LeavesProved ==
  ASSUME IsLeaves(leaves)
  PROVE  ProofsVerify
<1> SUFFICES ASSUME NEW i \in 0 .. Len(leaves) - 1, NEW j \in 0 .. Len(leaves) - 1
             PROVE  VerifyInclusionProof(leaves[i + 1], j, Len(leaves),
                      InclusionProof(Tree, i), Root(Tree)) <=> i = j
  BY DEF ProofsVerify
<1> DEFINE path == InclusionProof(Tree, i)
           d == TreeDepth(leaves)
<1>1. leaves \in Seq(Leaf) /\ Len(leaves) \in Nat /\ \A k \in 1 .. Len(leaves) : leaves[k].index = k - 1
  BY DEF IsLeaves
<1>2. Tree.depth = d /\ d \in Nat
  BY <1>1, Levels DEF Tree
<1>3. Len(path) = d
  <2>1. path = [k \in 1 .. d |-> Tree.levels[k - 1][sibling(Shifted(i, k - 1))]]
    BY <1>2 DEF InclusionProof
  <2> HIDE DEF path, d
  <2> DEFINE R == {Tree.levels[k - 1][sibling(Shifted(i, k - 1))] : k \in 1 .. d}
  <2>2. path \in [1 .. d -> R]
    BY <2>1
  <2> HIDE DEF R
  <2> QED
    BY <1>2, <2>2
<1>4. d = Depth(Len(leaves))
  <2>1. leaves # <<>>
    BY <1>1
  <2> QED
    BY <2>1 DEF TreeDepth
<1>5. ASSUME VerifyInclusionProof(leaves[i + 1], j, Len(leaves), path, Root(Tree))
      PROVE  i = j
  <2>1. leaves[i + 1] = Padded(leaves, j)
    <3>1. Len(path) \in Nat
      BY <1>2, <1>3
    <3> HIDE DEF path
    <3> QED
      BY <1>1, <1>5, <3>1, OnlyPaddedVerify DEF Tree
  <2>2. leaves[i + 1] = leaves[j + 1]
    BY <1>1, <2>1 DEF Padded
  <2>3. leaves[i + 1].index = i /\ leaves[j + 1].index = j
    <3>1. /\ i + 1 \in 1 .. Len(leaves) /\ (i + 1) - 1 = i
          /\ j + 1 \in 1 .. Len(leaves) /\ (j + 1) - 1 = j
      BY <1>1
    <3> QED
      BY <1>1, <3>1
  <2> QED
    BY <2>2, <2>3
<1>6. VerifyInclusionProof(leaves[i + 1], i, Len(leaves), path, Root(Tree))
  <2>1. PICK h : /\ Climb(leaves[i + 1], i, path, Len(path), h)
                 /\ VerifyInclusionProof(leaves[i + 1], i, Len(leaves), path, Root(Tree)) <=>
                      i \in 0 .. Len(leaves) - 1 /\ Len(path) = Depth(Len(leaves)) /\ h[Len(path)] = Root(Tree)
    <3> DEFINE leaf == leaves[i + 1]
               size == Len(leaves)
               root == Root(Tree)
    <3>1. Len(path) \in Nat
      BY <1>2, <1>3
    <3> HIDE DEF path, leaf, size, root
    <3>2. \E h : /\ Climb(leaf, i, path, Len(path), h)
                 /\ VerifyInclusionProof(leaf, i, size, path, root) <=>
                      i \in 0 .. size - 1 /\ Len(path) = Depth(size) /\ h[Len(path)] = root
      <4>1. CASE VerifyInclusionProof(leaf, i, size, path, root)
        BY <3>1, <4>1, Climbs
      <4>2. CASE ~VerifyInclusionProof(leaf, i, size, path, root)
        BY <3>1, <4>2, Climbs
      <4> QED
        BY <4>1, <4>2
    <3> QED
      BY <3>2 DEF leaf, size, root
  <2>2. h[d] = Root(Tree)
    BY <1>1, <1>3, <2>1, Ascent DEF Tree
  <2> QED
    BY <1>3, <1>4, <2>1, <2>2
<1> QED
  BY <1>5, <1>6

LEMMA OnlyLeavesProved ==
  ASSUME IsLeaves(leaves)
  PROVE  OnlyLeavesVerify
<1> SUFFICES ASSUME NEW data \in Candidates(Tree), NEW size \in 1 .. 2 * MaxLeaves,
                    NEW path \in PathsOfTree(Tree), NEW index \in 0 .. size - 1,
                    VerifyInclusionProof(data, index, size, path, Root(Tree))
             PROVE  index < Len(leaves) /\ leaves[index + 1] = data
  BY DEF OnlyLeavesVerify
<1> DEFINE d == TreeDepth(leaves)
           levels == Tree.levels
<1>1. /\ leaves \in Seq(Leaf) /\ Tree.depth = d /\ d \in Nat
      /\ \A k \in 1 .. d : \A i \in 0 .. power[d - k] - 1 :
           levels[k][i] = nodeHash(levels[k - 1][2 * i], levels[k - 1][2 * i + 1])
  BY Levels DEF IsLeaves, Tree
<1>2. Len(path) \in Nat
  <2>1. PICK from \in 0 .. d : \E pick \in [1 .. d - from -> 0 .. 1] :
          path = [k \in 1 .. d - from |-> levels[from + k - 1][pick[k]]]
    <3> DEFINE Along(from) == [1 .. d - from -> 0 .. 1]
               Taken(from, pick) == [k \in 1 .. d - from |-> levels[from + k - 1][pick[k]]]
    <3>1. PathsOfTree(Tree) = UNION {{Taken(from, pick) : pick \in Along(from)} : from \in 0 .. d}
      BY <1>1 DEF PathsOfTree
    <3> HIDE DEF Along, Taken, d
    <3>2. PICK from \in 0 .. d : path \in {Taken(from, pick) : pick \in Along(from)}
      BY <3>1
    <3>3. \E pick \in Along(from) : path = Taken(from, pick)
      BY <3>2
    <3> QED
      BY <3>3 DEF Along, Taken, d
  <2>2. PICK pick \in [1 .. d - from -> 0 .. 1] :
          path = [k \in 1 .. d - from |-> levels[from + k - 1][pick[k]]]
    BY <2>1
  <2> DEFINE m == d - from
             R == {levels[from + k - 1][pick[k]] : k \in 1 .. m}
  <2>3. m \in Nat
    BY <1>1
  <2> HIDE DEF d, levels, m
  <2>4. path \in [1 .. m -> R]
    BY <2>2 DEF m
  <2> HIDE DEF R
  <2> QED
    BY <2>3, <2>4
<1>3. data = Padded(leaves, index) /\ index \in Nat
  <2>1. size \in Nat /\ index \in Nat
    BY MerkleAssumption DEF MerkleAssumption
  <2> QED
    BY <1>1, <1>2, <2>1, OnlyPaddedVerify DEF Tree
<1>4. data # paddingLeaf(leaves, index)
  <2>1. (\E key, i : data = LeafData(key, i)) \/ \E k \in 1 .. d : data = levels[k][0].of
    BY <1>1 DEF Candidates
  <2>2. ASSUME NEW k \in 1 .. d, data = levels[k][0].of
        PROVE  \E a, b : data = Pair(a, b)
    <3>1. 0 \in 0 .. power[d - k] - 1
      <4>1. d - k \in Nat
        BY <1>1
      <4>2. power[d - k] \in Nat /\ d - k < power[d - k]
        BY <4>1, Powers
      <4> QED
        BY <4>1, <4>2
    <3> DEFINE z == levels[k][0]
    <3>2. \E a, b : z = nodeHash(a, b)
      <4> HIDE DEF levels, d
      <4> QED
        BY <1>1, <2>2, <3>1
    <3>3. data = z.of
      BY <2>2
    <3> HIDE DEF z
    <3> QED
      BY <3>2, <3>3 DEF nodeHash
  <2> QED
    BY <2>1, <2>2, LeavesDiffer
<1> QED
  BY <1>1, <1>3, <1>4 DEF Padded

\* From the root of two trees down their levels are the same.
LEMMA SameLevels ==
  ASSUME NEW S, NEW a \in Seq(S), NEW b \in Seq(S), Root(BuildTree(a)) = Root(BuildTree(b)),
         TreeDepth(a) <= TreeDepth(b)
  PROVE  /\ TreeDepth(a) = TreeDepth(b)
         /\ \A i \in 0 .. power[TreeDepth(a)] - 1 : Padded(a, i) = Padded(b, i)
<1> DEFINE l == BuildTree(a).levels
           r == BuildTree(b).levels
           d == TreeDepth(a)
           e == TreeDepth(b)
           T == {t \in Nat : t <= d => \A i \in 0 .. power[t] - 1 : l[d - t][i] = r[e - t][i]}
<1>1. /\ BuildTree(a).depth = d /\ d \in Nat
      /\ \A i \in 0 .. power[d] - 1 : l[0][i] = leafHash(Padded(a, i))
      /\ \A k \in 1 .. d : \A i \in 0 .. power[d - k] - 1 :
           l[k][i] = nodeHash(l[k - 1][2 * i], l[k - 1][2 * i + 1])
  BY Levels
<1>2. /\ BuildTree(b).depth = e /\ e \in Nat
      /\ \A i \in 0 .. power[e] - 1 : r[0][i] = leafHash(Padded(b, i))
      /\ \A k \in 1 .. e : \A i \in 0 .. power[e - k] - 1 :
           r[k][i] = nodeHash(r[k - 1][2 * i], r[k - 1][2 * i + 1])
  BY Levels
<1>3. l[d][0] = r[e][0] /\ d <= e
  BY <1>1, <1>2 DEF Root
<1> HIDE DEF l, r, d, e
<1>4. 0 \in T
  BY <1>1, <1>2, <1>3, Powers
<1>5. ASSUME NEW t \in T PROVE t + 1 \in T
  <2> SUFFICES ASSUME t + 1 <= d, NEW i \in 0 .. power[t + 1] - 1
               PROVE  l[d - (t + 1)][i] = r[e - (t + 1)][i]
    OBVIOUS
  <2> DEFINE j == d - t
             k == e - t
             x == i \div 2
  <2>1. /\ j \in 1 .. d /\ d - j = t /\ d - (t + 1) = j - 1
        /\ k \in 1 .. e /\ e - k = t /\ e - (t + 1) = k - 1
    BY <1>1, <1>2, <1>3
  <2>2. /\ x \in 0 .. power[t] - 1 /\ i \in Nat
        /\ i = IF i % 2 = 0 THEN 2 * x ELSE 2 * x + 1
    <3>1. power[t + 1] = 2 * power[t] /\ power[t] \in Nat
      BY Powers
    <3>2. \A u, v \in Nat : u < 2 * v =>
            /\ u \div 2 \in 0 .. v - 1
            /\ u = IF u % 2 = 0 THEN 2 * (u \div 2) ELSE 2 * (u \div 2) + 1
      OBVIOUS
    <3>3. i \in Nat /\ i < 2 * power[t]
      BY <3>1
    <3> QED
      BY <3>1, <3>2, <3>3
  <2>3. l[j][x] = r[k][x]
    <3>1. \A z \in 0 .. power[t] - 1 : l[d - t][z] = r[e - t][z]
      BY <1>1
    <3> HIDE DEF x
    <3> QED
      BY <2>2, <3>1
  <2> HIDE DEF j, k, x
  <2>4. nodeHash(l[j - 1][2 * x], l[j - 1][2 * x + 1]) = nodeHash(r[k - 1][2 * x], r[k - 1][2 * x + 1])
    BY <1>1, <1>2, <2>1, <2>2, <2>3
  <2>5. l[j - 1][2 * x] = r[k - 1][2 * x] /\ l[j - 1][2 * x + 1] = r[k - 1][2 * x + 1]
    BY <2>4, HashesDiffer
  <2> QED
    BY <2>1, <2>2, <2>5
<1>6. T = Nat
  BY <1>4, <1>5, SetInduction
<1>7. \A i \in 0 .. power[d] - 1 : l[0][i] = r[e - d][i]
  BY <1>1, <1>6
<1>8. d = e
  <2> SUFFICES ASSUME d < e PROVE FALSE
    BY <1>1, <1>2, <1>3
  <2>1. e - d \in 1 .. e /\ e - (e - d) = d
    BY <1>1, <1>2
  <2>2. 0 \in 0 .. power[d] - 1
    <3>1. d \in Nat
      BY <1>1
    <3>2. power[d] \in Nat /\ d < power[d]
      BY <3>1, Powers
    <3> QED
      BY <3>1, <3>2
  <2>3. leafHash(Padded(a, 0)) = nodeHash(r[e - d - 1][2 * 0], r[e - d - 1][2 * 0 + 1])
    BY <1>1, <1>2, <1>7, <2>1, <2>2
  <2> QED
    BY <2>3, HashesDiffer
<1>9. \A i \in 0 .. power[d] - 1 : leafHash(Padded(a, i)) = leafHash(Padded(b, i))
  BY <1>1, <1>2, <1>7, <1>8
<1> QED
  BY <1>8, <1>9, HashesDiffer DEF d, e

\* No leaves are missing in a sequence with the root of another.
LEMMA SameLeaves ==
  ASSUME NEW a, NEW b, IsLeaves(a), IsLeaves(b), Root(BuildTree(a)) = Root(BuildTree(b)),
         TreeDepth(a) <= TreeDepth(b)
  PROVE  a = b
<1>1. /\ a \in Seq(Leaf) /\ b \in Seq(Leaf) /\ Len(a) \in Nat /\ Len(b) \in Nat
      /\ \A k \in 1 .. Len(a) : a[k] \in Leaf
      /\ \A k \in 1 .. Len(b) : b[k] \in Leaf
  BY DEF IsLeaves
<1>2. /\ Len(a) <= power[TreeDepth(a)] /\ Len(b) <= power[TreeDepth(a)]
      /\ power[TreeDepth(a)] \in Nat
      /\ \A i \in 0 .. power[TreeDepth(a)] - 1 : Padded(a, i) = Padded(b, i)
  BY <1>1, SameLevels, Levels, Powers
<1> DEFINE p == power[TreeDepth(a)]
<1> HIDE DEF p
<1>3. ASSUME NEW i \in Nat, i < p
      PROVE  /\ i < Len(a) <=> i < Len(b)
             /\ i < Len(a) => a[i + 1] = b[i + 1]
  <2>1. Padded(a, i) = Padded(b, i)
    BY <1>2, <1>3 DEF p
  <2>2. i < Len(a) => Padded(a, i) = a[i + 1] /\ a[i + 1] \in Leaf
    BY <1>1 DEF Padded
  <2>3. i < Len(b) => Padded(b, i) = b[i + 1] /\ b[i + 1] \in Leaf
    BY <1>1 DEF Padded
  <2>4. /\ ~(i < Len(a)) => Padded(a, i) = paddingLeaf(a, i)
        /\ ~(i < Len(b)) => Padded(b, i) = paddingLeaf(b, i)
    BY DEF Padded
  <2> QED
    BY <2>1, <2>2, <2>3, <2>4, LeavesDiffer
<1>4. Len(a) = Len(b)
  <2>1. ~(Len(a) < Len(b))
    BY <1>1, <1>2, <1>3 DEF p
  <2>2. ~(Len(b) < Len(a))
    BY <1>1, <1>2, <1>3 DEF p
  <2> QED
    BY <1>1, <2>1, <2>2
<1>5. ASSUME NEW k \in 1 .. Len(a) PROVE a[k] = b[k]
  <2>1. k - 1 \in Nat /\ k - 1 < p /\ k - 1 < Len(a) /\ (k - 1) + 1 = k
    BY <1>1, <1>2 DEF p
  <2> QED
    BY <1>3, <2>1
<1> QED
  BY <1>1, <1>4, <1>5, SeqEqual

LEMMA RootsTellApart ==
  ASSUME IsLeaves(leaves)
  PROVE  RootsDiffer
<1> SUFFICES ASSUME NEW r \in Roots, r.root = Root(Tree) PROVE r.leaves = leaves
  BY DEF RootsDiffer
<1>0. PICK n \in 0 .. MaxLeaves : \E choice \in [1 .. n -> Key] :
        /\ r.leaves = [k \in 1 .. n |-> LeafData(choice[k], k - 1)]
        /\ r.root = Root(BuildTree(r.leaves))
  <2>1. PICK n \in 0 .. MaxLeaves :
          r \in {[leaves |-> data, root |-> Root(BuildTree(data))] :
            data \in {[k \in 1 .. n |-> LeafData(choice[k], k - 1)] : choice \in [1 .. n -> Key]}}
    BY DEF Roots
  <2>2. PICK data \in {[k \in 1 .. n |-> LeafData(choice[k], k - 1)] : choice \in [1 .. n -> Key]} :
          r = [leaves |-> data, root |-> Root(BuildTree(data))]
    BY <2>1
  <2> QED
    BY <2>2
<1>1. PICK choice \in [1 .. n -> Key] :
        /\ r.leaves = [k \in 1 .. n |-> LeafData(choice[k], k - 1)]
        /\ r.root = Root(BuildTree(r.leaves))
  BY <1>0
<1>2. IsLeaves(r.leaves)
  <2>1. n \in Nat
    BY MerkleAssumption DEF MerkleAssumption
  <2>2. \A k \in 1 .. n : LeafData(choice[k], k - 1) \in Leaf /\ LeafData(choice[k], k - 1).index = k - 1
    BY <2>1 DEF LeafData, Leaf
  <2> QED
    BY <1>1, <2>1, <2>2 DEF IsLeaves
<1>3. TreeDepth(leaves) \in Nat /\ TreeDepth(r.leaves) \in Nat
  BY <1>2, Levels DEF IsLeaves
<1>4. TreeDepth(leaves) <= TreeDepth(r.leaves) \/ TreeDepth(r.leaves) <= TreeDepth(leaves)
  BY <1>3
<1>5. Root(BuildTree(r.leaves)) = Root(BuildTree(leaves))
  BY <1>1 DEF Tree
<1> QED
  BY <1>2, <1>4, <1>5, SameLeaves

-----------------------------------------------------------------------------
(* The runs of Encodings: a caller who adds leaf after leaf.               *)

\* Leaf data is made of a key and the position it is put at.
LeavesInv == IsLeaves(leaves)

LEMMA LeavesKept == Encodings => []LeavesInv
<1>1. Start => LeavesInv
  <2> SUFFICES ASSUME leaves = <<>> PROVE IsLeaves(leaves)
    BY DEF Start, NoLeaves, LeavesInv
  <2>1. <<>> \in Seq(Leaf) /\ Len(<<>>) = 0
    OBVIOUS
  <2> QED
    BY <2>1 DEF IsLeaves
<1>2. LeavesInv /\ [ \/ Grow /\ sent = <<>> /\ UNCHANGED vars
                     \/ Next /\ leaves = <<>> /\ UNCHANGED leaves ]_<<leaves, vars>> => LeavesInv'
  <2> SUFFICES ASSUME LeavesInv, Grow PROVE LeavesInv'
    BY DEF LeavesInv, IsLeaves
  <2>1. PICK key \in Key : leaves' = Append(leaves, LeafData(key, Len(leaves)))
    BY DEF Grow, AddLeaf
  <2>2. leaves \in Seq(Leaf) /\ Len(leaves) \in Nat /\ \A k \in 1 .. Len(leaves) : leaves[k].index = k - 1
    BY DEF LeavesInv, IsLeaves
  <2> DEFINE new == LeafData(key, Len(leaves))
  <2>3. new \in Leaf /\ new.index = Len(leaves)
    BY <2>2 DEF LeafData, Leaf
  <2> HIDE DEF new
  <2>4. /\ leaves' \in Seq(Leaf) /\ Len(leaves') = Len(leaves) + 1
        /\ \A k \in 1 .. Len(leaves) : leaves'[k] = leaves[k]
        /\ leaves'[Len(leaves) + 1] = new
    BY <2>1, <2>2, <2>3, AppendProperties DEF new
  <2>5. ASSUME NEW k \in 1 .. Len(leaves') PROVE leaves'[k].index = k - 1
    BY <2>2, <2>3, <2>4
  <2> QED
    BY <2>4, <2>5 DEF LeavesInv, IsLeaves
<1> QED
  BY <1>1, <1>2, PTL DEF Encodings

\* In a tree of any size a leaf is proved by its own path at its own index and
\* at no other (InclusionProof and VerifyInclusionProof agree).
THEOREM TreesProve == Encodings => []ProofsVerify
<1>1. LeavesInv => ProofsVerify
  BY LeavesProved DEF LeavesInv
<1> QED
  BY <1>1, LeavesKept, PTL

\* Against the root of a tree of any size nothing verifies for a caller's leaf
\* but that leaf, whatever number of leaves the verifier is told.
THEOREM NoForgeries == Encodings => []OnlyLeavesVerify
<1>1. LeavesInv => OnlyLeavesVerify
  BY OnlyLeavesProved DEF LeavesInv
<1> QED
  BY <1>1, LeavesKept, PTL

\* Two sequences of leaves, of any lengths, have different roots: padding is
\* never taken for leaves, nor a shallow tree for a deep one.
THEOREM RootsBind == Encodings => []RootsDiffer
<1>1. LeavesInv => RootsDiffer
  BY RootsTellApart DEF LeavesInv
<1> QED
  BY <1>1, LeavesKept, PTL

=============================================================================
