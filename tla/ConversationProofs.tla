------------------------- MODULE ConversationProofs -------------------------
(***************************************************************************)
(* Proofs about a session over the relay's queues, for any retention time, *)
(* threshold and skip window.                                              *)
(*                                                                         *)
(* First the queues alone: an envelope is in its queue, polled or purged,  *)
(* and the queues are in the order of their times, so that the purge's     *)
(* loop, whatever it passes over, cuts each at its front.                  *)
(*                                                                         *)
(* Then the conversation.  Each of its steps is one of Ratchet over a      *)
(* network that keeps the order, or a loss, so that the invariants of      *)
(* RatchetSyncProofs hold of the two ends; and what is lost to them was    *)
(* purged, or refused by the relay.                                        *)
(***************************************************************************)
EXTENDS Conversation, SequenceTheorems, FiniteSetTheorems, WellFoundedInduction, TLAPS

-----------------------------------------------------------------------------
(* PurgeExpired's loop.                                                    *)

Less == {ss \in Nat \X Nat : ss[1] < ss[2]}

\* A set of numbers that holds 0 and the successor of each it holds is Nat.
LEMMA SetInduction ==
  ASSUME NEW T \in SUBSET Nat, 0 \in T, \A n \in T : n + 1 \in T
  PROVE  T = Nat
<1> SUFFICES ASSUME T # Nat PROVE FALSE
  OBVIOUS
<1>1. PICK x \in Nat \ T : \A y \in Nat \ T : ~(<<y, x>> \in Less)
  <2>1. IsWellFoundedOn(Less, Nat)
    BY NatLessThanWellFounded DEF OpToRel, Less
  <2>2. Nat \ T \subseteq Nat /\ Nat \ T # {}
    OBVIOUS
  <2> QED
    BY <2>1, <2>2, WFMin
<1>2. x \in Nat /\ x # 0 /\ x \notin T
  OBVIOUS
<1>3. x - 1 \in Nat /\ (x - 1) + 1 = x
  BY <1>2
<1>4. <<x - 1, x>> \in Less
  BY <1>2, <1>3 DEF Less
<1>5. x - 1 \in T
  BY <1>1, <1>3, <1>4
<1> QED
  BY <1>2, <1>3, <1>5

\* One entry more.
LEMMA SubSeqAppend ==
  ASSUME NEW S, NEW q \in Seq(S), NEW c \in Nat, NEW k \in 1 .. Len(q), c < k
  PROVE  SubSeq(q, c + 1, k) = Append(SubSeq(q, c + 1, k - 1), q[k])
<1> DEFINE s == SubSeq(q, c + 1, k - 1)
           t == SubSeq(q, c + 1, k)
<1>1. /\ s \in Seq(S) /\ Len(s) = k - 1 - c /\ \A i \in 1 .. Len(s) : s[i] = q[c + i]
      /\ t \in Seq(S) /\ Len(t) = k - c /\ \A i \in 1 .. Len(t) : t[i] = q[c + i]
      /\ q[k] \in S
  OBVIOUS
<1> HIDE DEF s, t
<1>2. \A i \in 1 .. Len(t) : Append(s, q[k])[i] = t[i]
  BY <1>1
<1> QED
  BY <1>1, <1>2, SeqEqual, AppendProperties DEF s, t

\* If just the first c entries have expired, the loop keeps the others.
LEMMA KeptIsRest ==
  ASSUME NEW S, NEW q \in Seq(S), NEW now, NEW c \in 0 .. Len(q),
         \A k \in 1 .. Len(q) : Expired(q[k], now) <=> k <= c
  PROVE  Kept(q, now) = SubSeq(q, c + 1, Len(q))
<1> DEFINE N == Len(q)
           g == [k \in 0 .. N |-> IF k <= c THEN <<>> ELSE SubSeq(q, c + 1, k)]
           Eq(f) == f = [k \in 0 .. N |->
                      IF k = 0 THEN <<>>
                      ELSE IF Expired(q[k], now) THEN f[k - 1] ELSE Append(f[k - 1], q[k])]
           kept == CHOOSE f : Eq(f)
<1>1. N \in Nat
  OBVIOUS
<1>2. \A k \in 1 .. N :
        g[k] = IF Expired(q[k], now) THEN g[k - 1] ELSE Append(g[k - 1], q[k])
  <2> TAKE k \in 1 .. N
  <2>1. k \in 0 .. N /\ k - 1 \in 0 .. N /\ c \in Nat /\ k \in Nat
    BY <1>1
  <2>2. g[k] = (IF k <= c THEN <<>> ELSE SubSeq(q, c + 1, k))
        /\ g[k - 1] = (IF k - 1 <= c THEN <<>> ELSE SubSeq(q, c + 1, k - 1))
    BY <2>1
  <2>3. CASE k <= c
    BY <2>1, <2>2, <2>3
  <2>4. CASE k > c
    <3>1. g[k - 1] = SubSeq(q, c + 1, k - 1)
      <4>1. CASE k - 1 <= c
        <5>1. k - 1 < c + 1 /\ SubSeq(q, c + 1, k - 1) = <<>>
          BY <2>1, <4>1, SubSeqEmpty
        <5> QED
          BY <2>2, <4>1, <5>1
      <4> QED
        BY <2>2, <4>1
    <3>2. SubSeq(q, c + 1, k) = Append(SubSeq(q, c + 1, k - 1), q[k])
      BY <2>1, <2>4, SubSeqAppend
    <3>3. ~Expired(q[k], now) /\ ~(k <= c)
      BY <2>1, <2>4
    <3> HIDE DEF g
    <3> QED
      BY <2>2, <3>1, <3>2, <3>3
  <2> QED
    BY <2>1, <2>3, <2>4
<1>3. Eq(g)
  <2>1. g[0] = <<>>
    BY <1>1
  <2> HIDE DEF g
  <2>2. \A k \in 0 .. N : g[k] =
          IF k = 0 THEN <<>>
          ELSE IF Expired(q[k], now) THEN g[k - 1] ELSE Append(g[k - 1], q[k])
    BY <1>1, <1>2, <2>1
  <2>3. g = [k \in 0 .. N |-> g[k]]
    BY DEF g
  <2> QED
    BY <2>2, <2>3
<1>4. Eq(kept)
  BY <1>3
<1>5. Kept(q, now) = kept[N]
  BY DEF Kept
<1> HIDE DEF g, kept
<1>6. \A k \in 0 .. N : kept[k] = g[k]
  <2> DEFINE T == {k \in Nat : k \in 0 .. N => kept[k] = g[k]}
  <2>1. 0 \in T
    BY <1>1, <1>3, <1>4
  <2>2. \A k \in T : k + 1 \in T
    <3> SUFFICES ASSUME NEW k \in T, k + 1 \in 0 .. N PROVE kept[k + 1] = g[k + 1]
      OBVIOUS
    <3>1. k \in 0 .. N /\ k + 1 # 0 /\ (k + 1) - 1 = k /\ kept[k] = g[k]
      BY <1>1
    <3>2. /\ kept[k + 1] = (IF Expired(q[k + 1], now) THEN kept[k] ELSE Append(kept[k], q[k + 1]))
          /\ g[k + 1] = (IF Expired(q[k + 1], now) THEN g[k] ELSE Append(g[k], q[k + 1]))
      <4> HIDE DEF N
      <4> QED
        BY <1>3, <1>4, <3>1
    <3> QED
      BY <3>1, <3>2
  <2> HIDE DEF T
  <2>3. T = Nat
    BY <2>1, <2>2, SetInduction DEF T
  <2> QED
    BY <1>1, <2>3 DEF T
<1>7. g[N] = SubSeq(q, c + 1, N)
  <2>1. CASE N <= c
    BY <1>1, <2>1, SubSeqEmpty DEF g
  <2> QED
    BY <1>1, <2>1 DEF g
<1> QED
  BY <1>1, <1>5, <1>6, <1>7

-----------------------------------------------------------------------------
(* The relay's queues.                                                     *)

\* The number of the first envelope for u that waits, or of the next to come.
NextOut(u) == Len(accepted[u]) + 1 - Len(queues[u])

\* What waits for u is what was accepted last for u, in order.
Waits(u) ==
  /\ Len(queues[u]) <= Len(accepted[u])
  /\ \A k \in DOMAIN queues[u] :
       queues[u][k] = [envelope |-> NextOut(u) + k - 1, queuedAt |-> accepted[u][NextOut(u) + k - 1]]

\* Envelopes were accepted one after another.
Dated(u) ==
  /\ \A i \in DOMAIN accepted[u] : accepted[u][i] <= clock
  /\ \A i, j \in DOMAIN accepted[u] : i <= j => accepted[u][i] <= accepted[u][j]

\* What waits no more was delivered or purged, not both, and delivered in order.
Left(u) ==
  /\ 1 .. NextOut(u) - 1 = ToSet(delivered[u]) \cup purged[u]
  /\ ToSet(delivered[u]) \cap purged[u] = {}
  /\ \A k, l \in DOMAIN delivered[u] : k < l => delivered[u][k] < delivered[u][l]

QueuesInv == TypeOK /\ \A u \in User : Waits(u) /\ Dated(u) /\ Left(u)

\* A set of numbers has a least one, unless it is empty.
LEMMA Least ==
  ASSUME NEW T \in SUBSET Nat, T # {}
  PROVE  \E x \in T : \A y \in T : x <= y
<1>1. IsWellFoundedOn(Less, Nat)
  BY NatLessThanWellFounded DEF OpToRel, Less
<1>2. PICK x \in T : \A y \in T : ~(<<y, x>> \in Less)
  BY <1>1, WFMin
<1>3. ASSUME NEW y \in T PROVE x <= y
  <2>1. y \in Nat /\ x \in Nat /\ (y < x => <<y, x>> \in Less)
    BY DEF Less
  <2> QED
    BY <1>2, <2>1
<1> QED
  BY <1>3

\* The lengths and entries that the proofs below are about.
LEMMA QueueTypes ==
  ASSUME TypeOK, NEW u \in User
  PROVE  /\ queues[u] \in Seq(QueuedMessage) /\ Len(queues[u]) \in Nat
         /\ DOMAIN queues[u] = 1 .. Len(queues[u])
         /\ accepted[u] \in Seq(0 .. MaxTime) /\ Len(accepted[u]) \in Nat
         /\ DOMAIN accepted[u] = 1 .. Len(accepted[u])
         /\ \A i \in 1 .. Len(accepted[u]) : accepted[u][i] \in Nat
         /\ delivered[u] \in Seq(Nat) /\ Len(delivered[u]) \in Nat
         /\ DOMAIN delivered[u] = 1 .. Len(delivered[u])
         /\ \A k \in 1 .. Len(delivered[u]) : delivered[u][k] \in Nat
         /\ purged[u] \in SUBSET Nat
         /\ clock \in Nat /\ MaxTime \in Nat /\ TTL \in Nat
<1>1. /\ queues[u] \in Seq(QueuedMessage) /\ accepted[u] \in Seq(0 .. MaxTime)
      /\ delivered[u] \in Seq(Nat) /\ purged[u] \in SUBSET Nat
      /\ clock \in Nat /\ MaxTime \in Nat /\ TTL \in Nat
  BY QueuesAssumption DEF TypeOK, QueuesAssumption
<1> QED
  BY <1>1

LEMMA QueueEntries ==
  ASSUME QueuesInv, NEW u \in User
  PROVE  /\ NextOut(u) \in 1 .. Len(accepted[u]) + 1
         /\ Len(queues[u]) = Len(accepted[u]) + 1 - NextOut(u)
         /\ \A k \in 1 .. Len(queues[u]) :
              /\ NextOut(u) + k - 1 \in 1 .. Len(accepted[u])
              /\ queues[u][k].envelope = NextOut(u) + k - 1
              /\ queues[u][k].queuedAt = accepted[u][NextOut(u) + k - 1]
<1>1. Waits(u) /\ TypeOK
  BY DEF QueuesInv
<1>2. /\ Len(queues[u]) \in Nat /\ DOMAIN queues[u] = 1 .. Len(queues[u])
      /\ Len(accepted[u]) \in Nat
  BY <1>1, QueueTypes
<1>3. NextOut(u) \in 1 .. Len(accepted[u]) + 1
      /\ Len(queues[u]) = Len(accepted[u]) + 1 - NextOut(u)
  <2> DEFINE a == Len(accepted[u])
             b == Len(queues[u])
  <2>1. a \in Nat /\ b \in Nat /\ b <= a /\ NextOut(u) = a + 1 - b
    BY <1>1, <1>2 DEF Waits, NextOut
  <2> HIDE DEF a, b
  <2>2. NextOut(u) \in 1 .. a + 1 /\ b = a + 1 - NextOut(u)
    BY <2>1
  <2> QED
    BY <2>2 DEF a, b
<1>4. ASSUME NEW k \in 1 .. Len(queues[u])
      PROVE  /\ NextOut(u) + k - 1 \in 1 .. Len(accepted[u])
             /\ queues[u][k].envelope = NextOut(u) + k - 1
             /\ queues[u][k].queuedAt = accepted[u][NextOut(u) + k - 1]
  <2>1. queues[u][k] = [envelope |-> NextOut(u) + k - 1,
                        queuedAt |-> accepted[u][NextOut(u) + k - 1]]
    BY <1>1, <1>2 DEF Waits
  <2>2. NextOut(u) + k - 1 \in 1 .. Len(accepted[u])
    BY <1>2, <1>3
  <2> QED
    BY <2>1, <2>2
<1> QED
  BY <1>3, <1>4

\* In a queue the entries that have expired come before those that have not.
LEMMA ExpiredFirst ==
  ASSUME QueuesInv, NEW u \in User, NEW now \in Nat
  PROVE  \E c \in 0 .. Len(queues[u]) :
           \A k \in 1 .. Len(queues[u]) : Expired(queues[u][k], now) <=> k <= c
<1> DEFINE q == queues[u]
           T == {k \in 1 .. Len(q) : ~Expired(q[k], now)}
<1>1. /\ Len(q) \in Nat /\ TTL \in Nat /\ NextOut(u) \in Nat
      /\ Len(accepted[u]) \in Nat /\ DOMAIN accepted[u] = 1 .. Len(accepted[u])
      /\ \A i \in 1 .. Len(accepted[u]) : accepted[u][i] \in Nat
  BY QueueTypes, QueueEntries DEF QueuesInv
<1>2. ASSUME NEW k \in 1 .. Len(q), NEW l \in 1 .. Len(q), k <= l, Expired(q[l], now)
      PROVE  Expired(q[k], now)
  <2> DEFINE i == NextOut(u) + k - 1
             j == NextOut(u) + l - 1
  <2>1. /\ i \in 1 .. Len(accepted[u]) /\ j \in 1 .. Len(accepted[u]) /\ i <= j
        /\ q[k].queuedAt = accepted[u][i] /\ q[l].queuedAt = accepted[u][j]
    BY <1>1, <1>2, QueueEntries
  <2> HIDE DEF i, j
  <2>2. accepted[u][i] <= accepted[u][j]
    BY <1>1, <2>1 DEF QueuesInv, Dated
  <2>3. q[k].queuedAt \in Nat /\ q[l].queuedAt \in Nat /\ q[k].queuedAt <= q[l].queuedAt
    BY <1>1, <2>1, <2>2
  <2> QED
    BY <1>1, <1>2, <2>3 DEF Expired
<1>3. CASE T = {}
  <2>1. Len(q) \in 0 .. Len(q) /\ \A k \in 1 .. Len(q) : Expired(q[k], now) /\ k <= Len(q)
    BY <1>1, <1>3
  <2> QED
    BY <2>1
<1>4. CASE T # {}
  <2>1. PICK x \in T : \A y \in T : x <= y
    <3>1. T \in SUBSET Nat
      BY <1>1
    <3> HIDE DEF T
    <3> QED
      BY <1>4, <3>1, Least
  <2>2. x \in 1 .. Len(q) /\ x - 1 \in 0 .. Len(q) /\ ~Expired(q[x], now)
    BY <1>1
  <2>3. \A k \in 1 .. Len(q) : Expired(q[k], now) <=> k <= x - 1
    <3> TAKE k \in 1 .. Len(q)
    <3>1. k <= x - 1 => k \notin T
      <4>1. k \in T => x <= k
        BY <2>1
      <4> QED
        BY <1>1, <2>2, <4>1
    <3>2. x <= k => ~Expired(q[k], now)
      BY <1>2, <2>2
    <3> QED
      BY <1>1, <2>2, <3>1, <3>2
  <2> QED
    BY <2>2, <2>3
<1> QED
  BY <1>3, <1>4

\* What a purge does to one queue: it takes the first c entries, which have
\* been kept for longer than the TTL.
PurgeTakes(u, c) ==
  /\ queues'[u] = SubSeq(queues[u], c + 1, Len(queues[u]))
  /\ purged'[u] = purged[u] \cup NextOut(u) .. NextOut(u) + c - 1
  /\ \A i \in NextOut(u) .. NextOut(u) + c - 1 : clock - accepted[u][i] > TTL

LEMMA PurgeEffect ==
  ASSUME QueuesInv, Purge, NEW u \in User
  PROVE  \E c \in 0 .. Len(queues[u]) : PurgeTakes(u, c)
<1> DEFINE q == queues[u]
<1>1. /\ q \in Seq(QueuedMessage) /\ Len(q) \in Nat /\ DOMAIN q = 1 .. Len(q)
      /\ TTL \in Nat /\ NextOut(u) \in Nat /\ clock \in Nat
      /\ Len(accepted[u]) \in Nat /\ \A i \in 1 .. Len(accepted[u]) : accepted[u][i] \in Nat
  BY QueueTypes, QueueEntries DEF QueuesInv
<1>2. janitor \in Nat /\ janitor <= clock
  BY <1>1 DEF QueuesInv, TypeOK, Purge, NotReading
<1>3. PICK c \in 0 .. Len(q) : \A k \in 1 .. Len(q) : Expired(q[k], janitor) <=> k <= c
  BY <1>2, ExpiredFirst
<1>4. queues'[u] = SubSeq(q, c + 1, Len(q))
  <2>1. Kept(q, janitor) = SubSeq(q, c + 1, Len(q))
    BY <1>1, <1>3, KeptIsRest
  <2> QED
    BY <2>1 DEF Purge, PurgeExpired
<1>5. \A k \in 1 .. Len(q) : q[k].envelope = NextOut(u) + k - 1
                            /\ q[k].queuedAt = accepted[u][NextOut(u) + k - 1]
  BY QueueEntries
<1>6. purged'[u] = purged[u] \cup NextOut(u) .. NextOut(u) + c - 1
  <2>1. purged'[u] = purged[u] \cup {m.envelope : m \in {x \in ToSet(q) : Expired(x, janitor)}}
    BY DEF Purge, PurgeExpired
  <2>2. {m.envelope : m \in {x \in ToSet(q) : Expired(x, janitor)}}
          = {q[k].envelope : k \in 1 .. c}
    BY <1>1, <1>3 DEF ToSet
  <2>3. {q[k].envelope : k \in 1 .. c} = NextOut(u) .. NextOut(u) + c - 1
    <3>1. \A k \in 1 .. c : q[k].envelope = NextOut(u) + k - 1
      BY <1>1, <1>3, <1>5
    <3>2. \A n \in NextOut(u) .. NextOut(u) + c - 1 :
            n - NextOut(u) + 1 \in 1 .. c /\ n = NextOut(u) + (n - NextOut(u) + 1) - 1
      BY <1>1, <1>3
    <3>3. \A k \in 1 .. c : NextOut(u) + k - 1 \in NextOut(u) .. NextOut(u) + c - 1
      BY <1>1, <1>3
    <3>4. {q[k].envelope : k \in 1 .. c} \subseteq NextOut(u) .. NextOut(u) + c - 1
      BY <3>1, <3>3
    <3>5. ASSUME NEW n \in NextOut(u) .. NextOut(u) + c - 1
          PROVE  n \in {q[k].envelope : k \in 1 .. c}
      BY <3>1, <3>2
    <3> QED
      BY <3>4, <3>5
  <2> QED
    BY <2>1, <2>2, <2>3
<1>7. \A i \in NextOut(u) .. NextOut(u) + c - 1 : clock - accepted[u][i] > TTL
  <2> TAKE i \in NextOut(u) .. NextOut(u) + c - 1
  <2>1. i - NextOut(u) + 1 \in 1 .. c /\ i = NextOut(u) + (i - NextOut(u) + 1) - 1
    BY <1>1, <1>3
  <2>2. PICK k \in 1 .. c : i = NextOut(u) + k - 1
    BY <2>1
  <2>3. /\ k \in 1 .. Len(q) /\ Expired(q[k], janitor)
        /\ q[k].queuedAt = accepted[u][i] /\ i \in 1 .. Len(accepted[u])
    <3>1. k \in 1 .. Len(q) /\ k <= c
      BY <1>1, <1>3
    <3> QED
      BY <1>3, <2>2, <3>1, QueueEntries
  <2> QED
    BY <1>1, <1>2, <2>3 DEF Expired
<1> QED
  BY <1>3, <1>4, <1>6, <1>7 DEF PurgeTakes

\* What a poll hands out: all that waits, in order.
LEMMA PollEffect ==
  ASSUME QueuesInv, NEW u \in User, PollMessages(u)
  PROVE  /\ delivered'[u] = delivered[u] \o
              [k \in 1 .. Len(accepted[u]) + 1 - NextOut(u) |-> NextOut(u) + k - 1]
         /\ queues'[u] = <<>>
<1>1. Envelopes(queues[u]) =
        [k \in 1 .. Len(accepted[u]) + 1 - NextOut(u) |-> NextOut(u) + k - 1]
  <2>1. DOMAIN queues[u] = 1 .. Len(accepted[u]) + 1 - NextOut(u)
    BY QueueTypes, QueueEntries DEF QueuesInv
  <2>2. \A k \in 1 .. Len(accepted[u]) + 1 - NextOut(u) :
          queues[u][k].envelope = NextOut(u) + k - 1
    BY QueueEntries
  <2> QED
    BY <2>1, <2>2 DEF Envelopes
<1> QED
  BY <1>1 DEF PollMessages, QueuesInv, TypeOK

\* The queues are empty at first.
LEMMA InitQueues == Init => QueuesInv
<1> SUFFICES ASSUME Init PROVE QueuesInv
  OBVIOUS
<1>1. TypeOK
  BY QueuesAssumption DEF Init, TypeOK, NotReading, QueuesAssumption
<1>2. ASSUME NEW u \in User PROVE Waits(u) /\ Dated(u) /\ Left(u)
  <2>1. queues[u] = <<>> /\ accepted[u] = <<>> /\ delivered[u] = <<>> /\ purged[u] = {}
    BY DEF Init
  <2>2. NextOut(u) = 1
    BY <2>1 DEF NextOut
  <2> QED
    BY <2>1, <2>2 DEF Waits, Dated, Left, ToSet
<1> QED
  BY <1>1, <1>2 DEF QueuesInv

\* Every step keeps the types.
LEMMA QueuesType ==
  ASSUME QueuesInv, [Next]_vars
  PROVE  TypeOK'
<1>0. TypeOK /\ clock \in Nat /\ MaxTime \in Nat
  BY QueuesAssumption DEF QueuesInv, TypeOK, QueuesAssumption
<1>1. CASE Tick
  BY <1>0, <1>1 DEF Tick, TypeOK, NotReading
<1>2. CASE ReadTime
  BY <1>0, <1>2 DEF ReadTime, TypeOK
<1>3. CASE Purge
  <2>1. \A u \in User : queues'[u] \in Seq(QueuedMessage) /\ purged'[u] \in SUBSET Nat
    <3> TAKE u \in User
    <3>1. PICK c \in 0 .. Len(queues[u]) : PurgeTakes(u, c)
      BY <1>3, PurgeEffect
    <3>2. /\ queues[u] \in Seq(QueuedMessage) /\ Len(queues[u]) \in Nat
          /\ purged[u] \in SUBSET Nat /\ NextOut(u) \in Nat
      BY QueueTypes, QueueEntries DEF QueuesInv
    <3>3. queues'[u] \in Seq(QueuedMessage)
      BY <3>1, <3>2, SubSeqProperties DEF PurgeTakes
    <3>4. purged'[u] \in SUBSET Nat
      BY <3>1, <3>2 DEF PurgeTakes
    <3> QED
      BY <3>3, <3>4
  <2>2. queues' = [u \in User |-> queues'[u]] /\ purged' = [u \in User |-> purged'[u]]
    BY <1>3 DEF Purge, PurgeExpired
  <2>3. queues' \in [User -> Seq(QueuedMessage)] /\ purged' \in [User -> SUBSET Nat]
    BY <2>1, <2>2
  <2> QED
    BY <1>0, <1>3, <2>3 DEF Purge, PurgeExpired, TypeOK
<1>4. ASSUME NEW u \in User, PublishIdentity(u) PROVE TypeOK'
  BY <1>0, <1>4 DEF PublishIdentity, TypeOK
<1>5. ASSUME NEW u \in User, SendMessage(u) PROVE TypeOK'
  <2>1. /\ Append(accepted[u], clock) \in Seq(0 .. MaxTime)
        /\ Append(queues[u], [envelope |-> Len(accepted[u]) + 1, queuedAt |-> clock])
             \in Seq(QueuedMessage)
    <3>1. accepted[u] \in Seq(0 .. MaxTime) /\ queues[u] \in Seq(QueuedMessage)
          /\ clock \in 0 .. MaxTime
      BY <1>0 DEF TypeOK
    <3>2. [envelope |-> Len(accepted[u]) + 1, queuedAt |-> clock] \in QueuedMessage
      BY <1>0, <3>1 DEF QueuedMessage
    <3> QED
      BY <3>1, <3>2, AppendProperties
  <2> QED
    BY <1>0, <1>5, <2>1 DEF SendMessage, TypeOK
<1>6. ASSUME NEW u \in User, PollMessages(u) PROVE TypeOK'
  <2>1. delivered'[u] \in Seq(Nat)
    <3>1. NextOut(u) \in 1 .. Len(accepted[u]) + 1 /\ Len(accepted[u]) \in Nat
          /\ delivered[u] \in Seq(Nat)
      BY <1>0, QueueTypes, QueueEntries
    <3>2. [k \in 1 .. Len(accepted[u]) + 1 - NextOut(u) |-> NextOut(u) + k - 1] \in Seq(Nat)
      <4> DEFINE n == Len(accepted[u]) + 1 - NextOut(u)
                 f == NextOut(u)
      <4>1. n \in Nat /\ f \in Nat /\ \A k \in 1 .. n : f + k - 1 \in Nat
        BY <3>1
      <4> HIDE DEF n, f
      <4>2. [k \in 1 .. n |-> f + k - 1] \in [1 .. n -> Nat]
        BY <4>1
      <4>3. [k \in 1 .. n |-> f + k - 1] \in Seq(Nat)
        BY <4>1, <4>2, IsASeq
      <4> QED
        BY <4>3 DEF n, f
    <3> QED
      BY <1>6, <3>1, <3>2, PollEffect, ConcatProperties
  <2>2. delivered' \in [User -> Seq(Nat)]
    BY <1>0, <1>6, <2>1 DEF PollMessages, TypeOK
  <2> QED
    BY <1>0, <1>6, <2>2 DEF PollMessages, TypeOK
<1>7. CASE UNCHANGED vars
  BY <1>0, <1>7 DEF vars, TypeOK
<1> QED
  BY <1>1, <1>2, <1>3, <1>4, <1>5, <1>6, <1>7 DEF Next

\* A queue nobody touches is as it was.
LEMMA QueueStays ==
  ASSUME QueuesInv, NEW u \in User, TypeOK', clock <= clock',
         queues'[u] = queues[u], accepted'[u] = accepted[u],
         delivered'[u] = delivered[u], purged'[u] = purged[u]
  PROVE  Waits(u)' /\ Dated(u)' /\ Left(u)'
<1>1. Waits(u) /\ Dated(u) /\ Left(u) /\ TypeOK
  BY DEF QueuesInv
<1>2. NextOut(u)' = NextOut(u)
  BY DEF NextOut
<1>3. Waits(u)' /\ Left(u)'
  BY <1>1, <1>2 DEF Waits, Left
<1>4. Dated(u)'
  <2>1. clock \in Nat /\ clock' \in Nat
    BY <1>1, QueuesAssumption DEF TypeOK, QueuesAssumption
  <2>2. \A i \in DOMAIN accepted[u] : accepted[u][i] \in Nat
    BY <1>1, QueueTypes
  <2> QED
    BY <1>1, <2>1, <2>2 DEF Dated
<1> QED
  BY <1>3, <1>4

\* An envelope that is accepted waits behind the others.
LEMMA SendKeeps ==
  ASSUME QueuesInv, NEW u \in User, SendMessage(u)
  PROVE  Waits(u)' /\ Dated(u)' /\ Left(u)'
<1> DEFINE a == accepted[u]
           q == queues[u]
           N == Len(a)
           M == Len(q)
           e == [envelope |-> N + 1, queuedAt |-> clock]
<1>1. /\ a \in Seq(0 .. MaxTime) /\ q \in Seq(QueuedMessage) /\ clock \in Nat
      /\ N \in Nat /\ DOMAIN a = 1 .. N /\ M \in Nat /\ DOMAIN q = 1 .. M
      /\ \A i \in 1 .. N : a[i] \in Nat
  BY QueueTypes DEF QueuesInv
<1>2. /\ NextOut(u) \in 1 .. N + 1 /\ M = N + 1 - NextOut(u)
      /\ Waits(u) /\ Dated(u) /\ Left(u)
  BY QueueEntries DEF QueuesInv
<1>3. /\ accepted'[u] = Append(a, clock) /\ queues'[u] = Append(q, e)
      /\ delivered'[u] = delivered[u] /\ purged'[u] = purged[u] /\ clock' = clock
  BY DEF SendMessage, QueuesInv, TypeOK
<1>4. /\ Len(accepted'[u]) = N + 1 /\ DOMAIN accepted'[u] = 1 .. N + 1
      /\ accepted'[u][N + 1] = clock /\ \A i \in 1 .. N : accepted'[u][i] = a[i]
  BY <1>1, <1>3, AppendProperties
<1>5. /\ Len(queues'[u]) = M + 1 /\ DOMAIN queues'[u] = 1 .. M + 1
      /\ queues'[u][M + 1] = e /\ \A k \in 1 .. M : queues'[u][k] = q[k]
  BY <1>1, <1>3, AppendProperties
<1>6. NextOut(u)' = NextOut(u)
  <2>1. NextOut(u)' = Len(accepted'[u]) + 1 - Len(queues'[u]) /\ NextOut(u) \in Nat
    BY <1>1, <1>2 DEF NextOut
  <2>2. /\ N \in Nat /\ M \in Nat /\ M = N + 1 - NextOut(u)
        /\ Len(accepted'[u]) = N + 1 /\ Len(queues'[u]) = M + 1
    BY <1>1, <1>2, <1>4, <1>5
  <2> HIDE DEF M, N
  <2> QED
    BY <2>1, <2>2
<1>7. Left(u)'
  BY <1>2, <1>3, <1>6 DEF Left
<1>8. Dated(u)'
  BY <1>1, <1>2, <1>3, <1>4 DEF Dated
<1>9. Waits(u)'
  <2>1. ASSUME NEW k \in 1 .. M + 1
        PROVE  queues'[u][k] = [envelope |-> NextOut(u) + k - 1,
                                queuedAt |-> accepted'[u][NextOut(u) + k - 1]]
    <3>1. CASE k = M + 1
      <4>1. NextOut(u) + k - 1 = N + 1
        BY <1>1, <1>2, <3>1
      <4> QED
        BY <1>4, <1>5, <3>1, <4>1
    <3>2. CASE k \in 1 .. M
      <4>1. NextOut(u) + k - 1 \in 1 .. N
        BY <1>1, <1>2, <3>2
      <4>2. q[k] = [envelope |-> NextOut(u) + k - 1, queuedAt |-> a[NextOut(u) + k - 1]]
        BY <1>1, <1>2, <3>2 DEF Waits
      <4> QED
        BY <1>4, <1>5, <3>2, <4>1, <4>2
    <3> QED
      BY <1>1, <3>1, <3>2
  <2>2. Len(queues'[u]) <= Len(accepted'[u])
    BY <1>1, <1>2, <1>4, <1>5
  <2> QED
    BY <1>5, <1>6, <2>1, <2>2 DEF Waits
<1> QED
  BY <1>7, <1>8, <1>9

\* After a poll all that was accepted has left.
LEMMA PollKeeps ==
  ASSUME QueuesInv, NEW u \in User, PollMessages(u)
  PROVE  Waits(u)' /\ Dated(u)' /\ Left(u)'
<1> DEFINE d == delivered[u]
           N == Len(accepted[u])
           f == NextOut(u)
           L == Len(d)
           n == N + 1 - f
           b == [k \in 1 .. n |-> f + k - 1]
<1>1. /\ d \in Seq(Nat) /\ L \in Nat /\ DOMAIN d = 1 .. L /\ N \in Nat
      /\ f \in 1 .. N + 1 /\ \A k \in 1 .. L : d[k] \in Nat
      /\ Waits(u) /\ Dated(u) /\ Left(u)
  BY QueueTypes, QueueEntries DEF QueuesInv
<1>2. /\ accepted'[u] = accepted[u] /\ queues'[u] = <<>> /\ delivered'[u] = d \o b
      /\ purged'[u] = purged[u] /\ clock' = clock
  BY PollEffect DEF PollMessages
<1>3. NextOut(u)' = N + 1
  BY <1>1, <1>2 DEF NextOut
<1>4. Waits(u)' /\ Dated(u)'
  BY <1>1, <1>2 DEF Waits, Dated
<1>5. /\ DOMAIN delivered'[u] = 1 .. L + n /\ n \in Nat /\ n = N + 1 - f
      /\ \A k \in 1 .. L : delivered'[u][k] = d[k]
      /\ \A k \in 1 .. n : delivered'[u][L + k] = f + k - 1
  <2>1. n \in Nat /\ b \in Seq(Nat) /\ Len(b) = n /\ \A k \in 1 .. n : b[k] = f + k - 1
    <3>1. n \in Nat /\ f \in Nat /\ \A k \in 1 .. n : f + k - 1 \in Nat
      BY <1>1
    <3> HIDE DEF n, f
    <3> QED
      BY <3>1
  <2>2. n = N + 1 - f
    OBVIOUS
  <2> HIDE DEF b, n, f, L
  <2>3. delivered'[u] = d \o b /\ d \in Seq(Nat) /\ Len(d) = L /\ L \in Nat
    BY <1>1, <1>2 DEF L
  <2>4. /\ DOMAIN delivered'[u] = 1 .. L + n
        /\ \A k \in 1 .. L + n : delivered'[u][k] = IF k <= L THEN d[k] ELSE b[k - L]
    <3>1. /\ d \o b \in Seq(Nat) /\ Len(d \o b) = Len(d) + Len(b)
          /\ \A k \in 1 .. Len(d) + Len(b) :
               (d \o b)[k] = IF k <= Len(d) THEN d[k] ELSE b[k - Len(d)]
      BY <2>1, <2>3, ConcatProperties
    <3> HIDE DEF d
    <3> QED
      BY <2>1, <2>3, <3>1
  <2>5. \A k \in 1 .. L : k \in 1 .. L + n /\ k <= L
    BY <2>1, <2>3
  <2>6. \A k \in 1 .. n : L + k \in 1 .. L + n /\ ~(L + k <= L) /\ (L + k) - L = k
    BY <2>1, <2>3
  <2> QED
    BY <2>1, <2>2, <2>4, <2>5, <2>6
<1> HIDE DEF b, n
<1>6. \A k \in L + 1 .. L + n : delivered'[u][k] = f + (k - L) - 1
  <2> TAKE k \in L + 1 .. L + n
  <2>1. k - L \in 1 .. n /\ L + (k - L) = k
    BY <1>1, <1>5
  <2> QED
    BY <1>5, <2>1
<1>7. \A k \in 1 .. L + n : k \in 1 .. L \/ k \in L + 1 .. L + n
  BY <1>1, <1>5
<1>8. ToSet(delivered'[u]) = ToSet(d) \cup f .. N
  <2>1. ToSet(delivered'[u]) \subseteq ToSet(d) \cup f .. N
    <3> SUFFICES ASSUME NEW k \in 1 .. L + n PROVE delivered'[u][k] \in ToSet(d) \cup f .. N
      BY <1>5 DEF ToSet
    <3>1. CASE k \in 1 .. L
      BY <1>1, <1>5, <3>1 DEF ToSet
    <3>2. CASE k \in L + 1 .. L + n
      <4>1. f + (k - L) - 1 \in f .. N
        <5> HIDE DEF f, N, L
        <5> QED
          BY <1>1, <1>5, <3>2
      <4> QED
        BY <1>6, <3>2, <4>1
    <3> QED
      BY <1>7, <3>1, <3>2
  <2>2. ToSet(d) \subseteq ToSet(delivered'[u])
    <3> SUFFICES ASSUME NEW k \in 1 .. L PROVE d[k] \in ToSet(delivered'[u])
      BY <1>1 DEF ToSet
    <3>1. k \in 1 .. L + n
      BY <1>1, <1>5
    <3> QED
      BY <1>5, <3>1 DEF ToSet
  <2>3. ASSUME NEW i \in f .. N PROVE i \in ToSet(delivered'[u])
    <3>1. PICK j \in 1 .. n : L + j \in 1 .. L + n /\ f + j - 1 = i
      <4> HIDE DEF f, N, L
      <4>1. i - f + 1 \in 1 .. n /\ L + (i - f + 1) \in 1 .. L + n /\ f + (i - f + 1) - 1 = i
        BY <1>1, <1>5
      <4> QED
        BY <4>1
    <3>2. delivered'[u][L + j] = i
      BY <1>5, <3>1
    <3> QED
      BY <1>5, <3>1, <3>2 DEF ToSet
  <2> QED
    BY <2>1, <2>2, <2>3
<1>9. 1 .. f - 1 = ToSet(d) \cup purged[u] /\ ToSet(d) \cap purged[u] = {}
  BY <1>1 DEF Left
<1>10. \A k, l \in 1 .. L + n : k < l => delivered'[u][k] < delivered'[u][l]
  <2> SUFFICES ASSUME NEW k \in 1 .. L + n, NEW l \in 1 .. L + n, k < l
               PROVE  delivered'[u][k] < delivered'[u][l]
    OBVIOUS
  <2>1. \A i \in 1 .. L : d[i] \in 1 .. f - 1
    BY <1>1, <1>9 DEF ToSet
  <2>2. CASE l \in 1 .. L
    <3>1. k \in 1 .. L
      BY <1>1, <2>2
    <3>2. d[k] < d[l]
      BY <1>1, <2>2, <3>1 DEF Left
    <3> QED
      BY <1>5, <2>2, <3>1, <3>2
  <2>3. CASE l \in L + 1 .. L + n /\ k \in 1 .. L
    <3>1. delivered'[u][k] \in 1 .. f - 1 /\ delivered'[u][l] = f + (l - L) - 1
      BY <1>5, <1>6, <2>1, <2>3
    <3>2. f \in Nat /\ L \in Nat /\ l \in L + 1 .. L + n /\ n \in Nat
      BY <1>1, <1>5, <2>3
    <3>3. /\ f \in Nat /\ delivered'[u][k] \in Nat /\ delivered'[u][l] \in Nat
          /\ delivered'[u][k] < f /\ f <= delivered'[u][l]
      <4> HIDE DEF f, L
      <4>1. f \in Nat /\ f + (l - L) - 1 \in Nat /\ f <= f + (l - L) - 1
        BY <3>2
      <4>2. \A i \in 1 .. f - 1 : i \in Nat /\ i < f
        BY <4>1
      <4> QED
        BY <3>1, <4>1, <4>2
    <3> HIDE DEF f
    <3> QED
      BY <3>3
  <2>4. CASE l \in L + 1 .. L + n /\ k \in L + 1 .. L + n
    <3>1. delivered'[u][k] = f + (k - L) - 1 /\ delivered'[u][l] = f + (l - L) - 1
      BY <1>6, <2>4
    <3>2. f \in Nat /\ L \in Nat /\ k \in Nat /\ l \in Nat
      BY <1>1, <1>5
    <3> HIDE DEF f, L
    <3> QED
      BY <3>1, <3>2
  <2>5. ~(l \in 1 .. L /\ k \in L + 1 .. L + n)
    BY <1>1
  <2> QED
    BY <1>7, <2>2, <2>3, <2>4, <2>5
<1>11. Left(u)'
  <2>1. 1 .. N = ToSet(delivered'[u]) \cup purged[u] /\ ToSet(delivered'[u]) \cap purged[u] = {}
    <3>1. 1 .. N = (1 .. f - 1) \cup (f .. N) /\ (1 .. f - 1) \cap (f .. N) = {}
      BY <1>1
    <3> QED
      BY <1>8, <1>9, <3>1
  <2>2. NextOut(u)' - 1 = N
    BY <1>1, <1>3
  <2> QED
    BY <1>2, <1>5, <1>10, <2>1, <2>2 DEF Left
<1> QED
  BY <1>4, <1>11

\* After a purge the rest waits.
LEMMA PurgeKeeps ==
  ASSUME QueuesInv, Purge, NEW u \in User
  PROVE  /\ Waits(u)' /\ Dated(u)' /\ Left(u)'
         /\ NextOut(u)' \in Nat
         /\ NextOut(u) <= NextOut(u)' /\ NextOut(u)' <= Len(accepted[u]) + 1
<1> DEFINE q == queues[u]
           N == Len(accepted[u])
           f == NextOut(u)
           M == Len(q)
<1>1. /\ q \in Seq(QueuedMessage) /\ M \in Nat /\ DOMAIN q = 1 .. M /\ N \in Nat
      /\ f \in 1 .. N + 1 /\ M = N + 1 - f
      /\ Waits(u) /\ Dated(u) /\ Left(u)
  BY QueueTypes, QueueEntries DEF QueuesInv
<1>2. PICK c \in 0 .. M : PurgeTakes(u, c)
  BY PurgeEffect
<1>3. /\ accepted'[u] = accepted[u] /\ delivered'[u] = delivered[u] /\ clock' = clock
      /\ queues'[u] = SubSeq(q, c + 1, M) /\ purged'[u] = purged[u] \cup f .. f + c - 1
  BY <1>2 DEF Purge, PurgeExpired, PurgeTakes
<1>4. /\ Len(queues'[u]) = M - c /\ DOMAIN queues'[u] = 1 .. M - c
      /\ \A k \in 1 .. M - c : queues'[u][k] = q[c + k]
  BY <1>1, <1>2, <1>3
<1>5. NextOut(u)' = f + c
  <2>1. NextOut(u)' = N + 1 - Len(queues'[u])
    BY <1>3 DEF NextOut
  <2> HIDE DEF M, N, f
  <2> QED
    BY <1>1, <1>2, <1>4, <2>1
<1>6. Dated(u)'
  BY <1>1, <1>3 DEF Dated
<1>7. Waits(u)'
  <2>1. ASSUME NEW k \in 1 .. M - c
        PROVE  queues'[u][k] = [envelope |-> NextOut(u)' + k - 1,
                                queuedAt |-> accepted[u][NextOut(u)' + k - 1]]
    <3>1. c + k \in 1 .. M /\ f + (c + k) - 1 = NextOut(u)' + k - 1
      BY <1>1, <1>2, <1>5
    <3>2. q[c + k] = [envelope |-> f + (c + k) - 1, queuedAt |-> accepted[u][f + (c + k) - 1]]
      BY <1>1, <3>1 DEF Waits
    <3> QED
      BY <1>4, <3>1, <3>2
  <2>2. Len(queues'[u]) <= Len(accepted[u])
    BY <1>1, <1>2, <1>4
  <2> QED
    BY <1>3, <1>4, <2>1, <2>2 DEF Waits
<1>8. Left(u)'
  <2>1. 1 .. (f + c) - 1 = (1 .. f - 1) \cup (f .. f + c - 1)
        /\ (1 .. f - 1) \cap (f .. f + c - 1) = {}
    BY <1>1, <1>2
  <2>2. 1 .. f - 1 = ToSet(delivered[u]) \cup purged[u] /\ ToSet(delivered[u]) \cap purged[u] = {}
    BY <1>1 DEF Left
  <2>3. 1 .. NextOut(u)' - 1 = ToSet(delivered'[u]) \cup purged'[u]
        /\ ToSet(delivered'[u]) \cap purged'[u] = {}
    BY <1>3, <1>5, <2>1, <2>2
  <2>4. \A k, l \in DOMAIN delivered'[u] : k < l => delivered'[u][k] < delivered'[u][l]
    BY <1>1, <1>3 DEF Left
  <2> QED
    BY <2>3, <2>4 DEF Left
<1>9. NextOut(u)' \in Nat /\ f <= NextOut(u)' /\ NextOut(u)' <= N + 1
  BY <1>1, <1>2, <1>5
<1> QED
  BY <1>6, <1>7, <1>8, <1>9

\* Every step keeps the invariant.
LEMMA QueuesStep ==
  ASSUME QueuesInv, [Next]_vars
  PROVE  QueuesInv'
<1>0. TypeOK' /\ TypeOK
  BY QueuesType DEF QueuesInv
<1>1. ASSUME UNCHANGED <<queues, accepted, delivered, purged>>, clock <= clock'
      PROVE  QueuesInv'
  BY <1>0, <1>1, QueueStays DEF QueuesInv
<1>2. CASE Tick \/ ReadTime \/ (\E u \in User : PublishIdentity(u)) \/ UNCHANGED vars
  <2>1. clock \in Nat
    BY <1>0, QueuesAssumption DEF TypeOK, QueuesAssumption
  <2>2. UNCHANGED <<queues, accepted, delivered, purged>> /\ clock' \in {clock, clock + 1}
    BY <1>2 DEF Tick, ReadTime, PublishIdentity, vars
  <2> QED
    BY <1>1, <2>1, <2>2
<1>3. CASE Purge
  BY <1>0, <1>3, PurgeKeeps DEF QueuesInv
<1>4. ASSUME NEW u \in User, SendMessage(u) \/ PollMessages(u)
      PROVE  QueuesInv'
  <2>1. ASSUME NEW v \in User, v # u PROVE Waits(v)' /\ Dated(v)' /\ Left(v)'
    <3>1. /\ queues'[v] = queues[v] /\ accepted'[v] = accepted[v]
          /\ delivered'[v] = delivered[v] /\ purged'[v] = purged[v] /\ clock' = clock
      BY <1>0, <1>4, <2>1 DEF SendMessage, PollMessages, TypeOK
    <3>2. clock <= clock'
      BY <1>0, <3>1, QueuesAssumption DEF TypeOK, QueuesAssumption
    <3> QED
      BY <1>0, <3>1, <3>2, QueueStays
  <2>2. Waits(u)' /\ Dated(u)' /\ Left(u)'
    BY <1>4, SendKeeps, PollKeeps
  <2> QED
    BY <1>0, <2>1, <2>2 DEF QueuesInv
<1> QED
  BY <1>2, <1>3, <1>4 DEF Next

\* The invariant of the queues holds in every reachable state.
THEOREM QueuesInvariance == Spec => []QueuesInv
BY InitQueues, QueuesStep, PTL DEF Spec

\* The queues implement the mailboxes: envelopes leave in the order in which
\* they came, none is handed out twice or after it was purged, and a purge cuts
\* each queue at the front.
THEOREM ImplementsMailbox == Spec => MailboxKept
<1> DEFINE count == [u \in User |-> Len(accepted[u])]
           head == [u \in User |-> NextOut(u)]
<1>1. Init => Promise!Init
  BY DEF Init, Promise!Init
<1>2. QueuesInv /\ QueuesInv' /\ [Next]_vars => [Promise!Next]_(Promise!vars)
  <2> SUFFICES ASSUME QueuesInv, QueuesInv', [Next]_vars
               PROVE  [Promise!Next]_(Promise!vars)
    OBVIOUS
  <2>1. CASE Tick \/ ReadTime \/ (\E u \in User : PublishIdentity(u)) \/ UNCHANGED vars
    BY <2>1 DEF Tick, ReadTime, PublishIdentity, vars, Promise!vars
  <2>2. ASSUME NEW u \in User, SendMessage(u)
        PROVE  Promise!Accept(u)
    <3>1. /\ Len(accepted'[u]) = Len(accepted[u]) + 1 /\ NextOut(u)' = NextOut(u)
          /\ \A v \in User \ {u} : accepted'[v] = accepted[v] /\ queues'[v] = queues[v]
          /\ delivered' = delivered
      <4>1. /\ accepted'[u] = Append(accepted[u], clock)
            /\ queues'[u] =
                 Append(queues[u], [envelope |-> Len(accepted[u]) + 1, queuedAt |-> clock])
            /\ \A v \in User \ {u} : accepted'[v] = accepted[v] /\ queues'[v] = queues[v]
            /\ delivered' = delivered
        BY <2>2 DEF SendMessage, QueuesInv, TypeOK
      <4>2. /\ accepted[u] \in Seq(0 .. MaxTime) /\ Len(accepted[u]) \in Nat
            /\ queues[u] \in Seq(QueuedMessage) /\ Len(queues[u]) \in Nat
        BY QueueTypes DEF QueuesInv
      <4>3. Len(accepted'[u]) = Len(accepted[u]) + 1 /\ Len(queues'[u]) = Len(queues[u]) + 1
        BY <4>1, <4>2
      <4>4. NextOut(u)' = NextOut(u)
        <5>1. /\ NextOut(u)' = Len(accepted'[u]) + 1 - Len(queues'[u])
              /\ NextOut(u) = Len(accepted[u]) + 1 - Len(queues[u])
          BY DEF NextOut
        <5>2. \A x, y \in Nat : (x + 1) + 1 - (y + 1) = x + 1 - y
          OBVIOUS
        <5> QED
          BY <4>2, <4>3, <5>1, <5>2, Zenon
      <4> QED
        BY <4>1, <4>3, <4>4
    <3>2. count' = [count EXCEPT ![u] = @ + 1] /\ head' = head
      BY <3>1 DEF NextOut
    <3> QED
      BY <3>1, <3>2 DEF Promise!Accept, NextOut
  <2>3. ASSUME NEW u \in User, PollMessages(u)
        PROVE  Promise!Collect(u)
    <3>1. /\ NextOut(u) <= Len(accepted[u]) /\ NextOut(u)' = Len(accepted[u]) + 1
          /\ accepted' = accepted
          /\ \A v \in User \ {u} : queues'[v] = queues[v]
      <4>1. /\ queues[u] # <<>> /\ queues'[u] = <<>> /\ accepted' = accepted
            /\ \A v \in User \ {u} : queues'[v] = queues[v]
        BY <2>3 DEF PollMessages, QueuesInv, TypeOK
      <4>2. /\ queues[u] \in Seq(QueuedMessage) /\ Len(queues[u]) \in Nat
            /\ Len(accepted[u]) \in Nat /\ NextOut(u) \in Nat
            /\ Len(queues[u]) = Len(accepted[u]) + 1 - NextOut(u)
        BY QueueTypes, QueueEntries DEF QueuesInv
      <4>3. Len(queues[u]) # 0
        BY <4>1, <4>2
      <4> QED
        BY <4>1, <4>2, <4>3 DEF NextOut
    <3>2. delivered' = [delivered EXCEPT ![u] = @ \o
            [k \in 1 .. Len(accepted[u]) + 1 - NextOut(u) |-> NextOut(u) + k - 1]]
      <4>1. delivered' = [delivered EXCEPT ![u] = delivered'[u]]
        BY <2>3 DEF PollMessages, QueuesInv, TypeOK
      <4> QED
        BY <2>3, <4>1, PollEffect
    <3>3. head' = [head EXCEPT ![u] = Len(accepted[u]) + 1] /\ count' = count
      BY <3>1 DEF NextOut
    <3> QED
      BY <3>1, <3>2, <3>3 DEF Promise!Collect, NextOut
  <2>4. ASSUME Purge PROVE Promise!Expire
    <3>1. accepted' = accepted /\ delivered' = delivered
      BY <2>4 DEF Purge, PurgeExpired
    <3>2. \A u \in User : /\ NextOut(u)' \in Nat /\ NextOut(u) <= NextOut(u)'
                          /\ NextOut(u)' <= Len(accepted[u]) + 1
      BY <2>4, PurgeKeeps
    <3> QED
      BY <3>1, <3>2 DEF Promise!Expire, NextOut
  <2>5. \/ Tick \/ ReadTime \/ (\E u \in User : PublishIdentity(u)) \/ UNCHANGED vars
        \/ Purge \/ \E u \in User : SendMessage(u) \/ PollMessages(u)
    BY DEF Next
  <2>6. Purge \/ (\E u \in User : SendMessage(u) \/ PollMessages(u)) => Promise!Next
    BY <2>2, <2>3, <2>4, Zenon DEF Promise!Next
  <2> QED
    BY <2>1, <2>5, <2>6
<1> QED
  BY <1>1, <1>2, QueuesInvariance, PTL DEF Spec, MailboxKept, Promise!Spec

\* Nothing is purged before its time, although the janitor's time of day may be
\* behind the clock.
THEOREM PurgedInTime == Spec => PurgedOnlyExpired
<1>1. QueuesInv /\ [Next]_vars =>
        [\A u \in User : \A n \in purged'[u] \ purged[u] : clock - accepted[u][n] > TTL]_vars
  <2> SUFFICES ASSUME QueuesInv, Next, NEW u \in User, NEW n \in purged'[u] \ purged[u]
               PROVE  clock - accepted[u][n] > TTL
    OBVIOUS
  <2>1. CASE Purge
    <3>1. PICK c \in 0 .. Len(queues[u]) : PurgeTakes(u, c)
      BY <2>1, PurgeEffect
    <3> QED
      BY <3>1 DEF PurgeTakes
  <2>2. ~Purge => purged' = purged
    BY DEF Next, Tick, ReadTime, PublishIdentity, SendMessage, PollMessages
  <2> QED
    BY <2>1, <2>2
<1> QED
  BY <1>1, QueuesInvariance, PTL DEF Spec, PurgedOnlyExpired

-----------------------------------------------------------------------------
(* The two ends, over the relay as a network that keeps the order.         *)

S == INSTANCE RatchetSyncProofs WITH
  wire <- InFlight, Faults <- {"loss"}, MaxDups <- 0, dups <- 0

\* What the two ends assume of their constants holds.
LEMMA EndsAssumption == S!RatchetAssumption
BY ConversationAssumption, QueuesAssumption
   DEF S!RatchetAssumption, ConversationAssumption, QueuesAssumption

LEMMA Users ==
  /\ S!Party = User
  /\ \A p, q \in User : /\ S!Peer(p) \in User /\ S!Peer(p) # p /\ S!Peer(S!Peer(p)) = p
                        /\ q = p \/ q = S!Peer(p)
                        /\ Ends!Peer(p) = S!Peer(p) /\ Peer(p) = S!Peer(p)
<1>1. S!Party = User
  BY ConversationAssumption DEF ConversationAssumption, S!Party
<1>2. \A p \in User : Ends!Peer(p) = S!Peer(p) /\ Peer(p) = S!Peer(p)
  BY DEF Ends!Peer, S!Peer, Peer
<1> QED
  BY <1>1, <1>2, EndsAssumption, S!Parties

\* The words of a step mean the same at the ends, over the ordered network and
\* in the sessions.
LEMMA SecretsAlike ==
  /\ S!Party = Ends!Party /\ Session!Party = Ends!Party
  /\ S!NoSecret = Ends!NoSecret /\ Session!NoSecret = Ends!NoSecret
  /\ \A p : S!Peer(p) = Ends!Peer(p) /\ Session!Peer(p) = Ends!Peer(p)
  /\ \A p, x, y : /\ S!DH(p, x, y) = Ends!DH(p, x, y)
                  /\ Session!DH(p, x, y) = Ends!DH(p, x, y)
  /\ \A x, y : /\ S!KEMSecret(x, y) = Ends!KEMSecret(x, y)
               /\ Session!KEMSecret(x, y) = Ends!KEMSecret(x, y)
  /\ \A r, d, k : /\ S!RootKDF(r, d, k) = Ends!RootKDF(r, d, k)
                  /\ Session!RootKDF(r, d, k) = Ends!RootKDF(r, d, k)
<1>1. S!Party = Ends!Party /\ Session!Party = Ends!Party
  BY DEF S!Party, Session!Party, Ends!Party
<1>2. S!NoSecret = Ends!NoSecret /\ Session!NoSecret = Ends!NoSecret
  BY DEF S!NoSecret, Session!NoSecret, Ends!NoSecret
<1>3. \A p : S!Peer(p) = Ends!Peer(p) /\ Session!Peer(p) = Ends!Peer(p)
  BY DEF S!Peer, Session!Peer, Ends!Peer
<1>4. \A p, x, y : /\ S!DH(p, x, y) = Ends!DH(p, x, y)
                   /\ Session!DH(p, x, y) = Ends!DH(p, x, y)
  BY <1>1 DEF S!DH, Session!DH, Ends!DH
<1>5. \A x, y : /\ S!KEMSecret(x, y) = Ends!KEMSecret(x, y)
                /\ Session!KEMSecret(x, y) = Ends!KEMSecret(x, y)
  BY DEF S!KEMSecret, Session!KEMSecret, Ends!KEMSecret
<1>6. \A r, d, k : /\ S!RootKDF(r, d, k) = Ends!RootKDF(r, d, k)
                   /\ Session!RootKDF(r, d, k) = Ends!RootKDF(r, d, k)
  BY DEF S!RootKDF, Session!RootKDF, Ends!RootKDF
<1> QED
  BY <1>1, <1>2, <1>3, <1>4, <1>5, <1>6

LEMMA ChainsAlike ==
  /\ \A s : S!AnswerSecret(s) = Ends!AnswerSecret(s) /\ Session!AnswerSecret(s) = Ends!AnswerSecret(s)
  /\ \A s : S!StepSending(s) = Ends!StepSending(s) /\ Session!StepSending(s) = Ends!StepSending(s)
  /\ \A s, l : /\ S!InjectionDue(s, l) = Ends!InjectionDue(s, l)
               /\ Session!InjectionDue(s, l) = Ends!InjectionDue(s, l)
  /\ \A p, s, j : /\ S!NewSendingChain(p, s, j) = Ends!NewSendingChain(p, s, j)
                  /\ Session!NewSendingChain(p, s, j) = Ends!NewSendingChain(p, s, j)
  /\ \A s, n : /\ S!SkipTooFar(s, n) = Ends!SkipTooFar(s, n)
               /\ Session!SkipTooFar(s, n) = Ends!SkipTooFar(s, n)
  /\ \A s, n : S!SkipTo(s, n) = Ends!SkipTo(s, n) /\ Session!SkipTo(s, n) = Ends!SkipTo(s, n)
  /\ \A s, m : S!Stored(s, m) = Ends!Stored(s, m) /\ Session!Stored(s, m) = Ends!Stored(s, m)
  /\ \A s, m : /\ S!UnexpectedCT(s, m) = Ends!UnexpectedCT(s, m)
               /\ Session!UnexpectedCT(s, m) = Ends!UnexpectedCT(s, m)
  /\ \A p, s, m : /\ S!RatchetStep(p, s, m) = Ends!RatchetStep(p, s, m)
                  /\ Session!RatchetStep(p, s, m) = Ends!RatchetStep(p, s, m)
<1>1. \A s : /\ S!AnswerSecret(s) = Ends!AnswerSecret(s)
             /\ Session!AnswerSecret(s) = Ends!AnswerSecret(s)
  BY SecretsAlike DEF S!AnswerSecret, Session!AnswerSecret, Ends!AnswerSecret
<1>2. \A s : /\ S!StepSending(s) = Ends!StepSending(s)
             /\ Session!StepSending(s) = Ends!StepSending(s)
  BY DEF S!StepSending, Session!StepSending, Ends!StepSending
<1>3. \A s, l : /\ S!InjectionDue(s, l) = Ends!InjectionDue(s, l)
                /\ Session!InjectionDue(s, l) = Ends!InjectionDue(s, l)
  BY DEF S!InjectionDue, Session!InjectionDue, Ends!InjectionDue
<1>4. \A p, s, j : /\ S!NewSendingChain(p, s, j) = Ends!NewSendingChain(p, s, j)
                   /\ Session!NewSendingChain(p, s, j) = Ends!NewSendingChain(p, s, j)
  <2> SUFFICES ASSUME NEW p, NEW s, NEW j
               PROVE  /\ S!NewSendingChain(p, s, j) = Ends!NewSendingChain(p, s, j)
                      /\ Session!NewSendingChain(p, s, j) = Ends!NewSendingChain(p, s, j)
    OBVIOUS
  <2> DEFINE r == Ends!RootKDF(s.root, Ends!DH(p, s.dhSelf + 1, s.dhRemote), Ends!AnswerSecret(s))
  <2>1. /\ S!RootKDF(s.root, S!DH(p, s.dhSelf + 1, s.dhRemote), S!AnswerSecret(s)) = r
        /\ Session!RootKDF(s.root, Session!DH(p, s.dhSelf + 1, s.dhRemote),
                           Session!AnswerSecret(s)) = r
    BY SecretsAlike, <1>1
  <2> QED
    BY <2>1, Zenon DEF S!NewSendingChain, Session!NewSendingChain, Ends!NewSendingChain
<1>5. \A s, n : /\ S!SkipTooFar(s, n) = Ends!SkipTooFar(s, n)
                /\ Session!SkipTooFar(s, n) = Ends!SkipTooFar(s, n)
  BY DEF S!SkipTooFar, Session!SkipTooFar, Ends!SkipTooFar
<1>6. \A s, n : S!SkipTo(s, n) = Ends!SkipTo(s, n) /\ Session!SkipTo(s, n) = Ends!SkipTo(s, n)
  <2>1. \A s, n : /\ S!SkippedNumbers(s, n) = Ends!SkippedNumbers(s, n)
                  /\ Session!SkippedNumbers(s, n) = Ends!SkippedNumbers(s, n)
    BY DEF S!SkippedNumbers, Session!SkippedNumbers, Ends!SkippedNumbers
  <2> QED
    BY <2>1 DEF S!SkipTo, Session!SkipTo, Ends!SkipTo
<1>7. \A s, m : S!Stored(s, m) = Ends!Stored(s, m) /\ Session!Stored(s, m) = Ends!Stored(s, m)
  BY DEF S!Stored, Session!Stored, Ends!Stored
<1>8. \A s, m : /\ S!UnexpectedCT(s, m) = Ends!UnexpectedCT(s, m)
                /\ Session!UnexpectedCT(s, m) = Ends!UnexpectedCT(s, m)
  BY DEF S!UnexpectedCT, Session!UnexpectedCT, Ends!UnexpectedCT
<1>9. \A p, s, m : /\ S!RatchetStep(p, s, m) = Ends!RatchetStep(p, s, m)
                   /\ Session!RatchetStep(p, s, m) = Ends!RatchetStep(p, s, m)
  <2>1. \A s, m : /\ S!ReceivedSecret(s, m) = Ends!ReceivedSecret(s, m)
                  /\ Session!ReceivedSecret(s, m) = Ends!ReceivedSecret(s, m)
    BY SecretsAlike DEF S!ReceivedSecret, Session!ReceivedSecret, Ends!ReceivedSecret
  <2> SUFFICES ASSUME NEW p, NEW s, NEW m
               PROVE  /\ S!RatchetStep(p, s, m) = Ends!RatchetStep(p, s, m)
                      /\ Session!RatchetStep(p, s, m) = Ends!RatchetStep(p, s, m)
    OBVIOUS
  <2> DEFINE r == Ends!RootKDF(s.root, Ends!DH(p, s.dhSelf, m.dh), Ends!ReceivedSecret(s, m))
  <2>2. /\ S!RootKDF(s.root, S!DH(p, s.dhSelf, m.dh), S!ReceivedSecret(s, m)) = r
        /\ Session!RootKDF(s.root, Session!DH(p, s.dhSelf, m.dh), Session!ReceivedSecret(s, m)) = r
    BY SecretsAlike, <2>1
  <2> QED
    BY <2>2, Zenon DEF S!RatchetStep, Session!RatchetStep, Ends!RatchetStep
<1> QED
  BY <1>1, <1>2, <1>3, <1>4, <1>5, <1>6, <1>7, <1>8, <1>9

\* EncryptMessage does not ask what the network is like.
LEMMA EncryptsAlike ==
  ASSUME NEW p \in User, Ends!Encrypt(p)
  PROVE  S!Encrypt(p) /\ Session!Encrypt(p)
<1>1. \A s, pub, ct : Ends!Seal(p, s, pub, ct) => S!Seal(p, s, pub, ct) /\ Session!Seal(p, s, pub, ct)
  BY SecretsAlike, ChainsAlike DEF Ends!Seal, S!Seal, Session!Seal
<1>2. Ends!CanEncrypt(p) => S!CanEncrypt(p) /\ Session!CanEncrypt(p)
  BY DEF Ends!CanEncrypt, S!CanEncrypt, Session!CanEncrypt
<1>3. Ends!EncryptOnChain(p) => S!EncryptOnChain(p) /\ Session!EncryptOnChain(p)
  BY <1>1, <1>2 DEF Ends!EncryptOnChain, S!EncryptOnChain, Session!EncryptOnChain
<1>4. \A late \in TimeDue :
        Ends!EncryptNewChain(p, late) => S!EncryptNewChain(p, late) /\ Session!EncryptNewChain(p, late)
  <2> SUFFICES ASSUME NEW late \in TimeDue, Ends!EncryptNewChain(p, late)
               PROVE  S!EncryptNewChain(p, late) /\ Session!EncryptNewChain(p, late)
    OBVIOUS
  <2> DEFINE inject == Ends!InjectionDue(st[p], late)
  <2>1. /\ Ends!CanEncrypt(p) /\ st[p].needsNew
        /\ Ends!Seal(p, Ends!NewSendingChain(p, st[p], inject), inject, st[p].peerKEM)
    BY DEF Ends!EncryptNewChain
  <2>2. /\ S!InjectionDue(st[p], late) = inject /\ Session!InjectionDue(st[p], late) = inject
        /\ S!NewSendingChain(p, st[p], inject) = Ends!NewSendingChain(p, st[p], inject)
        /\ Session!NewSendingChain(p, st[p], inject) = Ends!NewSendingChain(p, st[p], inject)
    BY ChainsAlike
  <2> QED
    BY <1>1, <1>2, <2>1, <2>2 DEF S!EncryptNewChain, Session!EncryptNewChain
<1> QED
  BY <1>3, <1>4 DEF Ends!Encrypt, S!Encrypt, Session!Encrypt

\* DecryptMessage of the first message in flight is a step over a network that
\* keeps the order.
LEMMA DecryptsAlike ==
  ASSUME NEW p \in User, NEW i, \A k \in InFlight[p] : i <= k, Ends!Decrypt(p, i)
  PROVE  S!Decrypt(p, i) /\ Session!Decrypt(p, i)
<1>1. Ends!Deliver(p, i) => S!Deliver(p, i) /\ Session!Deliver(p, i)
  BY DEF Ends!Deliver, S!Deliver, Session!Deliver
<1>2. \A s, key : Ends!Open(p, i, s, key) => S!Open(p, i, s, key) /\ Session!Open(p, i, s, key)
  BY SecretsAlike DEF Ends!Open, S!Open, Session!Open
<1>3. \A s : Ends!Refuse(p, i, s) => S!Refuse(p, i, s) /\ Session!Refuse(p, i, s)
  BY DEF Ends!Refuse, S!Refuse, Session!Refuse
<1>4. \A s : Ends!OpenOnChain(p, i, s) => S!OpenOnChain(p, i, s) /\ Session!OpenOnChain(p, i, s)
  BY SecretsAlike, ChainsAlike, <1>2 DEF Ends!OpenOnChain, S!OpenOnChain, Session!OpenOnChain
<1>5. /\ Ends!OnChain(p, i) => S!OnChain(p, i) /\ Session!OnChain(p, i)
      /\ Ends!OnNewChain(p, i) => S!OnNewChain(p, i) /\ Session!OnNewChain(p, i)
  BY SecretsAlike, ChainsAlike
     DEF Ends!OnChain, S!OnChain, Session!OnChain, Ends!OnNewChain, S!OnNewChain,
         Session!OnNewChain, Ends!Ready, S!Ready, Session!Ready
<1>6. Ends!DecryptStored(p, i) => S!DecryptStored(p, i) /\ Session!DecryptStored(p, i)
  BY SecretsAlike, ChainsAlike, <1>1, <1>2
     DEF Ends!DecryptStored, S!DecryptStored, Session!DecryptStored
<1>7. Ends!DecryptOnChain(p, i) => S!DecryptOnChain(p, i) /\ Session!DecryptOnChain(p, i)
  BY <1>1, <1>4, <1>5 DEF Ends!DecryptOnChain, S!DecryptOnChain, Session!DecryptOnChain
<1>8. Ends!DecryptNewChain(p, i) => S!DecryptNewChain(p, i) /\ Session!DecryptNewChain(p, i)
  BY SecretsAlike, ChainsAlike, <1>1, <1>4, <1>5
     DEF Ends!DecryptNewChain, S!DecryptNewChain, Session!DecryptNewChain
<1>9. Ends!RefuseGap(p, i) => S!RefuseGap(p, i) /\ Session!RefuseGap(p, i)
  BY SecretsAlike, ChainsAlike, <1>1, <1>3, <1>5 DEF Ends!RefuseGap, S!RefuseGap, Session!RefuseGap
<1>10. Ends!RefusePreviousGap(p, i) => S!RefusePreviousGap(p, i) /\ Session!RefusePreviousGap(p, i)
  BY SecretsAlike, ChainsAlike, <1>1, <1>3, <1>5
     DEF Ends!RefusePreviousGap, S!RefusePreviousGap, Session!RefusePreviousGap
<1>11. Ends!RefuseUnexpectedCT(p, i) => S!RefuseUnexpectedCT(p, i) /\ Session!RefuseUnexpectedCT(p, i)
  BY SecretsAlike, ChainsAlike, <1>1, <1>3, <1>5
     DEF Ends!RefuseUnexpectedCT, S!RefuseUnexpectedCT, Session!RefuseUnexpectedCT
<1>12. Ends!RefuseNewChainGap(p, i) => S!RefuseNewChainGap(p, i) /\ Session!RefuseNewChainGap(p, i)
  BY SecretsAlike, ChainsAlike, <1>1, <1>3, <1>5
     DEF Ends!RefuseNewChainGap, S!RefuseNewChainGap, Session!RefuseNewChainGap
<1> QED
  BY <1>6, <1>7, <1>8, <1>9, <1>10, <1>11, <1>12 DEF Ends!Decrypt, S!Decrypt, Session!Decrypt

\* The initial message to p was lost, and p never gets a session.
Ended(p) == st[p].dhRemote = 0 /\ 1 \in Lost(p)

\* The messages to p go to the relay in the order in which they were encrypted,
\* and the last may still have to.
Posted(p) ==
  /\ Len(posted[p]) = Len(accepted[p])
  /\ ToSet(posted[p]) \cup unsent[p] \subseteq DOMAIN sent[Peer(p)]
  /\ ToSet(posted[p]) \cap unsent[p] = {}
  /\ Outbox(p) \subseteq {Len(sent[Peer(p)])}
  /\ \A k, l \in DOMAIN posted[p] : k < l => posted[p][k] < posted[p][l]

\* What p has gone through DecryptMessage was called with, or there was no
\* session for it.
Matched(p) ==
  /\ handled[p] \in 0 .. Len(delivered[p])
  /\ \A k \in 1 .. handled[p] : posted[p][delivered[p][k]] \in S!Handled(p) \/ Ended(p)

\* A party the relay has not heard of has received nothing, so that it has
\* offered no ML-KEM key, and no message that was refused answers one.
Unheard(p) ==
  /\ p \notin identities =>
       /\ accepted[p] = <<>>
       /\ st[p].chainRecv = <<>> /\ st[p].pendingKEM = 0 /\ ~st[p].needsNew
  /\ \A i \in unsent[p] : sent[Peer(p)][i].ct = 0

EndsInv == S!IInv /\ S!TurnInv /\ S!SyncInv /\ S!LossInv /\ S!CutInv

CallsType ==
  /\ handled \in [User -> Nat]
  /\ posted \in [User -> Seq(Nat)]
  /\ unsent \in [User -> SUBSET Nat]

TalkInv ==
  /\ QueuesInv /\ EndsInv /\ CallsType
  /\ \A p \in User : Posted(p) /\ Matched(p) /\ Unheard(p)

\* What is left of a batch d of which h were gone through.
LEMMA UnreadSet ==
  ASSUME NEW d \in Seq(Nat), NEW h \in 0 .. Len(d)
  PROVE  /\ ToSet(SubSeq(d, h + 1, Len(d))) = {d[k] : k \in h + 1 .. Len(d)}
         /\ SubSeq(d, h + 1, Len(d)) = <<>> <=> h = Len(d)
         /\ h # Len(d) => Head(SubSeq(d, h + 1, Len(d))) = d[h + 1]
<1> DEFINE N == Len(d)
           r == SubSeq(d, h + 1, N)
<1>1. N \in Nat /\ h \in Nat /\ h <= N
  OBVIOUS
<1>2. /\ r \in Seq(Nat) /\ Len(r) = N - h /\ DOMAIN r = 1 .. N - h
      /\ \A i \in 1 .. N - h : r[i] = d[h + i]
  BY <1>1
<1> HIDE DEF r, N
<1>3. ToSet(r) = {d[k] : k \in h + 1 .. N}
  <2>1. \A i \in 1 .. N - h : h + i \in h + 1 .. N
    BY <1>1
  <2>2. \A k \in h + 1 .. N : k - h \in 1 .. N - h /\ h + (k - h) = k
    BY <1>1
  <2>3. ToSet(r) \subseteq {d[k] : k \in h + 1 .. N}
    BY <1>2, <2>1 DEF ToSet
  <2>4. \A k \in h + 1 .. N : d[k] = r[k - h] /\ r[k - h] \in ToSet(r)
    BY <1>2, <2>2 DEF ToSet
  <2> QED
    BY <2>3, <2>4
<1>4. r = <<>> <=> h = N
  <2>1. r = <<>> <=> Len(r) = 0
    BY <1>2
  <2> QED
    BY <1>1, <1>2, <2>1
<1>5. ASSUME h # N PROVE Head(r) = d[h + 1]
  <2>1. r # <<>> /\ 1 \in 1 .. N - h
    BY <1>1, <1>4, <1>5
  <2>2. Head(r) = r[1]
    BY <1>2, <2>1
  <2> QED
    BY <1>2, <2>1, <2>2
<1> QED
  BY <1>3, <1>4, <1>5 DEF r, N

\* The envelopes for p that wait: what is left of its batch, and what the relay
\* holds.
LEMMA WaitingSet ==
  ASSUME TalkInv, NEW p \in User
  PROVE  Waiting(p) = {delivered[p][k] : k \in handled[p] + 1 .. Len(delivered[p])}
                        \cup NextOut(p) .. Len(accepted[p])
<1>1. ToSet(Unread(p)) = {delivered[p][k] : k \in handled[p] + 1 .. Len(delivered[p])}
  BY UnreadSet, QueueTypes DEF TalkInv, Matched, QueuesInv, Unread
<1>2. {queues[p][k].envelope : k \in DOMAIN queues[p]} = NextOut(p) .. Len(accepted[p])
  <2> DEFINE N == Len(accepted[p])
             f == NextOut(p)
             q == queues[p]
  <2>1. /\ N \in Nat /\ f \in 1 .. N + 1 /\ DOMAIN q = 1 .. N + 1 - f
        /\ \A k \in 1 .. N + 1 - f : q[k].envelope = f + k - 1
    BY QueueTypes, QueueEntries DEF TalkInv, QueuesInv
  <2> HIDE DEF N, f, q
  <2>2. \A k \in 1 .. N + 1 - f : f + k - 1 \in f .. N
    BY <2>1
  <2>3. \A n \in f .. N : n - f + 1 \in 1 .. N + 1 - f /\ f + (n - f + 1) - 1 = n
    BY <2>1
  <2>4. {q[k].envelope : k \in DOMAIN q} \subseteq f .. N
    BY <2>1, <2>2
  <2>5. \A n \in f .. N : n = q[n - f + 1].envelope /\ n - f + 1 \in DOMAIN q
    BY <2>1, <2>3
  <2>6. {q[k].envelope : k \in DOMAIN q} = f .. N
    BY <2>4, <2>5
  <2> QED
    BY <2>6 DEF N, f, q
<1> QED
  BY <1>1, <1>2 DEF Waiting

\* The numbers of envelopes and of messages.
LEMMA Numbers ==
  ASSUME TalkInv, NEW p \in User
  PROVE  /\ posted[p] \in Seq(Nat) /\ Len(accepted[p]) \in Nat
         /\ DOMAIN posted[p] = 1 .. Len(accepted[p]) /\ Len(posted[p]) = Len(accepted[p])
         /\ NextOut(p) \in 1 .. Len(accepted[p]) + 1
         /\ \A e \in 1 .. Len(accepted[p]) :
              posted[p][e] \in Nat /\ posted[p][e] \in ToSet(posted[p])
         /\ \A i \in ToSet(posted[p]) : \E e \in 1 .. Len(accepted[p]) : posted[p][e] = i
         /\ ToSet(delivered[p]) \cup purged[p] = 1 .. NextOut(p) - 1
         /\ ToSet(delivered[p]) \cap purged[p] = {}
         /\ Waiting(p) \cup purged[p] \subseteq 1 .. Len(accepted[p])
         /\ sent[Peer(p)] \in Seq(S!Message) /\ Len(sent[Peer(p)]) \in Nat
         /\ DOMAIN sent[Peer(p)] = 1 .. Len(sent[Peer(p)])
<1>1. posted[p] \in Seq(Nat) /\ Len(posted[p]) = Len(accepted[p]) /\ Left(p)
  BY DEF TalkInv, CallsType, Posted, QueuesInv
<1>2. /\ Len(accepted[p]) \in Nat /\ NextOut(p) \in 1 .. Len(accepted[p]) + 1
      /\ DOMAIN delivered[p] = 1 .. Len(delivered[p]) /\ Len(delivered[p]) \in Nat
      /\ handled[p] \in 0 .. Len(delivered[p])
  BY QueueTypes, QueueEntries DEF TalkInv, QueuesInv, Matched
<1>3. DOMAIN posted[p] = 1 .. Len(accepted[p])
  <2>1. DOMAIN posted[p] = 1 .. Len(posted[p])
    BY <1>1
  <2> QED
    BY <1>1, <2>1
<1>4. \A e \in 1 .. Len(accepted[p]) : posted[p][e] \in Nat /\ posted[p][e] \in ToSet(posted[p])
  <2>1. \A e \in DOMAIN posted[p] : posted[p][e] \in Nat
    BY <1>1
  <2> QED
    BY <1>3, <2>1 DEF ToSet
<1>5. \A i \in ToSet(posted[p]) : \E e \in 1 .. Len(accepted[p]) : posted[p][e] = i
  BY <1>3 DEF ToSet
<1>6. ToSet(delivered[p]) \cup purged[p] = 1 .. NextOut(p) - 1
      /\ ToSet(delivered[p]) \cap purged[p] = {}
  BY <1>1 DEF Left
<1>7. 1 .. NextOut(p) - 1 \subseteq 1 .. Len(accepted[p])
      /\ NextOut(p) .. Len(accepted[p]) \subseteq 1 .. Len(accepted[p])
  BY <1>2
<1>8. {delivered[p][k] : k \in handled[p] + 1 .. Len(delivered[p])} \subseteq ToSet(delivered[p])
  <2>1. \A k \in handled[p] + 1 .. Len(delivered[p]) : k \in DOMAIN delivered[p]
    BY <1>2
  <2> QED
    BY <2>1 DEF ToSet
<1>9. Waiting(p) \cup purged[p] \subseteq 1 .. Len(accepted[p])
  BY <1>6, <1>7, <1>8, WaitingSet
<1>10. sent[Peer(p)] \in Seq(S!Message)
  BY Users DEF TalkInv, EndsInv, S!IInv, S!TypeOK
<1>11. Len(sent[Peer(p)]) \in Nat /\ DOMAIN sent[Peer(p)] = 1 .. Len(sent[Peer(p)])
  BY <1>10
<1> QED
  BY <1>1, <1>2, <1>3, <1>4, <1>5, <1>6, <1>9, <1>10, <1>11

\* Envelopes are numbered in the order of their messages.
LEMMA SameOrder ==
  ASSUME TalkInv, NEW p \in User,
         NEW k \in 1 .. Len(accepted[p]), NEW l \in 1 .. Len(accepted[p])
  PROVE  /\ k < l <=> posted[p][k] < posted[p][l]
         /\ k = l <=> posted[p][k] = posted[p][l]
         /\ k <= l <=> posted[p][k] <= posted[p][l]
<1>1. /\ k < l => posted[p][k] < posted[p][l]
      /\ l < k => posted[p][l] < posted[p][k]
  BY Numbers DEF TalkInv, Posted
<1>2. posted[p][k] \in Nat /\ posted[p][l] \in Nat /\ k \in Nat /\ l \in Nat
  BY Numbers
<1> QED
  BY <1>1, <1>2

\* What was encrypted waits to be sent, or was sent, or refused.
LEMMA Whereabouts ==
  ASSUME TalkInv, NEW p \in User, NEW i \in 1 .. Len(sent[Peer(p)])
  PROVE  \/ i = Len(sent[Peer(p)]) /\ i \in Outbox(p) /\ i \in InFlight[p]
         \/ i \in unsent[p] /\ i \in Lost(p)
         \/ \E e \in 1 .. Len(accepted[p]) : posted[p][e] = i
<1>1. i \in Outbox(p) \/ i \in unsent[p] \/ i \in ToSet(posted[p])
  BY Numbers DEF Outbox
<1>2. i \in Outbox(p) => i = Len(sent[Peer(p)])
  BY DEF TalkInv, Posted
<1> QED
  BY <1>1, <1>2, Numbers DEF InFlight, Lost

\* The next envelope of a batch is the first of all that wait, and the next
\* message is the first of all that are in flight.
LEMMA NextIsFirst ==
  ASSUME TalkInv, NEW p \in User, Unread(p) # <<>>
  PROVE  LET e == Head(Unread(p))
         IN /\ handled[p] + 1 \in 1 .. Len(delivered[p])
            /\ e = delivered[p][handled[p] + 1]
            /\ e \in Waiting(p) /\ \A k \in Waiting(p) : e <= k
            /\ e \in ToSet(delivered[p]) /\ e \in 1 .. Len(accepted[p]) /\ e < NextOut(p)
            /\ NextMessage(p) = posted[p][e]
            /\ NextMessage(p) \in InFlight[p] /\ \A k \in InFlight[p] : NextMessage(p) <= k
<1> DEFINE d == delivered[p]
           h == handled[p]
           e == Head(Unread(p))
<1>1. /\ d \in Seq(Nat) /\ Len(d) \in Nat /\ DOMAIN d = 1 .. Len(d) /\ h \in 0 .. Len(d)
      /\ \A k \in 1 .. Len(d) : d[k] \in Nat
      /\ NextOut(p) \in Nat /\ Len(accepted[p]) \in Nat /\ Left(p)
  BY QueueTypes, QueueEntries DEF TalkInv, Matched, QueuesInv
<1>2. h # Len(d) /\ e = d[h + 1]
  BY <1>1, UnreadSet DEF Unread
<1>3. h + 1 \in 1 .. Len(d) /\ h + 1 \in h + 1 .. Len(d)
  BY <1>1, <1>2
<1>4. d[h + 1] \in Waiting(p)
  BY <1>3, WaitingSet
<1>5. \A k \in 1 .. Len(d) : d[k] \in 1 .. NextOut(p) - 1
  BY <1>1 DEF Left, ToSet
<1>6. ASSUME NEW k \in Waiting(p) PROVE d[h + 1] <= k
  <2>1. CASE k \in NextOut(p) .. Len(accepted[p])
    <3>1. d[h + 1] \in Nat /\ d[h + 1] <= NextOut(p) - 1 /\ NextOut(p) <= k /\ k \in Int
      BY <1>1, <1>3, <1>5, <2>1
    <3> QED
      BY <1>1, <3>1
  <2>2. ASSUME NEW j \in h + 1 .. Len(d), k = d[j] PROVE d[h + 1] <= k
    <3>1. j \in 1 .. Len(d) /\ (j = h + 1 \/ h + 1 < j)
      BY <1>1, <2>2
    <3>2. h + 1 < j => d[h + 1] < d[j]
      BY <1>1, <1>3, <3>1 DEF Left
    <3> QED
      BY <1>1, <1>3, <2>2, <3>1, <3>2
  <2> QED
    BY <2>1, <2>2, WaitingSet
<1>7. d[h + 1] \in ToSet(d) /\ d[h + 1] \in Nat /\ d[h + 1] < NextOut(p)
  BY <1>1, <1>3, <1>5 DEF ToSet
<1> HIDE DEF d, h, e
<1>8. e \in Waiting(p) /\ e \in 1 .. Len(accepted[p]) /\ \A k \in Waiting(p) : e <= k
  BY <1>2, <1>4, <1>6, Numbers
<1>9. NextMessage(p) = posted[p][e] /\ NextMessage(p) \in InFlight[p]
  BY <1>8 DEF NextMessage, InFlight, e
<1>10. ASSUME NEW k \in InFlight[p] PROVE posted[p][e] <= k
  <2>1. CASE k \in Outbox(p)
    <3>1. k = Len(sent[Peer(p)])
      BY <2>1 DEF TalkInv, Posted
    <3>2. posted[p][e] \in 1 .. Len(sent[Peer(p)])
      BY <1>8, Numbers DEF TalkInv, Posted
    <3> QED
      BY <3>1, <3>2, Numbers
  <2>2. ASSUME NEW f \in Waiting(p), k = posted[p][f] PROVE posted[p][e] <= k
    <3>1. f \in 1 .. Len(accepted[p]) /\ e <= f
      BY <1>8, Numbers
    <3> QED
      BY <1>8, <2>2, <3>1, SameOrder
  <2> QED
    BY <2>1, <2>2 DEF InFlight
<1> QED
  BY <1>2, <1>3, <1>7, <1>8, <1>9, <1>10 DEF d, h, e

\* If the same envelopes wait and nobody calls SendMessage, nothing is lost.
LEMMA NothingLost ==
  ASSUME UNCHANGED <<ends, posted, unsent>>, \A q \in User : Waiting(q)' = Waiting(q)
  PROVE  LoseSome
<1>1. \A q \in User : Outbox(q)' = Outbox(q)
  BY DEF Outbox, ends
<1>2. \A q \in User : InFlight'[q] = InFlight[q]
  BY <1>1 DEF InFlight
<1> QED
  BY <1>2 DEF LoseSome

\* A purge takes envelopes that wait, and their messages are lost.
LEMMA PurgeLoses ==
  ASSUME TalkInv, Purge, UNCHANGED <<ends, calls>>
  PROVE  LoseSome
<1>1. ASSUME NEW p \in User
      PROVE  Waiting(p)' \subseteq Waiting(p) /\ Waiting(p) \ Waiting(p)' \subseteq purged'[p]
  <2>1. PICK c \in 0 .. Len(queues[p]) : PurgeTakes(p, c)
    BY PurgeEffect DEF TalkInv
  <2>2. queues[p] \in Seq(QueuedMessage) /\ Len(queues[p]) \in Nat
        /\ DOMAIN queues[p] = 1 .. Len(queues[p]) /\ NextOut(p) \in Nat
    BY QueueTypes, QueueEntries DEF TalkInv, QueuesInv
  <2>3. /\ DOMAIN queues'[p] = 1 .. Len(queues[p]) - c
        /\ \A k \in 1 .. Len(queues[p]) - c : queues'[p][k] = queues[p][c + k]
    BY <2>1, <2>2 DEF PurgeTakes
  <2>4. \A k \in 1 .. Len(queues[p]) - c : c + k \in DOMAIN queues[p]
    BY <2>2
  <2>5. {queues'[p][k].envelope : k \in DOMAIN queues'[p]}
          \subseteq {queues[p][k].envelope : k \in DOMAIN queues[p]}
    BY <2>3, <2>4
  <2>6. Unread(p)' = Unread(p)
    BY DEF Unread, calls, Purge, PurgeExpired
  <2>7. ASSUME NEW k \in DOMAIN queues[p], queues[p][k].envelope \notin Waiting(p)'
        PROVE  queues[p][k].envelope \in purged'[p]
    <3>1. CASE k <= c
      <4>1. queues[p][k].envelope = NextOut(p) + k - 1
        BY <2>2, QueueEntries DEF TalkInv
      <4>2. NextOut(p) + k - 1 \in NextOut(p) .. NextOut(p) + c - 1
        BY <2>2, <3>1
      <4> QED
        BY <2>1, <4>1, <4>2 DEF PurgeTakes
    <3>2. CASE k > c
      <4>1. k - c \in 1 .. Len(queues[p]) - c /\ c + (k - c) = k
        BY <2>2, <3>2
      <4>2. queues'[p][k - c] = queues[p][k] /\ k - c \in DOMAIN queues'[p]
        BY <2>3, <4>1
      <4> QED
        BY <2>7, <4>2 DEF Waiting
    <3> QED
      BY <2>2, <3>1, <3>2
  <2> QED
    BY <2>5, <2>6, <2>7 DEF Waiting
<1>2. \A p \in User : Outbox(p)' = Outbox(p)
  BY DEF Outbox, ends, calls
<1>3. posted' = posted /\ unsent' = unsent
  BY DEF calls
<1>4. \A p \in User : InFlight'[p] = Outbox(p) \cup {posted[p][e] : e \in Waiting(p)'}
  BY <1>2, <1>3 DEF InFlight
<1>5. ASSUME NEW p \in User, NEW i \in InFlight[p] \ InFlight'[p] PROVE i \in Lost(p)'
  <2>1. PICK e \in Waiting(p) \ Waiting(p)' : i = posted[p][e]
    BY <1>4, <1>5 DEF InFlight
  <2> QED
    BY <1>1, <1>3, <2>1 DEF Lost
<1>6. \A p \in User : InFlight'[p] \subseteq InFlight[p]
  BY <1>1, <1>4 DEF InFlight
<1> QED
  BY <1>5, <1>6 DEF LoseSome

\* A poll moves what waits from the relay to the client.
LEMMA PollCarries ==
  ASSUME TalkInv, NEW p \in User, Poll(p)
  PROVE  LoseSome
<1> DEFINE d == delivered[p]
           N == Len(accepted[p])
           f == NextOut(p)
           n == N + 1 - f
           b == [k \in 1 .. n |-> f + k - 1]
<1>1. /\ d \in Seq(Nat) /\ Len(d) \in Nat /\ N \in Nat /\ f \in 1 .. N + 1
      /\ handled[p] \in 0 .. Len(d)
  BY QueueTypes, QueueEntries DEF TalkInv, Matched, QueuesInv
<1>2. handled[p] = Len(d)
  BY <1>1, UnreadSet DEF Poll, Unread
<1>3. delivered'[p] = d \o b /\ queues'[p] = <<>> /\ UNCHANGED <<ends, calls>>
  BY PollEffect DEF Poll, TalkInv
<1>4. Waiting(p)' = f .. N
  <2>0. n = N + 1 - f
    OBVIOUS
  <2>1. n \in Nat /\ b \in Seq(Nat) /\ Len(b) = n /\ \A k \in 1 .. n : b[k] = f + k - 1
    <3>1. n \in Nat /\ f \in Nat /\ \A k \in 1 .. n : f + k - 1 \in Nat
      BY <1>1
    <3> HIDE DEF n, f
    <3> QED
      BY <3>1
  <2> HIDE DEF b, n, f, N
  <2>2. SubSeq(d \o b, Len(d) + 1, Len(d) + n) = b
    <3>1. CASE n = 0
      <4>1. b = <<>> /\ Len(d) + n < Len(d) + 1 /\ Len(d) + n \in Int /\ Len(d) + 1 \in Int
        BY <1>1, <2>1, <3>1
      <4> QED
        BY <4>1, SubSeqEmpty
    <3>2. CASE n # 0
      <4>1. Len(d) + 1 \in Len(d) + 1 .. Len(d) + Len(b)
            /\ Len(d) + n \in Len(d) + 1 .. Len(d) + Len(b)
            /\ Len(d) + 1 - Len(d) = 1 /\ Len(d) + n - Len(d) = Len(b)
        BY <1>1, <2>1, <3>2
      <4>2. SubSeq(d \o b, Len(d) + 1, Len(d) + n)
              = SubSeq(b, Len(d) + 1 - Len(d), Len(d) + n - Len(d))
        BY <1>1, <2>1, <4>1, SubSeqOfConcat2
      <4> QED
        BY <2>1, <4>1, <4>2, SubSeqFull
    <3> QED
      BY <3>1, <3>2
  <2>3. Len(d \o b) = Len(d) + n
    BY <1>1, <2>1, ConcatProperties
  <2>4. Unread(p)' = b
    BY <1>2, <1>3, <2>2, <2>3 DEF Unread, calls
  <2>5. ToSet(b) = f .. N
    <3>1. \A k \in 1 .. n : b[k] \in f .. N
      BY <1>1, <2>0, <2>1
    <3>2. \A i \in f .. N : i - f + 1 \in 1 .. n /\ f + (i - f + 1) - 1 = i
      BY <1>1, <2>0, <2>1
    <3>3. \A i \in f .. N : i = b[i - f + 1]
      BY <2>1, <3>2
    <3>4. DOMAIN b = 1 .. n
      BY <2>1
    <3> QED
      BY <3>1, <3>2, <3>3, <3>4 DEF ToSet
  <2>6. Waiting(p)' = ToSet(b)
    BY <1>3, <2>4 DEF Waiting
  <2> QED
    BY <2>5, <2>6
<1>5. Waiting(p)' = Waiting(p)
  <2>1. {delivered[p][k] : k \in handled[p] + 1 .. Len(delivered[p])} = {}
    BY <1>1, <1>2
  <2> QED
    BY <1>4, <2>1, WaitingSet
<1>6. \A q \in User \ {p} : Waiting(q)' = Waiting(q)
  <2>1. \A q \in User \ {p} : delivered'[q] = delivered[q] /\ queues'[q] = queues[q]
    BY DEF Poll, PollMessages, TalkInv, QueuesInv, TypeOK
  <2> QED
    BY <1>3, <2>1 DEF Waiting, Unread, calls
<1> QED
  BY <1>3, <1>5, <1>6, NothingLost DEF calls

\* A message that is sent goes from its client to the relay.
LEMMA PostEffect ==
  ASSUME TalkInv, NEW p \in User, Post(p)
  PROVE  LET u == Peer(p)
             i == Len(sent[Peer(u)])
             N == Len(accepted[u])
         IN /\ u \in User /\ u \in identities /\ i \in 1 .. i
            /\ Outbox(u) = {i} /\ Outbox(u)' = {}
            /\ posted'[u] = Append(posted[u], i) /\ Len(posted'[u]) = N + 1
            /\ DOMAIN posted'[u] = 1 .. N + 1
            /\ posted'[u][N + 1] = i /\ \A e \in 1 .. N : posted'[u][e] = posted[u][e]
            /\ Len(accepted'[u]) = N + 1
            /\ ToSet(posted'[u]) = ToSet(posted[u]) \cup {i}
            /\ Waiting(u)' = Waiting(u) \cup {N + 1}
<1> DEFINE u == Peer(p)
           N == Len(accepted[u])
<1>1. u \in User
  BY Users
<1>2. PICK i \in Outbox(u) : /\ SendMessage(u) /\ posted' = [posted EXCEPT ![u] = Append(@, i)]
                             /\ UNCHANGED <<ends, unsent, handled>>
  BY DEF Post
<1>3. i = Len(sent[Peer(u)]) /\ i \in 1 .. i /\ Outbox(u) = {i} /\ i \in Nat
  <2>1. Outbox(u) \subseteq {Len(sent[Peer(u)])} /\ Outbox(u) \subseteq 1 .. Len(sent[Peer(u)])
    BY <1>1, Numbers DEF TalkInv, Posted, Outbox
  <2>2. i = Len(sent[Peer(u)]) /\ i \in 1 .. i
    BY <2>1
  <2>3. Outbox(u) = {i} /\ i \in Nat
    BY <2>1, <2>2, <1>1, Numbers
  <2> QED
    BY <2>2, <2>3
<1>4. /\ posted[u] \in Seq(Nat) /\ N \in Nat /\ Len(posted[u]) = N /\ DOMAIN posted[u] = 1 .. N
      /\ accepted[u] \in Seq(0 .. MaxTime) /\ queues[u] \in Seq(QueuedMessage)
      /\ delivered[u] \in Seq(Nat) /\ DOMAIN queues[u] = 1 .. Len(queues[u])
      /\ Len(queues[u]) \in Nat
  BY <1>1, Numbers, QueueTypes DEF TalkInv, QueuesInv
<1>5. posted'[u] = Append(posted[u], i)
  BY <1>1, <1>2 DEF TalkInv, CallsType
<1>6. /\ DOMAIN posted'[u] = 1 .. N + 1 /\ posted'[u][N + 1] = i /\ Len(posted'[u]) = N + 1
      /\ \A e \in 1 .. N : posted'[u][e] = posted[u][e]
  BY <1>3, <1>4, <1>5
<1>7. ToSet(posted'[u]) = ToSet(posted[u]) \cup {i}
  <2>1. \A n \in Nat : 1 .. n + 1 = 1 .. n \cup {n + 1}
    OBVIOUS
  <2>2. ToSet(posted[u]) = {posted[u][e] : e \in 1 .. N}
        /\ ToSet(posted'[u]) = {posted'[u][e] : e \in 1 .. N + 1}
    BY <1>4, <1>6 DEF ToSet
  <2>3. 1 .. N + 1 = 1 .. N \cup {N + 1}
    BY <1>4, <2>1
  <2> HIDE DEF N, u
  <2> QED
    BY <1>6, <2>2, <2>3
<1>8. /\ accepted'[u] = Append(accepted[u], clock)
      /\ queues'[u] = Append(queues[u], [envelope |-> N + 1, queuedAt |-> clock])
      /\ delivered' = delivered /\ u \in identities
  BY <1>1, <1>2 DEF SendMessage, TalkInv, QueuesInv, TypeOK
<1>9. Len(accepted'[u]) = N + 1
  BY <1>4, <1>8
<1>10. Waiting(u)' = Waiting(u) \cup {N + 1}
  <2> DEFINE M == Len(queues[u])
             m == [envelope |-> N + 1, queuedAt |-> clock]
  <2>1. /\ DOMAIN queues'[u] = 1 .. M + 1 /\ queues'[u][M + 1] = m
        /\ \A k \in 1 .. M : queues'[u][k] = queues[u][k]
    BY <1>4, <1>8, AppendProperties
  <2>2. 1 .. M + 1 = 1 .. M \cup {M + 1} /\ m.envelope = N + 1
    BY <1>4
  <2> HIDE DEF M, m, N
  <2>3. {queues'[u][k].envelope : k \in 1 .. M + 1}
          = {queues[u][k].envelope : k \in 1 .. M} \cup {N + 1}
    BY <2>1, <2>2
  <2>4. Unread(u)' = Unread(u)
    BY <1>2, <1>8 DEF Unread
  <2> QED
    BY <1>4, <2>1, <2>3, <2>4 DEF Waiting, M
<1>11. Outbox(u)' = {}
  <2>1. Outbox(u)' = DOMAIN sent[Peer(u)] \ (ToSet(posted'[u]) \cup unsent[u])
    BY <1>2 DEF Outbox, ends
  <2> QED
    BY <1>3, <1>7, <2>1 DEF Outbox
<1> QED
  BY <1>1, <1>3, <1>5, <1>6, <1>7, <1>8, <1>9, <1>10, <1>11

LEMMA PostCarries ==
  ASSUME TalkInv, NEW p \in User, Post(p)
  PROVE  LoseSome
<1> DEFINE u == Peer(p)
           N == Len(accepted[u])
           i == Len(sent[Peer(u)])
<1>1. /\ u \in User /\ Outbox(u) = {i} /\ Outbox(u)' = {}
      /\ posted'[u][N + 1] = i /\ \A e \in 1 .. N : posted'[u][e] = posted[u][e]
      /\ Waiting(u)' = Waiting(u) \cup {N + 1}
  BY PostEffect
<1>2. Waiting(u) \subseteq 1 .. N
  BY <1>1, Numbers
<1>3. /\ UNCHANGED <<ends, unsent, handled, delivered>>
      /\ \A q \in User \ {u} : posted'[q] = posted[q] /\ queues'[q] = queues[q]
  BY DEF Post, SendMessage, TalkInv, CallsType, QueuesInv, TypeOK
<1>4. InFlight'[u] = InFlight[u]
  <2>1. InFlight'[u] = Outbox(u)' \cup {posted'[u][e] : e \in Waiting(u)'}
    BY <1>1 DEF InFlight
  <2>2. InFlight[u] = Outbox(u) \cup {posted[u][e] : e \in Waiting(u)}
    BY <1>1 DEF InFlight
  <2> HIDE DEF u, N, i
  <2>3. {posted'[u][e] : e \in Waiting(u) \cup {N + 1}} = {posted[u][e] : e \in Waiting(u)} \cup {i}
    BY <1>1, <1>2
  <2> QED
    BY <1>1, <2>1, <2>2, <2>3
<1>5. ASSUME NEW q \in User \ {u} PROVE InFlight'[q] = InFlight[q]
  <2>1. Outbox(q)' = Outbox(q) /\ Waiting(q)' = Waiting(q)
    BY <1>3 DEF Outbox, Waiting, Unread, ends
  <2> QED
    BY <1>3, <2>1 DEF InFlight
<1> QED
  BY <1>3, <1>4, <1>5 DEF LoseSome

\* A message that is refused is lost.
LEMMA RefusedLoses ==
  ASSUME TalkInv, NEW p \in User, PostRefused(p)
  PROVE  LoseSome
<1> DEFINE u == Peer(p)
<1>1. u \in User
  BY Users
<1>2. PICK i \in Outbox(u) : /\ unsent' = [unsent EXCEPT ![u] = @ \cup {i}]
                             /\ UNCHANGED <<vars, ends, posted, handled>>
  BY DEF PostRefused
<1>3. /\ unsent'[u] = unsent[u] \cup {i} /\ \A q \in User \ {u} : unsent'[q] = unsent[q]
  BY <1>1, <1>2 DEF TalkInv, CallsType
<1>4. \A q \in User : Waiting(q)' = Waiting(q)
  BY <1>2 DEF Waiting, Unread, vars
<1>5. Outbox(u)' = Outbox(u) \ {i} /\ \A q \in User \ {u} : Outbox(q)' = Outbox(q)
  BY <1>2, <1>3 DEF Outbox, ends
<1>6. \A q \in User : InFlight'[q] = Outbox(q)' \cup {posted[q][e] : e \in Waiting(q)}
  BY <1>2, <1>4 DEF InFlight
<1> HIDE DEF u
<1>7. \A q \in User : InFlight'[q] \subseteq InFlight[q]
  BY <1>5, <1>6 DEF InFlight
<1>8. ASSUME NEW q \in User, NEW j \in InFlight[q] \ InFlight'[q] PROVE j \in Lost(q)'
  <2>1. j \in Outbox(q) \ Outbox(q)'
    BY <1>6, <1>8 DEF InFlight
  <2>2. q = u /\ j = i
    BY <1>5, <2>1
  <2> QED
    BY <1>3, <2>2 DEF Lost
<1> QED
  BY <1>2, <1>7, <1>8 DEF LoseSome

\* Without a session nothing was handled, sealed or skipped.
LEMMA NoSession ==
  ASSUME EndsInv, NEW p \in User, st[p].dhRemote = 0
  PROVE  /\ S!Handled(p) = {} /\ st[p].chainRecv = <<>> /\ st[p].skipped = {}
         /\ \A i \in DOMAIN sent[S!Peer(p)] : sent[S!Peer(p)][i].ct = 0
<1>1. /\ S!Opened(p) /\ S!Begun(p) /\ S!Paired(p) /\ S!LeftBehind(p)
  BY Users DEF EndsInv, S!LossInv, S!TurnInv
<1>2. st[p].chainRecv = <<>> /\ st[p].pendingKEM = 0
  BY <1>1 DEF S!Opened
<1>3. st[p].skipped = {} /\ \A i \in DOMAIN sent[S!Peer(p)] : 0 < sent[S!Peer(p)][i].dh
  BY <1>1, <1>2 DEF S!Begun
<1>4. \A i \in DOMAIN sent[S!Peer(p)] : sent[S!Peer(p)][i].ct = 0
  BY <1>1, <1>2, <1>3 DEF S!Paired
<1>5. S!Handled(p) = {}
  <2> SUFFICES ASSUME NEW j \in S!Handled(p) PROVE FALSE
    OBVIOUS
  <2>1. j \in DOMAIN sent[S!Peer(p)]
    BY Users DEF EndsInv, S!IInv, S!TypeOK, S!Handled
  <2>2. sent[S!Peer(p)][j].dh \in Nat
    <3>1. sent[S!Peer(p)] \in Seq(S!Message)
      BY Users DEF EndsInv, S!IInv, S!TypeOK
    <3>2. sent[S!Peer(p)][j] \in S!Message
      BY <2>1, <3>1
    <3> QED
      BY <3>2 DEF S!Message
  <2> QED
    BY <1>1, <1>2, <1>3, <2>1, <2>2 DEF S!LeftBehind
<1> QED
  BY <1>2, <1>3, <1>4, <1>5

\* Where there is no session for a message, the initial message was lost.
LEMMA NoneWithout ==
  ASSUME TalkInv, NEW p \in User, Unread(p) # <<>>, ~Ends!Ready(p, NextMessage(p))
  PROVE  Ended(p)
<1> DEFINE e == Head(Unread(p))
           i == NextMessage(p)
           d == delivered[p]
           h == handled[p]
           N == Len(accepted[p])
<1>1. st[p].dhRemote = 0 /\ i # 1
  BY DEF Ends!Ready
<1>2. /\ \A k \in Waiting(p) : e <= k
      /\ e \in 1 .. N /\ e < NextOut(p) /\ i = posted[p][e]
  BY NextIsFirst
<1>3. /\ Len(d) \in Nat /\ DOMAIN d = 1 .. Len(d) /\ Matched(p) /\ h \in 0 .. Len(d)
  BY QueueTypes DEF TalkInv, Matched, QueuesInv
<1>4. /\ N \in Nat /\ NextOut(p) \in 1 .. N + 1 /\ Len(sent[Peer(p)]) \in Nat
      /\ ToSet(d) \cup purged[p] = 1 .. NextOut(p) - 1
  BY Numbers
<1> HIDE DEF e, i, d, N
<1>5. i \in 1 .. Len(sent[Peer(p)])
  <2>1. i \in ToSet(posted[p])
    BY <1>2, Numbers DEF N
  <2> QED
    BY <2>1, Numbers DEF TalkInv, Posted
<1>6. 1 \in 1 .. Len(sent[Peer(p)]) /\ 1 # Len(sent[Peer(p)]) /\ 1 < i
  <2>1. \A n \in Nat : i \in 1 .. n => 1 \in 1 .. n /\ 1 # n /\ 1 < i
    BY <1>1
  <2> QED
    BY <1>4, <1>5, <2>1
<1>7. SUFFICES ASSUME 1 \notin Lost(p) PROVE FALSE
  BY <1>1 DEF Ended
<1>8. PICK f \in 1 .. N : posted[p][f] = 1
  BY <1>6, <1>7, Whereabouts DEF N
<1>9. f < e
  BY <1>2, <1>6, <1>8, SameOrder DEF N
<1>10. f \in 1 .. NextOut(p) - 1 /\ f \notin purged[p]
  BY <1>2, <1>4, <1>7, <1>8, <1>9 DEF Lost
<1>11. PICK k \in 1 .. Len(d) : d[k] = f
  <2>1. f \in ToSet(d)
    BY <1>4, <1>10
  <2> QED
    BY <1>3, <2>1 DEF ToSet
<1>12. CASE k \in h + 1 .. Len(d)
  <2>1. f \in Waiting(p)
    BY <1>11, <1>12, WaitingSet DEF d
  <2> QED
    BY <1>2, <1>4, <1>9, <2>1
<1>13. CASE k \in 1 .. h
  <2>1. 1 \in S!Handled(p)
    BY <1>3, <1>7, <1>8, <1>11, <1>13 DEF Matched, Ended, d
  <2> QED
    BY <1>1, <2>1, NoSession DEF TalkInv
<1> QED
  BY <1>3, <1>11, <1>12, <1>13

\* A message that belongs to no session is lost.
LEMMA DropLoses ==
  ASSUME TalkInv, NEW p \in User, Drop(p)
  PROVE  LoseSome
<1>1. /\ Unread(p) # <<>> /\ ~Ends!Ready(p, NextMessage(p)) /\ Ended(p)
      /\ Head(Unread(p)) = delivered[p][handled[p] + 1]
  BY NoneWithout, NextIsFirst DEF Drop, Handle
<1>2. /\ delivered[p] \in Seq(Nat) /\ Len(delivered[p]) \in Nat
      /\ handled[p] \in 0 .. Len(delivered[p]) /\ handled[p] # Len(delivered[p])
  BY <1>1, QueueTypes, UnreadSet DEF TalkInv, Matched, QueuesInv, Unread
<1>3. /\ handled'[p] = handled[p] + 1 /\ \A q \in User \ {p} : handled'[q] = handled[q]
      /\ UNCHANGED <<vars, ends, posted, unsent>>
  BY DEF TalkInv, CallsType, Drop, Handle
<1>4. ToSet(Unread(p)) = ToSet(Unread(p)') \cup {Head(Unread(p))}
  <2>1. /\ ToSet(Unread(p)) = {delivered[p][k] : k \in handled[p] + 1 .. Len(delivered[p])}
        /\ ToSet(Unread(p)') = {delivered[p][k] : k \in handled[p] + 2 .. Len(delivered[p])}
    <3>1. handled[p] + 1 \in 0 .. Len(delivered[p])
      BY <1>2
    <3>2. Unread(p)' = SubSeq(delivered[p], (handled[p] + 1) + 1, Len(delivered[p]))
      BY <1>3 DEF Unread, vars
    <3>3. (handled[p] + 1) + 1 = handled[p] + 2
      BY <1>2
    <3> QED
      BY <1>2, <3>1, <3>2, <3>3, UnreadSet DEF Unread
  <2>2. handled[p] + 1 .. Len(delivered[p])
          = handled[p] + 2 .. Len(delivered[p]) \cup {handled[p] + 1}
    BY <1>2
  <2> QED
    BY <1>1, <2>1, <2>2
<1>5. Waiting(p) = Waiting(p)' \cup {Head(Unread(p))}
  BY <1>3, <1>4 DEF Waiting, vars
<1>6. \A q \in User \ {p} : Waiting(q)' = Waiting(q)
  BY <1>3 DEF Waiting, Unread, vars
<1>7. \A q \in User : InFlight'[q] = Outbox(q) \cup {posted[q][e] : e \in Waiting(q)'}
  BY <1>3 DEF InFlight, Outbox, ends
<1>8. \A q \in User : InFlight'[q] \subseteq InFlight[q]
  BY <1>5, <1>6, <1>7 DEF InFlight
<1>9. ASSUME NEW q \in User, NEW j \in InFlight[q] \ InFlight'[q]
      PROVE  1 \in Lost(q) /\ ~Ends!Ready(q, j)
  <2>1. PICK e \in Waiting(q) \ Waiting(q)' : j = posted[q][e]
    BY <1>7, <1>9 DEF InFlight
  <2>2. q = p /\ e = Head(Unread(p))
    BY <1>5, <1>6, <2>1
  <2> QED
    BY <1>1, <2>1, <2>2 DEF NextMessage, Ended
<1> QED
  BY <1>3, <1>8, <1>9 DEF LoseSome

\* A step of the conversation is, for the two ends, one over a network that
\* keeps the order and repeats nothing.
LEMMA Moves ==
  ASSUME TalkInv, [Talk]_all
  PROVE  \/ LoseSome
         \/ \E p \in User : S!Encrypt(p) /\ Session!Encrypt(p)
         \/ \E p \in User : \E i \in InFlight[p] : S!Decrypt(p, i) /\ Session!Decrypt(p, i)
<1>1. CASE UNCHANGED <<queues, delivered>> /\ UNCHANGED <<ends, calls>>
  <2>1. \A p \in User : Waiting(p)' = Waiting(p)
    BY <1>1 DEF Waiting, Unread, calls
  <2> QED
    BY <1>1, <2>1, NothingLost DEF calls
<1>2. CASE Serve
  <2>1. Purge \/ UNCHANGED <<queues, delivered>>
    BY <1>2 DEF Serve, Tick, ReadTime, PublishIdentity
  <2> QED
    BY <1>1, <1>2, <2>1, PurgeLoses DEF Serve
<1>3. ASSUME NEW p \in User, Read(p)
      PROVE  \E i \in InFlight[p] : S!Decrypt(p, i) /\ Session!Decrypt(p, i)
  <2>1. Unread(p) # <<>> /\ Ends!Decrypt(p, NextMessage(p))
    BY <1>3 DEF Read, Handle
  <2> QED
    BY <2>1, NextIsFirst, DecryptsAlike
<1>4. ASSUME NEW p \in User, Write(p) PROVE S!Encrypt(p) /\ Session!Encrypt(p)
  BY <1>4, EncryptsAlike DEF Write
<1>5. CASE UNCHANGED all
  BY <1>1, <1>5 DEF all, vars
<1> QED
  BY <1>2, <1>3, <1>4, <1>5, PostCarries, RefusedLoses, PollCarries, DropLoses
     DEF Talk, Send, Receive

\* What a step does to the two ends, as the proofs about Ratchet have it.
LEMMA EndsMove ==
  ASSUME TalkInv, [Talk]_all
  PROVE  S!Goes /\ S!IInv'
<1>1. S!IInv /\ S!TurnInv
  BY DEF TalkInv, EndsInv
<1>2. CASE LoseSome
  <2>1. S!Goes
    BY <1>2, Users DEF LoseSome, S!Goes, ends
  <2>2. S!TypeOK'
    <3>1. S!TypeOK
      BY <1>1 DEF S!IInv
    <3>2. InFlight' = [p \in User |-> InFlight'[p]]
      BY DEF InFlight
    <3>3. \A p \in User : InFlight'[p] \subseteq InFlight[p]
      BY <1>2 DEF LoseSome
    <3>4. \A p \in User : InFlight[p] \in SUBSET Nat
      BY <3>1, Users DEF S!TypeOK
    <3>5. InFlight' \in [User -> SUBSET Nat]
      BY <3>2, <3>3, <3>4
    <3> QED
      BY <1>2, <3>1, <3>3, <3>5, Users DEF S!TypeOK, LoseSome, ends
  <2>3. UNCHANGED <<st, sent, inbox>>
    BY <1>2 DEF LoseSome, ends
  <2> QED
    BY <1>1, <2>1, <2>2, <2>3, EndsAssumption, S!StutterStep
<1>3. CASE \/ \E p \in User : S!Encrypt(p)
           \/ \E p \in User : \E i \in InFlight[p] : S!Decrypt(p, i)
  <2>1. S!Next
    BY <1>3, Users DEF S!Next
  <2> QED
    BY <1>1, <2>1, EndsAssumption, S!Steps, S!IInvStep
<1> QED
  BY <1>2, <1>3, Moves

\* Every step keeps what the proofs about Ratchet rest on.
LEMMA EndsStep ==
  ASSUME TalkInv, [Talk]_all
  PROVE  EndsInv'
<1>1. S!IInv /\ S!TurnInv /\ S!SyncInv /\ S!LossInv /\ S!CutInv
  BY DEF TalkInv, EndsInv
<1>2. S!Goes /\ S!IInv' /\ "reorder" \notin {"loss"}
  BY EndsMove
<1>3. S!TurnInv' /\ S!SyncInv'
  BY <1>1, <1>2, EndsAssumption, S!TurnsStep, S!SyncStep
<1>4. S!LossInv' /\ S!CutInv'
  BY <1>1, <1>2, EndsAssumption, S!LossStep, S!CutStep
<1> QED
  BY <1>2, <1>3, <1>4 DEF EndsInv

\* The relay takes its own steps in a conversation.
LEMMA TalksOverQueues ==
  ASSUME [Talk]_all
  PROVE  [Next]_vars
<1>1. CASE Serve \/ UNCHANGED all
  BY <1>1 DEF Serve, Next, all
<1>2. ASSUME NEW p \in User, Write(p) \/ PostRefused(p) \/ Receive(p) PROVE [Next]_vars
  BY <1>2 DEF Write, PostRefused, Receive, Poll, Read, Drop, Handle, Next
<1>3. ASSUME NEW p \in User, Post(p) PROVE Next
  BY <1>3, Users DEF Post, Next
<1> QED
  BY <1>1, <1>2, <1>3 DEF Talk, Send

\* What the relay has done, and the clients have sent, stays.
LEMMA Grows ==
  ASSUME TalkInv, [Talk]_all, NEW r \in User
  PROVE  /\ purged[r] \subseteq purged'[r] /\ unsent[r] \subseteq unsent'[r]
         /\ identities \subseteq identities'
         /\ Len(delivered'[r]) \in Nat /\ Len(delivered[r]) <= Len(delivered'[r])
         /\ \A k \in 1 .. Len(delivered[r]) : delivered'[r][k] = delivered[r][k]
         /\ \A e \in 1 .. Len(accepted[r]) : posted'[r][e] = posted[r][e]
<1>1. QueuesInv /\ TypeOK /\ CallsType /\ [Next]_vars
  BY TalksOverQueues DEF TalkInv, QueuesInv
<1>2. purged[r] \subseteq purged'[r] /\ identities \subseteq identities'
  BY <1>1 DEF Next, Tick, ReadTime, Purge, PurgeExpired, PublishIdentity, SendMessage,
     PollMessages, vars
<1>3. delivered[r] \in Seq(Nat) /\ Len(delivered[r]) \in Nat
  BY <1>1, QueueTypes
<1> DEFINE Longer == /\ Len(delivered'[r]) \in Nat /\ Len(delivered[r]) <= Len(delivered'[r])
                     /\ \A k \in 1 .. Len(delivered[r]) : delivered'[r][k] = delivered[r][k]
<1>4. ASSUME delivered'[r] = delivered[r] PROVE Longer
  BY <1>3, <1>4
<1>5. ASSUME PollMessages(r) PROVE Longer
  <2> DEFINE n == Len(accepted[r]) + 1 - NextOut(r)
             b == [k \in 1 .. n |-> NextOut(r) + k - 1]
  <2>1. delivered'[r] = delivered[r] \o b
    BY <1>1, <1>5, PollEffect
  <2>2. NextOut(r) \in 1 .. Len(accepted[r]) + 1 /\ Len(accepted[r]) \in Nat
    BY <1>1, QueueTypes, QueueEntries
  <2>3. n \in Nat /\ \A k \in 1 .. n : NextOut(r) + k - 1 \in Nat
    BY <2>2
  <2>4. b \in Seq(Nat) /\ Len(b) \in Nat
    <3> HIDE DEF n
    <3> QED
      BY <2>3
  <2> HIDE DEF b
  <2>5. /\ Len(delivered'[r]) = Len(delivered[r]) + Len(b)
        /\ \A k \in 1 .. Len(delivered[r]) + Len(b) : k <= Len(delivered[r]) =>
             delivered'[r][k] = delivered[r][k]
    BY <1>3, <2>1, <2>4, ConcatProperties
  <2> QED
    BY <1>3, <2>4, <2>5
<1>6. delivered'[r] = delivered[r] \/ PollMessages(r)
  BY <1>1 DEF Next, Tick, ReadTime, Purge, PurgeExpired, PublishIdentity, SendMessage,
     PollMessages, vars, TypeOK
<1>7. unsent[r] \subseteq unsent'[r]
  BY <1>1 DEF Talk, Serve, Write, Send, Post, PostRefused, Receive, Poll, Read, Drop, Handle,
     all, calls, CallsType
<1>8. \A e \in 1 .. Len(accepted[r]) : posted'[r][e] = posted[r][e]
  <2>1. ASSUME NEW p \in User, Post(p)
        PROVE  \A e \in 1 .. Len(accepted[r]) : posted'[r][e] = posted[r][e]
    <3>1. CASE r = Peer(p)
      BY <2>1, <3>1, PostEffect
    <3>2. CASE r # Peer(p)
      BY <1>1, <2>1, <3>2 DEF Post, CallsType
    <3> QED
      BY <3>1, <3>2
  <2>2. (\E p \in User : Post(p)) \/ posted' = posted
    BY DEF Talk, Serve, Write, Send, PostRefused, Receive, Poll, Read, Drop, Handle, all, calls
  <2> QED
    BY <2>1, <2>2
<1>9. Longer
  BY <1>4, <1>5, <1>6
<1> QED
  BY <1>2, <1>7, <1>8, <1>9

\* What is lost stays lost.
LEMMA LostStays ==
  ASSUME TalkInv, [Talk]_all, NEW r \in User
  PROVE  Lost(r) \subseteq Lost(r)'
<1>1. /\ purged[r] \subseteq purged'[r] /\ unsent[r] \subseteq unsent'[r]
      /\ \A e \in 1 .. Len(accepted[r]) : posted'[r][e] = posted[r][e]
  BY Grows
<1>2. purged[r] \subseteq 1 .. Len(accepted[r])
  BY Numbers
<1> QED
  BY <1>1, <1>2 DEF Lost

\* A call of EncryptMessage.
LEMMA WriteEffect ==
  ASSUME TalkInv, NEW p \in User, Write(p)
  PROVE  LET u == Peer(p)
         IN /\ u \in User /\ Peer(u) = p /\ p # u /\ Outbox(u) = {}
            /\ UNCHANGED <<vars, calls, inbox, refused>>
            /\ st[p].dhRemote # 0 /\ st'[u] = st[u] /\ sent'[u] = sent[u]
            /\ Len(sent'[p]) = Len(sent[p]) + 1
            /\ DOMAIN sent'[p] = DOMAIN sent[p] \cup {Len(sent[p]) + 1}
            /\ \A i \in DOMAIN sent[p] : sent'[p][i] = sent[p][i]
<1>1. /\ Peer(p) \in User /\ Peer(Peer(p)) = p /\ p # Peer(p) /\ Peer(p) = S!Peer(p)
      /\ p \in S!Party
  BY Users
<1>2. S!Encrypt(p) /\ Outbox(Peer(p)) = {} /\ UNCHANGED <<vars, calls>>
  BY EncryptsAlike DEF Write
<1>3. PICK m \in S!Message, new \in Nat : S!Put(p, new, m)
  BY <1>1, <1>2, EndsAssumption, S!EncryptPuts DEF TalkInv, EndsInv, S!IInv
<1>4. st[p].dhRemote # 0
  BY <1>2 DEF S!Encrypt, S!EncryptOnChain, S!EncryptNewChain, S!CanEncrypt
<1> QED
  BY <1>1, <1>2, <1>3, <1>4 DEF S!Put

\* A call of DecryptMessage: there is a session, or the message is the initial
\* one, and it was not lost.
LEMMA ReadEffect ==
  ASSUME TalkInv, NEW p \in User, Read(p)
  PROVE  LET q == Peer(p)
             i == NextMessage(p)
         IN /\ q \in User /\ p # q /\ st'[q] = st[q]
            /\ S!Handled(p)' = S!Handled(p) \cup {i} /\ S!Handled(q)' = S!Handled(q)
            /\ ~Ended(p)
<1> DEFINE q == Peer(p)
           i == NextMessage(p)
           e == Head(Unread(p))
<1>1. /\ q \in User /\ Peer(q) = p /\ p # q /\ q = S!Peer(p)
      /\ p \in S!Party /\ q \in S!Party
  BY Users
<1>2. Unread(p) # <<>> /\ Ends!Decrypt(p, i)
  BY DEF Read, Handle
<1>3. /\ i \in InFlight[p] /\ i = posted[p][e] /\ e \in ToSet(delivered[p])
      /\ e \in 1 .. Len(accepted[p]) /\ S!Decrypt(p, i)
  BY <1>2, NextIsFirst, DecryptsAlike
<1> HIDE DEF i, q, e
<1>4. S!TypeOK /\ S!SealInv /\ S!TurnInv /\ EndsInv
  BY DEF TalkInv, EndsInv, S!IInv
<1>5. PICK u \in S!State : S!Get(p, i, u)
  BY <1>1, <1>3, <1>4, EndsAssumption, S!DecryptGets
<1>6. S!Handled(p)' = S!Handled(p) \cup {i} /\ S!Handled(q)' = S!Handled(q)
  BY <1>1, <1>3, <1>4, <1>5, EndsAssumption, S!GetHandles
<1>7. st'[q] = st[q]
  BY <1>1, <1>5 DEF S!Get
<1>8. ~Ended(p)
  <2>1. st[p].dhRemote = 0 => S!Stored(st[p], sent[q][i]) = {}
    BY <1>4, NoSession DEF S!Stored
  <2>2. S!Stored(st[p], sent[q][i]) # {} \/ S!Ready(p, i)
    BY <1>1, <1>3 DEF S!Decrypt, S!DecryptStored, S!DecryptOnChain, S!DecryptNewChain,
       S!RefuseGap, S!RefusePreviousGap, S!RefuseUnexpectedCT, S!RefuseNewChainGap, S!OnChain,
       S!OnNewChain
  <2>3. SUFFICES ASSUME i = 1, 1 \in Lost(p) PROVE FALSE
    BY <2>1, <2>2 DEF Ended, S!Ready
  <2>4. 1 \in ToSet(posted[p])
    BY <1>3, <2>3, Numbers
  <2>5. 1 \notin unsent[p]
    BY <2>4 DEF TalkInv, Posted
  <2>6. PICK f \in purged[p] : posted[p][f] = 1
    BY <2>3, <2>5 DEF Lost
  <2>7. f \in 1 .. Len(accepted[p])
    BY <2>6, Numbers
  <2>8. f = e
    <3>1. posted[p][f] = posted[p][e]
      BY <1>3, <2>3, <2>6
    <3> QED
      BY <1>3, <2>7, <3>1, SameOrder
  <2> QED
    BY <1>3, <2>6, <2>8, Numbers
<1> QED
  BY <1>1, <1>6, <1>7, <1>8 DEF q, i

LEMMA HandleEffect ==
  ASSUME TalkInv, NEW p \in User, Handle(p)
  PROVE  /\ handled'[p] = handled[p] + 1 /\ \A q \in User \ {p} : handled'[q] = handled[q]
         /\ handled[p] + 1 \in 1 .. Len(delivered[p])
         /\ NextMessage(p) = posted[p][delivered[p][handled[p] + 1]]
         /\ handled' \in [User -> Nat] /\ UNCHANGED <<vars, sent, posted, unsent>>
<1>1. Unread(p) # <<>> /\ handled \in [User -> Nat]
  BY DEF Handle, TalkInv, CallsType
<1>2. handled[p] + 1 \in 1 .. Len(delivered[p])
      /\ NextMessage(p) = posted[p][delivered[p][handled[p] + 1]]
  BY <1>1, NextIsFirst
<1> QED
  BY <1>1, <1>2 DEF Handle

\* A party never gets a session once the initial message to it is lost.
LEMMA EndedStays ==
  ASSUME TalkInv, [Talk]_all, NEW r \in User, Ended(r)
  PROVE  Ended(r)'
<1>1. 1 \in Lost(r)'
  BY LostStays DEF Ended
<1>2. st'[r] = st[r]
  <2>1. ASSUME NEW p \in User, Write(p) PROVE st'[r] = st[r]
    BY <2>1, WriteEffect, Users DEF Ended
  <2>2. ASSUME NEW p \in User, Read(p) PROVE st'[r] = st[r]
    BY <2>2, ReadEffect, Users
  <2>3. (\E p \in User : Write(p) \/ Read(p)) \/ st' = st
    BY DEF Talk, Serve, Send, Post, PostRefused, Receive, Poll, Drop, all, ends
  <2> QED
    BY <2>1, <2>2, <2>3
<1> QED
  BY <1>1, <1>2 DEF Ended

\* Every step keeps the types.
LEMMA CallsStep ==
  ASSUME TalkInv, [Talk]_all
  PROVE  CallsType'
<1>1. CallsType
  BY DEF TalkInv
<1>2. ASSUME NEW p \in User, Post(p) PROVE CallsType'
  <2> DEFINE u == Peer(p)
  <2>1. /\ u \in User /\ posted'[u] = Append(posted[u], Len(sent[Peer(u)]))
        /\ Len(sent[Peer(u)]) \in Nat
    BY <1>2, PostEffect, Numbers
  <2>2. posted'[u] \in Seq(Nat)
    BY <1>1, <2>1 DEF CallsType
  <2>3. posted' = [posted EXCEPT ![u] = posted'[u]] /\ UNCHANGED <<unsent, handled>>
    BY <1>1, <1>2, <2>1 DEF Post, CallsType
  <2> HIDE DEF u
  <2> QED
    BY <1>1, <2>1, <2>2, <2>3 DEF CallsType
<1>3. ASSUME NEW p \in User, PostRefused(p) PROVE CallsType'
  <2> DEFINE u == Peer(p)
  <2>1. PICK i \in Outbox(u) : /\ unsent' = [unsent EXCEPT ![u] = @ \cup {i}]
                               /\ UNCHANGED <<posted, handled>>
    BY <1>3 DEF PostRefused
  <2>2. u \in User /\ i \in Nat
    BY Users, Numbers DEF Outbox
  <2> QED
    BY <1>1, <2>1, <2>2 DEF CallsType
<1>4. ASSUME NEW p \in User, Handle(p) PROVE CallsType'
  BY <1>1, <1>4, HandleEffect DEF CallsType
<1>5. CASE UNCHANGED calls
  BY <1>1, <1>5 DEF CallsType, calls
<1> QED
  BY <1>2, <1>3, <1>4, <1>5 DEF Talk, Serve, Write, Send, Receive, Poll, Read, Drop, all

\* Every step keeps the order of what is sent.
LEMMA PostedStep ==
  ASSUME TalkInv, [Talk]_all, NEW r \in User
  PROVE  Posted(r)'
<1>0. Posted(r)
  BY DEF TalkInv
<1>1. CASE /\ posted'[r] = posted[r] /\ unsent'[r] = unsent[r] /\ accepted'[r] = accepted[r]
           /\ sent'[Peer(r)] = sent[Peer(r)]
  BY <1>0, <1>1 DEF Posted, Outbox
<1>2. ASSUME NEW p \in User, Write(p) PROVE Posted(r)'
  <2> DEFINE u == Peer(p)
             n == Len(sent[p])
  <2>1. /\ u \in User /\ Peer(u) = p /\ p # u /\ Outbox(u) = {}
        /\ UNCHANGED <<posted, unsent, accepted>> /\ sent'[u] = sent[u]
        /\ Len(sent'[p]) = n + 1 /\ DOMAIN sent'[p] = DOMAIN sent[p] \cup {n + 1}
    BY <1>2, WriteEffect DEF vars, calls
  <2>2. CASE r = u
    <3>1. Outbox(u)' \subseteq {n + 1}
      BY <2>1 DEF Outbox
    <3> HIDE DEF u, n
    <3> QED
      BY <1>0, <2>1, <2>2, <3>1 DEF Posted
  <2>3. CASE r = p
    BY <1>1, <2>1, <2>3
  <2> QED
    BY <2>1, <2>2, <2>3, Users
<1>3. ASSUME NEW p \in User, Post(p) PROVE Posted(r)'
  <2> DEFINE u == Peer(p)
             i == Len(sent[Peer(u)])
             N == Len(accepted[u])
  <2>1. /\ u \in User /\ Outbox(u) = {i} /\ Outbox(u)' = {} /\ i \in 1 .. i
        /\ Len(posted'[u]) = N + 1 /\ DOMAIN posted'[u] = 1 .. N + 1
        /\ posted'[u][N + 1] = i /\ \A e \in 1 .. N : posted'[u][e] = posted[u][e]
        /\ Len(accepted'[u]) = N + 1
        /\ ToSet(posted'[u]) = ToSet(posted[u]) \cup {i}
    BY <1>3, PostEffect
  <2>2. UNCHANGED <<ends, unsent>> /\ \A q \in User \ {u} :
          posted'[q] = posted[q] /\ accepted'[q] = accepted[q]
    BY <1>3 DEF Post, SendMessage, TalkInv, CallsType, QueuesInv, TypeOK
  <2>3. CASE r # u
    BY <1>1, <2>2, <2>3 DEF ends
  <2>4. CASE r = u
    <3>1. /\ DOMAIN posted[u] = 1 .. N /\ DOMAIN sent[Peer(u)] = 1 .. i /\ N \in Nat
          /\ \A e \in 1 .. N : posted[u][e] \in ToSet(posted[u])
      BY <2>1, Numbers
    <3>2. /\ ToSet(posted[u]) \cup unsent[u] \subseteq DOMAIN sent[Peer(u)]
          /\ ToSet(posted[u]) \cap unsent[u] = {}
          /\ \A k, l \in 1 .. N : k < l => posted[u][k] < posted[u][l]
      BY <1>0, <2>4, <3>1 DEF Posted
    <3>3. i \notin ToSet(posted[u]) /\ i \notin unsent[u]
      BY <2>1 DEF Outbox
    <3>4. sent'[Peer(u)] = sent[Peer(u)] /\ unsent' = unsent
      BY <2>2 DEF ends
    <3> HIDE DEF u, i, N
    <3>5. \A e \in 1 .. N : posted[u][e] < i
      <4> TAKE e \in 1 .. N
      <4>1. posted[u][e] \in 1 .. i /\ posted[u][e] # i
        BY <3>1, <3>2, <3>3
      <4> QED
        BY <2>1, <4>1
    <3>6. ASSUME NEW k \in 1 .. N + 1, NEW l \in 1 .. N + 1, k < l
          PROVE  posted'[u][k] < posted'[u][l]
      <4>1. k \in 1 .. N /\ (l \in 1 .. N \/ l = N + 1)
        BY <3>1, <3>6
      <4> QED
        BY <2>1, <3>2, <3>5, <3>6, <4>1
    <3>7. ToSet(posted'[u]) \cup unsent[u] \subseteq DOMAIN sent[Peer(u)]
      BY <2>1, <3>1, <3>2
    <3>8. ToSet(posted'[u]) \cap unsent[u] = {}
      BY <2>1, <3>2, <3>3
    <3> QED
      BY <2>1, <2>4, <3>4, <3>6, <3>7, <3>8 DEF Posted
  <2> QED
    BY <2>3, <2>4
<1>4. ASSUME NEW p \in User, PostRefused(p) PROVE Posted(r)'
  <2> DEFINE u == Peer(p)
  <2>1. u \in User
    BY Users
  <2>2. PICK i \in Outbox(u) : /\ unsent' = [unsent EXCEPT ![u] = @ \cup {i}]
                               /\ UNCHANGED <<vars, ends, posted, handled>>
    BY <1>4 DEF PostRefused
  <2>3. /\ unsent'[u] = unsent[u] \cup {i} /\ \A q \in User \ {u} : unsent'[q] = unsent[q]
        /\ UNCHANGED <<accepted, sent, posted>>
    BY <2>1, <2>2 DEF TalkInv, CallsType, vars, ends
  <2>4. CASE r # u
    BY <1>1, <2>3, <2>4
  <2>5. CASE r = u
    <3>1. Outbox(u)' \subseteq Outbox(u) /\ i \in DOMAIN sent[Peer(u)] /\ i \notin ToSet(posted[u])
      BY <2>3 DEF Outbox
    <3> HIDE DEF u
    <3> QED
      BY <1>0, <2>3, <2>5, <3>1 DEF Posted
  <2> QED
    BY <2>4, <2>5
<1>5. ASSUME NEW p \in User, Handle(p) PROVE Posted(r)'
  BY <1>1, <1>5, HandleEffect DEF vars
<1>6. CASE UNCHANGED <<ends, calls, accepted>>
  BY <1>1, <1>6 DEF ends, calls
<1>7. CASE Serve \/ (\E p \in User : Poll(p)) \/ UNCHANGED all
  BY <1>6, <1>7 DEF Serve, Tick, ReadTime, Purge, PurgeExpired, PublishIdentity, Poll,
     PollMessages, all, vars
<1> QED
  BY <1>2, <1>3, <1>4, <1>5, <1>7 DEF Talk, Send, Receive, Read, Drop

\* Every step keeps the parties to what was handed to them.
LEMMA MatchedStep ==
  ASSUME TalkInv, [Talk]_all, NEW r \in User
  PROVE  Matched(r)'
<1>1. Matched(r)
  BY DEF TalkInv
<1>2. /\ handled[r] \in 0 .. Len(delivered[r]) /\ Len(delivered[r]) \in Nat
      /\ DOMAIN delivered[r] = 1 .. Len(delivered[r])
      /\ Len(delivered'[r]) \in Nat /\ Len(delivered[r]) <= Len(delivered'[r])
      /\ \A k \in 1 .. Len(delivered[r]) : delivered'[r][k] = delivered[r][k]
      /\ \A e \in 1 .. Len(accepted[r]) : posted'[r][e] = posted[r][e]
  BY <1>1, Grows, QueueTypes DEF Matched, TalkInv, QueuesInv
<1>3. \A k \in 1 .. Len(delivered[r]) : delivered[r][k] \in 1 .. Len(accepted[r])
  <2>1. \A k \in 1 .. Len(delivered[r]) : delivered[r][k] \in ToSet(delivered[r])
    BY <1>2 DEF ToSet
  <2>2. /\ ToSet(delivered[r]) \subseteq 1 .. NextOut(r) - 1
        /\ NextOut(r) \in 1 .. Len(accepted[r]) + 1 /\ Len(accepted[r]) \in Nat
    BY Numbers
  <2> QED
    BY <2>1, <2>2
<1>4. S!Handled(r) \subseteq S!Handled(r)'
  <2>1. ASSUME NEW p \in User, Read(p) PROVE S!Handled(r) \subseteq S!Handled(r)'
    BY <2>1, ReadEffect, Users
  <2>2. ASSUME NEW p \in User, Write(p) PROVE S!Handled(r)' = S!Handled(r)
    BY <2>2, WriteEffect DEF S!Handled
  <2>3. (\E p \in User : Read(p) \/ Write(p)) \/ UNCHANGED ends
    BY DEF Talk, Serve, Send, Post, PostRefused, Receive, Poll, Drop, all
  <2>4. UNCHANGED ends => S!Handled(r)' = S!Handled(r)
    BY DEF ends, S!Handled
  <2> QED
    BY <2>1, <2>2, <2>3, <2>4
<1>5. Ended(r) => Ended(r)'
  BY EndedStays
<1>6. ASSUME NEW k \in 1 .. handled[r]
      PROVE  posted'[r][delivered'[r][k]] \in S!Handled(r)' \/ Ended(r)'
  <2>1. k \in 1 .. Len(delivered[r]) /\ delivered'[r][k] = delivered[r][k]
        /\ delivered[r][k] \in 1 .. Len(accepted[r])
    BY <1>2, <1>3
  <2>2. posted'[r][delivered'[r][k]] = posted[r][delivered[r][k]]
    BY <1>2, <2>1
  <2> QED
    BY <1>1, <1>4, <1>5, <2>2 DEF Matched
<1>7. CASE handled'[r] = handled[r]
  <2>1. handled'[r] \in 0 .. Len(delivered'[r])
    BY <1>2, <1>7
  <2> QED
    BY <1>6, <1>7, <2>1 DEF Matched
<1>8. CASE Handle(r) /\ (NextMessage(r) \in S!Handled(r)' \/ Ended(r)')
  <2>1. /\ handled'[r] = handled[r] + 1 /\ handled[r] + 1 \in 1 .. Len(delivered[r])
        /\ NextMessage(r) = posted[r][delivered[r][handled[r] + 1]]
        /\ delivered' = delivered /\ posted' = posted
    BY <1>8, HandleEffect DEF vars
  <2>2. handled'[r] \in 0 .. Len(delivered'[r])
    BY <1>2, <2>1
  <2>3. ASSUME NEW k \in 1 .. handled'[r]
        PROVE  posted'[r][delivered'[r][k]] \in S!Handled(r)' \/ Ended(r)'
    <3>1. k \in 1 .. handled[r] \/ k = handled[r] + 1
      BY <1>2, <2>1
    <3>2. CASE k \in 1 .. handled[r]
      BY <1>6, <3>2
    <3>3. CASE k = handled[r] + 1
      BY <1>8, <2>1, <3>3
    <3> QED
      BY <3>1, <3>2, <3>3
  <2> QED
    BY <2>2, <2>3 DEF Matched
<1>9. ASSUME NEW p \in User, Read(p) PROVE Matched(r)'
  <2>1. Handle(p) /\ NextMessage(p) \in S!Handled(p)'
    BY <1>9, ReadEffect DEF Read
  <2>2. r # p => handled'[r] = handled[r]
    BY <2>1, HandleEffect
  <2> QED
    BY <1>7, <1>8, <2>1, <2>2
<1>10. ASSUME NEW p \in User, Drop(p) PROVE Matched(r)'
  <2>1. Handle(p) /\ Ended(p)
    BY <1>10, NoneWithout DEF Drop, Handle
  <2>2. Ended(p)'
    BY <2>1, EndedStays
  <2>3. r # p => handled'[r] = handled[r]
    BY <2>1, HandleEffect
  <2> QED
    BY <1>7, <1>8, <2>1, <2>2, <2>3
<1>11. (\E p \in User : Read(p) \/ Drop(p)) \/ handled' = handled
  BY DEF Talk, Serve, Write, Send, Post, PostRefused, Receive, Poll, all, calls
<1> QED
  BY <1>7, <1>9, <1>10, <1>11

\* A party that is not known to the relay has nothing to answer.
LEMMA UnheardStep ==
  ASSUME TalkInv, [Talk]_all, NEW r \in User
  PROVE  Unheard(r)'
<1> DEFINE Blank(s) == s.chainRecv = <<>> /\ s.pendingKEM = 0 /\ ~s.needsNew
<1>1. Unheard(r) /\ (r \notin identities => Blank(st[r]))
  BY DEF TalkInv, Unheard
<1>2. identities \subseteq identities'
  BY Grows
<1>3. r \notin identities' => accepted'[r] = <<>>
  <2>1. ASSUME NEW p \in User, Post(p), r \notin identities PROVE accepted'[r] = accepted[r]
    <3>1. r # Peer(p)
      BY <2>1, PostEffect
    <3> QED
      BY <2>1, <3>1 DEF Post, SendMessage, TalkInv, QueuesInv, TypeOK
  <2>2. (\E p \in User : Post(p)) \/ accepted' = accepted
    BY DEF Talk, Serve, Tick, ReadTime, Purge, PurgeExpired, PublishIdentity, Write, Send,
       PostRefused, Receive, Poll, PollMessages, Read, Drop, Handle, all, vars
  <2> QED
    BY <1>1, <1>2, <2>1, <2>2 DEF Unheard
<1>4. r \notin identities' => Blank(st'[r])
  <2> SUFFICES ASSUME r \notin identities PROVE Blank(st'[r])
    BY <1>2
  <2>1. ASSUME NEW p \in User, Write(p) PROVE Blank(st'[r])
    <3>1. CASE r # p
      BY <1>1, <2>1, <3>1, WriteEffect, Users
    <3>2. CASE r = p
      <4>1. S!EncryptOnChain(r)
        BY <1>1, <2>1, <3>2, EncryptsAlike DEF Write, S!Encrypt, S!EncryptNewChain
      <4>2. st'[r] = S!StepSending(st[r])
        <5>1. st' = [st EXCEPT ![r] = S!StepSending(st[r])]
          BY <4>1 DEF S!EncryptOnChain, S!Seal
        <5>2. st \in [S!Party -> S!State] /\ r \in S!Party
          BY Users DEF TalkInv, EndsInv, S!IInv, S!TypeOK
        <5> QED
          BY <5>1, <5>2
      <4>3. st[r] \in S!State
        BY Users DEF TalkInv, EndsInv, S!IInv, S!TypeOK
      <4> QED
        BY <1>1, <4>2, <4>3 DEF S!StepSending, S!State
    <3> QED
      BY <3>1, <3>2
  <2>2. ASSUME NEW p \in User, Read(p) PROVE Blank(st'[r])
    <3>1. r # p
      <4>1. ASSUME r = p PROVE FALSE
        <5>1. Head(Unread(p)) \in 1 .. Len(accepted[p]) /\ accepted[p] = <<>>
          BY <1>1, <2>2, <4>1, NextIsFirst DEF Read, Handle, Unheard
        <5> QED
          BY <5>1
      <4> QED
        BY <4>1
    <3> QED
      BY <1>1, <2>2, <3>1, ReadEffect, Users
  <2>3. (\E p \in User : Write(p) \/ Read(p)) \/ st' = st
    BY DEF Talk, Serve, Send, Post, PostRefused, Receive, Poll, Drop, all, ends
  <2> QED
    BY <1>1, <2>1, <2>2, <2>3
<1>5. ASSUME NEW i \in unsent'[r] PROVE sent'[Peer(r)][i].ct = 0
  <2>1. CASE i \in unsent[r]
    <3>1. sent[Peer(r)][i].ct = 0 /\ i \in DOMAIN sent[Peer(r)]
      BY <1>1, <2>1 DEF Unheard, TalkInv, Posted
    <3>2. ASSUME NEW p \in User, Write(p) PROVE sent'[Peer(r)][i] = sent[Peer(r)][i]
      BY <3>1, <3>2, WriteEffect, Users
    <3>3. (\E p \in User : Write(p)) \/ sent' = sent
      BY DEF Talk, Serve, Send, Post, PostRefused, Receive, Poll, Read, Drop, Handle, all, ends
    <3> QED
      BY <3>1, <3>2, <3>3
  <2>2. CASE i \notin unsent[r]
    <3>1. PICK p \in User : PostRefused(p)
      BY <1>5, <2>2 DEF Talk, Serve, Write, Send, Post, Receive, Poll, Read, Drop, Handle,
         all, calls
    <3>2. r = Peer(p) /\ r \notin identities /\ i \in Outbox(r) /\ sent' = sent
      BY <1>5, <2>2, <3>1, Users DEF PostRefused, TalkInv, CallsType, ends
    <3>3. i \in DOMAIN sent[Peer(r)] /\ Blank(st[r])
      BY <1>1, <3>2 DEF Outbox
    <3>4. S!Begun(r) /\ S!Paired(r) /\ Peer(r) = S!Peer(r)
      BY Users DEF TalkInv, EndsInv, S!TurnInv
    <3>5. st[r].dhRemote < sent[Peer(r)][i].dh
      BY <3>3, <3>4 DEF S!Begun
    <3> QED
      BY <3>2, <3>3, <3>4, <3>5 DEF S!Paired
  <2> QED
    BY <2>1, <2>2
<1> QED
  BY <1>3, <1>4, <1>5 DEF Unheard

\* A conversation starts with nothing written, queued or handled.
LEMMA InitTalk == Start => TalkInv /\ Session!Init
<1> SUFFICES ASSUME Start PROVE TalkInv /\ Session!Init
  OBVIOUS
<1>1. /\ Init /\ Ends!Init /\ handled = [p \in User |-> 0] /\ QueuesInv
      /\ posted = [p \in User |-> <<>>] /\ unsent = [p \in User |-> {}]
  BY InitQueues DEF Start
<1>2. S!Init /\ Session!Init
  BY <1>1 DEF Ends!Init, Ends!Party, Ends!InitAlice, Ends!InitBob, Ends!RootKDF, Ends!DH,
     Ends!NoSecret, Ends!KEMSecret,
     S!Init, S!Party, S!InitAlice, S!InitBob, S!RootKDF, S!DH, S!NoSecret, S!KEMSecret,
     Session!Init, Session!Party, Session!InitAlice, Session!InitBob, Session!RootKDF,
     Session!DH, Session!NoSecret, Session!KEMSecret
<1>3. EndsInv
  BY <1>2, EndsAssumption, S!InitIInv, S!InitTurns, S!InitSync, S!InitLoss, S!InitCut
     DEF EndsInv
<1>4. CallsType
  BY <1>1 DEF CallsType
<1>5. ASSUME NEW p \in User PROVE Posted(p) /\ Matched(p)
  <2>1. /\ accepted[p] = <<>> /\ delivered[p] = <<>> /\ handled[p] = 0
        /\ posted[p] = <<>> /\ unsent[p] = {} /\ sent[Peer(p)] = <<>>
    BY <1>1, <1>2, Users DEF Init, S!Init
  <2>2. Outbox(p) = {}
    BY <2>1 DEF Outbox
  <2> QED
    BY <2>1, <2>2 DEF Posted, Matched, ToSet
<1>6. ASSUME NEW p \in User PROVE Unheard(p)
  <2>1. accepted[p] = <<>> /\ unsent[p] = {}
    BY <1>1 DEF Init
  <2>2. st[p] = S!InitAlice \/ st[p] = S!InitBob
    BY <1>2, Users DEF S!Init
  <2>3. st[p].chainRecv = <<>> /\ st[p].pendingKEM = 0 /\ ~st[p].needsNew
    BY <2>2 DEF S!InitAlice, S!InitBob
  <2> QED
    BY <2>1, <2>3 DEF Unheard
<1> QED
  BY <1>1, <1>2, <1>3, <1>4, <1>5, <1>6 DEF TalkInv

LEMMA TalkStep == TalkInv /\ [Talk]_all => TalkInv'
<1> SUFFICES ASSUME TalkInv, [Talk]_all PROVE TalkInv'
  OBVIOUS
<1>1. QueuesInv'
  BY TalksOverQueues, QueuesStep DEF TalkInv
<1>2. EndsInv' /\ CallsType'
  BY EndsStep, CallsStep
<1>3. \A p \in User : Posted(p)' /\ Matched(p)' /\ Unheard(p)'
  BY PostedStep, MatchedStep, UnheardStep
<1> QED
  BY <1>1, <1>2, <1>3 DEF TalkInv

\* The invariant of a conversation holds in every reachable state: the relay's
\* own, those of the two ends over a network that keeps the order, that every
\* message is still to be sent, was accepted in its turn or was refused, that
\* the ends have handled what they have gone through, and that a message is
\* refused only by a relay that has handed its recipient nothing.
THEOREM TalkInvariance == Conversation => []TalkInv
BY InitTalk, TalkStep, PTL DEF Conversation

\* Whatever the two clients write and read, the relay's queues behave as they
\* do alone, so that what is proved of them holds in a conversation.
THEOREM ConversationsUseQueues == Conversation => Spec
<1>1. Start => Init
  BY DEF Start
<1>2. [Talk]_all => [Next]_vars
  BY TalksOverQueues
<1> QED
  BY <1>1, <1>2, PTL DEF Conversation, Spec

\* To the two ends the relay is a network that keeps the order, repeats nothing,
\* and loses only what it purges, what it refuses and what belongs to no
\* session because the initial message was lost.
THEOREM RelayIsOrderly == Conversation => RelayIsNetwork
<1>1. Start => Session!Init
  BY InitTalk
<1>2. TalkInv /\ [Talk]_all => [LoseSome \/ Session!Next]_(Session!vars)
  <2> SUFFICES ASSUME TalkInv, [Talk]_all PROVE LoseSome \/ Session!Next
    OBVIOUS
  <2>1. Session!Party = User
    BY ConversationAssumption DEF ConversationAssumption, Session!Party
  <2> QED
    BY <2>1, Moves DEF Session!Next
<1> QED
  BY <1>1, <1>2, TalkInvariance, PTL DEF Conversation, RelayIsNetwork

\* What never reaches a party with a session was purged or refused.
LEMMA GoneIsLost ==
  ASSUME TalkInv, NEW p \in User, ~Ended(p)
  PROVE  S!Gone(p) \subseteq Lost(p)
<1> DEFINE d == delivered[p]
           h == handled[p]
           N == Len(accepted[p])
<1>1. /\ Len(d) \in Nat /\ DOMAIN d = 1 .. Len(d) /\ h \in 0 .. Len(d) /\ Matched(p)
  BY QueueTypes DEF TalkInv, Matched, QueuesInv
<1>2. /\ N \in Nat /\ NextOut(p) \in 1 .. N + 1
      /\ ToSet(d) \cup purged[p] = 1 .. NextOut(p) - 1
      /\ DOMAIN sent[Peer(p)] = 1 .. Len(sent[Peer(p)]) /\ Peer(p) = S!Peer(p)
  BY Numbers, Users
<1> HIDE DEF N, d
<1>3. ASSUME NEW i \in S!Gone(p), i \notin Lost(p) PROVE FALSE
  <2>1. i \in 1 .. Len(sent[Peer(p)]) /\ i \notin InFlight[p] /\ i \notin S!Handled(p)
    BY <1>2 DEF S!Gone
  <2>2. PICK e \in 1 .. N : posted[p][e] = i
    BY <1>3, <2>1, Whereabouts DEF N
  <2>3. e \notin Waiting(p) /\ e \notin purged[p]
    BY <1>3, <2>1, <2>2 DEF InFlight, Lost
  <2>4. e \notin NextOut(p) .. N
    BY <2>3, WaitingSet DEF N
  <2>5. e \in ToSet(d)
    <3>1. e \in 1 .. NextOut(p) - 1
      BY <1>2, <2>4
    <3> QED
      BY <1>2, <2>3, <3>1
  <2>6. PICK k \in 1 .. Len(d) : d[k] = e
    BY <1>1, <2>5 DEF ToSet
  <2>7. CASE k \in 1 .. h
    BY <1>1, <2>1, <2>2, <2>6, <2>7 DEF Matched, d
  <2>8. CASE k \in h + 1 .. Len(d)
    BY <2>3, <2>6, <2>8, WaitingSet DEF d
  <2> QED
    BY <1>1, <2>6, <2>7, <2>8
<1> QED
  BY <1>3

\* What was lost is a finite set.
LEMMA LostFinite ==
  ASSUME TalkInv, NEW p \in User
  PROVE  IsFiniteSet(Lost(p))
<1>1. /\ Len(sent[Peer(p)]) \in Nat /\ DOMAIN sent[Peer(p)] = 1 .. Len(sent[Peer(p)])
      /\ purged[p] \subseteq 1 .. Len(accepted[p])
      /\ \A e \in 1 .. Len(accepted[p]) : posted[p][e] \in ToSet(posted[p])
  BY Numbers
<1>2. Lost(p) \subseteq 1 .. Len(sent[Peer(p)])
  BY <1>1 DEF Lost, TalkInv, Posted
<1>3. IsFiniteSet(1 .. Len(sent[Peer(p)]))
  <2> DEFINE n == Len(sent[Peer(p)])
  <2>1. 1 \in Int /\ n \in Int
    BY <1>1
  <2> HIDE DEF n
  <2>2. IsFiniteSet(1 .. n)
    BY <2>1, FS_Interval
  <2> QED
    BY <2>2 DEF n
<1> QED
  BY <1>2, <1>3, FS_Subset

\* The store of skipped keys, for which the code sets no limit, holds keys only
\* of messages that were purged or refused by the relay.
THEOREM StoresOnlyLost == Conversation => []OnlyLostAreSkipped
<1>1. TalkInv => OnlyLostAreSkipped
  <2> SUFFICES ASSUME TalkInv, NEW p \in User, NEW e \in st[p].skipped
               PROVE  \E i \in Lost(p) : sent[Peer(p)][i].dh = e.dh /\ sent[Peer(p)][i].n = e.n
    BY DEF OnlyLostAreSkipped
  <2>1. EndsInv /\ S!OnlyGone(p) /\ Peer(p) = S!Peer(p)
    BY Users DEF TalkInv, EndsInv, S!LossInv
  <2>2. ~Ended(p)
    BY <2>1, NoSession DEF Ended
  <2> QED
    BY <2>1, <2>2, GoneIsLost DEF S!OnlyGone
<1> QED
  BY <1>1, TalkInvariance, PTL

\* The keys of the two ends part, and a message that arrives is refused, only
\* after the janitor purged the carrier of a ciphertext, or more messages to a
\* party in session than it accepts to skip at a time were purged or refused by
\* the relay.
THEOREM KeysPartByLoss == Conversation => []KeysPartOnlyByLoss
<1>1. TalkInv => KeysPartOnlyByLoss
  <2> SUFFICES ASSUME TalkInv PROVE KeysPartOnlyByLoss
    OBVIOUS
  <2>1. EndsInv /\ S!SyncInv /\ S!CutInv
    BY DEF TalkInv, EndsInv
  <2>2. ASSUME NEW p \in User, S!CTGone(p) PROVE CTPurged
    <3>1. Peer(p) = S!Peer(p) /\ Unheard(p)
      BY Users DEF TalkInv
    <3>2. ~Ended(p)
      BY <2>1, <2>2, NoSession DEF S!CTGone, S!Gone, Ended
    <3>3. PICK i \in Lost(p) : sent[Peer(p)][i].ct # 0
      BY <2>2, <3>1, <3>2, GoneIsLost DEF S!CTGone
    <3>4. PICK e \in purged[p] : i = posted[p][e]
      BY <3>1, <3>3 DEF Lost, Unheard
    <3> QED
      BY <3>3, <3>4 DEF CTPurged
  <2>3. ASSUME NEW p \in User, S!GapGone(p) PROVE GapLost
    <3>1. S!Gone(p) \subseteq Lost(p) /\ IsFiniteSet(Lost(p))
      BY <2>3, GoneIsLost, LostFinite DEF S!GapGone, Ended
    <3>2. Cardinality(S!Gone(p)) <= Cardinality(Lost(p)) /\ IsFiniteSet(S!Gone(p))
      BY <3>1, FS_Subset
    <3>3. Cardinality(S!Gone(p)) \in Nat /\ Cardinality(Lost(p)) \in Nat
      BY <3>1, <3>2, FS_CardinalityType
    <3>4. Cardinality(Lost(p)) > MaxSkip
      <4>1. \A x, y, z \in Nat : x <= y /\ x > z => y > z
        OBVIOUS
      <4>2. Cardinality(S!Gone(p)) = S!Cardinality(S!Gone(p))
        BY DEF Cardinality, S!Cardinality
      <4>3. Cardinality(S!Gone(p)) > MaxSkip /\ MaxSkip \in Nat
        BY <2>3, <4>2, ConversationAssumption DEF S!GapGone, ConversationAssumption
      <4> QED
        BY <3>2, <3>3, <4>1, <4>3, Zenon
    <3> QED
      BY <2>3, <3>4 DEF GapLost, S!GapGone
  <2>4. CASE \A p \in User : S!Reading(p)
    <3>1. \A p \in User : refused[p] = {}
      BY <2>4 DEF S!Reading
    <3>2. S!InSync
      BY <2>1, <3>1, EndsAssumption, Users, S!ReadingAgrees
    <3>3. Ends!InSync
      BY <3>2 DEF S!InSync, Ends!InSync, S!Party, Ends!Party, S!Peer, Ends!Peer
    <3> QED
      BY <3>1, <3>3 DEF KeysPartOnlyByLoss
  <2> QED
    BY <2>1, <2>2, <2>3, <2>4, Users DEF KeysPartOnlyByLoss, S!CutInv, S!Damaged
<1> QED
  BY <1>1, TalkInvariance, PTL
=============================================================================
