-------------------------- MODULE TransLogProofs --------------------------
(***************************************************************************)
(* Proofs about TransLog, for every number of users, contacts, checks at a *)
(* time and keys.                                                          *)
(*                                                                         *)
(* The inductive invariant IInv says that every published tree is a        *)
(* beginning of the log; that the keys of a user ascend along the log; and *)
(* that what the client has pinned, and what a caller was told was the     *)
(* latest, are entries of the log, the pinned one no later than the other. *)
(***************************************************************************)
EXTENDS TransLog, TLAPS

\* s is a beginning of t, point by point.
Begins(s, t) == Len(s) <= Len(t) /\ \A i \in 1 .. Len(s) : s[i] = t[i]

Published ==
  /\ \A h \in heads : Begins(h.root, entries)
  /\ currentSTH # NoSTH => currentSTH \in heads

Ascending ==
  \A i, j \in DOMAIN entries :
    i < j /\ entries[i].user = entries[j].user => entries[i].key < entries[j].key

Pins ==
  \A u \in User :
    pinned[u] # None =>
      \E h \in heads : \E i \in DOMAIN h.root : h.root[i] = [user |-> u, key |-> pinned[u]]

Told ==
  \A c \in Caller :
    check[c].at = "latest" /\ check[c].index # None =>
      /\ check[c].index \in DOMAIN entries
      /\ entries[check[c].index].user = check[c].user
      /\ check[c].pin <= entries[check[c].index].key

IInv == TypeOK /\ Published /\ Ascending /\ Pins /\ Told

-----------------------------------------------------------------------------
\* IsPrefix, point by point.
LEMMA PrefixPoints ==
  ASSUME NEW S, NEW s \in Seq(S), NEW t \in Seq(S), Begins(s, t)
  PROVE  IsPrefix(s, t)
<1>1. SubSeq(s, 1, Len(s)) = SubSeq(t, 1, Len(s))
  BY DEF Begins
<1> QED
  BY <1>1 DEF IsPrefix, Begins

\* Two beginnings of the log are beginnings of one another.
LEMMA BeginningsCompare ==
  ASSUME NEW S, NEW s \in Seq(S), NEW t \in Seq(S), NEW e \in Seq(S),
         Begins(s, e), Begins(t, e)
  PROVE  Begins(s, t) \/ Begins(t, s)
<1>1. Len(s) \in Nat /\ Len(t) \in Nat
  OBVIOUS
<1>2. CASE Len(s) <= Len(t)
  BY <1>1, <1>2 DEF Begins
<1>3. CASE Len(t) <= Len(s)
  BY <1>1, <1>3 DEF Begins
<1> QED
  BY <1>1, <1>2, <1>3

\* What a record of a check is by its stage.
LEMMA CheckShapes ==
  ASSUME NEW q \in Check
  PROVE  /\ q.at \in {"idle", "observed", "latest", "found", "blocked"}
         /\ q.at \notin {"idle", "blocked"} => q.user \in User /\ q.key \in Key
         /\ q.at \in {"latest", "found"} => q.index \in Nat /\ q.pin \in Nat
  BY DEF Check, Idle, Blocked

\* The fields of the entries of the log.
LEMMA EntryShapes ==
  ASSUME entries \in Seq(Entry)
  PROVE  \A i \in 1 .. Len(entries) :
           entries[i].user \in User /\ entries[i].key \in 1 .. MaxKeys
<1>1. \A i \in 1 .. Len(entries) : entries[i] \in Entry
  OBVIOUS
<1> QED
  BY <1>1 DEF Entry

\* The invariant holds at the start.
LEMMA Start ==
  Init => IInv
<1> SUFFICES ASSUME Init PROVE IInv
  OBVIOUS
<1>1. TypeOK
  <2>1. entries \in Seq(Entry) /\ DOMAIN entries = {}
    BY DEF Init
  <2>2. latestByUser \in [User -> {None} \cup DOMAIN entries]
    BY DEF Init
  <2>3. currentSTH \in [signed : BOOLEAN, root : Seq(Entry)]
    BY DEF Init, NoSTH
  <2>4. directory \in [User -> 0 .. MaxKeys]
    BY LogAssumption DEF Init, None
  <2>5. check \in [Caller -> Check]
    BY DEF Init, Check
  <2>6. pinned \in [User -> Key \cup {None}]
    BY DEF Init
  <2> QED
    BY <2>1, <2>2, <2>3, <2>4, <2>5, <2>6 DEF TypeOK, Init
<1>2. Published /\ Ascending
  BY DEF Init, Published, Ascending
<1>3. Pins
  BY DEF Init, Pins
<1>4. Told
  BY DEF Init, Told, Idle
<1> QED
  BY <1>1, <1>2, <1>3, <1>4 DEF IInv

-----------------------------------------------------------------------------
\* A rotation appends an entry whose key is above all the user's others.
LEMMA RotateKeeps ==
  ASSUME IInv, NEW u \in User, Rotate(u)
  PROVE  IInv'
<1> DEFINE n == Len(entries)
           e == [user |-> u, key |-> directory[u] + 1]
<1>1. /\ n \in Nat /\ e \in Entry /\ DOMAIN entries = 1 .. n
      /\ directory[u] \in 0 .. MaxKeys /\ directory[u] < MaxKeys
  BY LogAssumption DEF IInv, TypeOK, Rotate, Entry
<1>2. /\ entries' \in Seq(Entry) /\ DOMAIN entries' = 1 .. n + 1
      /\ entries'[n + 1] = e /\ \A i \in 1 .. n : entries'[i] = entries[i]
  BY <1>1 DEF Rotate, AppendEntry, IInv, TypeOK
<1>3. latestByUser' = [latestByUser EXCEPT ![u] = n + 1]
  BY DEF Rotate, AppendEntry
<1>4. UNCHANGED <<currentSTH, heads, directory, check, pinned>>
  BY DEF Rotate, AppendEntry
<1>5. latestByUser \in [User -> {None} \cup 1 .. n] /\ None = 0
  BY <1>1 DEF IInv, TypeOK, None
<1>6. \A i \in 1 .. n : entries[i].user \in User /\ entries[i].key \in 1 .. MaxKeys
  BY EntryShapes DEF IInv, TypeOK
<1>7. TypeOK'
  <2>1. latestByUser' \in [User -> {None} \cup 1 .. n + 1]
    BY <1>1, <1>3, <1>5
  <2>2. \A v \in User : latestByUser'[v] # None => entries'[latestByUser'[v]].user = v
    <3> SUFFICES ASSUME NEW v \in User, latestByUser'[v] # None
                 PROVE  entries'[latestByUser'[v]].user = v
      OBVIOUS
    <3>1. CASE v = u
      BY <3>1, <1>2, <1>3, <1>5
    <3>2. CASE v # u
      <4>1. latestByUser'[v] = latestByUser[v] /\ latestByUser[v] \in 1 .. n
        BY <3>2, <1>3, <1>5
      <4> QED
        BY <4>1, <1>2 DEF IInv, TypeOK
    <3> QED
      BY <3>1, <3>2
  <2>3. \A i \in 1 .. n + 1 : i <= latestByUser'[entries'[i].user]
    <3> SUFFICES ASSUME NEW i \in 1 .. n + 1
                 PROVE  i <= latestByUser'[entries'[i].user]
      OBVIOUS
    <3>1. CASE i = n + 1
      BY <3>1, <1>1, <1>2, <1>3, <1>5
    <3>2. CASE i \in 1 .. n
      <4>1. i <= latestByUser[entries[i].user] /\ entries[i].user \in User
        BY <3>2, <1>1, <1>6 DEF IInv, TypeOK
      <4>2. entries'[i] = entries[i]
        BY <3>2, <1>2
      <4>3. CASE entries[i].user = u
        BY <4>2, <4>3, <3>2, <1>1, <1>3, <1>5
      <4>4. CASE entries[i].user # u
        BY <4>1, <4>2, <4>4, <1>3, <1>5
      <4> QED
        BY <4>3, <4>4
    <3> QED
      BY <3>1, <3>2, <1>1
  <2> QED
    BY <2>1, <2>2, <2>3, <1>2, <1>4 DEF IInv, TypeOK
<1>8. Published'
  <2>1. \A h \in heads : Len(h.root) \in Nat
    BY DEF IInv, TypeOK
  <2>2. \A h \in heads : Len(h.root) <= n /\ \A i \in 1 .. Len(h.root) : h.root[i] = entries[i]
    BY DEF IInv, Published, Begins
  <2>3. Len(entries') = n + 1
    BY <1>1, <1>2
  <2>4. \A h \in heads : Begins(h.root, entries)'
    BY <2>1, <2>2, <2>3, <1>1, <1>2 DEF Begins
  <2> QED
    BY <2>4, <1>4 DEF IInv, Published, Begins
<1>9. Ascending'
  <2>1. \A i \in 1 .. n : entries[i].user = u => entries[i].key < e.key
    <3> SUFFICES ASSUME NEW i \in 1 .. n, entries[i].user = u
                 PROVE  entries[i].key < e.key
      OBVIOUS
    <3>1. i <= latestByUser[u] /\ latestByUser[u] \in 1 .. n
      <4>1. i <= latestByUser[entries[i].user]
        BY <1>1 DEF IInv, TypeOK
      <4> QED
        BY <4>1, <1>1, <1>5
    <3>2. entries[latestByUser[u]].user = u
      BY <3>1, <1>1, <1>5 DEF IInv, TypeOK
    <3>3. entries[i].key <= entries[latestByUser[u]].key
      <4>1. CASE i = latestByUser[u]
        BY <4>1, <1>6
      <4>2. CASE i < latestByUser[u]
        BY <4>2, <3>1, <3>2, <1>1, <1>6 DEF IInv, Ascending
      <4> QED
        BY <4>1, <4>2, <3>1, <1>1
    <3>4. entries[latestByUser[u]].key = directory[u]
      BY <3>1, <1>1, <1>5 DEF Rotate, Logged
    <3> QED
      BY <3>1, <3>3, <3>4, <1>1, <1>6
  <2> SUFFICES ASSUME NEW i \in 1 .. n + 1, NEW j \in 1 .. n + 1, i < j,
                      entries'[i].user = entries'[j].user
               PROVE  entries'[i].key < entries'[j].key
    BY <1>2 DEF Ascending
  <2>2. i \in 1 .. n
    BY <1>1
  <2>3. CASE j = n + 1
    BY <2>1, <2>2, <2>3, <1>2
  <2>4. CASE j \in 1 .. n
    BY <2>2, <2>4, <1>1, <1>2 DEF IInv, Ascending
  <2> QED
    BY <2>3, <2>4, <1>1
<1>10. Pins'
  BY <1>4 DEF IInv, Pins
<1>11. Told'
  BY <1>1, <1>2, <1>4 DEF IInv, Told
<1> QED
  BY <1>7, <1>8, <1>9, <1>10, <1>11 DEF IInv

\* The tree of a new head is the log itself.
LEMMA PublishSTHKeeps ==
  ASSUME IInv, PublishSTH
  PROVE  IInv'
<1>1. UNCHANGED <<entries, latestByUser, directory, check, pinned>>
  BY DEF PublishSTH
<1>2. currentSTH' = STH(entries) /\ heads' = heads \cup {STH(entries)}
  BY DEF PublishSTH
<1>3. STH(entries) \in [signed : BOOLEAN, root : Seq(Entry)] /\ STH(entries).root = entries
  BY DEF STH, IInv, TypeOK
<1>4. TypeOK'
  BY <1>1, <1>2, <1>3 DEF IInv, TypeOK
<1>5. Published'
  <2>1. Begins(entries, entries)
    BY DEF Begins, IInv, TypeOK
  <2>2. \A h \in heads' : Begins(h.root, entries)
    BY <2>1, <1>2, <1>3 DEF IInv, Published
  <2>3. \A h \in heads' : Begins(h.root, entries)'
    BY <2>2, <1>1 DEF Begins
  <2> QED
    BY <2>3, <1>2 DEF Published
<1>6. Ascending' /\ Told'
  BY <1>1 DEF IInv, Ascending, Told
<1>7. Pins'
  BY <1>1, <1>2 DEF IInv, Pins
<1> QED
  BY <1>4, <1>5, <1>6, <1>7 DEF IInv

\* A user gives the relay a key that is in the log.
LEMMA PublishIdentityKeeps ==
  ASSUME IInv, NEW u \in User, PublishIdentity(u)
  PROVE  IInv'
<1>1. UNCHANGED <<entries, latestByUser, currentSTH, heads, check, pinned>>
  BY DEF PublishIdentity
<1>2. directory' \in [User -> 0 .. MaxKeys]
  <2>1. directory[u] \in 0 .. MaxKeys /\ directory[u] < Logged(u)
    BY DEF PublishIdentity, IInv, TypeOK
  <2>2. Logged(u) \in 0 .. MaxKeys
    <3>1. CASE latestByUser[u] = None
      BY <3>1, LogAssumption DEF Logged
    <3>2. CASE latestByUser[u] # None
      <4>1. latestByUser[u] \in 1 .. Len(entries)
        BY <3>2 DEF IInv, TypeOK
      <4>2. entries[latestByUser[u]].key \in 1 .. MaxKeys
        BY <4>1, EntryShapes DEF IInv, TypeOK
      <4> QED
        BY <3>2, <4>2, LogAssumption DEF Logged
    <3> QED
      BY <3>1, <3>2
  <2>3. directory[u] + 1 \in 0 .. MaxKeys
    BY <2>1, <2>2, LogAssumption
  <2>4. directory' = [directory EXCEPT ![u] = directory[u] + 1]
    BY DEF PublishIdentity
  <2> QED
    BY <2>3, <2>4 DEF IInv, TypeOK
<1>3. TypeOK'
  BY <1>1, <1>2 DEF IInv, TypeOK
<1>4. Published' /\ Ascending' /\ Told' /\ Pins'
  BY <1>1 DEF IInv, Published, Begins, Ascending, Told, Pins
<1> QED
  BY <1>3, <1>4 DEF IInv

\* A step of a client's check touches nothing but its own check and pins.
LEMMA CheckKeeps ==
  ASSUME IInv, UNCHANGED <<entries, latestByUser, currentSTH, heads, directory>>,
         check' \in [Caller -> Check], pinned' \in [User -> Key \cup {None}],
         Told', Pins'
  PROVE  IInv'
<1>1. TypeOK'
  BY DEF IInv, TypeOK
<1>2. Published' /\ Ascending'
  BY DEF IInv, Published, Begins, Ascending
<1> QED
  BY <1>1, <1>2 DEF IInv

\* A client is given a key.
LEMMA ObserveKeeps ==
  ASSUME IInv, NEW c \in Caller, NEW u \in User, NEW k \in Key, Observe(c, u, k)
  PROVE  IInv'
<1>1. check' = [check EXCEPT ![c] = [at |-> "observed", user |-> u, key |-> k]]
  BY DEF Observe
<1>3. [at |-> "observed", user |-> u, key |-> k] \in Check
  BY DEF Check
<1>4. check' \in [Caller -> Check]
  BY <1>1, <1>3 DEF IInv, TypeOK
<1>5. UNCHANGED <<entries, latestByUser, currentSTH, heads, directory, pinned>>
  BY DEF Observe
<1>6. Told'
  BY <1>1, <1>5 DEF IInv, TypeOK, Told
<1>7. Pins'
  BY <1>5 DEF IInv, Pins
<1> QED
  BY <1>4, <1>5, <1>6, <1>7, CheckKeeps DEF IInv, TypeOK

\* A pinned key is an entry of the log, and no later one than the latest.
LEMMA PinnedBeforeLatest ==
  ASSUME IInv, NEW u \in User, latestByUser[u] # None
  PROVE  pinned[u] <= entries[latestByUser[u]].key
<1> DEFINE l == latestByUser[u]
<1>1. l \in 1 .. Len(entries) /\ entries[l].user = u /\ entries[l].key \in 1 .. MaxKeys
  BY EntryShapes DEF IInv, TypeOK
<1>2. CASE pinned[u] = None
  BY <1>1, <1>2, LogAssumption DEF None
<1>3. CASE pinned[u] # None
  <2>1. PICK h \in heads : \E i \in DOMAIN h.root :
          h.root[i] = [user |-> u, key |-> pinned[u]]
    BY <1>3 DEF IInv, Pins
  <2>2. PICK i \in DOMAIN h.root : h.root[i] = [user |-> u, key |-> pinned[u]]
    BY <2>1
  <2>3. h.root \in Seq(Entry) /\ Begins(h.root, entries)
    BY <2>1 DEF IInv, TypeOK, Published
  <2>4. i \in 1 .. Len(entries) /\ entries[i] = [user |-> u, key |-> pinned[u]]
    <3>1. DOMAIN h.root = 1 .. Len(h.root) /\ Len(h.root) \in Nat /\ Len(entries) \in Nat
      BY <2>3 DEF IInv, TypeOK
    <3>2. i \in 1 .. Len(h.root)
      BY <3>1
    <3>3. Len(h.root) <= Len(entries) /\ h.root[i] = entries[i]
      BY <2>3, <3>2 DEF Begins
    <3> QED
      BY <2>2, <3>1, <3>2, <3>3
  <2>5. entries[i].user = u /\ entries[i].key = pinned[u]
    BY <2>4
  <2>6. i <= l
    BY <2>4, <2>5 DEF IInv, TypeOK
  <2>7. entries[i].key \in 1 .. MaxKeys
    BY <2>4, EntryShapes DEF IInv, TypeOK
  <2>8. CASE i = l
    BY <2>5, <2>7, <2>8, LogAssumption
  <2>9. CASE i < l
    <3>1. i \in DOMAIN entries /\ l \in DOMAIN entries /\ entries[i].user = entries[l].user
      BY <2>4, <2>5, <1>1 DEF IInv, TypeOK
    <3>2. entries[i].key < entries[l].key
      BY <3>1, <2>9 DEF IInv, Ascending
    <3> QED
      BY <3>2, <2>5, <2>7, <1>1
  <2> QED
    BY <2>4, <2>6, <2>8, <2>9, <1>1
<1> QED
  BY <1>2, <1>3

\* A caller knows which entry to ask for: the user's latest, or one of the key.
LEMMA AskKeeps ==
  ASSUME IInv, NEW c \in Caller, AskLatest(c) \/ FindEntry(c)
  PROVE  IInv'
<1>1. check[c] \in Check /\ check[c].at = "observed"
  BY DEF IInv, TypeOK, AskLatest, FindEntry
<1>2. PICK u \in User : u = check[c].user
  BY <1>1, CheckShapes
<1>3. check[c].key \in Key
  BY <1>1, CheckShapes
<1>4. latestByUser[u] \in {None} \cup 1 .. Len(entries) /\ latestByUser[u] \in Nat
      /\ pinned[u] \in Nat /\ None \in Nat /\ \A i \in DOMAIN entries : i \in Nat
  BY LogAssumption DEF IInv, TypeOK, None, Key, Bogus
<1>5. PICK how \in {"latest", "found"}, i \in Nat, pin \in Nat :
        /\ Ask(c, how, i, pin)
        /\ how = "latest" => i = latestByUser[u] /\ pin = pinned[u]
  <2>1. CASE AskLatest(c)
    BY <2>1, <1>2, <1>4 DEF AskLatest
  <2>2. CASE FindEntry(c)
    BY <2>2, <1>4 DEF FindEntry
  <2> QED
    BY <2>1, <2>2
<1> DEFINE q == [at |-> how, user |-> u, key |-> check[c].key, index |-> i, pin |-> pin]
<1>6. check' = [check EXCEPT ![c] = q]
  BY <1>2, <1>5 DEF Ask
<1>7. q \in Check
  BY <1>3 DEF Check
<1>8. check' \in [Caller -> Check]
  BY <1>6, <1>7 DEF IInv, TypeOK
<1>9. UNCHANGED <<entries, latestByUser, currentSTH, heads, directory, pinned>>
  BY <1>5 DEF Ask
<1>10. Told'
  <2> SUFFICES ASSUME NEW d \in Caller, check'[d].at = "latest", check'[d].index # None
               PROVE  /\ check'[d].index \in DOMAIN entries
                      /\ entries[check'[d].index].user = check'[d].user
                      /\ check'[d].pin <= entries[check'[d].index].key
    BY <1>9 DEF Told
  <2>1. CASE d = c
    <3>1. check'[d] = q /\ how = "latest"
      BY <2>1, <1>6 DEF IInv, TypeOK
    <3>2. q.index = latestByUser[u] /\ q.user = u /\ q.pin = pinned[u]
      BY <3>1, <1>5
    <3>3. latestByUser[u] \in DOMAIN entries /\ entries[latestByUser[u]].user = u
      BY <3>1, <3>2, <1>4 DEF IInv, TypeOK
    <3>4. pinned[u] <= entries[latestByUser[u]].key
      BY <3>1, <3>2, PinnedBeforeLatest
    <3> QED
      BY <3>1, <3>2, <3>3, <3>4, <2>1
  <2>2. CASE d # c
    <3>1. check'[d] = check[d]
      BY <2>2, <1>6 DEF IInv, TypeOK
    <3> QED
      BY <3>1 DEF IInv, Told
  <2> QED
    BY <2>1, <2>2
<1>11. Pins'
  BY <1>9 DEF IInv, Pins
<1> QED
  BY <1>8, <1>9, <1>10, <1>11, CheckKeeps DEF IInv, TypeOK

\* Without a blocking alert, the key is the pinned one or the log has it.
LEMMA AlertMeans ==
  ASSUME NEW pin, NEW observed, NEW logged \in BOOLEAN,
         CheckKeyChange(pin, observed, logged) \in {"None", "SoftNotice"}
  PROVE  pin = observed \/ logged
<1> SUFFICES ASSUME pin # observed, ~logged PROVE FALSE
  OBVIOUS
<1>1. CheckKeyChange(pin, observed, logged) = "Blocking"
  BY DEF CheckKeyChange
<1> QED
  BY <1>1

\* What a caller accepts for a contact is what the client had pinned, or is the
\* entry it asked the log for, under the current head.
LEMMA AcceptMeans ==
  ASSUME IInv, NEW c \in Caller, Accept(c), NEW u \in User, u = check[c].user
  PROVE  /\ check[c] \in Check /\ Asked(c) /\ check[c].key \in Key
         /\ \/ pinned[u] = check[c].key
            \/ /\ check[c].index # None /\ check[c].index \in DOMAIN currentSTH.root
               /\ currentSTH \in heads
               /\ entries[check[c].index] = [user |-> u, key |-> check[c].key]
               /\ currentSTH.root[check[c].index] = [user |-> u, key |-> check[c].key]
<1>1. check[c] \in Check /\ Asked(c)
  BY DEF Accept, IInv, TypeOK
<1>2. check[c].key \in Key
  BY <1>1, CheckShapes DEF Asked
<1>3. ObservedIsLogged(c) \in BOOLEAN
  BY DEF ObservedIsLogged
<1>4. CheckKeyChange(pinned[u], check[c].key, ObservedIsLogged(c)) \in {"None", "SoftNotice"}
  BY DEF Accept, Alert
<1>5. pinned[u] = check[c].key \/ ObservedIsLogged(c)
  BY <1>3, <1>4, AlertMeans
<1>6. ASSUME ObservedIsLogged(c)
      PROVE  /\ check[c].index # None /\ check[c].index \in DOMAIN currentSTH.root
             /\ currentSTH \in heads
             /\ entries[check[c].index] = [user |-> u, key |-> check[c].key]
             /\ currentSTH.root[check[c].index] = [user |-> u, key |-> check[c].key]
  <2>1. /\ currentSTH # NoSTH /\ check[c].index \in 1 .. Len(currentSTH.root)
        /\ entries[check[c].index] = [user |-> u, key |-> check[c].key]
        /\ currentSTH.root[check[c].index] = entries[check[c].index]
    BY <1>6 DEF ObservedIsLogged, Provable, TreeSize, VerifyInclusion
  <2>2. currentSTH.root \in Seq(Entry)
    BY DEF IInv, TypeOK
  <2>3. DOMAIN currentSTH.root = 1 .. Len(currentSTH.root) /\ Len(currentSTH.root) \in Nat
    BY <2>2
  <2>4. currentSTH \in heads
    BY <2>1 DEF IInv, Published
  <2> QED
    BY <2>1, <2>3, <2>4 DEF None
<1> QED
  BY <1>1, <1>2, <1>5, <1>6

\* An accepted key is pinned, and the check is over.
LEMMA AcceptKeeps ==
  ASSUME IInv, NEW c \in Caller, Accept(c)
  PROVE  IInv'
<1>1. check[c] \in Check /\ Asked(c)
  BY DEF Accept, IInv, TypeOK
<1>2. PICK u \in User : u = check[c].user
  BY <1>1, CheckShapes DEF Asked
<1> DEFINE k == check[c].key
<1>3. k \in Key
  BY <1>1, CheckShapes DEF Asked
<1>4. pinned' = [pinned EXCEPT ![u] = k]
  BY <1>2 DEF Accept
<1>5. check' = [check EXCEPT ![c] = Idle]
  BY DEF Accept
<1>6. UNCHANGED <<entries, latestByUser, currentSTH, heads, directory>>
  BY DEF Accept
<1>7. pinned' \in [User -> Key \cup {None}]
  BY <1>3, <1>4 DEF IInv, TypeOK
<1>8. check' \in [Caller -> Check]
  <2>1. Idle \in Check
    BY DEF Check
  <2> QED
    BY <2>1, <1>5 DEF IInv, TypeOK
<1>9. Told'
  <2> SUFFICES ASSUME NEW d \in Caller, check'[d].at = "latest", check'[d].index # None
               PROVE  /\ check'[d].index \in DOMAIN entries
                      /\ entries[check'[d].index].user = check'[d].user
                      /\ check'[d].pin <= entries[check'[d].index].key
    BY <1>6 DEF Told
  <2>1. d # c
    BY <1>5 DEF Idle, IInv, TypeOK
  <2>2. check'[d] = check[d]
    BY <2>1, <1>5 DEF IInv, TypeOK
  <2> QED
    BY <2>2 DEF IInv, Told
<1>10. Pins'
  <2> SUFFICES ASSUME NEW v \in User, pinned'[v] # None
               PROVE  \E h \in heads : \E i \in DOMAIN h.root :
                        h.root[i] = [user |-> v, key |-> pinned'[v]]
    BY <1>6 DEF Pins
  <2>1. CASE v = u
    <3>1. pinned'[v] = k
      BY <2>1, <1>4 DEF IInv, TypeOK
    <3>2. CASE pinned[u] = k
      BY <2>1, <3>1, <3>2 DEF IInv, Pins
    <3>3. CASE pinned[u] # k
      <4>1. /\ check[c].index \in DOMAIN currentSTH.root /\ currentSTH \in heads
            /\ currentSTH.root[check[c].index] = [user |-> u, key |-> k]
        BY <3>3, <1>2, AcceptMeans
      <4> QED
        BY <4>1, <3>1, <2>1
    <3> QED
      BY <3>2, <3>3
  <2>2. CASE v # u
    <3>1. pinned'[v] = pinned[v]
      BY <2>2, <1>4 DEF IInv, TypeOK
    <3> QED
      BY <3>1 DEF IInv, Pins
  <2> QED
    BY <2>1, <2>2
<1> QED
  BY <1>6, <1>7, <1>8, <1>9, <1>10, CheckKeeps

\* A check that is blocked, or over, leaves nothing asked.
LEMMA OthersKeep ==
  ASSUME IInv, NEW c \in Caller, Block(c) \/ Acknowledge(c)
  PROVE  IInv'
<1>1. PICK q \in Check : q.at # "latest" /\ check' = [check EXCEPT ![c] = q]
  <2>1. Idle \in Check /\ Idle.at # "latest" /\ Blocked \in Check /\ Blocked.at # "latest"
    BY DEF Check, Idle, Blocked
  <2> QED
    BY <2>1 DEF Block, Acknowledge
<1>2. check' \in [Caller -> Check]
  BY <1>1 DEF IInv, TypeOK
<1>3. UNCHANGED <<entries, latestByUser, currentSTH, heads, directory, pinned>>
  BY DEF Block, Acknowledge
<1>4. Told'
  BY <1>1, <1>3 DEF IInv, TypeOK, Told
<1>5. Pins'
  BY <1>3 DEF IInv, Pins
<1> QED
  BY <1>2, <1>3, <1>4, <1>5, CheckKeeps DEF IInv, TypeOK

\* Nothing changes, and so the invariant holds on.
LEMMA StutterKeeps ==
  ASSUME IInv, UNCHANGED vars
  PROVE  IInv'
<1>1. UNCHANGED <<entries, latestByUser, currentSTH, heads, directory, check, pinned>>
  BY DEF vars
<1> QED
  BY <1>1 DEF IInv, TypeOK, Published, Begins, Ascending, Pins, Told

-----------------------------------------------------------------------------
\* Every step preserves the invariant.
LEMMA StepKeeps ==
  ASSUME IInv, [Next]_vars
  PROVE  IInv'
<1>1. CASE PublishSTH
  BY <1>1, PublishSTHKeeps
<1>2. ASSUME NEW u \in User, Rotate(u) PROVE IInv'
  BY <1>2, RotateKeeps
<1>3. ASSUME NEW u \in User, PublishIdentity(u) PROVE IInv'
  BY <1>3, PublishIdentityKeeps
<1>4. ASSUME NEW c \in Caller, NEW u \in User, NEW k \in Key, Observe(c, u, k) PROVE IInv'
  BY <1>4, ObserveKeeps
<1>5. ASSUME NEW c \in Caller, AskLatest(c) \/ FindEntry(c) PROVE IInv'
  BY <1>5, AskKeeps
<1>6. ASSUME NEW c \in Caller, Accept(c) PROVE IInv'
  BY <1>6, AcceptKeeps
<1>7. ASSUME NEW c \in Caller, Block(c) \/ Acknowledge(c) PROVE IInv'
  BY <1>7, OthersKeep
<1>8. CASE UNCHANGED vars
  BY <1>8, StutterKeeps
<1> QED
  BY <1>1, <1>2, <1>3, <1>4, <1>5, <1>6, <1>7, <1>8, LogAssumption DEF Next, Proceed

\* The inductive invariant of the log and of those who check keys against it.
THEOREM Invariance ==
  Spec => []IInv
BY Start, StepKeeps, PTL DEF Spec

\* TransLog.TypeOK: the types, and that latestByUser is indeed the latest.
THEOREM TypeCorrect ==
  Spec => []TypeOK
<1>1. IInv => TypeOK
  BY DEF IInv
<1> QED
  BY <1>1, Invariance, PTL

\* The log is append-only as its published heads show it (Append, PublishSTH).
THEOREM AppendOnly ==
  Spec => []HeadsConsistent
<1>1. IInv => HeadsConsistent
  <2> SUFFICES ASSUME IInv PROVE HeadsConsistent
    OBVIOUS
  <2>1. entries \in Seq(Entry) /\ \A h \in heads : h.root \in Seq(Entry)
    BY DEF IInv, TypeOK
  <2>2. \A h \in heads : Begins(h.root, entries)
    BY DEF IInv, Published
  <2>3. \A a \in heads : IsPrefix(a.root, entries)
    BY <2>1, <2>2, PrefixPoints
  <2>4. \A a, b \in heads : IsPrefix(a.root, b.root) \/ IsPrefix(b.root, a.root)
    <3> SUFFICES ASSUME NEW a \in heads, NEW b \in heads
                 PROVE  IsPrefix(a.root, b.root) \/ IsPrefix(b.root, a.root)
      OBVIOUS
    <3>1. Begins(a.root, b.root) \/ Begins(b.root, a.root)
      BY <2>1, <2>2, BeginningsCompare
    <3> QED
      BY <3>1, <2>1, PrefixPoints
  <2> QED
    BY <2>3, <2>4 DEF HeadsConsistent
<1> QED
  BY <1>1, Invariance, PTL

\* A pinned key is under a published head, whatever the relay hands out
\* (InclusionProof, VerifyInclusion, CheckKeyChange).
THEOREM OnlyLoggedPinned ==
  Spec => []PinnedIsLogged
<1>1. IInv => PinnedIsLogged
  BY DEF IInv, Pins, PinnedIsLogged, ToSet
<1> QED
  BY <1>1, Invariance, PTL

\* A caller that goes by the latest entry puts no key in the place of a pin that
\* is older than what was pinned when it asked, whatever is logged, handed out or
\* accepted meanwhile (LatestEntryForUser, InclusionProof, CheckKeyChange).
THEOREM NeverBackwards ==
  Spec => PinsMoveForward
<1>1. IInv /\ [Next]_vars
        => [\A c \in Caller :
              Accept(c) /\ check[c].at = "latest" /\ pinned' # pinned =>
                check[c].pin <= pinned'[check[c].user]]_vars
  <2> SUFFICES ASSUME IInv, NEW c \in Caller, Accept(c), check[c].at = "latest",
                      pinned' # pinned
               PROVE  check[c].pin <= pinned'[check[c].user]
    OBVIOUS
  <2>1. check[c] \in Check
    BY DEF IInv, TypeOK
  <2>2. PICK u \in User : u = check[c].user
    BY <2>1, CheckShapes
  <2>3. pinned' = [pinned EXCEPT ![u] = check[c].key] /\ pinned \in [User -> Key \cup {None}]
    BY <2>2 DEF Accept, IInv, TypeOK
  <2>4. pinned[u] # check[c].key
    BY <2>3
  <2>5. /\ check[c].index # None
        /\ entries[check[c].index] = [user |-> u, key |-> check[c].key]
    BY <2>2, <2>4, AcceptMeans
  <2>6. check[c].pin <= entries[check[c].index].key
    BY <2>5 DEF IInv, Told
  <2> QED
    BY <2>2, <2>3, <2>5, <2>6
<1> QED
  BY <1>1, Invariance, PTL DEF Spec, PinsMoveForward

-----------------------------------------------------------------------------
(* No false alarm.  On top of IInv the invariant Fresh says that the log   *)
(* is ahead: of the keys on the relay, of a key of the contact's that a    *)
(* caller was given, and, once the caller has asked, the entry it was told *)
(* of is, or is the one it was looking for.                                *)

HeadSigned == currentSTH # NoSTH => currentSTH.signed

RelayBehind == \A u \in User : directory[u] <= Logged(u)

\* No key of a user's is missing in the log.
AllLogged ==
  \A u \in User : \A k \in 1 .. Logged(u) :
    \E i \in 1 .. Len(entries) : entries[i] = [user |-> u, key |-> k]

GivenBehind ==
  \A c \in Caller :
    check[c].at = "observed" /\ check[c].key # Bogus => check[c].key <= Logged(check[c].user)

ToldAhead ==
  \A c \in Caller :
    check[c].at = "latest" /\ check[c].key # Bogus =>
      check[c].index # None /\ check[c].key <= entries[check[c].index].key

FoundRight ==
  \A c \in Caller :
    check[c].at = "found" /\ check[c].key # Bogus =>
      /\ check[c].index \in 1 .. Len(entries)
      /\ entries[check[c].index] = [user |-> check[c].user, key |-> check[c].key]

Fresh == HeadSigned /\ RelayBehind /\ AllLogged /\ GivenBehind /\ ToldAhead /\ FoundRight

-----------------------------------------------------------------------------
\* What Logged stands for, and its range.
LEMMA LoggedShape ==
  ASSUME IInv, NEW u \in User
  PROVE  /\ Logged(u) \in 0 .. MaxKeys
         /\ latestByUser[u] # None =>
              /\ latestByUser[u] \in 1 .. Len(entries)
              /\ Logged(u) = entries[latestByUser[u]].key
         /\ latestByUser[u] = None => Logged(u) = 0
<1>1. latestByUser[u] \in {None} \cup 1 .. Len(entries)
  BY DEF IInv, TypeOK
<1>2. \A i \in 1 .. Len(entries) : entries[i].key \in 1 .. MaxKeys
  BY EntryShapes DEF IInv, TypeOK
<1> QED
  BY <1>1, <1>2, LogAssumption DEF Logged

LoggedNumbers == \A u \in User : Logged(u) \in Nat

LEMMA LoggedIsNumber ==
  IInv => LoggedNumbers
BY LoggedShape DEF LoggedNumbers

\* What a step does to the log: entries stay, and no user's last key gets older.
LEMMA LogGrows ==
  ASSUME IInv, [Next]_vars
  PROVE  /\ \A i \in 1 .. Len(entries) : entries'[i] = entries[i]
         /\ \A u \in User : Logged(u) <= Logged(u)'
<1>1. \A u \in User : Logged(u) \in Nat
  BY LoggedShape
<1>2. CASE UNCHANGED <<entries, latestByUser>>
  BY <1>1, <1>2 DEF Logged
<1>3. ASSUME NEW v \in User, Rotate(v)
      PROVE  /\ \A i \in 1 .. Len(entries) : entries'[i] = entries[i]
             /\ \A u \in User : Logged(u) <= Logged(u)'
  <2> DEFINE n == Len(entries)
             e == [user |-> v, key |-> directory[v] + 1]
  <2>1. n \in Nat /\ directory[v] \in 0 .. MaxKeys /\ directory[v] < MaxKeys
    BY <1>3 DEF IInv, TypeOK, Rotate
  <2>2. e \in Entry
    BY <2>1, LogAssumption DEF Entry
  <2>3. entries'[n + 1] = e /\ \A i \in 1 .. n : entries'[i] = entries[i]
    BY <1>3, <2>1, <2>2 DEF Rotate, AppendEntry, IInv, TypeOK
  <2>4. latestByUser' = [latestByUser EXCEPT ![v] = n + 1]
    BY <1>3 DEF Rotate, AppendEntry
  <2>5. ASSUME NEW u \in User PROVE Logged(u) <= Logged(u)'
    <3>1. latestByUser[u] \in {None} \cup 1 .. n
      BY DEF IInv, TypeOK
    <3>2. CASE u = v
      <4>1. latestByUser'[u] = n + 1 /\ n + 1 # None
        BY <2>1, <2>4, <3>2 DEF IInv, TypeOK, None
      <4>2. Logged(u)' = directory[v] + 1
        BY <4>1, <2>3 DEF Logged, None
      <4>3. Logged(u) = directory[v]
        BY <1>3, <3>2 DEF Rotate
      <4> QED
        BY <4>2, <4>3, <2>1
    <3>3. CASE u # v
      <4>1. latestByUser'[u] = latestByUser[u]
        BY <2>4, <3>3 DEF IInv, TypeOK
      <4>2. Logged(u)' = Logged(u)
        BY <4>1, <3>1, <2>3 DEF Logged, None
      <4> QED
        BY <4>2, <1>1
    <3> QED
      BY <3>2, <3>3
  <2> QED
    BY <2>3, <2>5
<1> QED
  BY <1>2, <1>3 DEF Next, Proceed, PublishSTH, PublishIdentity, Observe, AskLatest, FindEntry, Ask, Accept,
                    Block, Acknowledge, vars

-----------------------------------------------------------------------------
\* A head that is current has been signed.
LEMMA HeadSignedKeeps ==
  ASSUME HeadSigned, [Next]_vars
  PROVE  HeadSigned'
<1>1. CASE UNCHANGED currentSTH
  BY <1>1 DEF HeadSigned
<1>2. CASE PublishSTH
  BY <1>2 DEF HeadSigned, PublishSTH, STH
<1> QED
  BY <1>1, <1>2 DEF Next, Proceed, Rotate, AppendEntry, PublishIdentity, Observe, AskLatest, FindEntry, Ask,
                    Accept, Block, Acknowledge, vars

\* A user logs a key before the relay has it.
LEMMA RelayBehindKeeps ==
  ASSUME IInv, RelayBehind, [Next]_vars
  PROVE  RelayBehind'
<1>1. \A u \in User : Logged(u) <= Logged(u)'
  BY LogGrows
<1>2. \A u \in User : Logged(u) \in Int /\ directory[u] \in Int
  BY LoggedShape DEF IInv, TypeOK
<1>3. \A u \in User : Logged(u)' \in Nat
  <2>1. IInv'
    BY StepKeeps
  <2>2. LoggedNumbers'
    BY <2>1, LoggedIsNumber, PTL
  <2> QED
    BY <2>2 DEF LoggedNumbers
<1>4. CASE UNCHANGED directory
  BY <1>1, <1>2, <1>3, <1>4 DEF RelayBehind
<1>5. ASSUME NEW v \in User, PublishIdentity(v) PROVE RelayBehind'
  <2> SUFFICES ASSUME NEW u \in User PROVE directory'[u] <= Logged(u)'
    BY DEF RelayBehind
  <2>1. directory'[u] <= Logged(u)
    BY <1>2, <1>5 DEF PublishIdentity, RelayBehind, IInv, TypeOK
  <2>2. directory'[u] \in Int
    BY <1>2, <1>5 DEF PublishIdentity, IInv, TypeOK
  <2> QED
    BY <2>1, <2>2, <1>1, <1>2, <1>3
<1> QED
  BY <1>4, <1>5 DEF Next, Proceed, PublishSTH, Rotate, Observe, AskLatest, FindEntry, Ask, Accept, Block,
                    Acknowledge, vars

\* Every key a user has logged has its entry, as a rotation takes the next one.
LEMMA AllLoggedKeeps ==
  ASSUME IInv, AllLogged, [Next]_vars
  PROVE  AllLogged'
<1>1. CASE UNCHANGED <<entries, latestByUser>>
  BY <1>1 DEF AllLogged, Logged
<1>2. ASSUME NEW v \in User, Rotate(v) PROVE AllLogged'
  <2> DEFINE n == Len(entries)
             e == [user |-> v, key |-> directory[v] + 1]
  <2>1. n \in Nat /\ directory[v] \in 0 .. MaxKeys /\ directory[v] < MaxKeys
        /\ Logged(v) = directory[v]
    BY <1>2 DEF IInv, TypeOK, Rotate
  <2>2. e \in Entry
    BY <2>1, LogAssumption DEF Entry
  <2>3. entries'[n + 1] = e /\ Len(entries') = n + 1 /\ \A i \in 1 .. n : entries'[i] = entries[i]
    BY <1>2, <2>1, <2>2 DEF Rotate, AppendEntry, IInv, TypeOK
  <2>4. latestByUser' = [latestByUser EXCEPT ![v] = n + 1]
    BY <1>2 DEF Rotate, AppendEntry
  <2>5. SUFFICES ASSUME NEW u \in User, NEW k \in 1 .. Logged(u)'
                 PROVE  \E i \in 1 .. n + 1 : entries'[i] = [user |-> u, key |-> k]
    BY <2>3 DEF AllLogged
  <2>6. latestByUser[u] \in {None} \cup 1 .. n
    BY DEF IInv, TypeOK
  <2>7. CASE k \in 1 .. Logged(u)
    <3>1. PICK i \in 1 .. n : entries[i] = [user |-> u, key |-> k]
      BY <2>7 DEF AllLogged
    <3> QED
      BY <3>1, <2>1, <2>3
  <2>8. CASE k \notin 1 .. Logged(u)
    <3>1. u = v
      <4>1. ASSUME u # v PROVE FALSE
        <5>1. latestByUser'[u] = latestByUser[u]
          BY <2>4, <4>1 DEF IInv, TypeOK
        <5>2. Logged(u)' = Logged(u)
          BY <5>1, <2>6, <2>3 DEF Logged, None
        <5> QED
          BY <5>2, <2>5, <2>8
      <4> QED
        BY <4>1
    <3>2. latestByUser'[u] = n + 1 /\ n + 1 # None
      BY <2>1, <2>4, <3>1 DEF IInv, TypeOK, None
    <3>3. Logged(u)' = directory[v] + 1
      BY <3>2, <2>3 DEF Logged, None
    <3>4. k = directory[v] + 1
      BY <3>3, <2>1, <2>5, <2>8, <3>1
    <3> QED
      BY <3>1, <3>4, <2>1, <2>3
  <2> QED
    BY <2>7, <2>8
<1> QED
  BY <1>1, <1>2 DEF Next, Proceed, PublishSTH, PublishIdentity, Observe, AskLatest, FindEntry,
                    Ask, Accept, Block, Acknowledge, vars

\* What a step may make of one check.
LEMMA CheckStep ==
  ASSUME IInv, [Next]_vars, NEW d \in Caller
  PROVE  \/ check'[d] = check[d]
         \/ \E u \in User, k \in Key : Observe(d, u, k)
         \/ AskLatest(d)
         \/ FindEntry(d)
         \/ check'[d].at \in {"idle", "blocked"}
<1>1. CASE UNCHANGED check
  BY <1>1
<1>2. ASSUME NEW c \in Caller, NEW u \in User, NEW k \in Key, Observe(c, u, k)
      PROVE  check'[d] = check[d] \/ Observe(d, u, k)
  BY <1>2 DEF Observe, IInv, TypeOK
<1>3. ASSUME NEW c \in Caller, AskLatest(c) \/ FindEntry(c)
      PROVE  check'[d] = check[d] \/ AskLatest(d) \/ FindEntry(d)
  BY <1>3 DEF AskLatest, FindEntry, Ask, IInv, TypeOK
<1>4. ASSUME NEW c \in Caller, Accept(c) \/ Block(c) \/ Acknowledge(c)
      PROVE  check'[d] = check[d] \/ check'[d].at \in {"idle", "blocked"}
  BY <1>4 DEF Accept, Block, Acknowledge, Idle, Blocked, IInv, TypeOK
<1>5. \A u \in Contact : u \in User
  BY LogAssumption
<1> QED
  BY <1>1, <1>2, <1>3, <1>4, <1>5 DEF Next, Proceed, PublishSTH, Rotate, AppendEntry,
                                      PublishIdentity, vars

\* A key of the contact's a caller was given is no newer than what he has logged.
LEMMA GivenBehindKeeps ==
  ASSUME IInv, RelayBehind, GivenBehind, [Next]_vars
  PROVE  GivenBehind'
<1> SUFFICES ASSUME NEW d \in Caller, check'[d].at = "observed", check'[d].key # Bogus
             PROVE  check'[d].key <= Logged(check[d].user)'
  BY DEF GivenBehind, Bogus
<1>1. \A u \in User : Logged(u) \in Nat /\ Logged(u)' \in Nat /\ Logged(u) <= Logged(u)'
  <2>1. IInv'
    BY StepKeeps
  <2>2. LoggedNumbers /\ LoggedNumbers'
    BY <2>1, LoggedIsNumber, PTL
  <2> QED
    BY <2>2, LogGrows DEF LoggedNumbers
<1>2. CASE check'[d] = check[d]
  <2>1. check[d] \in Check /\ check[d].at = "observed"
    BY <1>2 DEF IInv, TypeOK
  <2>2. PICK u \in User : u = check[d].user
    BY <2>1, CheckShapes
  <2>3. check[d].key \in Nat /\ check[d].key <= Logged(u)
    BY <1>2, <2>1, <2>2, CheckShapes, LogAssumption DEF GivenBehind, Key, Bogus
  <2>4. check[d].key <= Logged(u)'
    BY <1>1, <2>3
  <2> QED
    BY <1>2, <2>2, <2>4 DEF Logged
<1>3. ASSUME NEW u \in User, NEW k \in Key, Observe(d, u, k)
      PROVE  check'[d].key <= Logged(check[d].user)'
  <2>1. check'[d] = [at |-> "observed", user |-> u, key |-> k]
    BY <1>3 DEF Observe, IInv, TypeOK
  <2>2. k = directory[u] \/ k \in 1 .. Logged(u)
    BY <1>3, <2>1 DEF Observe
  <2>3. k \in Nat /\ k <= Logged(u)
    BY <2>2, <1>1, LogAssumption DEF RelayBehind, Key, Bogus
  <2>4. k <= Logged(u)'
    BY <1>1, <2>3
  <2> QED
    BY <2>1, <2>4 DEF Logged
<1>4. CASE AskLatest(d) \/ FindEntry(d)
  BY <1>4 DEF AskLatest, FindEntry, Ask, IInv, TypeOK
<1> QED
  BY <1>2, <1>3, <1>4, CheckStep

\* The entry the log tells a caller of is no older than the contact's key it has.
LEMMA ToldAheadKeeps ==
  ASSUME IInv, GivenBehind, ToldAhead, [Next]_vars
  PROVE  ToldAhead'
<1> SUFFICES ASSUME NEW d \in Caller, check'[d].at = "latest", check'[d].key # Bogus
             PROVE  check'[d].index # None /\ check'[d].key <= entries'[check'[d].index].key
  BY DEF ToldAhead, Bogus, None
<1>1. \A i \in 1 .. Len(entries) : entries'[i] = entries[i]
  BY LogGrows
<1>2. CASE check'[d] = check[d]
  <2>1. check[d].index # None /\ check[d].key <= entries[check[d].index].key
    BY <1>2 DEF ToldAhead
  <2>2. check[d].index \in 1 .. Len(entries)
    BY <1>2, <2>1 DEF IInv, Told, TypeOK
  <2> QED
    BY <1>1, <1>2, <2>1, <2>2
<1>3. CASE AskLatest(d)
  <2>1. check[d] \in Check /\ check[d].at = "observed"
    BY <1>3 DEF AskLatest, IInv, TypeOK
  <2>2. PICK u \in User : u = check[d].user
    BY <2>1, CheckShapes
  <2>3. check'[d] = [at |-> "latest", user |-> u, key |-> check[d].key,
                     index |-> latestByUser[u], pin |-> pinned[u]]
    BY <1>3, <2>2 DEF AskLatest, Ask, IInv, TypeOK
  <2>4. check[d].key \in Key /\ check[d].key <= Logged(u)
    BY <2>1, <2>2, <2>3, CheckShapes DEF GivenBehind
  <2>5. Logged(u) # 0
    BY <2>4, LogAssumption DEF Key, Bogus
  <2>6. /\ latestByUser[u] # None /\ latestByUser[u] \in 1 .. Len(entries)
        /\ Logged(u) = entries[latestByUser[u]].key
    BY <2>5, LoggedShape
  <2> QED
    BY <1>1, <2>3, <2>4, <2>6
<1>4. ASSUME NEW u \in User, NEW k \in Key, Observe(d, u, k) PROVE FALSE
  BY <1>4 DEF Observe, IInv, TypeOK
<1>5. CASE FindEntry(d)
  BY <1>5 DEF FindEntry, Ask, IInv, TypeOK
<1> QED
  BY <1>2, <1>3, <1>4, <1>5, CheckStep

\* A caller that looks for the entry of a key of the contact's finds it.
LEMMA FoundRightKeeps ==
  ASSUME IInv, AllLogged, GivenBehind, FoundRight, [Next]_vars
  PROVE  FoundRight'
<1> SUFFICES ASSUME NEW d \in Caller, check'[d].at = "found", check'[d].key # Bogus
             PROVE  /\ check'[d].index \in 1 .. Len(entries')
                    /\ entries'[check'[d].index] =
                         [user |-> check'[d].user, key |-> check'[d].key]
  BY DEF FoundRight, Bogus
<1>1. \A i \in 1 .. Len(entries) : i \in 1 .. Len(entries') /\ entries'[i] = entries[i]
  <2>1. Len(entries) \in Nat /\ Len(entries') \in Nat /\ Len(entries) <= Len(entries')
    <3>1. entries' = entries \/ \E u \in User : Rotate(u)
      BY DEF Next, Proceed, PublishSTH, PublishIdentity, Observe, AskLatest, FindEntry, Ask,
             Accept, Block, Acknowledge, vars
    <3>2. ASSUME NEW u \in User, Rotate(u) PROVE Len(entries') = Len(entries) + 1
      BY <3>2 DEF Rotate, AppendEntry, IInv, TypeOK
    <3>3. Len(entries) \in Nat
      BY DEF IInv, TypeOK
    <3> QED
      BY <3>1, <3>2, <3>3
  <2> QED
    BY <2>1, LogGrows
<1>2. CASE check'[d] = check[d]
  BY <1>1, <1>2 DEF FoundRight
<1>3. CASE FindEntry(d)
  <2>1. check[d] \in Check /\ check[d].at = "observed" /\ DOMAIN entries = 1 .. Len(entries)
    BY <1>3 DEF FindEntry, IInv, TypeOK
  <2>2. PICK u \in User : u = check[d].user
    BY <2>1, CheckShapes
  <2>3. PICK k \in Key : k = check[d].key
    BY <2>1, CheckShapes
  <2>4. PICK i \in DOMAIN entries \cup {None} :
          /\ Ask(d, "found", i, None)
          /\ \/ i \in DOMAIN entries /\ entries[i] = [user |-> u, key |-> k]
             \/ \A j \in DOMAIN entries : entries[j] # [user |-> u, key |-> k]
    BY <1>3, <2>2, <2>3 DEF FindEntry
  <2>5. check'[d] = [at |-> "found", user |-> u, key |-> k, index |-> i, pin |-> None]
    BY <2>2, <2>3, <2>4 DEF Ask, IInv, TypeOK
  <2>6. k # Bogus /\ k <= Logged(u)
    BY <2>1, <2>2, <2>3, <2>5 DEF GivenBehind
  <2>7. k \in 1 .. Logged(u)
    BY <2>6, LoggedShape, LogAssumption DEF Key, Bogus
  <2>8. \E j \in DOMAIN entries : entries[j] = [user |-> u, key |-> k]
    BY <2>1, <2>7 DEF AllLogged
  <2> QED
    BY <1>1, <2>1, <2>4, <2>5, <2>8
<1>4. ASSUME NEW u \in User, NEW k \in Key, Observe(d, u, k) PROVE FALSE
  BY <1>4 DEF Observe, IInv, TypeOK
<1>5. CASE AskLatest(d)
  BY <1>5 DEF AskLatest, Ask, IInv, TypeOK
<1> QED
  BY <1>2, <1>3, <1>4, <1>5, CheckStep

-----------------------------------------------------------------------------
\* The log is always ahead of the relay and of whoever asks.
THEOREM LogIsAhead ==
  Spec => []Fresh
<1>1. Init => Fresh
  BY DEF Init, Fresh, HeadSigned, RelayBehind, AllLogged, GivenBehind, ToldAhead, FoundRight,
         Logged, Idle, None
<1>2. IInv /\ Fresh /\ [Next]_vars => Fresh'
  BY HeadSignedKeeps, RelayBehindKeeps, AllLoggedKeeps, GivenBehindKeeps, ToldAheadKeeps,
     FoundRightKeeps DEF Fresh
<1> QED
  BY <1>1, <1>2, Invariance, PTL DEF Spec

\* Where the current head has the key, the log does, and the relay did not make
\* it up.
LEMMA CoveredIsLogged ==
  ASSUME IInv, NEW c \in Caller, NEW u \in User, u = check[c].user, Covered(c)
  PROVE  /\ check[c].key \in 1 .. MaxKeys /\ check[c].key # Bogus /\ currentSTH # NoSTH
         /\ \E i \in 1 .. Len(currentSTH.root) :
              i \in 1 .. Len(entries) /\ entries[i] = [user |-> u, key |-> check[c].key]
<1>1. PICK i \in DOMAIN currentSTH.root : currentSTH.root[i] = [user |-> u, key |-> check[c].key]
  BY DEF Covered, ToSet
<1>2. currentSTH # NoSTH
  BY <1>1 DEF NoSTH
<1>3. currentSTH.root \in Seq(Entry) /\ Begins(currentSTH.root, entries)
  BY <1>2 DEF IInv, TypeOK, Published
<1>4. DOMAIN currentSTH.root = 1 .. Len(currentSTH.root) /\ Len(currentSTH.root) \in Nat
      /\ Len(entries) \in Nat
  BY <1>3 DEF IInv, TypeOK
<1>5. i \in 1 .. Len(currentSTH.root) /\ i \in 1 .. Len(entries) /\ entries[i] = currentSTH.root[i]
  BY <1>1, <1>3, <1>4 DEF Begins
<1>6. entries[i].key = check[c].key /\ entries[i].key \in 1 .. MaxKeys
  BY <1>1, <1>5, EntryShapes DEF IInv, TypeOK
<1> QED
  BY <1>1, <1>2, <1>5, <1>6, LogAssumption DEF Bogus

\* Two entries of one user with one key are one.
LEMMA OneEntry ==
  ASSUME IInv, NEW i \in 1 .. Len(entries), NEW j \in 1 .. Len(entries),
         entries[i].user = entries[j].user, entries[i].key = entries[j].key
  PROVE  i = j
<1>1. entries[i].key \in Int /\ DOMAIN entries = 1 .. Len(entries)
  BY EntryShapes DEF IInv, TypeOK
<1>2. ~(i < j) /\ ~(j < i)
  BY <1>1 DEF IInv, Ascending
<1> QED
  BY <1>2

\* A caller that goes by the latest entry, with the contact's last key, was told
\* of the very entry of it.
LEMMA ToldOfTheLast ==
  ASSUME IInv, Fresh, NEW c \in Caller, check[c].at = "latest", check[c].key # Bogus,
         NEW u \in User, u = check[c].user, ~(check[c].key < Logged(u))
  PROVE  /\ check[c].index \in 1 .. Len(entries)
         /\ entries[check[c].index] = [user |-> u, key |-> check[c].key]
<1> DEFINE i == check[c].index
           l == latestByUser[u]
<1>1. check[c] \in Check /\ check[c].key \in 1 .. Bogus
  BY CheckShapes DEF IInv, TypeOK, Key
<1>2. i # None /\ check[c].key <= entries[i].key
  BY DEF Fresh, ToldAhead
<1>3. i \in 1 .. Len(entries) /\ entries[i].user = u
  BY <1>2 DEF IInv, Told, TypeOK
<1>4. i <= l /\ l \in 1 .. Len(entries) /\ entries[l].user = u
  <2>1. i <= l /\ l \in {None} \cup 1 .. Len(entries)
    BY <1>3 DEF IInv, TypeOK
  <2>2. l # None
    BY <2>1, <1>3 DEF None
  <2> QED
    BY <2>1, <2>2 DEF IInv, TypeOK
<1>5. Logged(u) = entries[l].key
  BY <1>4 DEF Logged, None
<1>6. entries[i] \in Entry /\ entries[i].key \in Int /\ entries[l].key \in Int
  BY <1>3, <1>4, EntryShapes DEF IInv, TypeOK
<1>7. DOMAIN entries = 1 .. Len(entries)
  BY DEF IInv, TypeOK
<1>8. entries[i].key <= entries[l].key
  <2>1. CASE i = l
    BY <2>1, <1>6
  <2>2. CASE i < l
    BY <2>2, <1>3, <1>4, <1>6, <1>7 DEF IInv, Ascending
  <2> QED
    BY <2>1, <2>2, <1>3, <1>4
<1>9. entries[i].key = check[c].key
  BY <1>1, <1>2, <1>5, <1>6, <1>8, LogAssumption DEF Bogus
<1>10. entries[i] = [user |-> u, key |-> check[c].key]
  BY <1>3, <1>6, <1>9 DEF Entry
<1> QED
  BY <1>3, <1>10

\* A caller is blocked with a key that a tree head commits to only if it goes by
\* the latest entry and its contact has logged a newer key (FetchIdentity,
\* LatestEntryForUser, Entry, InclusionProof, CheckKeyChange).
THEOREM AlarmsAreNotFalse ==
  Spec => NoFalseAlarm
<1>1. ASSUME IInv, Fresh, NEW c \in Caller, Block(c), Covered(c),
             ~(check[c].at = "latest" /\ check[c].key < Logged(check[c].user))
      PROVE  FALSE
  <2>1. check[c] \in Check /\ check[c].at \in {"latest", "found"}
    BY <1>1 DEF Block, Asked, IInv, TypeOK
  <2>2. PICK u \in User : u = check[c].user
    BY <2>1, CheckShapes
  <2>3. check[c].key # Bogus /\ currentSTH # NoSTH
    BY <1>1, <2>2, CoveredIsLogged
  <2>4. PICK i \in 1 .. Len(currentSTH.root) :
          i \in 1 .. Len(entries) /\ entries[i] = [user |-> u, key |-> check[c].key]
    BY <1>1, <2>2, CoveredIsLogged
  <2>5. /\ check[c].index \in 1 .. Len(entries)
        /\ entries[check[c].index] = [user |-> u, key |-> check[c].key]
    <3>1. CASE check[c].at = "latest"
      BY <1>1, <2>2, <2>3, <3>1, ToldOfTheLast
    <3>2. CASE check[c].at = "found"
      BY <1>1, <2>2, <2>3, <3>2 DEF Fresh, FoundRight
    <3> QED
      BY <2>1, <3>1, <3>2
  <2>6. check[c].index = i
    BY <1>1, <2>4, <2>5, OneEntry
  <2>7. currentSTH.signed /\ currentSTH.root[i] = entries[i]
    BY <1>1, <2>3, <2>4 DEF Fresh, HeadSigned, IInv, Published, Begins
  <2>8. ObservedIsLogged(c)
    BY <2>2, <2>3, <2>4, <2>5, <2>6, <2>7 DEF ObservedIsLogged, Provable, VerifyInclusion, TreeSize
  <2>9. Alert(c) \in {"None", "SoftNotice"}
    BY <2>8 DEF Alert, CheckKeyChange
  <2> QED
    BY <1>1, <2>9 DEF Block
<1>2. IInv /\ Fresh /\ [Next]_vars
        => [\A c \in Caller :
              Block(c) /\ Covered(c) =>
                check[c].at = "latest" /\ check[c].key < Logged(check[c].user)]_vars
  BY <1>1
<1> QED
  BY <1>2, Invariance, LogIsAhead, PTL DEF Spec, NoFalseAlarm
=============================================================================
