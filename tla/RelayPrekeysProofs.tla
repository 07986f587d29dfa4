------------------------ MODULE RelayPrekeysProofs ------------------------
(***************************************************************************)
(* Proofs about RelayPrekeys, for every number of users, of clients and of *)
(* calls, and every batch size.                                            *)
(*                                                                         *)
(* The inductive invariant IInv says that a client inside a call holds the *)
(* mutex; that the used slots of a batch are a prefix of it, with the      *)
(* cursor on the slot that follows; and so that a fetch either finds its   *)
(* slot at the cursor or finds all of them used.                           *)
(***************************************************************************)
EXTENDS RelayPrekeys, FiniteSetTheorems, TLAPS

\* Who is inside a call holds the mutex.
Exclusive ==
  \A c \in Client : call[c].pc \in {"publish", "fetch", "take"} => mu = c

\* The first k slots are used, and the cursor is on the next, or back on the
\* first once all are.
PrefixUsed(e, k) ==
  /\ e.consumed = 0 .. k - 1
  /\ e.nextCursor = IF k = e.size THEN 0 ELSE k

Prefixes ==
  \A u \in User :
    /\ \E k \in 0 .. prekeys[u].size : PrefixUsed(prekeys[u], k)
    /\ prekeys[u].lastResort => prekeys[u].batch # 0

\* A slot that was found is unused, and is the one at the cursor.
FoundAtCursor ==
  \A c \in Client :
    call[c].pc = "take" =>
      /\ call[c].i \in 0 .. prekeys[call[c].user].size - 1
      /\ call[c].i \notin prekeys[call[c].user].consumed
      /\ call[c].i = prekeys[call[c].user].nextCursor

IInv == TypeOK /\ Exclusive /\ Prefixes /\ FoundAtCursor /\ ScansOnlyTheDrained

-----------------------------------------------------------------------------
\* What (cursor + i) % len(bundles) gives where the loop and its end use it.
LEMMA SlotNumbers ==
  ASSUME NEW n \in Nat \ {0}
  PROVE  /\ \A x \in Nat : x % n \in 0 .. n - 1
         /\ \A k \in 0 .. n - 1 : k % n = k
         /\ n % n = 0
<1>1. \A x \in Nat : x % n \in 0 .. n - 1
  OBVIOUS
<1>2. \A k \in 0 .. n - 1 : k % n = k
  OBVIOUS
<1>3. n % n = 0
  OBVIOUS
<1> QED
  BY <1>1, <1>2, <1>3

\* The loop finds the slot after the used prefix at once, when there is one.
LEMMA ScanFinds ==
  ASSUME NEW e \in Entry, NEW k \in 0 .. e.size, PrefixUsed(e, k), NEW i \in Nat, i < e.size
  PROVE  /\ Slot(e, i) \in 0 .. e.size - 1
         /\ k = e.size => Slot(e, i) \in e.consumed
         /\ i = 0 /\ k # e.size => Slot(e, i) = k /\ k \notin e.consumed /\ k = e.nextCursor
<1>1. e.size \in Nat \ {0} /\ e.nextCursor + i \in Nat /\ k \in Nat
  BY DEF Entry
<1>2. Slot(e, i) \in 0 .. e.size - 1
  BY <1>1, SlotNumbers DEF Slot
<1>3. k = e.size => Slot(e, i) \in e.consumed
  BY <1>1, <1>2 DEF PrefixUsed
<1>4. ASSUME i = 0, k # e.size
      PROVE  Slot(e, i) = k /\ k \notin e.consumed /\ k = e.nextCursor
  <2>1. k \in 0 .. e.size - 1 /\ e.nextCursor + i = k
    BY <1>1, <1>4 DEF PrefixUsed
  <2>2. Slot(e, i) = k
    BY <1>1, <2>1, SlotNumbers DEF Slot
  <2> QED
    BY <1>1, <1>4, <2>2 DEF PrefixUsed
<1> QED
  BY <1>2, <1>3, <1>4

\* Using the slot at the cursor lengthens the prefix by one.
LEMMA ConsumePrefix ==
  ASSUME NEW e \in Entry, NEW k \in 0 .. e.size, PrefixUsed(e, k),
         NEW idx \in 0 .. e.size - 1, idx \notin e.consumed, idx = e.nextCursor
  PROVE  /\ k = idx
         /\ Consume(e, idx) \in Entry
         /\ PrefixUsed(Consume(e, idx), idx + 1)
         /\ Consume(e, idx).size = e.size /\ Consume(e, idx).batch = e.batch
         /\ Consume(e, idx).lastResort = e.lastResort
         /\ Consume(e, idx).consumed = e.consumed \cup {idx}
<1>1. e.size \in Nat \ {0} /\ k \in Nat /\ idx \in Nat /\ e.size <= MaxBatch
  BY DEF Entry
<1>2. k = idx
  BY <1>1 DEF PrefixUsed
<1>3. (idx + 1) % e.size = IF idx + 1 = e.size THEN 0 ELSE idx + 1
  <2>1. CASE idx + 1 = e.size
    <3>1. e.size % e.size = 0
      BY <1>1, SlotNumbers
    <3> QED
      BY <2>1, <3>1
  <2>2. CASE idx + 1 # e.size
    <3>1. idx + 1 \in 0 .. e.size - 1
      BY <1>1, <2>2
    <3>2. (idx + 1) % e.size = idx + 1
      BY <1>1, <3>1, SlotNumbers
    <3> QED
      BY <2>2, <3>2
  <2> QED
    BY <2>1, <2>2
<1>4. (idx + 1) % e.size \in 0 .. MaxBatch
  BY <1>1, <1>3, PrekeysAssumption DEF PrekeysAssumption
<1> DEFINE f == [e EXCEPT !.consumed = e.consumed \cup {idx}, !.nextCursor = (idx + 1) % e.size]
<1>5. Consume(e, idx) = f
  BY DEF Consume
<1>6. f \in Entry
  <2>1. MaxBatch \in Nat /\ idx \in 0 .. MaxBatch - 1
    BY <1>1, PrekeysAssumption DEF PrekeysAssumption
  <2>2. e.consumed \cup {idx} \in SUBSET (0 .. MaxBatch - 1)
    BY <2>1 DEF Entry
  <2> DEFINE used == e.consumed \cup {idx}
             cursor == (idx + 1) % e.size
  <2>3. f = [e EXCEPT !.consumed = used, !.nextCursor = cursor]
    OBVIOUS
  <2> HIDE DEF f, used, cursor
  <2>4. used \in SUBSET (0 .. MaxBatch - 1) /\ cursor \in 0 .. MaxBatch
    BY <1>4, <2>2 DEF used, cursor
  <2> QED
    BY <2>3, <2>4 DEF Entry
<1>7. /\ f.size = e.size /\ f.batch = e.batch /\ f.lastResort = e.lastResort
      /\ f.consumed = e.consumed \cup {idx} /\ f.nextCursor = (idx + 1) % e.size
  BY DEF Entry
<1> HIDE DEF f
<1>8. e.consumed \cup {idx} = 0 .. (idx + 1) - 1
  BY <1>1, <1>2 DEF PrefixUsed
<1>9. PrefixUsed(f, idx + 1)
  BY <1>3, <1>7, <1>8 DEF PrefixUsed
<1> QED
  BY <1>2, <1>5, <1>6, <1>7, <1>9

-----------------------------------------------------------------------------
\* What the type of a call tells of it at each place.
LEMMA Calls ==
  ASSUME TypeOK, NEW c \in Client
  PROVE  /\ call[c].pc = "lock" =>
              /\ call[c].op \in {"publish", "fetch"} /\ call[c].user \in User
         /\ call[c].pc \in {"publish", "fetch", "take"} =>
              /\ call[c] = [pc |-> call[c].pc, user |-> call[c].user, i |-> call[c].i]
              /\ call[c].user \in User /\ call[c].i \in 0 .. MaxBatch
              /\ prekeys[call[c].user] \in Entry
         /\ Idle \in CallState /\ Idle.pc = "idle"
BY DEF TypeOK, CallState, Idle

\* The directory starts empty.
LEMMA InitInv == Init => IInv
<1> SUFFICES ASSUME Init PROVE IInv
  OBVIOUS
<1>0. MaxBatch \in Nat /\ MaxCalls \in Nat
  BY PrekeysAssumption DEF PrekeysAssumption
<1>1. NoPrekeys \in Entry
  BY <1>0 DEF NoPrekeys, NewPrekeys, Entry
<1>2. PrefixUsed(NoPrekeys, 0) /\ ~NoPrekeys.lastResort /\ NoPrekeys.size = 0
  BY DEF PrefixUsed, NoPrekeys, NewPrekeys
<1>3. \A c \in Client : call[c] = Idle /\ Idle \in CallState /\ Idle.pc = "idle"
  BY DEF Init, Idle, CallState
<1>4. TypeOK
  <2>1. call \in [Client -> CallState]
    BY <1>3 DEF Init
  <2>2. prekeys \in [User -> Entry]
    BY <1>1 DEF Init
  <2>3. \A u \in User : prekeys[u].consumed \subseteq 0 .. prekeys[u].size - 1
    BY DEF Init, NoPrekeys, NewPrekeys
  <2> QED
    BY <1>0, <2>1, <2>2, <2>3 DEF Init, TypeOK
<1>5. Prefixes
  <2> SUFFICES ASSUME NEW u \in User
               PROVE  /\ \E k \in 0 .. prekeys[u].size : PrefixUsed(prekeys[u], k)
                      /\ prekeys[u].lastResort => prekeys[u].batch # 0
    BY DEF Prefixes
  <2>1. prekeys[u] = NoPrekeys
    BY DEF Init
  <2>2. 0 \in 0 .. NoPrekeys.size
    BY <1>2
  <2> QED
    BY <1>2, <2>1, <2>2
<1>6. Exclusive /\ FoundAtCursor /\ ScansOnlyTheDrained
  BY <1>3 DEF Exclusive, FoundAtCursor, ScansOnlyTheDrained
<1> QED
  BY <1>4, <1>5, <1>6 DEF IInv

\* A call that starts to wait disturbs nothing.
LEMMA CallInv ==
  ASSUME IInv, NEW c \in Client, NEW op \in {"publish", "fetch"}, NEW u \in User, Call(c, op, u)
  PROVE  IInv'
<1> DEFINE new == [pc |-> "lock", op |-> op, user |-> u]
<1>1. /\ call \in [Client -> CallState] /\ call' = [call EXCEPT ![c] = new]
      /\ prekeys' = prekeys /\ mu' = mu /\ batches' = batches /\ issued' = issued
      /\ calls' = [calls EXCEPT ![c] = calls[c] + 1] /\ calls[c] < MaxCalls
  BY DEF IInv, TypeOK, Call
<1>2. new \in CallState /\ new.pc = "lock"
  BY DEF CallState
<1> HIDE DEF new
<1>3. \A d \in Client : IF d = c THEN call'[d] = new ELSE call'[d] = call[d]
  BY <1>1
<1>4. TypeOK'
  <2>1. call' \in [Client -> CallState]
    BY <1>1, <1>2
  <2>2. calls' \in [Client -> 0 .. MaxCalls]
    BY <1>1, PrekeysAssumption DEF IInv, TypeOK, PrekeysAssumption
  <2> QED
    BY <1>1, <2>1, <2>2 DEF IInv, TypeOK
<1>5. Exclusive' /\ FoundAtCursor' /\ ScansOnlyTheDrained'
  BY <1>1, <1>2, <1>3 DEF IInv, Exclusive, FoundAtCursor, ScansOnlyTheDrained
<1>6. Prefixes'
  BY <1>1 DEF IInv, Prefixes
<1> QED
  BY <1>4, <1>5, <1>6 DEF IInv

\* The mutex goes to one client, which has not scanned anything.
LEMMA LockInv ==
  ASSUME IInv, NEW c \in Client, Lock(c)
  PROVE  IInv'
<1> DEFINE new == [pc |-> call[c].op, user |-> call[c].user, i |-> 0]
<1>1. /\ call \in [Client -> CallState] /\ call' = [call EXCEPT ![c] = new]
      /\ prekeys' = prekeys /\ mu = NoClient /\ mu' = c /\ batches' = batches
      /\ issued' = issued /\ calls' = calls
  BY DEF IInv, TypeOK, Lock
<1>2. call[c].op \in {"publish", "fetch"} /\ call[c].user \in User
  BY Calls DEF IInv, Lock
<1>3. new \in CallState /\ new.pc \in {"publish", "fetch"} /\ new.i = 0
  BY <1>2, PrekeysAssumption DEF CallState, PrekeysAssumption
<1> HIDE DEF new
<1>4. \A d \in Client : IF d = c THEN call'[d] = new ELSE call'[d] = call[d]
  BY <1>1
<1>5. TypeOK'
  <2>1. call' \in [Client -> CallState]
    BY <1>1, <1>3
  <2> QED
    BY <1>1, <2>1 DEF IInv, TypeOK
<1>6. Exclusive'
  BY <1>1, <1>4, PrekeysAssumption DEF IInv, Exclusive, PrekeysAssumption
<1>7. FoundAtCursor' /\ ScansOnlyTheDrained'
  BY <1>1, <1>3, <1>4 DEF IInv, FoundAtCursor, ScansOnlyTheDrained
<1>8. Prefixes'
  BY <1>1 DEF IInv, Prefixes
<1> QED
  BY <1>5, <1>6, <1>7, <1>8 DEF IInv

\* The scan finds the slot at the cursor, or a used slot of a used-up batch.
LEMMA ScanInv ==
  ASSUME IInv, NEW c \in Client, FetchScan(c)
  PROVE  IInv'
<1> DEFINE u == call[c].user
           i == call[c].i
           e == prekeys[u]
<1>1. /\ call[c] = [pc |-> "fetch", user |-> u, i |-> i]
      /\ u \in User /\ i \in 0 .. MaxBatch /\ e \in Entry /\ i < e.size
      /\ e.size \in 0 .. MaxBatch /\ MaxBatch \in Nat /\ call \in [Client -> CallState]
      /\ prekeys' = prekeys /\ mu' = mu /\ batches' = batches
      /\ issued' = issued /\ calls' = calls /\ mu = c
  BY Calls, PrekeysAssumption
     DEF IInv, TypeOK, FetchScan, Exclusive, Entry, PrekeysAssumption
<1>2. PICK k \in 0 .. e.size : PrefixUsed(e, k)
  BY <1>1 DEF IInv, Prefixes
<1>3. /\ Slot(e, i) \in 0 .. e.size - 1
      /\ k = e.size => Slot(e, i) \in e.consumed
      /\ i = 0 /\ k # e.size => Slot(e, i) = k /\ k \notin e.consumed /\ k = e.nextCursor
  <2>1. i \in Nat /\ i < e.size
    BY <1>1
  <2> QED
    BY <1>1, <1>2, <2>1, ScanFinds
<1>4. i > 0 => k = e.size
  <2>1. i > 0 => e.consumed = 0 .. e.size - 1
    BY <1>1 DEF IInv, ScansOnlyTheDrained
  <2>2. k < e.size => k \notin e.consumed /\ k \in 0 .. e.size - 1
    BY <1>1, <1>2 DEF PrefixUsed
  <2> QED
    BY <1>1, <1>2, <2>1, <2>2
<1>5. k = e.size => e.consumed = 0 .. e.size - 1
  BY <1>2 DEF PrefixUsed
<1>6. CASE Slot(e, i) \in e.consumed
  <2> DEFINE new == [pc |-> "fetch", user |-> u, i |-> i + 1]
  <2>1. call' = [call EXCEPT ![c] = new]
    <3>1. [call[c] EXCEPT !.i = i + 1] = new
      BY <1>1
    <3>2. call' = [call EXCEPT ![c] = [call[c] EXCEPT !.i = i + 1]]
      BY <1>6 DEF FetchScan
    <3> QED
      BY <3>1, <3>2
  <2>2. new \in CallState /\ new.pc = "fetch" /\ new.user = u
    BY <1>1 DEF CallState
  <2>3. e.consumed = 0 .. e.size - 1
    BY <1>1, <1>3, <1>4, <1>5, <1>6
  <2> HIDE DEF new, u, i, e
  <2>4. \A d \in Client : IF d = c THEN call'[d] = new ELSE call'[d] = call[d]
    BY <1>1, <2>1
  <2>5. TypeOK'
    <3>1. call' \in [Client -> CallState]
      BY <1>1, <2>1, <2>2
    <3> QED
      BY <1>1, <3>1 DEF IInv, TypeOK
  <2>6. Exclusive' /\ FoundAtCursor'
    BY <1>1, <2>2, <2>4 DEF IInv, Exclusive, FoundAtCursor
  <2>7. ScansOnlyTheDrained'
    BY <1>1, <2>2, <2>3, <2>4 DEF IInv, ScansOnlyTheDrained, e
  <2>8. Prefixes'
    BY <1>1 DEF IInv, Prefixes
  <2> QED
    BY <2>5, <2>6, <2>7, <2>8 DEF IInv
<1>7. CASE Slot(e, i) \notin e.consumed
  <2> DEFINE idx == Slot(e, i)
             new == [pc |-> "take", user |-> u, i |-> idx]
  <2>1. call' = [call EXCEPT ![c] = new]
    BY <1>7 DEF FetchScan
  <2>2. idx \in 0 .. e.size - 1 /\ idx \notin e.consumed /\ idx = e.nextCursor
    BY <1>1, <1>3, <1>4, <1>7
  <2>3. new \in CallState /\ new.pc = "take" /\ new.user = u /\ new.i = idx
    BY <1>1, <2>2 DEF CallState
  <2> HIDE DEF new, u, i, e, idx
  <2>4. \A d \in Client : IF d = c THEN call'[d] = new ELSE call'[d] = call[d]
    BY <1>1, <2>1
  <2>5. TypeOK'
    <3>1. call' \in [Client -> CallState]
      BY <1>1, <2>1, <2>3
    <3> QED
      BY <1>1, <3>1 DEF IInv, TypeOK
  <2>6. Exclusive' /\ ScansOnlyTheDrained'
    BY <1>1, <2>3, <2>4 DEF IInv, Exclusive, ScansOnlyTheDrained
  <2>7. FoundAtCursor'
    BY <1>1, <2>2, <2>3, <2>4 DEF IInv, FoundAtCursor, e
  <2>8. Prefixes'
    BY <1>1 DEF IInv, Prefixes
  <2> QED
    BY <2>5, <2>6, <2>7, <2>8 DEF IInv
<1> QED
  BY <1>6, <1>7

\* A call that returns leaves nobody inside a call.
LEMMA Returns ==
  ASSUME IInv, NEW c \in Client, call[c].pc \in {"publish", "fetch", "take"}, Return(c)
  PROVE  /\ mu' \in Client \cup {NoClient} /\ call' \in [Client -> CallState]
         /\ calls' = calls
         /\ Exclusive' /\ FoundAtCursor' /\ ScansOnlyTheDrained'
<1>1. call \in [Client -> CallState] /\ call' = [call EXCEPT ![c] = Idle] /\ mu = c
  BY DEF IInv, TypeOK, Return, Exclusive
<1>2. Idle \in CallState /\ Idle.pc = "idle"
  BY DEF CallState, Idle
<1>3. \A d \in Client : call'[d].pc \notin {"publish", "fetch", "take"}
  <2> SUFFICES ASSUME NEW d \in Client, call'[d].pc \in {"publish", "fetch", "take"}
               PROVE  FALSE
    OBVIOUS
  <2>1. d # c /\ call'[d] = call[d]
    BY <1>1, <1>2
  <2> QED
    BY <1>1, <2>1 DEF IInv, Exclusive
<1>4. call' \in [Client -> CallState]
  BY <1>1, <1>2
<1> QED
  BY <1>3, <1>4 DEF Return, Exclusive, FoundAtCursor, ScansOnlyTheDrained

\* PublishPrekeys puts an unused batch on offer, and no fetch is under way.
LEMMA PublishInv ==
  ASSUME IInv, NEW c \in Client, NEW n \in 0 .. MaxBatch, NEW last \in BOOLEAN,
         PublishPrekeys(c, n, last)
  PROVE  IInv'
<1> DEFINE new == NewPrekeys(batches + 1, n, last)
<1>1. call[c].pc = "publish" /\ Return(c)
  BY DEF PublishPrekeys
<1>2. /\ call[c].user \in User /\ prekeys \in [User -> Entry] /\ batches \in Nat
      /\ prekeys' = [prekeys EXCEPT ![call[c].user] = new]
      /\ batches' = batches + 1 /\ issued' = issued
  BY <1>1, Calls DEF IInv, TypeOK, PublishPrekeys
<1>3. /\ new = [batch |-> batches + 1, size |-> n, consumed |-> {}, nextCursor |-> 0,
                lastResort |-> last, lastResortUse |-> 0]
  BY DEF NewPrekeys
<1>4. new \in Entry
  BY <1>2, <1>3, PrekeysAssumption DEF Entry, PrekeysAssumption
<1>5. PrefixUsed(new, 0) /\ 0 \in 0 .. new.size /\ new.batch # 0 /\ new.consumed = {}
  BY <1>2, <1>3, PrekeysAssumption DEF PrefixUsed, PrekeysAssumption
<1> HIDE DEF new
<1>6. \A u \in User : IF u = call[c].user THEN prekeys'[u] = new ELSE prekeys'[u] = prekeys[u]
  BY <1>2
<1>7. TypeOK'
  <2>1. prekeys' \in [User -> Entry]
    BY <1>2, <1>4
  <2>2. \A u \in User : prekeys'[u].consumed \subseteq 0 .. prekeys'[u].size - 1
    BY <1>5, <1>6 DEF IInv, TypeOK
  <2> QED
    BY <1>1, <1>2, <2>1, <2>2, Returns DEF IInv, TypeOK
<1>8. Prefixes'
  BY <1>5, <1>6 DEF IInv, Prefixes
<1> QED
  BY <1>1, <1>7, <1>8, Returns DEF IInv

\* FetchPrekeyBundle lengthens the used prefix by the slot it found.
LEMMA TakeInv ==
  ASSUME IInv, NEW c \in Client, FetchTake(c)
  PROVE  IInv'
<1> DEFINE u == call[c].user
           idx == call[c].i
           e == prekeys[u]
           new == Consume(e, idx)
           key == Prekey(e.batch, idx)
<1>1. /\ call[c].pc = "take" /\ Return(c) /\ u \in User /\ e \in Entry
      /\ prekeys \in [User -> Entry] /\ prekeys' = [prekeys EXCEPT ![u] = new]
      /\ issued \in [User -> Seq(Grant)]
      /\ issued' = [issued EXCEPT ![u] = Append(issued[u], key)] /\ batches' = batches
  BY Calls DEF IInv, TypeOK, FetchTake
<1>2. idx \in 0 .. e.size - 1 /\ idx \notin e.consumed /\ idx = e.nextCursor
  BY <1>1 DEF IInv, FoundAtCursor
<1>3. PICK k \in 0 .. e.size : PrefixUsed(e, k)
  BY <1>1 DEF IInv, Prefixes
<1>4. /\ new \in Entry /\ PrefixUsed(new, idx + 1) /\ new.size = e.size
      /\ new.batch = e.batch /\ new.lastResort = e.lastResort
      /\ new.consumed = e.consumed \cup {idx}
  BY <1>1, <1>2, <1>3, ConsumePrefix
<1>5. key \in Grant
  BY <1>1, <1>2, PrekeysAssumption DEF Prekey, Grant, Entry, PrekeysAssumption
<1>a. e.size \in Nat
  BY <1>1, PrekeysAssumption DEF Entry, PrekeysAssumption
<1> HIDE DEF new, u, idx, e, key
<1>b. idx + 1 \in 0 .. e.size
  BY <1>2, <1>a
<1>6. idx + 1 \in 0 .. new.size
  BY <1>4, <1>b
<1>7. \A v \in User : IF v = u THEN prekeys'[v] = new ELSE prekeys'[v] = prekeys[v]
  BY <1>1
<1>8. TypeOK'
  <2>1. prekeys' \in [User -> Entry]
    BY <1>1, <1>4
  <2>2. issued' \in [User -> Seq(Grant)]
    BY <1>1, <1>5
  <2>3. \A v \in User : prekeys'[v].consumed \subseteq 0 .. prekeys'[v].size - 1
    BY <1>1, <1>2, <1>4, <1>7 DEF IInv, TypeOK, e
  <2> QED
    BY <1>1, <2>1, <2>2, <2>3, Returns DEF IInv, TypeOK
<1>9. Prefixes'
  <2> SUFFICES ASSUME NEW v \in User
               PROVE  /\ \E j \in 0 .. prekeys'[v].size : PrefixUsed(prekeys'[v], j)
                      /\ prekeys'[v].lastResort => prekeys'[v].batch # 0
    BY DEF Prefixes
  <2>1. CASE v = u
    BY <1>1, <1>4, <1>6, <1>7, <2>1 DEF IInv, Prefixes, e
  <2>2. CASE v # u
    BY <1>7, <2>2 DEF IInv, Prefixes
  <2> QED
    BY <2>1, <2>2
<1> QED
  BY <1>1, <1>8, <1>9, Returns DEF IInv

\* Counting a fall-back changes nothing else of an entry.
LEMMA FallBackEntry ==
  ASSUME NEW e \in Entry
  PROVE  LET f == [e EXCEPT !.lastResortUse = e.lastResortUse + 1]
         IN /\ f \in Entry /\ f.size = e.size /\ f.batch = e.batch
            /\ f.lastResort = e.lastResort /\ f.consumed = e.consumed
            /\ f.nextCursor = e.nextCursor
BY DEF Entry

\* Falling back to the last-resort prekey uses no slot.
LEMMA FallBackInv ==
  ASSUME IInv, NEW c \in Client, FetchFallBack(c)
  PROVE  IInv'
<1> DEFINE u == call[c].user
           e == prekeys[u]
           new == [e EXCEPT !.lastResortUse = e.lastResortUse + 1]
           key == Prekey(e.batch, Last)
<1>1. /\ call[c].pc = "fetch" /\ Return(c) /\ u \in User /\ e \in Entry
      /\ prekeys \in [User -> Entry] /\ prekeys' = [prekeys EXCEPT ![u] = new]
      /\ issued \in [User -> Seq(Grant)]
      /\ issued' = [issued EXCEPT ![u] = Append(issued[u], key)] /\ batches' = batches
  BY Calls DEF IInv, TypeOK, FetchFallBack
<1>2. /\ new \in Entry /\ new.size = e.size /\ new.batch = e.batch
      /\ new.lastResort = e.lastResort /\ new.consumed = e.consumed
      /\ new.nextCursor = e.nextCursor
  BY <1>1, FallBackEntry
<1>3. key \in Grant
  BY <1>1 DEF Prekey, Grant, Entry
<1> HIDE DEF new, u, e, key
<1>4. \A v \in User : IF v = u THEN prekeys'[v] = new ELSE prekeys'[v] = prekeys[v]
  BY <1>1
<1>5. TypeOK'
  <2>1. prekeys' \in [User -> Entry]
    BY <1>1, <1>2
  <2>2. issued' \in [User -> Seq(Grant)]
    BY <1>1, <1>3
  <2>3. \A v \in User : prekeys'[v].consumed \subseteq 0 .. prekeys'[v].size - 1
    BY <1>2, <1>4 DEF IInv, TypeOK, e
  <2> QED
    BY <1>1, <2>1, <2>2, <2>3, Returns DEF IInv, TypeOK
<1>6. Prefixes'
  BY <1>2, <1>4 DEF IInv, Prefixes, PrefixUsed, e
<1> QED
  BY <1>1, <1>5, <1>6, Returns DEF IInv

\* A fetch that finds nothing changes nothing.
LEMMA NoneInv ==
  ASSUME IInv, NEW c \in Client, FetchNone(c)
  PROVE  IInv'
<1>1. call[c].pc = "fetch" /\ Return(c) /\ UNCHANGED <<prekeys, batches, issued>>
  BY DEF FetchNone
<1> QED
  BY <1>1, Returns DEF IInv, TypeOK, Prefixes

\* The inductive invariant holds of every reachable state.
THEOREM Invariance == Spec => []IInv
<1>1. Init => IInv
  BY InitInv
<1>2. IInv /\ [Next]_vars => IInv'
  <2> SUFFICES ASSUME IInv, [Next]_vars PROVE IInv'
    OBVIOUS
  <2>1. CASE UNCHANGED vars
    BY <2>1 DEF vars, IInv, TypeOK, Exclusive, Prefixes, FoundAtCursor, ScansOnlyTheDrained
  <2>2. ASSUME NEW c \in Client, NEW op \in {"publish", "fetch"}, NEW u \in User, Call(c, op, u)
        PROVE  IInv'
    BY <2>2, CallInv
  <2>3. ASSUME NEW c \in Client, Run(c)
        PROVE  IInv'
    BY <2>3, LockInv, PublishInv, ScanInv, TakeInv, FallBackInv, NoneInv DEF Run
  <2> QED
    BY <2>1, <2>2, <2>3 DEF Next
<1> QED
  BY <1>1, <1>2, PTL DEF Spec

\* Every reachable state has its type.
THEOREM TypeCorrect == Spec => []TypeOK
BY Invariance, PTL DEF IInv

\* A fetch passes over a used slot only when every slot of the batch is used.
THEOREM ScansDrained == Spec => []ScansOnlyTheDrained
BY Invariance, PTL DEF IInv

-----------------------------------------------------------------------------
(* The telemetry.  It is exact because a batch begins with nothing handed  *)
(* out under its number (Numbered), and because the used slots, a prefix,  *)
(* are as many as the grants that used them.                               *)

\* No grant and no batch has a number yet to be given.
Numbered ==
  \A u \in User :
    prekeys[u].batch <= batches /\ \A k \in DOMAIN issued[u] : issued[u][k].batch <= batches

\* How many grants of seq are of batch b, with an index in I.
Grants(seq, b, I) == {k \in DOMAIN seq : seq[k].batch = b /\ seq[k].index \in I}
Count(seq, b, I) == Cardinality(Grants(seq, b, I))

LEMMA CountGrants == \A u \in User : \A I : Returned(u, I) = Count(issued[u], prekeys[u].batch, I)
BY DEF Returned, Count, Grants

\* One more grant is counted if it is of the batch and the kind asked about.
LEMMA CountAppend ==
  ASSUME NEW seq \in Seq(Grant), NEW g \in Grant, NEW b, NEW I
  PROVE  /\ Count(seq, b, I) \in Nat
         /\ Count(Append(seq, g), b, I) =
              Count(seq, b, I) + (IF g.batch = b /\ g.index \in I THEN 1 ELSE 0)
<1> DEFINE n == Len(seq)
           old == Grants(seq, b, I)
           new == Grants(Append(seq, g), b, I)
<1>1. n \in Nat /\ DOMAIN seq = 1 .. n
  OBVIOUS
<1>2. /\ DOMAIN Append(seq, g) = 1 .. n + 1 /\ Append(seq, g)[n + 1] = g
      /\ \A k \in 1 .. n : Append(seq, g)[k] = seq[k]
  OBVIOUS
<1>3. IsFiniteSet(old) /\ n + 1 \notin old
  <2>1. old \subseteq 1 .. n
    BY <1>1 DEF Grants
  <2>2. IsFiniteSet(1 .. n)
    BY <1>1, FS_Interval
  <2> QED
    BY <1>1, <2>1, <2>2, FS_Subset
<1>4. new = IF g.batch = b /\ g.index \in I THEN old \cup {n + 1} ELSE old
  BY <1>1, <1>2 DEF Grants
<1>5. Cardinality(old) \in Nat
  BY <1>3, FS_CardinalityType
<1>6. Cardinality(old \cup {n + 1}) = Cardinality(old) + 1
  BY <1>3, FS_AddElement
<1> QED
  BY <1>4, <1>5, <1>6 DEF Count

\* Of a batch of which a prefix is used, the remaining slots are the others.
LEMMA PrefixRemains ==
  ASSUME NEW e \in Entry, NEW k \in 0 .. e.size, PrefixUsed(e, k)
  PROVE  e.size - Remaining(e) = k
<1>1. e.size \in Nat
  BY PrekeysAssumption DEF Entry, PrekeysAssumption
<1>2. (0 .. e.size - 1) \ e.consumed = k .. e.size - 1
  BY <1>1 DEF PrefixUsed
<1>3. Cardinality(k .. e.size - 1) = e.size - k
  <2> DEFINE last == e.size - 1
  <2>1. k \in Int /\ last \in Int
    BY <1>1
  <2>2. Cardinality(k .. last) = IF k > last THEN 0 ELSE last - k + 1
    BY <2>1, FS_Interval, Zenon
  <2> QED
    BY <1>1, <2>2
<1>4. Remaining(e) = e.size - k
  BY <1>2, <1>3, Zenon DEF Remaining
<1> QED
  BY <1>1, <1>4

TelemetryInv == Numbered /\ TelemetryExact

\* Nothing has been published or handed out.
LEMMA InitTelemetry == Init => TelemetryInv
<1> SUFFICES ASSUME Init PROVE TelemetryInv
  OBVIOUS
<1>1. \A u \in User : prekeys[u] = NoPrekeys /\ issued[u] = <<>>
  BY DEF Init
<1>2. NoPrekeys \in Entry /\ PrefixUsed(NoPrekeys, 0) /\ NoPrekeys.size = 0
      /\ NoPrekeys.batch = 0 /\ NoPrekeys.lastResortUse = 0
  BY PrekeysAssumption DEF NoPrekeys, NewPrekeys, Entry, PrefixUsed, PrekeysAssumption
<1>3. NoPrekeys.size - Remaining(NoPrekeys) = 0
  BY <1>2, PrefixRemains
<1>4. \A u \in User : \A I : Returned(u, I) = 0
  BY <1>1, FS_EmptySet DEF Returned
<1> QED
  BY <1>1, <1>2, <1>3, <1>4 DEF TelemetryInv, Numbered, TelemetryExact, Init

\* A new batch has all its slots, and nothing was handed out under its number.
LEMMA PublishTelemetry ==
  ASSUME IInv, TelemetryInv, NEW c \in Client, NEW n \in 0 .. MaxBatch, NEW last \in BOOLEAN,
         PublishPrekeys(c, n, last)
  PROVE  TelemetryInv'
<1> DEFINE new == NewPrekeys(batches + 1, n, last)
<1>1. /\ call[c].user \in User /\ prekeys \in [User -> Entry] /\ batches \in Nat
      /\ prekeys' = [prekeys EXCEPT ![call[c].user] = new]
      /\ batches' = batches + 1 /\ issued' = issued /\ issued \in [User -> Seq(Grant)]
  BY Calls DEF IInv, TypeOK, PublishPrekeys
<1>2. /\ new \in Entry /\ PrefixUsed(new, 0) /\ 0 \in 0 .. new.size
      /\ new.batch = batches + 1 /\ new.lastResortUse = 0
  BY <1>1, PrekeysAssumption DEF NewPrekeys, Entry, PrefixUsed, PrekeysAssumption
<1>3. new.size - Remaining(new) = 0
  BY <1>2, PrefixRemains
<1>4. \A v \in User : \A k \in DOMAIN issued[v] : issued[v][k].batch \in Nat
  <2>1. \A v \in User : \A k \in DOMAIN issued[v] : issued[v][k] \in Grant
    BY <1>1
  <2> QED
    BY <2>1 DEF Grant
<1>5. \A v \in User : prekeys[v].batch \in Nat
  BY <1>1 DEF Entry
<1> HIDE DEF new
<1>6. \A v \in User : IF v = call[c].user THEN prekeys'[v] = new ELSE prekeys'[v] = prekeys[v]
  BY <1>1
<1>7. Numbered'
  BY <1>1, <1>2, <1>4, <1>5, <1>6 DEF TelemetryInv, Numbered
<1>8. \A I : Count(issued[call[c].user], batches + 1, I) = 0
  <2> SUFFICES ASSUME NEW I PROVE Grants(issued[call[c].user], batches + 1, I) = {}
    BY FS_EmptySet DEF Count
  <2> QED
    BY <1>1, <1>4 DEF Grants, TelemetryInv, Numbered
<1>9. TelemetryExact'
  <2> SUFFICES ASSUME NEW v \in User
               PROVE  /\ prekeys'[v].size - Remaining(prekeys'[v])
                           = Count(issued[v], prekeys'[v].batch, 0 .. MaxBatch - 1)
                      /\ prekeys'[v].lastResortUse = Count(issued[v], prekeys'[v].batch, {Last})
    BY <1>1 DEF TelemetryExact, Returned, Count, Grants
  <2>1. CASE v = call[c].user
    BY <1>2, <1>3, <1>6, <1>8, <2>1
  <2>2. CASE v # call[c].user
    <3>1. prekeys'[v] = prekeys[v]
      BY <1>6, <2>2
    <3> QED
      BY <3>1, CountGrants, Zenon DEF TelemetryInv, TelemetryExact
  <2> QED
    BY <2>1, <2>2
<1> QED
  BY <1>7, <1>9 DEF TelemetryInv

\* A grant that uses a slot, and one of the last-resort prekey, each add one to
\* their own count.
LEMMA GrantTelemetry ==
  ASSUME IInv, TelemetryInv, NEW u \in User, NEW new \in Entry,
         NEW index \in {Last} \cup 0 .. MaxBatch - 1,
         prekeys' = [prekeys EXCEPT ![u] = new],
         issued' = [issued EXCEPT ![u] = Append(@, Prekey(prekeys[u].batch, index))],
         batches' = batches, new.batch = prekeys[u].batch,
         IF index = Last
           THEN /\ new.size - Remaining(new) = prekeys[u].size - Remaining(prekeys[u])
                /\ new.lastResortUse = prekeys[u].lastResortUse + 1
           ELSE /\ new.size - Remaining(new) = prekeys[u].size - Remaining(prekeys[u]) + 1
                /\ new.lastResortUse = prekeys[u].lastResortUse
  PROVE  TelemetryInv'
<1> DEFINE g == Prekey(prekeys[u].batch, index)
           b == prekeys[u].batch
<1>1. /\ prekeys \in [User -> Entry] /\ issued \in [User -> Seq(Grant)]
      /\ batches \in Nat /\ b \in Nat
  BY DEF IInv, TypeOK, Entry
<1>2. g \in Grant /\ g.batch = b /\ g.index = index
  BY <1>1 DEF Grant, Prekey
<1>3. Last \notin 0 .. MaxBatch - 1
  BY DEF Last
<1>4. /\ prekeys'[u] = new /\ issued'[u] = Append(issued[u], g)
      /\ \A v \in User \ {u} : prekeys'[v] = prekeys[v] /\ issued'[v] = issued[v]
  BY <1>1
<1> HIDE DEF g
<1>5. Numbered'
  <2>1. \A k \in DOMAIN issued'[u] : issued'[u][k].batch <= batches
    <3>1. /\ DOMAIN Append(issued[u], g) = 1 .. Len(issued[u]) + 1
          /\ Append(issued[u], g)[Len(issued[u]) + 1] = g
          /\ \A k \in 1 .. Len(issued[u]) : Append(issued[u], g)[k] = issued[u][k]
      BY <1>1
    <3>2. DOMAIN issued[u] = 1 .. Len(issued[u]) /\ Len(issued[u]) \in Nat
      BY <1>1
    <3> QED
      BY <1>2, <1>4, <3>1, <3>2 DEF TelemetryInv, Numbered
  <2> QED
    BY <1>4, <2>1 DEF TelemetryInv, Numbered
<1>6. \A I : /\ Count(issued[u], b, I) \in Nat
             /\ Count(issued'[u], b, I) =
                  Count(issued[u], b, I) + (IF index \in I THEN 1 ELSE 0)
  BY <1>1, <1>2, <1>4, CountAppend
<1>7. TelemetryExact'
  <2> SUFFICES ASSUME NEW v \in User
               PROVE  /\ prekeys'[v].size - Remaining(prekeys'[v])
                           = Count(issued'[v], prekeys'[v].batch, 0 .. MaxBatch - 1)
                      /\ prekeys'[v].lastResortUse = Count(issued'[v], prekeys'[v].batch, {Last})
    BY DEF TelemetryExact, Returned, Count, Grants
  <2>0. /\ prekeys[v].size - Remaining(prekeys[v])
             = Count(issued[v], prekeys[v].batch, 0 .. MaxBatch - 1)
        /\ prekeys[v].lastResortUse = Count(issued[v], prekeys[v].batch, {Last})
    BY CountGrants, Zenon DEF TelemetryInv, TelemetryExact
  <2> DEFINE Slots == 0 .. MaxBatch - 1
             now == Count(issued'[u], b, Slots)
             before == Count(issued[u], b, Slots)
             nowLast == Count(issued'[u], b, {Last})
             beforeLast == Count(issued[u], b, {Last})
  <2>a. before \in Nat /\ now = before + (IF index \in Slots THEN 1 ELSE 0)
    BY <1>6
  <2>b. beforeLast \in Nat /\ nowLast = beforeLast + (IF index \in {Last} THEN 1 ELSE 0)
    BY <1>6
  <2>c. IF index = Last THEN index \notin Slots ELSE index \in Slots
    BY <1>3
  <2>1. CASE v = u
    <3>1. prekeys'[v] = new /\ new.batch = b
      BY <1>4, <2>1
    <3>2. /\ prekeys[u].size - Remaining(prekeys[u]) = before
          /\ prekeys[u].lastResortUse = beforeLast
      BY <2>0, <2>1
    <3> HIDE DEF now, before, nowLast, beforeLast, Slots
    <3>3. new.size - Remaining(new) = now /\ new.lastResortUse = nowLast
      BY <2>a, <2>b, <2>c, <3>2
    <3> USE DEF now, nowLast, Slots
    <3> QED
      BY <2>1, <3>1, <3>3, Zenon
  <2>2. CASE v # u
    BY <1>4, <2>0, <2>2
  <2> QED
    BY <2>1, <2>2
<1> QED
  BY <1>5, <1>7 DEF TelemetryInv

\* FetchPrekeyBundle counts what it hands out.
LEMMA FetchTelemetry ==
  ASSUME IInv, TelemetryInv, NEW c \in Client, FetchTake(c) \/ FetchFallBack(c)
  PROVE  TelemetryInv'
<1> DEFINE u == call[c].user
           e == prekeys[u]
           idx == call[c].i
<1>1. /\ u \in User /\ e \in Entry /\ batches' = batches
  BY Calls DEF IInv, TypeOK, FetchTake, FetchFallBack
<1>2. PICK k \in 0 .. e.size : PrefixUsed(e, k)
  BY <1>1 DEF IInv, Prefixes
<1>3. e.size - Remaining(e) = k
  BY <1>1, <1>2, PrefixRemains
<1>4. CASE FetchTake(c)
  <2> DEFINE new == Consume(e, idx)
  <2>1. idx \in 0 .. e.size - 1 /\ idx \notin e.consumed /\ idx = e.nextCursor
    BY <1>4 DEF IInv, FoundAtCursor, FetchTake
  <2>2. new \in Entry /\ PrefixUsed(new, idx + 1) /\ new.size = e.size /\ new.batch = e.batch
    BY <1>1, <1>2, <2>1, ConsumePrefix
  <2>3. new.lastResortUse = e.lastResortUse
    BY <1>1 DEF Consume, Entry
  <2>4. e.size \in Nat /\ e.size <= MaxBatch /\ MaxBatch \in Nat
    BY <1>1, PrekeysAssumption DEF Entry, PrekeysAssumption
  <2>5. k = idx
    BY <1>2, <2>1, <2>4 DEF PrefixUsed
  <2>6. new.size - Remaining(new) = idx + 1
    BY <2>1, <2>2, <2>4, PrefixRemains
  <2>7. idx \in 0 .. MaxBatch - 1 /\ idx # Last
    BY <2>1, <2>4 DEF Last
  <2>8. /\ prekeys' = [prekeys EXCEPT ![u] = new]
        /\ issued' = [issued EXCEPT ![u] = Append(@, Prekey(e.batch, idx))]
    BY <1>4 DEF FetchTake
  <2> HIDE DEF new, u, idx
  <2> QED
    BY <1>1, <1>3, <2>2, <2>3, <2>5, <2>6, <2>7, <2>8, GrantTelemetry
<1>5. CASE FetchFallBack(c)
  <2> DEFINE new == [e EXCEPT !.lastResortUse = e.lastResortUse + 1]
  <2>1. /\ new \in Entry /\ new.size = e.size /\ new.batch = e.batch
        /\ new.consumed = e.consumed /\ new.lastResortUse = e.lastResortUse + 1
    BY <1>1 DEF Entry
  <2>2. /\ prekeys' = [prekeys EXCEPT ![u] = new]
        /\ issued' = [issued EXCEPT ![u] = Append(@, Prekey(e.batch, Last))]
    BY <1>5 DEF FetchFallBack
  <2>3. Remaining(new) = Remaining(e)
    BY <2>1 DEF Remaining
  <2> HIDE DEF new, u
  <2> QED
    BY <1>1, <2>1, <2>2, <2>3, GrantTelemetry
<1> QED
  BY <1>4, <1>5

\* However publications and fetches interleave, the telemetry tells the truth:
\* the slots of a batch that are gone are the prekeys of it that were handed
\* out, and the last-resort count is how often a caller was sent there.
THEOREM TelemetryTrue == Spec => []TelemetryExact
<1>1. Init => TelemetryInv
  BY InitTelemetry
<1>2. IInv /\ TelemetryInv /\ [Next]_vars => TelemetryInv'
  <2> SUFFICES ASSUME IInv, TelemetryInv, [Next]_vars PROVE TelemetryInv'
    OBVIOUS
  <2>1. CASE UNCHANGED <<prekeys, batches, issued>>
    BY <2>1 DEF TelemetryInv, Numbered, TelemetryExact, Returned
  <2>2. ASSUME NEW c \in Client, NEW n \in 0 .. MaxBatch, NEW last \in BOOLEAN,
               PublishPrekeys(c, n, last)
        PROVE  TelemetryInv'
    BY <2>2, PublishTelemetry
  <2>3. ASSUME NEW c \in Client, FetchTake(c) \/ FetchFallBack(c)
        PROVE  TelemetryInv'
    BY <2>3, FetchTelemetry
  <2> QED
    BY <2>1, <2>2, <2>3 DEF Next, Run, vars, Call, Lock, FetchScan, FetchNone
<1>3. TelemetryInv => TelemetryExact
  BY DEF TelemetryInv
<1> QED
  BY <1>1, <1>2, <1>3, Invariance, PTL DEF Spec

-----------------------------------------------------------------------------
(* Refinement: PublishPrekeys, FetchTake and FetchFallBack are the three    *)
(* steps of Dispenser, at the moment the call returns; all else stutters.  *)

Stock(e) == {Prekey(e.batch, i) : i \in (0 .. e.size - 1) \ e.consumed}
Spare(e) == IF e.lastResort THEN e.batch ELSE 0

\* The state the directory stands for.
LEMMA Mapping ==
  /\ Promise!vars = <<batches, [u \in User |-> Stock(prekeys[u])],
                      [u \in User |-> Spare(prekeys[u])], issued>>
  /\ Promise!vars' = <<batches', [u \in User |-> Stock(prekeys'[u])],
                       [u \in User |-> Spare(prekeys'[u])], issued'>>
BY DEF Promise!vars, Stock, Spare

\* PublishPrekeys puts a fresh stock on offer.
LEMMA PublishRefines ==
  ASSUME IInv, NEW c \in Client, NEW n \in 0 .. MaxBatch, NEW last \in BOOLEAN,
         PublishPrekeys(c, n, last),
         NEW u \in User, u = call[c].user
  PROVE  Promise!Publish(u)
<1> DEFINE new == NewPrekeys(batches + 1, n, last)
           stock == [v \in User |-> Stock(prekeys[v])]
           stockP == [v \in User |-> Stock(prekeys'[v])]
           spare == [v \in User |-> Spare(prekeys[v])]
           spareP == [v \in User |-> Spare(prekeys'[v])]
<1>1. /\ u \in User /\ prekeys \in [User -> Entry] /\ batches' = batches + 1
      /\ prekeys' = [prekeys EXCEPT ![u] = new] /\ issued' = issued
  BY Calls DEF IInv, TypeOK, PublishPrekeys
<1>2. /\ Stock(new) = {Prekey(batches', i) : i \in 0 .. n - 1}
      /\ Spare(new) \in {0, batches'}
  BY <1>1 DEF Stock, Spare, NewPrekeys
<1> HIDE DEF new
<1>3. \A v \in User : IF v = u THEN prekeys'[v] = new ELSE prekeys'[v] = prekeys[v]
  BY <1>1
<1>4. stockP = [stock EXCEPT ![u] = {Prekey(batches', i) : i \in 0 .. n - 1}]
  <2> DEFINE fresh == {Prekey(batches', i) : i \in 0 .. n - 1}
  <2> HIDE DEF fresh
  <2>1. Stock(new) = fresh
    BY <1>2 DEF fresh
  <2>2. stockP = [stock EXCEPT ![u] = fresh]
    BY <1>1, <1>3, <2>1
  <2> QED
    BY <2>2 DEF fresh
<1>5. spareP = [spare EXCEPT ![u] = Spare(new)]
  BY <1>1, <1>3
<1> QED
  BY <1>1, <1>2, <1>4, <1>5
     DEF Promise!Publish, Promise!Prekey, Prekey, Stock, Spare

\* FetchPrekeyBundle hands out a prekey of the stock, and takes it out of it.
LEMMA TakeRefines ==
  ASSUME IInv, NEW c \in Client, FetchTake(c),
         NEW u \in User, u = call[c].user
  PROVE  Promise!Issue(u)
<1> DEFINE idx == call[c].i
           e == prekeys[u]
           new == Consume(e, idx)
           key == Prekey(e.batch, idx)
           stock == [v \in User |-> Stock(prekeys[v])]
           stockP == [v \in User |-> Stock(prekeys'[v])]
           spare == [v \in User |-> Spare(prekeys[v])]
           spareP == [v \in User |-> Spare(prekeys'[v])]
<1>1. /\ call[c].pc = "take" /\ u \in User /\ e \in Entry
      /\ prekeys \in [User -> Entry] /\ prekeys' = [prekeys EXCEPT ![u] = new]
      /\ issued' = [issued EXCEPT ![u] = Append(issued[u], key)] /\ batches' = batches
  BY Calls DEF IInv, TypeOK, FetchTake
<1>2. idx \in 0 .. e.size - 1 /\ idx \notin e.consumed /\ idx = e.nextCursor
  BY <1>1 DEF IInv, FoundAtCursor
<1>3. PICK k \in 0 .. e.size : PrefixUsed(e, k)
  BY <1>1 DEF IInv, Prefixes
<1>4. /\ new.size = e.size /\ new.batch = e.batch /\ new.lastResort = e.lastResort
      /\ new.consumed = e.consumed \cup {idx}
  BY <1>1, <1>2, <1>3, ConsumePrefix
<1>5. Stock(new) = Stock(e) \ {key} /\ key \in Stock(e) /\ Spare(new) = Spare(e)
  <2>1. \A i, j : Prekey(e.batch, i) = Prekey(e.batch, j) => i = j
    BY DEF Prekey
  <2> HIDE DEF new, e, idx
  <2> QED
    BY <1>2, <1>4, <2>1 DEF Stock, Spare
<1> HIDE DEF new, key
<1>6. \A v \in User : IF v = u THEN prekeys'[v] = new ELSE prekeys'[v] = prekeys[v]
  BY <1>1
<1>7. stockP = [stock EXCEPT ![u] = stock[u] \ {key}] /\ key \in stock[u]
  BY <1>1, <1>5, <1>6
<1>8. spareP = spare
  BY <1>1, <1>5, <1>6
<1> QED
  BY <1>1, <1>7, <1>8 DEF Promise!Issue, Stock, Spare

\* FetchPrekeyBundle falls back only when the stock is empty.
LEMMA FallBackRefines ==
  ASSUME IInv, NEW c \in Client, FetchFallBack(c),
         NEW u \in User, u = call[c].user
  PROVE  Promise!FallBack(u)
<1> DEFINE e == prekeys[u]
           new == [e EXCEPT !.lastResortUse = e.lastResortUse + 1]
           key == Prekey(e.batch, Last)
           stock == [v \in User |-> Stock(prekeys[v])]
           stockP == [v \in User |-> Stock(prekeys'[v])]
           spare == [v \in User |-> Spare(prekeys[v])]
           spareP == [v \in User |-> Spare(prekeys'[v])]
<1>1. /\ call[c].pc = "fetch" /\ u \in User /\ e \in Entry /\ call[c].i \in Nat
      /\ call[c].i >= e.size /\ e.lastResort
      /\ prekeys \in [User -> Entry] /\ prekeys' = [prekeys EXCEPT ![u] = new]
      /\ issued' = [issued EXCEPT ![u] = Append(issued[u], key)] /\ batches' = batches
  BY Calls DEF IInv, TypeOK, FetchFallBack
<1>2. /\ new.size = e.size /\ new.batch = e.batch /\ new.lastResort = e.lastResort
      /\ new.consumed = e.consumed
  BY <1>1, FallBackEntry
<1>3. Stock(e) = {} /\ Spare(e) = e.batch /\ e.batch # 0
  <2>1. e.size = 0 \/ e.consumed = 0 .. e.size - 1
    BY <1>1 DEF IInv, ScansOnlyTheDrained, Entry
  <2>2. e.lastResort => e.batch # 0
    BY <1>1 DEF IInv, Prefixes
  <2>3. e.lastResort
    BY <1>1
  <2> HIDE DEF e
  <2>4. Stock(e) = {}
    <3>1. 0 .. 0 - 1 = {}
      OBVIOUS
    <3>2. (0 .. e.size - 1) \ e.consumed = {}
      BY <2>1, <3>1
    <3> QED
      BY <3>2 DEF Stock
  <2>5. Spare(e) = e.batch
    BY <2>3 DEF Spare
  <2> QED
    BY <2>2, <2>3, <2>4, <2>5
<1>4. Stock(new) = Stock(e) /\ Spare(new) = Spare(e)
  BY <1>2 DEF Stock, Spare
<1> HIDE DEF new
<1>5. \A v \in User : IF v = u THEN prekeys'[v] = new ELSE prekeys'[v] = prekeys[v]
  BY <1>1
<1>6. stockP = stock /\ spareP = spare /\ stock[u] = {} /\ spare[u] = e.batch
  BY <1>1, <1>3, <1>4, <1>5
<1> QED
  BY <1>1, <1>3, <1>6
     DEF Promise!FallBack, Promise!Prekey, Promise!Last, Prekey, Last, Stock, Spare

\* Each of the three is a step of the dispenser.
LEMMA DispenserSteps ==
  \A u \in User : Promise!Publish(u) \/ Promise!Issue(u) \/ Promise!FallBack(u) => Promise!Next
BY DEF Promise!Next

\* The directory implements the dispenser: a one-time prekey is handed out at
\* most once, and the last-resort prekey only when none is left, however many
\* clients call it at once.
THEOREM ImplementsDispenser == Spec => PromiseKept
<1>1. Init => Promise!Init
  <2> SUFFICES ASSUME Init PROVE Promise!Init
    OBVIOUS
  <2>1. \A u \in User : Stock(prekeys[u]) = {} /\ Spare(prekeys[u]) = 0
    BY DEF Init, NoPrekeys, NewPrekeys, Stock, Spare
  <2> QED
    BY <2>1 DEF Init, Promise!Init, Stock, Spare
<1>2. IInv /\ [Next]_vars => [Promise!Next]_(Promise!vars)
  <2> SUFFICES ASSUME IInv, [Next]_vars
               PROVE  [Promise!Next]_(Promise!vars)
    OBVIOUS
  <2>1. ASSUME UNCHANGED <<prekeys, batches, issued>>
        PROVE  UNCHANGED Promise!vars
    BY <2>1, Mapping
  <2>2. CASE UNCHANGED vars
    BY <2>1, <2>2 DEF vars
  <2>3. ASSUME NEW c \in Client, NEW op \in {"publish", "fetch"}, NEW u \in User, Call(c, op, u)
        PROVE  [Promise!Next]_(Promise!vars)
    BY <2>1, <2>3 DEF Call
  <2>4. ASSUME NEW c \in Client, Run(c)
        PROVE  [Promise!Next]_(Promise!vars)
    <3>1. CASE Lock(c) \/ FetchScan(c) \/ FetchNone(c)
      BY <2>1, <3>1 DEF Lock, FetchScan, FetchNone
    <3>2. ASSUME call[c].pc \in {"publish", "fetch", "take"}
          PROVE  call[c].user \in User
      BY <3>2, Calls DEF IInv
    <3>3. ASSUME NEW n \in 0 .. MaxBatch, NEW last \in BOOLEAN, PublishPrekeys(c, n, last)
          PROVE  Promise!Next
      <4>1. PICK u \in User : u = call[c].user
        BY <3>2, <3>3 DEF PublishPrekeys
      <4>2. Promise!Publish(u)
        BY <3>3, <4>1, PublishRefines
      <4> QED
        BY <4>2, DispenserSteps
    <3>4. CASE FetchTake(c)
      <4>1. PICK u \in User : u = call[c].user
        BY <3>2, <3>4 DEF FetchTake
      <4>2. Promise!Issue(u)
        BY <3>4, <4>1, TakeRefines
      <4> QED
        BY <4>2, DispenserSteps
    <3>5. CASE FetchFallBack(c)
      <4>1. PICK u \in User : u = call[c].user
        BY <3>2, <3>5 DEF FetchFallBack
      <4>2. Promise!FallBack(u)
        BY <3>5, <4>1, FallBackRefines
      <4> QED
        BY <4>2, DispenserSteps
    <3> QED
      BY <2>4, <3>1, <3>3, <3>4, <3>5 DEF Run
  <2> QED
    BY <2>2, <2>3, <2>4 DEF Next
<1> QED
  BY <1>1, <1>2, Invariance, PTL DEF Spec, PromiseKept, Promise!Spec
=============================================================================
