--------------------------- MODULE RelayPrekeys ---------------------------
(***************************************************************************)
(* The prekey directory of the relay server (relay/relay.go), as clients   *)
(* call it concurrently: PublishPrekeys and FetchPrekeyBundle, each under  *)
(* the server's mutex, with the scan of FetchPrekeyBundle for an unused    *)
(* prekey step by step.  A prekey is named by its batch, a serial number   *)
(* of the publication, and its index in the batch.                         *)
(***************************************************************************)
EXTENDS Integers, Sequences, FiniteSets

CONSTANTS
  User,        \* whose prekeys the directory holds
  Client,      \* the goroutines that call the server
  NoClient,    \* the mutex is free
  MaxBatch,    \* the largest batch
  MaxCalls     \* bound: how many calls a client makes

ASSUME PrekeysAssumption ==
  /\ NoClient \notin Client
  /\ MaxBatch \in Nat /\ MaxCalls \in Nat

VARIABLES
  mu,       \* the client that holds Server.mu
  prekeys,  \* prekeys[u]: Server.prekeys[u]
  call,     \* call[c]: where client c is in which call
  calls,    \* calls[c]: how many calls c has made
  batches,  \* how many batches have been published
  issued    \* issued[u]: the prekeys of u FetchPrekeyBundle returned, in order

vars == <<mu, prekeys, call, calls, batches, issued>>

Last == -1
Prekey(b, i) == [batch |-> b, index |-> i]

\* userPrekeys, as PublishPrekeys makes it.  Batch 0 is the absent map entry.
NewPrekeys(b, n, last) ==
  [batch |-> b, size |-> n, consumed |-> {}, nextCursor |-> 0,
   lastResort |-> last, lastResortUse |-> 0]
NoPrekeys == NewPrekeys(0, 0, FALSE)

Idle == [pc |-> "idle"]

Init ==
  /\ mu = NoClient
  /\ prekeys = [u \in User |-> NoPrekeys]
  /\ call = [c \in Client |-> Idle]
  /\ calls = [c \in Client |-> 0]
  /\ batches = 0
  /\ issued = [u \in User |-> <<>>]

-----------------------------------------------------------------------------
(* A call waits for the mutex, and gives it up when it returns.            *)

Call(c, op, u) ==
  /\ call[c] = Idle /\ calls[c] < MaxCalls
  /\ call' = [call EXCEPT ![c] = [pc |-> "lock", op |-> op, user |-> u]]
  /\ calls' = [calls EXCEPT ![c] = @ + 1]
  /\ UNCHANGED <<mu, prekeys, batches, issued>>

\* Mutant: fetches share the mutex, as with a read lock.
LockShared(c) ==
  /\ call[c].pc = "lock"
  /\ mu # NoClient => call[c].op = "fetch" /\ call[mu].pc # "publish"
  /\ mu' = c
  /\ call' = [call EXCEPT ![c] = [pc |-> @.op, user |-> @.user, i |-> 0]]
  /\ UNCHANGED <<prekeys, calls, batches, issued>>

Lock(c) ==
  /\ call[c].pc = "lock" /\ mu = NoClient
  /\ mu' = c
  /\ call' = [call EXCEPT ![c] = [pc |-> @.op, user |-> @.user, i |-> 0]]
  /\ UNCHANGED <<prekeys, calls, batches, issued>>

Return(c) ==
  /\ mu' = NoClient
  /\ call' = [call EXCEPT ![c] = Idle]
  /\ UNCHANGED calls

-----------------------------------------------------------------------------
(* PublishPrekeys.                                                         *)

\* Mutant: what was handed out of the batch before counts for the new one.
PublishPrekeysKeeps(c, n, last) ==
  /\ call[c].pc = "publish"
  /\ batches' = batches + 1
  /\ prekeys' = [prekeys EXCEPT ![call[c].user] =
       [@ EXCEPT !.batch = batches + 1, !.size = n, !.lastResort = last]]
  /\ Return(c)
  /\ UNCHANGED issued

PublishPrekeys(c, n, last) ==
  /\ call[c].pc = "publish"
  /\ batches' = batches + 1
  /\ prekeys' = [prekeys EXCEPT ![call[c].user] = NewPrekeys(batches + 1, n, last)]
  /\ Return(c)
  /\ UNCHANGED issued

-----------------------------------------------------------------------------
(* FetchPrekeyBundle.                                                      *)

Slot(e, i) == (e.nextCursor + i) % e.size

\* Mutant: a used slot is looked at again.
FetchScanStays(c) ==
  LET e == prekeys[call[c].user]
      i == call[c].i
  IN /\ call[c].pc = "fetch" /\ i < e.size
     /\ Slot(e, i) \notin e.consumed
     /\ call' = [call EXCEPT ![c].pc = "take", ![c].i = Slot(e, i)]
     /\ UNCHANGED <<mu, prekeys, calls, batches, issued>>

\* The loop looks at the slot i after the cursor: a used one is passed over.
FetchScan(c) ==
  LET e == prekeys[call[c].user]
      i == call[c].i
  IN /\ call[c].pc = "fetch" /\ i < e.size
     /\ call' = [call EXCEPT ![c] = IF Slot(e, i) \in e.consumed
                                    THEN [@ EXCEPT !.i = i + 1]
                                    ELSE [pc |-> "take", user |-> @.user, i |-> Slot(e, i)]]
     /\ UNCHANGED <<mu, prekeys, calls, batches, issued>>

\* Mutant: the cursor stays on the slot.
ConsumeStays(e, idx) == [e EXCEPT !.consumed = @ \cup {idx}, !.nextCursor = idx]

\* The slot found is marked, and the cursor moves on.
Consume(e, idx) == [e EXCEPT !.consumed = @ \cup {idx}, !.nextCursor = (idx + 1) % e.size]

FetchTake(c) ==
  LET u == call[c].user
      idx == call[c].i
  IN /\ call[c].pc = "take"
     /\ prekeys' = [prekeys EXCEPT ![u] = Consume(@, idx)]
     /\ issued' = [issued EXCEPT ![u] = Append(@, Prekey(prekeys[u].batch, idx))]
     /\ Return(c)
     /\ UNCHANGED batches

\* The loop has found every slot used: the last-resort prekey, if any.
FetchFallBack(c) ==
  LET u == call[c].user
  IN /\ call[c].pc = "fetch" /\ call[c].i >= prekeys[u].size
     /\ prekeys[u].lastResort
     /\ prekeys' = [prekeys EXCEPT ![u].lastResortUse = @ + 1]
     /\ issued' = [issued EXCEPT ![u] = Append(@, Prekey(prekeys[u].batch, Last))]
     /\ Return(c)
     /\ UNCHANGED batches

\* ErrNoPrekeysPublished and ErrNoPrekeysAvailable.
FetchNone(c) ==
  LET u == call[c].user
  IN /\ call[c].pc = "fetch" /\ call[c].i >= prekeys[u].size
     /\ ~prekeys[u].lastResort
     /\ Return(c)
     /\ UNCHANGED <<prekeys, batches, issued>>

-----------------------------------------------------------------------------
Run(c) ==
  \/ Lock(c)
  \/ \E n \in 0 .. MaxBatch, last \in BOOLEAN : PublishPrekeys(c, n, last)
  \/ FetchScan(c)
  \/ FetchTake(c)
  \/ FetchFallBack(c)
  \/ FetchNone(c)

Next ==
  \E c \in Client :
    \/ \E op \in {"publish", "fetch"}, u \in User : Call(c, op, u)
    \/ Run(c)

Spec == Init /\ [][Next]_vars

\* A goroutine that can run does.  The calls are bounded, so weak fairness is
\* all that a waiting one needs of the mutex.
FairSpec == Spec /\ \A c \in Client : WF_vars(Run(c))

-----------------------------------------------------------------------------
(* Properties.                                                             *)

Entry ==
  [batch : Nat, size : 0 .. MaxBatch, consumed : SUBSET (0 .. MaxBatch - 1),
   nextCursor : 0 .. MaxBatch, lastResort : BOOLEAN, lastResortUse : Nat]

CallState ==
  {Idle} \cup [pc : {"lock"}, op : {"publish", "fetch"}, user : User]
         \cup [pc : {"publish", "fetch", "take"}, user : User, i : 0 .. MaxBatch]

Grant == [batch : Nat, index : {Last} \cup 0 .. MaxBatch - 1]

\* Every variable has its type, and the slots of an entry are those of its
\* batch.
TypeOK ==
  /\ mu \in Client \cup {NoClient}
  /\ prekeys \in [User -> Entry]
  /\ call \in [Client -> CallState]
  /\ calls \in [Client -> 0 .. MaxCalls]
  /\ batches \in Nat
  /\ issued \in [User -> Seq(Grant)]
  /\ \A u \in User : prekeys[u].consumed \subseteq 0 .. prekeys[u].size - 1

\* However the calls interleave, the directory keeps its promise: a one-time
\* prekey is handed out at most once, and the last-resort one only when none
\* is left (FetchPrekeyBundle).
Promise == INSTANCE Dispenser WITH
  stock <- [u \in User |-> {Prekey(prekeys[u].batch, i) :
              i \in (0 .. prekeys[u].size - 1) \ prekeys[u].consumed}],
  spare <- [u \in User |-> IF prekeys[u].lastResort THEN prekeys[u].batch ELSE 0]
PromiseKept == Promise!Spec

\* PrekeyTelemetry tells the truth about what was handed out: the size of the
\* batch less its remaining prekeys is how many of them were returned, and the
\* last-resort count is how often the caller was sent there.
Remaining(e) == Cardinality((0 .. e.size - 1) \ e.consumed)
Returned(u, I) ==
  Cardinality({k \in DOMAIN issued[u] :
    issued[u][k].batch = prekeys[u].batch /\ issued[u][k].index \in I})

TelemetryExact ==
  \A u \in User :
    /\ prekeys[u].size - Remaining(prekeys[u]) = Returned(u, 0 .. MaxBatch - 1)
    /\ prekeys[u].lastResortUse = Returned(u, {Last})

\* A call to FetchPrekeyBundle finds its prekey at the cursor: it passes over
\* a used slot only when every slot is used, so the fall-back is never the
\* work of a cursor out of place.
ScansOnlyTheDrained ==
  \A c \in Client :
    call[c].pc = "fetch" /\ call[c].i > 0 =>
      prekeys[call[c].user].consumed = 0 .. prekeys[call[c].user].size - 1

\* Every call to the server returns.
CallsReturn == \A c \in Client : call[c].pc = "lock" ~> call[c] = Idle
=============================================================================
