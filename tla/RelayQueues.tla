---------------------------- MODULE RelayQueues ----------------------------
(***************************************************************************)
(* The relay server's store-and-forward queues (relay/relay.go): senders   *)
(* enqueue envelopes, a recipient that comes online takes and deletes all  *)
(* of its queue, and a janitor purges what is older than the retention     *)
(* time.  Every method runs under the server's mutex and is one step; what *)
(* a caller reads before it calls, the janitor's time of day, is a step of *)
(* its own.                                                                *)
(***************************************************************************)
EXTENDS Integers, Sequences, SequencesExt

CONSTANTS
  User,      \* who may register
  TTL,       \* the ttl PurgeExpired is called with, in ticks of the clock
  MaxTime,   \* bound: the last tick
  MaxSend    \* bound: how many envelopes a user is sent

ASSUME QueuesAssumption == TTL \in Nat /\ MaxTime \in Nat /\ MaxSend \in Nat

VARIABLES
  clock,       \* the server's clock
  identities,  \* the users that have published an identity
  queues,      \* queues[u]: what is queued for u
  accepted,    \* accepted[u]: when each envelope for u was accepted, in order
  delivered,   \* delivered[u]: numbers of the envelopes u has polled, in order
  purged,      \* purged[u]: numbers of those purged
  janitor      \* the time of day the janitor has read, or NotReading

vars == <<clock, identities, queues, accepted, delivered, purged, janitor>>

NotReading == -1

\* QueuedMessage: the envelope is named by its number among those for u.
QueuedMessage == [envelope : Nat, queuedAt : Nat]

Init ==
  /\ clock = 0
  /\ identities = {}
  /\ queues = [u \in User |-> <<>>]
  /\ accepted = [u \in User |-> <<>>]
  /\ delivered = [u \in User |-> <<>>]
  /\ purged = [u \in User |-> {}]
  /\ janitor = NotReading

Tick ==
  /\ clock < MaxTime
  /\ clock' = clock + 1
  /\ UNCHANGED <<identities, queues, accepted, delivered, purged, janitor>>

PublishIdentity(u) ==
  /\ identities' = identities \cup {u}
  /\ UNCHANGED <<clock, queues, accepted, delivered, purged, janitor>>

\* Mutant: the newest envelope is queued first.
SendMessageFront(u) ==
  /\ u \in identities
  /\ Len(accepted[u]) < MaxSend
  /\ accepted' = [accepted EXCEPT ![u] = Append(@, clock)]
  /\ queues' = [queues EXCEPT ![u] =
       <<[envelope |-> Len(accepted[u]) + 1, queuedAt |-> clock]>> \o @]
  /\ UNCHANGED <<clock, identities, delivered, purged, janitor>>

\* An envelope for a user nobody has heard of is refused (ErrUnknownUser).
SendMessage(u) ==
  /\ u \in identities
  /\ Len(accepted[u]) < MaxSend
  /\ accepted' = [accepted EXCEPT ![u] = Append(@, clock)]
  /\ queues' = [queues EXCEPT ![u] =
       Append(@, [envelope |-> Len(accepted[u]) + 1, queuedAt |-> clock])]
  /\ UNCHANGED <<clock, identities, delivered, purged, janitor>>

Envelopes(q) == [k \in DOMAIN q |-> q[k].envelope]

\* Mutants: the first envelope is handed out and the queue is deleted; the queue
\* is handed out and kept.
PollMessagesFirst(u) ==
  /\ queues[u] # <<>>
  /\ delivered' = [delivered EXCEPT ![u] = Append(@, queues[u][1].envelope)]
  /\ queues' = [queues EXCEPT ![u] = <<>>]
  /\ UNCHANGED <<clock, identities, accepted, purged, janitor>>

PollMessagesKeeps(u) ==
  /\ queues[u] # <<>>
  /\ delivered' = [delivered EXCEPT ![u] = @ \o Envelopes(queues[u])]
  /\ UNCHANGED <<clock, identities, queues, accepted, purged, janitor>>

PollMessages(u) ==
  /\ queues[u] # <<>>
  /\ delivered' = [delivered EXCEPT ![u] = @ \o Envelopes(queues[u])]
  /\ queues' = [queues EXCEPT ![u] = <<>>]
  /\ UNCHANGED <<clock, identities, accepted, purged, janitor>>

\* Mutant: the time that is read is ahead.
ReadTimeAhead ==
  /\ janitor = NotReading
  /\ janitor' = clock + 1
  /\ UNCHANGED <<clock, identities, queues, accepted, delivered, purged>>

\* The caller of PurgeExpired reads the time it passes.
ReadTime ==
  /\ janitor = NotReading
  /\ janitor' = clock
  /\ UNCHANGED <<clock, identities, queues, accepted, delivered, purged>>

Expired(m, now) == now - m.queuedAt > TTL

\* Mutant: a queue of which nothing has expired is dropped with the others.
PurgeExpiredAll(now) ==
  LET dropped(u) == {m.envelope : m \in {x \in ToSet(queues[u]) : Expired(x, now)}}
  IN /\ queues' = [u \in User |-> IF dropped(u) = {} THEN queues[u] ELSE <<>>]
     /\ purged' = [u \in User |-> purged[u] \cup dropped(u)]
     /\ UNCHANGED <<clock, identities, accepted, delivered>>

\* The loop over one queue: what is kept of its first k entries.
Kept(q, now) ==
  LET kept[k \in 0 .. Len(q)] ==
        IF k = 0 THEN <<>>
        ELSE IF Expired(q[k], now) THEN kept[k - 1] ELSE Append(kept[k - 1], q[k])
  IN kept[Len(q)]

PurgeExpired(now) ==
  LET dropped(u) == {m.envelope : m \in {x \in ToSet(queues[u]) : Expired(x, now)}}
  IN /\ queues' = [u \in User |-> Kept(queues[u], now)]
     /\ purged' = [u \in User |-> purged[u] \cup dropped(u)]
     /\ UNCHANGED <<clock, identities, accepted, delivered>>

Purge ==
  /\ janitor # NotReading
  /\ PurgeExpired(janitor)
  /\ janitor' = NotReading

Next ==
  \/ Tick \/ ReadTime \/ Purge
  \/ \E u \in User : PublishIdentity(u) \/ SendMessage(u) \/ PollMessages(u)

Spec == Init /\ [][Next]_vars

-----------------------------------------------------------------------------
(* Properties.                                                             *)

\* Every variable has its type.
TypeOK ==
  /\ clock \in 0 .. MaxTime
  /\ identities \subseteq User
  /\ queues \in [User -> Seq(QueuedMessage)]
  /\ accepted \in [User -> Seq(0 .. MaxTime)]
  /\ delivered \in [User -> Seq(Nat)]
  /\ purged \in [User -> SUBSET Nat]
  /\ janitor \in {NotReading} \cup 0 .. clock

\* The queues are mailboxes: envelopes leave in the order in which they came,
\* none overtakes another, none comes out twice, and a purge cuts a queue at
\* the front although it looks at every entry.
Promise == INSTANCE Mailbox WITH
  count <- [u \in User |-> Len(accepted[u])],
  head <- [u \in User |-> Len(accepted[u]) + 1 - Len(queues[u])],
  got <- delivered
MailboxKept == Promise!Spec

\* No envelope is purged before it has been kept for longer than the TTL,
\* although PurgeExpired works with a time read before it got the mutex.
PurgedOnlyExpired ==
  [][\A u \in User : \A n \in purged'[u] \ purged[u] : clock - accepted[u][n] > TTL]_vars
=============================================================================
