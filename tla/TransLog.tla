----------------------------- MODULE TransLog -----------------------------
(***************************************************************************)
(* The identity transparency log (translog/log.go) and a client that       *)
(* checks the keys it is given for its contacts against it, maybe several  *)
(* at a time (translog/client.go, whose functions the code leaves to a     *)
(* caller to put together).  The users rotate their keys while a check is  *)
(* between two calls, and the relay that hands out keys may hand out one   *)
(* that is not theirs, or is theirs no more.                               *)
(*                                                                         *)
(* Hashing is symbolic: a Merkle root is the sequence of entries under it, *)
(* so an audit path exists for an entry exactly where the entry stands.    *)
(* Keys of a user are numbered in the order of their making.               *)
(***************************************************************************)
EXTENDS Integers, Sequences, SequencesExt

CONSTANTS
  User,         \* whose keys are logged
  Contact,      \* those of them the client has for contacts
  Caller,       \* the checks a client may be making at one time
  Substitutes,  \* whether the relay hands out keys of its own
  MaxKeys       \* bound: how many keys a user makes

ASSUME LogAssumption ==
  Contact \subseteq User /\ Substitutes \in BOOLEAN /\ MaxKeys \in Nat \ {0}

VARIABLES
  entries,       \* Server.entries
  latestByUser,  \* Server.latestByUser: an index into entries, None if absent
  currentSTH,    \* Server.currentSTH: NoSTH until the first is published
  heads,         \* all the tree heads published so far
  directory,     \* directory[u]: the number of the key u has on the relay
  check,         \* check[c]: how far check c of some contact's key is
  pinned         \* pinned[u]: the number of the key the client has accepted for u

vars == <<entries, latestByUser, currentSTH, heads, directory, check, pinned>>

None == 0
Bogus == MaxKeys + 1
Key == 1 .. Bogus

Entry == [user : User, key : 1 .. MaxKeys]

\* A tree head commits to its size and its root, here both in one sequence.
NoSTH == [signed |-> FALSE, root |-> <<>>]
STH(root) == [signed |-> TRUE, root |-> root]
TreeSize(sth) == Len(sth.root)

Idle == [at |-> "idle"]
Blocked == [at |-> "blocked"]

Init ==
  /\ entries = <<>>
  /\ latestByUser = [u \in User |-> None]
  /\ currentSTH = NoSTH
  /\ heads = {}
  /\ directory = [u \in User |-> None]
  /\ check = [c \in Caller |-> Idle]
  /\ pinned = [u \in User |-> None]

-----------------------------------------------------------------------------
(* The log.                                                                *)

\* Mutants: a rotation replaces the user's entry; the index is that of the next.
AppendReplaces(u, k) ==
  LET index == IF latestByUser[u] = None THEN Len(entries) + 1 ELSE latestByUser[u]
  IN /\ entries' = [i \in DOMAIN entries \cup {index} |->
                      IF i = index THEN [user |-> u, key |-> k] ELSE entries[i]]
     /\ latestByUser' = [latestByUser EXCEPT ![u] = index]
     /\ UNCHANGED <<currentSTH, heads>>

AppendThenIndex(u, k) ==
  /\ entries' = Append(entries, [user |-> u, key |-> k])
  /\ latestByUser' = [latestByUser EXCEPT ![u] = Len(entries') + 1]
  /\ UNCHANGED <<currentSTH, heads>>

\* Indices count from one here.
AppendEntry(u, k) ==
  /\ entries' = Append(entries, [user |-> u, key |-> k])
  /\ latestByUser' = [latestByUser EXCEPT ![u] = Len(entries) + 1]
  /\ UNCHANGED <<currentSTH, heads>>

\* Mutant: the tree is rebuilt for the first head only.
PublishSTHOnce ==
  /\ currentSTH = NoSTH
  /\ currentSTH' = STH(entries)
  /\ heads' = heads \cup {currentSTH'}
  /\ UNCHANGED <<entries, latestByUser, directory, check, pinned>>

\* publishSTHLocked, at the end of an epoch.
PublishSTH ==
  /\ currentSTH' = STH(entries)
  /\ heads' = heads \cup {currentSTH'}
  /\ UNCHANGED <<entries, latestByUser, directory, check, pinned>>

\* What InclusionProof returns without an error: an index it covers.
Provable(index) == currentSTH # NoSTH /\ index \in 1 .. TreeSize(currentSTH)

\* Mutant: the last leaf of a tree is out of range.
VerifyInclusionBelow(sth, index, e) ==
  sth.signed /\ index \in 1 .. TreeSize(sth) - 1 /\ sth.root[index] = e

\* VerifySTH and VerifyInclusion.
VerifyInclusion(sth, index, e) ==
  sth.signed /\ index \in 1 .. TreeSize(sth) /\ sth.root[index] = e

-----------------------------------------------------------------------------
(* A user makes a key and logs it, and afterwards gives it to the relay.   *)

\* The number of the last key u has logged.
Logged(u) == IF latestByUser[u] = None THEN 0 ELSE entries[latestByUser[u]].key

Rotate(u) ==
  /\ Logged(u) = directory[u] /\ directory[u] < MaxKeys
  /\ AppendEntry(u, directory[u] + 1)
  /\ UNCHANGED <<directory, check, pinned>>

PublishIdentity(u) ==
  /\ directory[u] < Logged(u)
  /\ directory' = [directory EXCEPT ![u] = @ + 1]
  /\ UNCHANGED <<entries, latestByUser, currentSTH, heads, check, pinned>>

-----------------------------------------------------------------------------
(* The client checks the key it is given for u.                            *)

\* FetchIdentity on the relay, which answers with the key it was given last, or
\* with any it was once given, will be given, or made itself.
Observe(c, u, k) ==
  /\ check[c] = Idle
  /\ \/ k = directory[u] /\ k # None
     \/ Substitutes /\ k \in 1 .. Logged(u) \cup {Bogus}
  /\ check' = [check EXCEPT ![c] = [at |-> "observed", user |-> u, key |-> k]]
  /\ UNCHANGED <<entries, latestByUser, currentSTH, heads, directory, pinned>>

\* The caller knows which entry to ask a proof of.  The pin of that moment is
\* only there for PinsMoveForward to speak of.
Ask(c, how, i, pin) ==
  /\ check' = [check EXCEPT ![c] =
       [at |-> how, user |-> @.user, key |-> @.key, index |-> i, pin |-> pin]]
  /\ UNCHANGED <<entries, latestByUser, currentSTH, heads, directory, pinned>>

\* Mutant: the first entry of the user.
AskLatestFirst(c) ==
  /\ check[c].at = "observed"
  /\ LET u == check[c].user
         own == {i \in DOMAIN entries : entries[i].user = u}
     IN Ask(c, "latest", IF own = {} THEN None ELSE CHOOSE i \in own : \A j \in own : i <= j,
            pinned[u])

\* LatestEntryForUser: the caller goes by the user's latest entry.
AskLatest(c) ==
  /\ check[c].at = "observed"
  /\ Ask(c, "latest", latestByUser[check[c].user], pinned[check[c].user])

\* Entry, for one index after the other: the caller goes by any entry that has
\* the key.
FindEntry(c) ==
  /\ check[c].at = "observed"
  /\ LET e == [user |-> check[c].user, key |-> check[c].key]
     IN \/ \E i \in DOMAIN entries : entries[i] = e /\ Ask(c, "found", i, None)
        \/ (\A i \in DOMAIN entries : entries[i] # e) /\ Ask(c, "found", None, None)

\* Mutant: a change of key is only ever worth a notice.
CheckKeyPassive(pin, observed, logged) ==
  IF pin = observed THEN "None" ELSE "SoftNotice"

\* CheckKeyChange; at first contact nothing is pinned, and an unproven key
\* gives no session.
CheckKeyChange(pin, observed, logged) ==
  CASE pin = observed -> "None"
    [] pin # observed /\ logged -> "SoftNotice"
    [] OTHER -> "Blocking"

Asked(c) == check[c].at \in {"latest", "found"}

\* InclusionProof, VerifyInclusion and CheckKeyChange.  The answer of the log
\* is of one moment, whatever happened since the caller learnt of the entry.
ObservedIsLogged(c) ==
  LET q == check[c]
  IN /\ Provable(q.index)
     /\ entries[q.index] = [user |-> q.user, key |-> q.key]
     /\ VerifyInclusion(currentSTH, q.index, entries[q.index])

Alert(c) == CheckKeyChange(pinned[check[c].user], check[c].key, ObservedIsLogged(c))

Accept(c) ==
  /\ Asked(c)
  /\ Alert(c) \in {"None", "SoftNotice"}
  /\ pinned' = [pinned EXCEPT ![check[c].user] = check[c].key]
  /\ check' = [check EXCEPT ![c] = Idle]
  /\ UNCHANGED <<entries, latestByUser, currentSTH, heads, directory>>

\* Sending is disabled until the user of the client has seen the alert.
Block(c) ==
  /\ Asked(c)
  /\ Alert(c) = "Blocking"
  /\ check' = [check EXCEPT ![c] = Blocked]
  /\ UNCHANGED <<entries, latestByUser, currentSTH, heads, directory, pinned>>

\* The user of the client looks again, or lets it be.
Acknowledge(c) ==
  /\ check[c] = Blocked
  /\ check' = [check EXCEPT ![c] = Idle]
  /\ UNCHANGED <<entries, latestByUser, currentSTH, heads, directory, pinned>>

Proceed(c) == AskLatest(c) \/ FindEntry(c) \/ Accept(c) \/ Block(c) \/ Acknowledge(c)

Next ==
  \/ PublishSTH
  \/ \E u \in User : Rotate(u) \/ PublishIdentity(u)
  \/ \E c \in Caller : Proceed(c) \/ \E u \in Contact, k \in Key : Observe(c, u, k)

Spec == Init /\ [][Next]_vars

\* Tree heads are published at the end of every epoch, a user who has logged a
\* key gives it to the relay, and a client that talks to a contact checks its
\* key time and again, of which the relay does not substitute each one.
FairSpec ==
  /\ Spec
  /\ WF_vars(PublishSTH)
  /\ \A u \in User : WF_vars(PublishIdentity(u))
  /\ \A c \in Caller : WF_vars(Proceed(c)) /\ \A u \in Contact : SF_vars(Observe(c, u, directory[u]))

-----------------------------------------------------------------------------
(* Properties.                                                             *)

Check ==
  {Idle, Blocked} \cup [at : {"observed"}, user : User, key : Key]
    \cup [at : {"latest", "found"}, user : User, key : Key, index : Nat, pin : Nat]

\* Every variable has its type, and the latest entry the log knows of a user is
\* the last it has of him.
TypeOK ==
  /\ entries \in Seq(Entry)
  /\ latestByUser \in [User -> {None} \cup DOMAIN entries]
  /\ currentSTH \in [signed : BOOLEAN, root : Seq(Entry)]
  /\ heads \subseteq [signed : BOOLEAN, root : Seq(Entry)]
  /\ directory \in [User -> 0 .. MaxKeys]
  /\ check \in [Caller -> Check]
  /\ pinned \in [User -> Key \cup {None}]
  /\ \A u \in User : latestByUser[u] # None => entries[latestByUser[u]].user = u
  /\ \A i \in DOMAIN entries : i <= latestByUser[entries[i].user]

\* The log is append-only: of any two heads ever published, the tree under one
\* is a beginning of the tree under the other, and so of all to come.
HeadsConsistent ==
  /\ \A a, b \in heads : IsPrefix(a.root, b.root) \/ IsPrefix(b.root, a.root)
  /\ \A a \in heads : IsPrefix(a.root, entries)

\* The client only accepts, for a contact, a key that some published tree head
\* commits to as that contact's, whatever the relay hands out.
PinnedIsLogged ==
  \A u \in User :
    pinned[u] # None =>
      \E h \in heads : [user |-> u, key |-> pinned[u]] \in ToSet(h.root)

\* A caller that goes by the latest entry never puts in the place of a pin an
\* older key than the client had pinned when the log was asked, although the
\* relay hands out older keys that are logged, rotations come between the calls,
\* and other checks of the contact end meanwhile.
PinsMoveForward ==
  [][\A c \in Caller :
       Accept(c) /\ check[c].at = "latest" /\ pinned' # pinned =>
         check[c].pin <= pinned'[check[c].user]]_vars

\* When the rotations have come to an end, the client accepts the key each
\* contact uses, be it the first it sees of him or not.
PinsConverge == \A u \in Contact : directory[u] > 0 ~> pinned[u] = directory[u]

\* The current tree head commits to the key the caller was given.
Covered(c) == [user |-> check[c].user, key |-> check[c].key] \in ToSet(currentSTH.root)

\* No false alarm: a caller that goes by the entry of the key it was given is
\* blocked only when no tree head covers that key; one that goes by the latest
\* entry also when its contact has logged a newer key, which may be one that
\* neither the relay has been given nor a tree head covers.
NoFalseAlarm ==
  [][\A c \in Caller :
       Block(c) /\ Covered(c) =>
         check[c].at = "latest" /\ check[c].key < Logged(check[c].user)]_vars
=============================================================================
