# Verification of SecureValueRecovery2

TLA+ models of the parts of SVR2 that keep a replica group correct, the TLC
configurations that check them on small instances, and TLAPS proofs of what holds
for groups of every size. Paths are relative to the repository root (`src/`).

## 1. The system

A *replica* is an enclave (C++, `enclave/`) with a host process (Go, `host/`).
Replicas form a *group* that keeps one replicated log and, from it, a database of
backups. Nothing is persisted: a replica that stops is gone, and a new one takes
its place under a new peer id.

```
  client -- host (web, dispatcher) -- enclave Core -- Raft -- Log, Membership
                    |                     |    \-- DB (db2, db3)
              host peer transport     Peer sessions (noise)
                    |                     |
              other hosts ............ other enclaves
```

| component | state | operations | what makes it correct |
|---|---|---|---|
| Raft (`enclave/raft/raft.cc`) | role, term, vote, log, commit and promise index, follower table, queued messages | `Receive`, `TimerTick`, `ResetPeer`, `LogRequest`, `RelinquishLeadership` | one leader per term; no committed or promised entry is lost; members catch up |
| Log (`raft/log.cc`) | entries from the oldest stored index, byte count | `Append`, `CancelFrom`, `SetNextIdx` | the applied entry and all after it stay stored |
| Membership (`raft/membership.cc`) | all and voting replicas | `ValidProgressionForLeader` | quorums before and after a change meet |
| Core (`core/core.cc`) | load state, Raft, database, transactions | host requests, peer messages, ticks | each Raft call is followed by sending and applying; a joining replica loads a consistent copy; each transaction is answered once |
| Peer sessions (`peers/peers.cc`) | per peer: disconnected, connecting, connected, ciphers | `Connect`, `Accept`, `Recv`, `Send`, `Reset` | both ends agree on one session; loss ends it |
| Host transport (`host/peer/`) | queue, pending frames, sequence numbers | `Send`, `handleConnection`, `processAck`, receiver | in order, nothing lost or twice within a session |
| Dispatcher (`host/dispatch/`) | channels, outstanding requests | `Send`, `forwardToHost`, `ResetPeer` | never waits on itself |
| Databases (`enclave/db/`) | rows | `Run`, `RowsAsProtos`, `LoadRowsFromProtos` | tries only go down; a loaded copy equals the original |
| Clients, group clock, timeouts, minimums, Merkle tree, queue | small sequential states | see `PROJECT.json` | see `PROJECT.json` |

How they interact. The host hands the enclave one message or tick at a time per
thread. Core takes the lock of its Raft state, calls one entry point of `Raft`, and
then `RaftStep`: the messages Raft queued are given to the peer sessions and the
committed entries to the database. A peer session encrypts a message and gives it
to the host, whose transport stores and forwards it. If the transport cannot keep
its promise it tells the enclave to reset the peer; the session is then set up anew,
and `HandlePeerConnect` tells Raft that messages may have been lost.

Hard behaviours, listed at their lines as *hazards* in `PROJECT.json`: rival leaders
that leave entries of earlier terms behind; answers that arrive after the follower or
the leader moved on; the `inflight` flag, which stops all sending until an answer
comes; membership changes that are cancelled with their log entry; running out of
space in the middle of a request; a leader that stops between promising and
committing; sequence numbers across reconnects; joining while the group goes on
writing; callbacks that race their timeout.

## 2. Modules

| module | models | proofs |
|---|---|---|
| `Membership` | memberships, quorum sizes, valid changes | `MembershipProofs` |
| `Raft` | class `Raft` with its log, driven by the handlers of `Core` | `RaftRecords`, `RaftLeading`, `RaftReceiving`, `RaftProofs` |
| `ReplicatedLog` | what a group promises: one growing log, of which every replica applies a growing prefix | |
| `MCRaft` | small instances of `Raft` | |
| `PeerSession` | the encrypted session of two enclaves | |
| `PeerTransport` | the host link from one enclave to another | |

### Raft

`replica[i]` is a record with the fields of class `Raft` (`raft.h:245-293`):

| field | code |
|---|---|
| `role`, `leader`, `votes`, `followers`, `relinquishing` | `role_`, `follower_`, `candidate_`, `leader_` |
| `term`, `votedFor` | `current_term_`, `voted_for_` |
| `log`, `first` | `log_`; `first` is `oldest_stored_idx_`. Dropped entries stay in the sequence, because hash values digest them, and are not read |
| `commit`, `promise` | `commit_idx_`, `promise_idx_` |
| `membership`, `uncommitted` | `membership_`, the indices in `uncommitted_memberships_` |
| `sendable` | `sendable_messages_` |
| `status` | whether the replica has a Raft object: absent, up, or down for good |

`net[<<i, j>>]` is the ordered channel between two enclaves, `resets` counts lost
connections and `elected` records who led in which term.

A private method of the class is an operator from a record to a record, with the
method's name. An action is a *whole* Core handler: `HandleTimerTick`,
`HandleRaftMessage` (the Raft case of `HandleE2E`), `HandleRaftWrite`,
`HandleRequestRaftMembership`, `HandleRequestRaftVoting`,
`HandlePeerRequestedRaftRemoval`, `HandleRelinquishLeadership`, `HandlePeerConnect`,
each including the trailing `MaybeChangeStateAndSendMessages` and `RaftStep`. Core
holds `raft_.mu` for all of it, which is why a handler is one step. Since `RaftStep`
applies everything committed, `last_applied_` equals `commit_idx_` between actions
and has no field. `Reconnect` is the loss of a session and the acceptance of a new
one; `JoinRaft` a completed join; `Crash` the end of a replica.

Abstractions:

* A hash chain value is the sequence of entries it digests, so two values are equal
  exactly when the histories are.
* An entry carries its term and its membership change, if any. Client data is not told
  apart.
* Sizes in bytes are counted in entries (`Chunk`); what `Log::Append` meets when it
  needs room is a choice from `Space`: how many old entries go, and after how many
  entries the append fails.
* Tick counts become a choice whether a timer runs out at a tick; `last_seen_ticks`
  becomes a choice which change `NextReplicaGroup` proposes.
* The Merkle leaf over term and vote guards memory the host could roll back and is left
  out, as are metrics and logging.

### PeerSession

Two enclaves, `lower` and `higher` by their ids, and the `Peer` object each has for the
other: the Syn it waits for an answer to, or the session and the numbers of the next
message to encrypt and to decrypt. A session has the identity of its Syn; a message
decrypts exactly in its session and in its turn, so re-keying, which both ends do at the
same count, needs no state. `link[e]` is what the hosts have under way: in order, and
losing messages only as `PeerTransport` does without `severed` (a newer Syn, Synack or Rst
discards what has not left, a full buffer refuses, an abandoned peer loses all; of the
last two the enclave is told by a `ResetPeer`). Without a `Peer` object only a Syn or Rst
can arrive, and a Rst then changes nothing, so `peers_` is taken to have one; the Rst that
`SendToPeer` and `ResetPeer` then send instead (`peers.cc:577-585`, `:650`) is left out: it
can only end an attempt or a session of the other end that this end has no part in.

Actions are the entry points: `ConnectToRaftMembers` (the timer tick, from the lower id
only), `Join`, `RecvFromPeer` with `Accept` and `Recv`, `SendToPeer`, `ResetPeer`,
`Expire` (an attestation too old, or minimums that rose), and `Abandon` of the host.
Time is not modelled: attestations fail or expire by choice, and `Outlive` is the one
expiry that must come, of an enclave left alone in a session.

### PeerTransport

One direction of the link between two hosts. `tx` is the send channel, `pending` the
frames that might be sent again, `lastAck` and `current` the sender's sequence numbers,
`seqno` the receiver's, `wire` and `acks` what is under way on the TCP connection.
`Send` is `PeerClient.Send` with `queueMessage`; `Connect` the handshake with the
resending; `Transmit`, `ProcessAck` the loop of `handleConnection`; `Receive` the
receiver's loop; `Abandon` a sender that gave up after `AbandonDuration`; `Lose` the end
of a TCP connection. Epochs are numbers modulo `EpochWidth` (2^32 in the code, 16 here;
no run comes near a wrap) and `Cmp` keeps the unsigned subtraction of the code.

## 3. Runs

| run | constants that matter | distinct states | shows |
|---|---|---|---|
| `rivals` | r1 and r3, out of touch, take terms 2 to 5 from each other, write in terms 2 and 3, then connect anew; one entry per message | 243k | `StateMachineSafety`, `AcknowledgedPromisesHold`, `AnswersMatchLeaderLog`, `PromisesKept` |
| `failures` | r1 and r3 stand in the same term, r1 again; one replica stops; any append may have to drop an entry, and fail at once or after one entry | 203k | `ElectionSafety`, `OneVotePerTerm`, `CommittedByQuorum`, `IndexOrder`, `AppliedEntryStored` |
| `membership` | r1 may propose two changes, the second while the first is pending, or its successor r2 one after the first: a member is demoted, then promoted again or removed | 121k | `AcknowledgedPromisesHold`, `OnePendingChange`, `LogMatching`, `IndInv` |
| `growth` | founder alone; others join, become members and voters, are removed | 38k | `TypeOK`, `FollowersAreMembers`, `RefinesReplicatedLog` |
| `reconnects` | the link of r1 and r2 is lost once, at any moment; fair | 28k | `AcknowledgedEntriesHold`, `Converges` |
| `handover` | r1 is told to relinquish in term 2; fair | 39k | `HandsOver` |
| `transport` | five messages, two lost connections, a buffer of two, an abandoned peer; fair | 345k | `NoGapUnlessSevered`, `InOrder`, `NothingForgotten`, `Lossless` |
| `sessions` | two messages a session; any four of: a connect while joining, a tick that finds messages under way, a failed attestation, an expired one, a full buffer, a host that gives up; fair | 215k | `SplitNoticed`, `NothingMissing`, `ReestablishesUnlessUnanswered` |
| `incomplete`, `lost_session`, `unanswered` | | | the disagreements of section 5 |

**Bounds.** A behaviour of `Raft` is bounded by the pairs `<<term, replica>>` at which
timers run out (`Elections`, `Heartbeats`), requests arrive (`Writes`) and leaders are
told to relinquish (`Handovers`), by the pairs `<<term, length>>` of term and log at which a
leader proposes a change (`Proposals`), by the length of the log (`MaxLog`), and by the number
of lost connections and crashes. Three replicas are the smallest group in which a quorum
is not everybody. Four terms of two leaders are what it takes to leave an entry of an
earlier term on a minority, promise and commit it later and meet a rival that lacks it
and has entries of its own. `rivals` covers this with an action constraint: nothing gets
through between r1 and r3 before term 5, when their session is set up anew. Leaders in
touch with each other are interleaved without constraint in `failures`; in `membership` r2 stands
once r1 has logged a change and before it logs another, so that a change of leader meets one of
r1's changes, and two changes follow each other under one leader. Most runs start from
`Formed`, a group of three that has applied the entry that completed it, so that the
bounds are spent on what is interesting; `growth` starts from the founder alone. The
runs leave `SuperMajority` at 0; the theorems on quorums are for every value. Deadlock is
not checked: within its bounds a group may come to rest.

**Fairness.** Liveness assumes that what is on a channel is handled in the end, which is
the promise of the host transport (`transport` checks it), and that a leader's heartbeat
timer keeps running out, which the host's ticker drives. Nothing is assumed about election
timers, requests, or connections being lost. `Fairness` states weak fairness with the
enabling conditions written out. In `PeerTransport` the loops of both hosts go on while
they have work; nothing is assumed of the network but that it is lost only `MaxLosses`
times. In `PeerSession` messages and resets are handled in the end, the tick that connects
keeps coming, and an enclave alone in a session finds its peer's attestation too old, since
updates come only with a session. Ticks mostly find nothing under way (they are a second
or so apart): were every tick faster than a round trip, each Synack could meet the attempt
after its own, and TLC finds that such a chase need not end.

**What each property would catch** is stated above its definition, and `PROJECT.json`
has for each a mutation of the code that TLC finds with it.

## 4. Proofs

All theorems hold for every finite set of replicas, every super majority, chunk size and
bound.

* `MembershipProofs`. `QuorumsIntersect`: two quorums of one membership meet, and share
  more than `SuperMajority` voters unless one is everybody. `QuorumsIntersectAcrossChange`:
  so do quorums of the memberships before and after a change the leader accepts.
  `SiblingQuorumsIntersect`: with a super majority of at least one, so do quorums of two
  different changes of the same membership.
* `RaftProofs`. `Inductive` proves `IndInv`, and from it follow `TypeCorrect` (`TypeOK`),
  `IndicesStayOrdered` (`IndexOrder`) and `FollowersMatchGroup` (`FollowersAreMembers`).
  `PromisesAreKept` and `VotesAreKept` prove the action properties `PromisesKept` and
  `OneVotePerTerm`.

The argument. `IndInv` is about one replica at a time: its type, `commit <= promise <=
last` with the leader's view of its followers inside its log, pending changes that are
changes in the log, and followers that are the members. None of these is inductive alone:
the order of the indices needs the follower table to be over voters of the membership in
force, the membership in force is read from the log at the pending change, and the
pending change is in the log only because cancelling respects the promise index. Messages
need one fact beyond their type, that a successful answer promises no more than it
matches. `Sound` is the part about one record and `Step` says that a step takes back no
term, vote, promise or commit; every operator of `Raft` has a lemma that it takes a sound
record to a sound record by such a step (`RaftRecords` for elections and appends,
`RaftLeading` for the leader's indices and messages, `RaftReceiving` for what arrives).
The lemmas compose as the operators do; `RaftProofs` adds one lemma per action and
combines them. `KthLargestBound` carries the only counting: the k-th largest of
the stored indices is not below the k-th largest of the promised ones.

Assumptions are those of the modules: `Replica` is finite, `Nil` is no replica and no
membership, the founder votes in the initial membership, sizes are natural numbers.

Only model-checked, because the installed provers do not reach them: liveness
(`Converges`, `HandsOver`, `Lossless`,
`ReestablishesUnlessUnanswered`), which needs fairness and `ENABLED`; and whatever
would take an induction over data. Only model-checked so far, because their inductive
invariants are global and still to be written: `ElectionSafety`, `StateMachineSafety`,
`LogMatching`, `AcknowledgedPromisesHold`, `AcknowledgedEntriesHold`,
`AnswersMatchLeaderLog`, `OnePendingChange`, `CommittedByQuorum`, `AppliedEntryStored`,
the refinement, and the properties of `PeerTransport` and `PeerSession`.

## 5. Where code and comments disagree

* **A leader without a committed entry** (`incomplete`). The formulas above
  `MaybeAdvanceCommitIndex` (`raft.cc:568`, `:609`) advance the promise and commit
  indices only to entries of the current term; the code does not test the term. So an
  entry of an earlier term can be promised and committed, and a replica that lacks it be
  elected afterwards by voters whose last term is older. The replica that committed keeps
  its entry and refuses the leader's, so databases never diverge (`StateMachineSafety`),
  but `raft.cc:848-850` concludes from a commit that the rest of the group matches, and
  that replica stays behind.
* **A session lost by the transport** (`lost_session`). After a reconnect with an
  unacknowledged Syn or Synack the sender numbers on from the acknowledged epoch
  (`client.go:459`); the next Syn or Synack has a number the receiver has seen and is
  dropped. The history variable `severed` marks behaviours in which a connection was lost
  before its epoch was acknowledged; `transport` shows what holds without that and what
  (`InOrder`) holds even so.
* **A Syn that is never answered** (`unanswered`). `Accept` drops a Syn whose attestation
  fails without a Rst (`peers.cc:310-317`). Its sender stays connecting, in which state
  ticks do not connect and expiry is not tested (`:226`, `:452`), and the acceptor has the
  higher id and never connects by itself; `peers.h:40-41` says good connections can be
  re-established from any state. The same happens when the acceptor's host gave up on the
  initiator, since it drops the Rst (`client.go:160-162`). `sessions` excepts exactly this
  state (`Unanswered`).
* **Comparing epochs**. `cmp` subtracts unsigned epochs and is never negative for
  different ones, unlike its comment (`sequence_number.go:43-49`). `Cmp` keeps this, and
  the properties of `transport` hold with it.

## 6. Not modelled, and the plan

`PROJECT.json` lists every component with its status. Cryptography, attestation evidence,
sockets, HTTP handlers, configuration and metrics hold no protocol state and stay out.

Next, in this order:

1. `Joining`: the load states of Core and the pipelined transfer of log and rows while the
   group goes on writing; the loaded copy equals the sender's database at the loaded index.
2. `Transactions`: outstanding log and enclave-to-enclave transactions, timeouts and their
   cancellation; every request is answered exactly once.
3. `LogSpace`: the byte counter of `raft/log.cc` with `CancelFrom`.
4. The databases, the group clock, minimums, clients and the Merkle tree, each checked
   against a reference definition; the dispatcher's channels for deadlock.
5. Runs of `Raft` with a super majority of 1.
6. Proofs: `AppliedEntryStored`; `ElectionSafety` for a fixed membership, then with changes;
   `InOrder` and `NothingForgotten` of the transport; that the initial states and steps of
   `Raft` map to `ReplicatedLog`.
