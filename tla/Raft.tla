-------------------------------- MODULE Raft --------------------------------
(***************************************************************************)
(* The replicated log of an SVR2 replica group: enclave/raft/raft.cc and   *)
(* raft/log.cc as they are driven by enclave/core/core.cc.  It is Raft     *)
(* without persistence, with a promise index that has to reach a quorum    *)
(* before the commit index may follow it, a hash chain over the log,       *)
(* super-majority quorums and one membership change at a time.             *)
(*                                                                         *)
(* A replica is one record.  The private methods of class Raft are         *)
(* operators from a record to a record; an action is a whole Core handler: *)
(* the call into Raft and then RaftStep, which sends the messages Raft     *)
(* queued and applies every committed entry.  last_applied therefore       *)
(* equals commit between actions and has no field of its own.              *)
(*                                                                         *)
(* The hash chain value of a log entry is modelled by the sequence of      *)
(* entries it digests: two chain values are equal iff the histories are.   *)
(***************************************************************************)
EXTENDS Membership, Sequences, FiniteSetsExt

CONSTANTS
    Nil,             \* no replica, no membership change
    Founder,         \* the replica that created the group
    InitMembership,  \* the membership the behaviours start from
    MinVoting,       \* RaftGroupConfig.min_voting_replicas
    MaxVoting,       \* RaftGroupConfig.max_voting_replicas
    Chunk,           \* RaftConfig.replication_chunk_bytes, counted in entries
    Space,           \* what an append may meet in Log::Append, see Truncated
    Elections,       \* bound: the pairs <<term, replica>> at which an election timer may run out
    Heartbeats,      \* bound: the pairs at which a leader's heartbeat timer may run out
    Writes,          \* bound: the pairs at which a request may arrive
    Handovers,       \* bound: the pairs at which a leader may be told to relinquish
    Proposals,       \* bound: the pairs <<term, length>> at which a leader may propose a change
    MaxLog,          \* bound: no request is logged at this length
    Lossy,           \* bound: the pairs <<i, j>> whose connection may be lost
    MaxResets,       \* bound: lost connections
    MaxCrashes       \* bound: crashed replicas

ASSUME NilAssumption == Nil \notin Replica /\ Nil \notin Memberships
ASSUME GroupAssumption == /\ InitMembership \in Memberships
                          /\ Founder \in InitMembership.voting
                          /\ MinVoting \in Nat
                          /\ MaxVoting \in Nat
ASSUME ChunkAssumption == Chunk \in Nat \ {0}
ASSUME SpaceAssumption == Space \subseteq [trunc : Nat, room : Nat]
ASSUME BoundAssumption == /\ MaxLog \in Nat /\ MaxResets \in Nat /\ MaxCrashes \in Nat

VARIABLES
    replica,   \* the Raft object of each replica
    net,       \* messages under way on each ordered channel <<from, to>>
    resets,    \* connections lost so far
    elected    \* history: the pairs <<term, replica>> of every leader so far

vars == <<replica, net, resets, elected>>

Channel == Replica \X Replica

Follower == "follower"
Candidate == "candidate"
Leader == "leader"

NoInflight == -1
NoFollowers == [p \in {} |-> Nil]
NoMessages == [p \in Replica |-> <<>>]

Smaller(a, b) == IF a <= b THEN a ELSE b
Larger(a, b) == IF a >= b THEN a ELSE b

-----------------------------------------------------------------------------
(* The log.  Entries below first have been dropped by Log::Append to make   *)
(* room; they stay in the sequence because later hash chain values digest   *)
(* them, and are otherwise never read.                                      *)

Last(r) == Len(r.log)

Stored(r, idx) == r.first <= idx /\ idx <= Len(r.log)

TermAt(r, idx) == IF Stored(r, idx) THEN r.log[idx].term ELSE 0

Chain(r, idx) == SubSeq(r.log, 1, idx)

ChainTerm(chain) == IF chain = <<>> THEN 0 ELSE chain[Len(chain)].term

\* Mutant of Truncated: drops entries that are not applied yet.
TruncatesUnapplied(r, sp) == Smaller(r.first + sp.trunc, Larger(r.first, Last(r)))

\* Log::Append drops entries older than the last applied one while it lacks
\* bytes.  How many go depends on their sizes: sp.trunc.
Truncated(r, sp) == Smaller(r.first + sp.trunc, Larger(r.first, r.commit))

CancelFrom(r, idx) == [r EXCEPT !.log = SubSeq(@, 1, idx - 1)]

\* How many of the n entries to append find room: once nothing more can be
\* dropped, an append fails with LogOutOfSpace after some of them: sp.room.
Room(r, sp, n) == IF Truncated(r, sp) >= r.commit THEN Smaller(sp.room, n) ELSE n

-----------------------------------------------------------------------------
(* Memberships.  uncommitted holds the log indices of the membership        *)
(* changes that are not committed yet; the newest one is in force.          *)

CurrentMembership(r) ==
    IF r.uncommitted = {} THEN r.membership ELSE r.log[Max(r.uncommitted)].mem

MembershipQuorumSize(r) ==
    QuorumSize(Cardinality(CurrentMembership(r).voting))

NewFollower(r, probe) ==
    [next |-> Last(r) + 1, match |-> 0, promise |-> 0, inflight |-> NoInflight,
     probe |-> probe, heartbeat |-> probe]

\* Mutant of HandleMembershipChange: removed members are still followed.
KeepsRemovedFollowers(i, r) ==
    IF r.role # Leader THEN r
    ELSE [r EXCEPT !.followers =
            [p \in (CurrentMembership(r).all \ {i}) \cup DOMAIN @ |->
                IF p \in DOMAIN @ THEN @[p] ELSE NewFollower(r, TRUE)]]

\* A leader follows exactly the members other than itself.
HandleMembershipChange(i, r) ==
    IF r.role # Leader THEN r
    ELSE [r EXCEPT !.followers =
            [p \in CurrentMembership(r).all \ {i} |->
                IF p \in DOMAIN r.followers THEN r.followers[p]
                                            ELSE NewFollower(r, TRUE)]]

\* Mutant of MaybeChangeUncommittedMemberships: a change stays pending when its
\* entry is cancelled.
KeepsCancelledChanges(i, r) ==
    LET committed == {idx \in r.uncommitted : idx <= r.commit}
    IN IF committed = {} THEN r
       ELSE HandleMembershipChange(i,
              [r EXCEPT !.membership = r.log[Max(committed)].mem,
                        !.uncommitted = @ \ committed])

\* Changes at or below the commit index become the committed membership,
\* changes beyond the end of the log are forgotten.
MaybeChangeUncommittedMemberships(i, r) ==
    LET committed == {idx \in r.uncommitted : idx <= r.commit}
        cancelled == {idx \in r.uncommitted : idx > Last(r)}
    IN IF committed \cup cancelled = {} THEN r
       ELSE HandleMembershipChange(i,
              [r EXCEPT !.membership = IF committed = {} THEN @
                                       ELSE r.log[Max(committed)].mem,
                        !.uncommitted = @ \ (committed \cup cancelled)])

\* The membership changes among the entries just appended come into force.
AddUncommittedMemberships(i, r, appended) ==
    LET added == {idx \in appended : r.log[idx].mem # Nil}
    IN IF added = {} THEN r
       ELSE HandleMembershipChange(i, [r EXCEPT !.uncommitted = @ \cup added])

-----------------------------------------------------------------------------
(* Roles and messages.                                                      *)

SetRole(r, role) ==
    [r EXCEPT !.role = role, !.leader = Nil, !.votes = {},
              !.followers = NoFollowers, !.relinquishing = FALSE]

Send(r, to, m) == [r EXCEPT !.sendable[to] = Append(@, m)]

Broadcast(i, r, m) ==
    [r EXCEPT !.sendable =
        [p \in Replica |-> IF p \in CurrentMembership(r).all \ {i}
                           THEN Append(@[p], m) ELSE @[p]]]

RequestVoteMessage(r) ==
    [type |-> "VoteRequest", term |-> r.term, chain |-> r.log]

\* Only a voting follower or candidate starts an election.
ElectionTimeout(i, r) ==
    IF i \notin CurrentMembership(r).voting \/ r.role = Leader THEN r
    ELSE LET c == [SetRole(r, Candidate) EXCEPT !.term = @ + 1,
                                                !.votedFor = i,
                                                !.votes = {i}]
         IN Broadcast(i, c, RequestVoteMessage(c))

\* Mutant of ClientRequestInternal: the entry is not given the current term.
AppendsWithoutTerm(i, r, mem, sp) ==
    IF r.role # Leader \/ r.relinquishing THEN r
    ELSE AddUncommittedMemberships(i,
           [r EXCEPT !.log = Append(@, [term |-> Larger(1, TermAt(r, Last(r))),
                                        mem |-> mem])],
           {Last(r) + 1})

\* A leader that is not relinquishing appends an entry of its term.
ClientRequestInternal(i, r, mem, sp) ==
    IF r.role # Leader \/ r.relinquishing THEN r
    ELSE LET t == [r EXCEPT !.first = Truncated(r, sp)]
         IN IF Room(r, sp, 1) = 0 THEN t
            ELSE AddUncommittedMemberships(i,
                   [t EXCEPT !.log = Append(@, [term |-> r.term, mem |-> mem])],
                   {Last(r) + 1})

\* A candidate with a quorum of votes becomes leader and appends a noop.
MaybeBecomeLeader(i, r, sp) ==
    IF r.role # Candidate \/ Cardinality(r.votes) < MembershipQuorumSize(r) THEN r
    ELSE ClientRequestInternal(i,
           [SetRole(r, Leader) EXCEPT
              !.followers = [p \in CurrentMembership(r).all \ {i} |->
                                NewFollower(r, FALSE)]],
           Nil, sp)

-----------------------------------------------------------------------------
(* The leader's promise and commit indices.                                 *)

\* The k-th largest of the values of f: what the code finds by sorting.
KthLargest(f, k) ==
    Max({f[p] : p \in {p \in DOMAIN f :
                         Cardinality({x \in DOMAIN f : f[x] >= f[p]}) >= k}})

VotingFollowers(r) == DOMAIN r.followers \cap CurrentMembership(r).voting

\* What a quorum has stored is promised ...
NewPromise(i, r) ==
    LET stored == [p \in VotingFollowers(r) \cup {i} |->
                     IF p = i THEN Last(r) ELSE r.followers[p].match]
    IN Larger(r.promise, KthLargest(stored, MembershipQuorumSize(r)))

\* Mutant of NewCommit: what is promised is committed at once.
CommitsUnacknowledged(i, r, promise) == promise

\* ... and what a quorum has promised is committed.
NewCommit(i, r, promise) ==
    LET promised == [p \in VotingFollowers(r) \cup {i} |->
                       IF p = i THEN promise ELSE r.followers[p].promise]
    IN Larger(r.commit, KthLargest(promised, MembershipQuorumSize(r)))

MaybeAdvanceCommitIndex(i, r) ==
    IF r.role # Leader THEN r
    ELSE LET promise == NewPromise(i, r)
             commit  == NewCommit(i, r, promise)
             a       == [r EXCEPT !.promise = promise, !.commit = commit]
             b       == IF commit > r.commit
                        THEN MaybeChangeUncommittedMemberships(i, a) ELSE a
         IN IF promise = r.promise /\ commit = r.commit THEN r
            ELSE [b EXCEPT !.followers =
                    [p \in DOMAIN @ |-> [@[p] EXCEPT !.heartbeat = TRUE]]]

-----------------------------------------------------------------------------
(* Replication: the leader's side.                                          *)

SendsEntries(r, p) == Last(r) >= r.followers[p].next /\ ~r.followers[p].probe

\* A follower is sent something when it lacks entries, or a probe or a
\* heartbeat is due, nothing is in flight to it, and the entry before the
\* ones to send is still stored.
ReadyToAppend(r, p) ==
    LET f == r.followers[p]
    IN /\ SendsEntries(r, p) \/ f.heartbeat \/ f.probe
       /\ f.inflight = NoInflight
       /\ f.next - 1 = 0 \/ Stored(r, f.next - 1)

LastEntrySent(r, p) ==
    LET prev == r.followers[p].next - 1
    IN IF SendsEntries(r, p) /\ Stored(r, prev + 1)
       THEN Smaller(prev + Chunk, Last(r)) ELSE prev

AppendRequestMessage(r, p) ==
    LET prev == r.followers[p].next - 1
        last == LastEntrySent(r, p)
    IN [type |-> "AppendRequest", term |-> r.term, prev |-> Chain(r, prev),
        entries |-> SubSeq(r.log, prev + 1, last),
        commit |-> Smaller(r.commit, last), promise |-> Smaller(r.promise, last)]

\* AppendEntries for every member: at most one request each.
AppendEntries(r) ==
    IF r.role # Leader THEN r
    ELSE LET to == {p \in DOMAIN r.followers \cap CurrentMembership(r).all :
                      ReadyToAppend(r, p)}
         IN [r EXCEPT
               !.followers = [p \in DOMAIN @ |->
                  IF p \in to THEN [@[p] EXCEPT !.heartbeat = FALSE,
                                                !.inflight = LastEntrySent(r, p)]
                              ELSE @[p]],
               !.sendable = [p \in Replica |->
                  IF p \in to THEN Append(@[p], AppendRequestMessage(r, p))
                              ELSE @[p]]]

\* Mutant of TryToRelinquishLeadership: nobody is told to take over.
StepsDownSilently(i, r) ==
    IF r.relinquishing /\ \E p \in VotingFollowers(r) : r.followers[p].match = Last(r)
    THEN SetRole(r, Follower) ELSE r

\* A relinquishing leader hands over to a voting follower that has its whole
\* log and steps down in the same term.
TryToRelinquishLeadership(i, r) ==
    LET worthy == {p \in VotingFollowers(r) : r.followers[p].match = Last(r)}
    IN IF ~r.relinquishing \/ worthy = {} THEN r
       ELSE SetRole(Send(r, CHOOSE p \in worthy : TRUE,
                         [type |-> "TimeoutNow", term |-> r.term]), Follower)

MaybeChangeStateAndSendMessages(i, r, sp) ==
    TryToRelinquishLeadership(i,
      AppendEntries(
        MaybeAdvanceCommitIndex(i,
          MaybeBecomeLeader(i, r, sp))))

-----------------------------------------------------------------------------
(* Receiving a message m from replica j.                                    *)

\* CheckLogHash with CLH_AllowFuture: the entry a request names agrees with
\* ours, or its term says that one of the two is to be replaced, and then it
\* is not an entry we promised.
RequestChainOk(r, chain) ==
    LET idx == Len(chain)
    IN \/ idx = 0 \/ idx > Last(r)
       \/ /\ Stored(r, idx)
          /\ \/ ChainTerm(chain) > TermAt(r, idx) /\ idx > r.promise
             \/ ChainTerm(chain) < TermAt(r, idx)
             \/ chain = Chain(r, idx)

\* CheckLogHash with CLH_AllowNothing: the entry a response names is ours.
ResponseChainOk(r, chain) ==
    chain = <<>> \/ (Stored(r, Len(chain)) /\ chain = Chain(r, Len(chain)))

ValidateReceivedMessage(r, j, m) ==
    /\ j \in CurrentMembership(r).all
    /\ m.type = "VoteRequest" => RequestChainOk(r, m.chain)
    /\ m.type = "AppendRequest" =>
         /\ RequestChainOk(r, m.prev)
         /\ m.commit <= Len(m.prev) + Len(m.entries)
         /\ m.promise <= Len(m.prev) + Len(m.entries)
         /\ m.commit <= m.promise
         /\ \A k \in 1..Len(m.entries) :
              RequestChainOk(r, m.prev \o SubSeq(m.entries, 1, k))
    /\ m.type = "AppendResponse" =>
         /\ ResponseChainOk(r, m.match)
         /\ Len(m.match) <= m.last
         /\ m.promise <= m.last

UpdateTerm(r, m) ==
    IF m.term <= r.term THEN r
    ELSE [SetRole(r, Follower) EXCEPT !.term = m.term, !.votedFor = Nil]

\* Mutant of HandleVoteRequest: an earlier vote of the term is forgotten.
VotesTwice(r, j, m) ==
    LET myTerm == TermAt(r, Last(r))
        grant  == /\ m.term = r.term
                  /\ \/ ChainTerm(m.chain) > myTerm
                     \/ ChainTerm(m.chain) = myTerm /\ Len(m.chain) >= Last(r)
    IN Send([r EXCEPT !.votedFor = IF grant THEN j ELSE @], j,
            [type |-> "VoteResponse", term |-> r.term, granted |-> grant])

HandleVoteRequest(r, j, m) ==
    LET myTerm == TermAt(r, Last(r))
        logOk  == \/ ChainTerm(m.chain) > myTerm
                  \/ ChainTerm(m.chain) = myTerm /\ Len(m.chain) >= Last(r)
        grant  == m.term = r.term /\ logOk /\ r.votedFor \in {Nil, j}
    IN Send([r EXCEPT !.votedFor = IF grant THEN j ELSE @], j,
            [type |-> "VoteResponse", term |-> r.term, granted |-> grant])

HandleVoteResponse(r, j, m) ==
    IF /\ m.term = r.term
       /\ r.role = Candidate
       /\ m.granted
       /\ j \in CurrentMembership(r).voting
    THEN [r EXCEPT !.votes = @ \cup {j}]
    ELSE r

\* Mutant of FirstConflict: a stored entry is taken for the one sent.
OverlooksConflicts(r, m) == Len(m.entries) + 1

\* The entries of m from the first one whose term differs from ours at its
\* index; Len(m.entries) + 1 if there is none.
FirstConflict(r, m) ==
    LET n == Len(m.entries)
        differ == {k \in 1..n :
                     TermAt(r, Len(m.prev) + k) \notin {0, m.entries[k].term}}
    IN IF differ = {} THEN n + 1 ELSE Min(differ)

\* Mutant of CancelConflicts: all that follows the entries of m is dropped,
\* conflict or not.
CancelsTail(i, r, m) ==
    LET keep == Larger(r.promise, Len(m.prev) + FirstConflict(r, m) - 1)
    IN IF keep >= Last(r) THEN r
       ELSE MaybeChangeUncommittedMemberships(i, CancelFrom(r, keep + 1))

\* Entries with a differing term are cancelled, with all that follow them,
\* unless they are promised.
CancelConflicts(i, r, m) ==
    LET idx == Len(m.prev) + FirstConflict(r, m)
    IN IF FirstConflict(r, m) > Len(m.entries) THEN r
       ELSE MaybeChangeUncommittedMemberships(i, CancelFrom(r, idx))

\* The entries beyond the end of the log that extend its hash chain are
\* appended, as far as there is room.  Yields the record and the index of the
\* last entry processed.
AppendNewEntries(i, r, m, sp) ==
    LET have  == Last(r) - Len(m.prev)
        n     == Len(m.entries)
        fits  == r.log = m.prev \o SubSeq(m.entries, 1, have)
        count == IF fits THEN Room(r, sp, n - have) ELSE 0
        t     == [r EXCEPT !.first = IF fits THEN Truncated(r, sp) ELSE @,
                           !.log = @ \o SubSeq(m.entries, have + 1, have + count)]
    IN IF have >= n
       THEN [r |-> r, processed |-> Len(m.prev) + n]
       ELSE [r |-> AddUncommittedMemberships(i, t, (Last(r) + 1)..Last(t)),
             processed |-> Last(t)]

ProcessEntries(i, r, m, sp) ==
    LET idx == Len(m.prev) + FirstConflict(r, m)
    IN IF FirstConflict(r, m) <= Len(m.entries) /\ (idx <= r.commit \/ idx <= r.promise)
       THEN [r |-> r, processed |-> idx - 1]
       ELSE AppendNewEntries(i, CancelConflicts(i, r, m), m, sp)

\* Mutant of AppendResponseMessage: what is stored is said to be promised.
PromisesStored(r, success, match, promise) ==
    [type |-> "AppendResponse", term |-> r.term, success |-> success,
     match |-> Chain(r, match), promise |-> match, last |-> Last(r)]

AppendResponseMessage(r, success, match, promise) ==
    [type |-> "AppendResponse", term |-> r.term, success |-> success,
     match |-> Chain(r, match), promise |-> promise, last |-> Last(r)]

\* Mutants of LearnIndices: entries that were not processed are taken for
\* committed; a promise is lowered to the leader's.
LearnsUnprocessed(i, r, m, processed) ==
    [r EXCEPT !.commit = Larger(@, m.commit), !.promise = Larger(@, m.promise)]

LowersPromise(i, r, m, processed) ==
    LET commit == Larger(r.commit, Smaller(m.commit, processed))
    IN MaybeChangeUncommittedMemberships(i,
         [r EXCEPT !.commit = commit, !.promise = Smaller(m.promise, processed)])

\* The indices follow the leader's, never beyond what has been processed.
LearnIndices(i, r, m, processed) ==
    LET commit == Smaller(m.commit, processed)
        c      == IF commit <= r.commit THEN r
                  ELSE MaybeChangeUncommittedMemberships(i, [r EXCEPT !.commit = commit])
    IN [c EXCEPT !.promise = Larger(@, Smaller(m.promise, processed))]

AcceptEntries(i, r, j, m, sp) ==
    LET e == ProcessEntries(i, r, m, sp)
        p == LearnIndices(i, e.r, m, e.processed)
    IN Send(p, j, AppendResponseMessage(p, TRUE, e.processed,
                                        Smaller(p.promise, e.processed)))

HandleAppendRequest(i, r, j, m, sp) ==
    LET idx   == Len(m.prev)
        logOk == idx = 0 \/ (Stored(r, idx) /\ ChainTerm(m.prev) = TermAt(r, idx))
        f     == IF m.term < r.term THEN r
                 ELSE [IF r.role = Candidate THEN SetRole(r, Follower) ELSE r
                         EXCEPT !.leader = j]
    IN IF m.term = r.term /\ r.role = Leader THEN r
       ELSE IF m.term < r.term \/ ~logOk
       THEN Send(f, j, AppendResponseMessage(f, FALSE, f.commit, f.promise))
       ELSE AcceptEntries(i, f, j, m, sp)

\* Mutant of BackUp: a whole chunk back, whatever the follower matches.
BacksUpBlindly(r, f, m) == Smaller(f.next - 1, m.last + 1) - Chunk

\* After a rejection the leader backs up, by what the follower says it has and
\* by at most a chunk of stored entries, but not below what it matches.
BackUp(r, f, m) ==
    LET match == Len(m.match)
        from  == Larger(match + 1, Smaller(f.next - 1, m.last + 1))
    IN Min({n \in (match + 1)..from :
              Cardinality({x \in (n + 1)..from : Stored(r, x)}) <= Chunk})

HandleAppendResponse(r, j, m) ==
    LET f  == r.followers[j]
        ok == [f EXCEPT !.inflight = IF Len(m.match) >= @ THEN NoInflight ELSE @,
                        !.next = Larger(@, Len(m.match) + 1),
                        !.match = Larger(@, Len(m.match)),
                        !.promise = Larger(@, m.promise),
                        !.probe = FALSE]
        ko == [f EXCEPT !.next = BackUp(r, f, m),
                        !.probe = TRUE,
                        !.inflight = NoInflight]
    IN IF m.term # r.term \/ r.role # Leader \/ j \notin DOMAIN r.followers THEN r
       ELSE [r EXCEPT !.followers[j] = IF m.success THEN ok ELSE ko]

Dispatch(i, r, j, m, sp) ==
    CASE m.type = "VoteRequest"    -> HandleVoteRequest(r, j, m)
      [] m.type = "VoteResponse"   -> HandleVoteResponse(r, j, m)
      [] m.type = "AppendRequest"  -> HandleAppendRequest(i, r, j, m, sp)
      [] m.type = "AppendResponse" -> HandleAppendResponse(r, j, m)
      [] m.type = "TimeoutNow"     -> IF m.term < r.term THEN r
                                      ELSE ElectionTimeout(i, r)

RaftReceive(i, r, j, m, sp) ==
    IF ~ValidateReceivedMessage(r, j, m) THEN r
    ELSE MaybeChangeStateAndSendMessages(i,
           Dispatch(i, UpdateTerm(r, m), j, m, sp), sp)

-----------------------------------------------------------------------------
(* Entry points of class Raft other than Receive.                           *)

\* A tick; expired tells whether it ends the countdown of the role.
TimerTick(i, r, expired, sp) ==
    MaybeChangeStateAndSendMessages(i,
      IF ~expired THEN r
      ELSE IF r.role # Leader THEN ElectionTimeout(i, r)
      ELSE [r EXCEPT !.followers = [p \in DOMAIN r.followers |->
                                      [r.followers[p] EXCEPT !.heartbeat = TRUE]]],
      sp)

\* Mutant of ResetPeer: what was in flight is still waited for.
KeepsInflight(r, j) ==
    IF j \in DOMAIN r.followers
    THEN [r EXCEPT !.followers[j] = [@ EXCEPT !.next = Last(r) + 1, !.probe = TRUE,
                                              !.heartbeat = TRUE]]
    ELSE r

\* The connection to j was re-established, messages may have been lost.
ResetPeer(r, j) ==
    IF j \notin CurrentMembership(r).all THEN r
    ELSE IF r.role = Candidate THEN Send(r, j, RequestVoteMessage(r))
    ELSE IF r.role = Leader /\ j \in DOMAIN r.followers
    THEN [r EXCEPT !.followers[j] = [@ EXCEPT !.next = Last(r) + 1,
                                              !.probe = TRUE,
                                              !.heartbeat = TRUE,
                                              !.inflight = NoInflight]]
    ELSE r

RelinquishLeadership(i, r, sp) ==
    IF r.role # Leader \/ r.relinquishing THEN r
    ELSE MaybeChangeStateAndSendMessages(i,
           [ClientRequestInternal(i, r, Nil, sp) EXCEPT !.relinquishing = TRUE], sp)

\* Mutant of Refused: a change is accepted while another is pending.
IgnoresPendingChange(i, r, mem) ==
    /\ mem # Nil
    /\ \/ r.role # Leader \/ r.relinquishing
       \/ ~ValidProgressionForLeader(i, r.membership, mem)

\* A request is refused before anything happens when it changes the membership
\* and this is no leader, another change is pending, or the step is not valid.
Refused(i, r, mem) ==
    /\ mem # Nil
    /\ \/ r.role # Leader \/ r.relinquishing
       \/ r.uncommitted # {}
       \/ ~ValidProgressionForLeader(i, r.membership, mem)

LogRequest(i, r, mem, sp) ==
    IF Refused(i, r, mem) THEN r
    ELSE MaybeChangeStateAndSendMessages(i, ClientRequestInternal(i, r, mem, sp), sp)

\* The constructor.  The only voter of a group elects itself at once.
NewRaft(i, mem, log, first) ==
    LET r == [status |-> "up", role |-> Follower, term |-> 0, votedFor |-> Nil,
              leader |-> Nil, votes |-> {}, followers |-> NoFollowers,
              relinquishing |-> FALSE, log |-> log, first |-> first,
              commit |-> Len(log), promise |-> Len(log), membership |-> mem,
              uncommitted |-> {}, sendable |-> NoMessages]
    IN IF mem.voting # {i} THEN r
       ELSE MaybeChangeStateAndSendMessages(i, ElectionTimeout(i, r),
                                            [trunc |-> 0, room |-> 1])

\* A replica without a Raft object: it has not joined the group.
Absent(i) == [NewRaft(i, [all |-> {}, voting |-> {}], <<>>, 1)
                EXCEPT !.status = "absent"]

-----------------------------------------------------------------------------
(* Actions: the handlers of class Core that reach Raft.                     *)

Up(i) == replica[i].status = "up"

\* RAFTSTATE_LOADED_PART_OF_GROUP, as opposed to ..._REQUESTING_MEMBERSHIP:
\* the replica is in the last committed membership it applied.
PartOfGroup(i) == Up(i) /\ i \in replica[i].membership.all

\* Nothing reaches a crashed replica, and a sender that has not yet learned of
\* a new connection cannot send on it.
Open(n, i, j) ==
    /\ replica[j].status # "down"
    /\ \A k \in 1..Len(n[<<j, i>>]) : n[<<j, i>>][k].type # "Connected"

\* RaftStep: everything queued is handed to the channels n.
RaftStep(n, i, r) ==
    /\ replica' = [replica EXCEPT ![i] = [r EXCEPT !.sendable = NoMessages]]
    /\ net' = [c \in Channel |-> IF c[1] = i /\ Open(n, i, c[2])
                                 THEN n[c] \o r.sendable[c[2]] ELSE n[c]]
    /\ elected' = IF r.role = Leader THEN elected \cup {<<r.term, i>>} ELSE elected

\* What NextReplicaGroup may propose on a tick: how long each follower has
\* been silent decides which.
NextReplicaGroups(i, r) ==
    LET m == CurrentMembership(r)
        spare == m.all \ m.voting
    IN {[m EXCEPT !.voting = @ \cup {p}] :
          p \in IF Cardinality(m.voting) < MaxVoting THEN spare ELSE {}}
       \cup {[m EXCEPT !.voting = @ \ {p}] :
          p \in IF Cardinality(m.voting) > MinVoting THEN m.voting \ {i} ELSE {}}
       \cup {[m EXCEPT !.all = @ \ {p}] : p \in spare}

TimerBound(i) == <<replica[i].term, i>> \in IF replica[i].role = Leader THEN Heartbeats
                                                                        ELSE Elections

\* What HandlePeerConnect leaves for the next step to send.
Unsent(r) == \/ r.sendable # NoMessages
             \/ \E p \in DOMAIN r.followers : ReadyToAppend(r, p)

\* A tick that ends no countdown sends what is unsent.  On any tick a leader may
\* propose a change to its group.
HandleTimerTick(i) ==
    /\ PartOfGroup(i)
    /\ \E sp \in Space, expired \in {FALSE, TimerBound(i)} :
         LET r == TimerTick(i, replica[i], expired, sp)
         IN \/ /\ expired \/ Unsent(replica[i])
               /\ RaftStep(net, i, r)
            \/ /\ r.role = Leader
               /\ <<r.term, Last(r)>> \in Proposals
               /\ \E mem \in NextReplicaGroups(i, r) :
                    RaftStep(net, i, LogRequest(i, r, mem, sp))
    /\ UNCHANGED resets

\* HandleE2E with a Raft message.
HandleRaftMessage(i, j) ==
    /\ Up(i)
    /\ net[<<j, i>>] # <<>>
    /\ Head(net[<<j, i>>]).type # "Connected"
    /\ \E sp \in Space :
         RaftStep([net EXCEPT ![<<j, i>>] = Tail(@)], i,
                  RaftReceive(i, replica[i], j, Head(net[<<j, i>>]), sp))
    /\ UNCHANGED resets

\* A request to the log, by whichever handler: only if it is accepted are
\* messages sent and is it followed by RaftStep.
Request(i, mem) ==
    /\ replica[i].role = Leader
    /\ <<replica[i].term, i>> \in Writes /\ Last(replica[i]) < MaxLog
    /\ \E sp \in Space :
         LET r == LogRequest(i, replica[i], mem, sp)
         IN IF Last(r) > Last(replica[i]) THEN RaftStep(net, i, r)
            ELSE /\ replica' = [replica EXCEPT ![i] = r]
                 /\ UNCHANGED <<net, elected>>
    /\ UNCHANGED resets

\* RaftWriteLogTransaction and HandleRaftWrite.
HandleRaftWrite(i) ==
    /\ PartOfGroup(i)
    /\ Cardinality(CurrentMembership(replica[i]).voting) >= MinVoting
    /\ Request(i, Nil)

\* Replica p asks to become a member, to vote, or to be removed.
HandleRequestRaftMembership(i, p) ==
    LET m == CurrentMembership(replica[i])
    IN /\ PartOfGroup(i) /\ Up(p) /\ p \notin m.all
       /\ Request(i, [m EXCEPT !.all = @ \cup {p}])

HandleRequestRaftVoting(i, p) ==
    LET m == CurrentMembership(replica[i])
    IN /\ PartOfGroup(i) /\ Up(p) /\ p \in m.all \ m.voting
       /\ Request(i, [m EXCEPT !.voting = @ \cup {p}])

HandlePeerRequestedRaftRemoval(i, p) ==
    LET m == CurrentMembership(replica[i])
    IN /\ PartOfGroup(i) /\ Up(p) /\ p \in m.all \ {i}
       /\ Request(i, [all |-> m.all \ {p}, voting |-> m.voting \ {p}])

HandleRelinquishLeadership(i) ==
    /\ PartOfGroup(i)
    /\ replica[i].role = Leader /\ ~replica[i].relinquishing
    /\ <<replica[i].term, i>> \in Handovers /\ Last(replica[i]) < MaxLog
    /\ \E sp \in Space : RaftStep(net, i, RelinquishLeadership(i, replica[i], sp))
    /\ UNCHANGED resets

-----------------------------------------------------------------------------
(* Connections, joining and crashes.                                        *)

\* Replica i accepts a new connection from j: whatever was under way between
\* them is lost.  HandlePeerConnect resets j here, and i at j's end once j
\* learns that the connection stands; Raft's messages go out at a later step.
Reconnect(i, j) ==
    /\ i # j /\ Up(i) /\ Up(j)
    /\ <<i, j>> \in Lossy /\ resets < MaxResets
    /\ resets' = resets + 1
    /\ net' = [net EXCEPT ![<<i, j>>] = <<[type |-> "Connected"]>>,
                          ![<<j, i>>] = <<>>]
    /\ replica' = [replica EXCEPT ![i] = ResetPeer(@, j)]
    /\ UNCHANGED elected

HandlePeerConnect(i, j) ==
    /\ Up(i)
    /\ net[<<j, i>>] # <<>>
    /\ Head(net[<<j, i>>]).type = "Connected"
    /\ net' = [net EXCEPT ![<<j, i>>] = Tail(@)]
    /\ replica' = [replica EXCEPT ![i] = ResetPeer(@, j)]
    /\ UNCHANGED <<resets, elected>>

\* Replica i has loaded the database and the log of j up to j's commit index
\* (PromoteRaftToLoaded) and from now on asks for membership.
JoinRaft(i, j) ==
    /\ replica[i].status = "absent"
    /\ PartOfGroup(j)
    /\ replica' = [replica EXCEPT ![i] =
         NewRaft(i, replica[j].membership,
                 Chain(replica[j], replica[j].commit), replica[j].first)]
    /\ UNCHANGED <<net, resets, elected>>

\* An enclave keeps nothing: a crashed replica never comes back under its id.
Crash(i) ==
    /\ Up(i)
    /\ Cardinality({p \in Replica : replica[p].status = "down"}) < MaxCrashes
    /\ replica' = [replica EXCEPT ![i].status = "down"]
    /\ net' = [c \in Channel |-> IF c[2] = i THEN <<>> ELSE net[c]]
    /\ UNCHANGED <<resets, elected>>

-----------------------------------------------------------------------------
(* Specification.                                                           *)

\* HandleCreateNewRaftGroupRequest: the founder alone.
Founded ==
    /\ InitMembership = First(Founder)
    /\ replica = [i \in Replica |-> IF i = Founder THEN NewRaft(i, First(i), <<>>, 1)
                                                   ELSE Absent(i)]

\* A group that has grown to InitMembership under its founder, which has since
\* relinquished: every member has applied the entry that completed the group.
\* Log indices are counted from that entry.
Formed ==
    /\ InitMembership.voting # {Founder}
    /\ replica = [i \in Replica |->
         IF i \notin InitMembership.all THEN Absent(i)
         ELSE [NewRaft(i, InitMembership, <<[term |-> 1, mem |-> InitMembership]>>, 1)
                 EXCEPT !.term = 1,
                        !.votedFor = IF i = Founder THEN i ELSE Nil,
                        !.leader = IF i = Founder THEN Nil ELSE Founder]]

Init ==
    /\ Founded \/ Formed
    /\ net = [c \in Channel |-> <<>>]
    /\ resets = 0
    /\ elected = {<<1, Founder>>}

Next ==
    \E i \in Replica :
        \/ HandleTimerTick(i)
        \/ HandleRaftWrite(i)
        \/ HandleRelinquishLeadership(i)
        \/ Crash(i)
        \/ \E j \in Replica :
            \/ HandleRaftMessage(i, j)
            \/ HandleRequestRaftMembership(i, j)
            \/ HandleRequestRaftVoting(i, j)
            \/ HandlePeerRequestedRaftRemoval(i, j)
            \/ Reconnect(i, j)
            \/ HandlePeerConnect(i, j)
            \/ JoinRaft(i, j)

Spec == Init /\ [][Next]_vars

\* The host delivers what it is given in order and without loss, and ticks for
\* ever: weak fairness of handling messages and new connections and of a
\* leader's heartbeats, with the conditions under which these are enabled
\* written out.
Deliverable(i, j) == Up(i) /\ net[<<j, i>>] # <<>>
HeartbeatDue(i) ==
    /\ PartOfGroup(i) /\ replica[i].role = Leader
    /\ <<replica[i].term, i>> \in Heartbeats
    /\ \E p \in DOMAIN replica[i].followers :
         ~replica[i].followers[p].heartbeat \/ ReadyToAppend(replica[i], p)

Fairness ==
    \A i \in Replica :
        /\ []<>(~HeartbeatDue(i)) \/ []<><<HandleTimerTick(i)>>_vars
        /\ \A j \in Replica :
             \/ []<>(~Deliverable(i, j))
             \/ []<><<HandleRaftMessage(i, j) \/ HandlePeerConnect(i, j)>>_vars

FairSpec == Spec /\ Fairness

-----------------------------------------------------------------------------
(* Types.                                                                   *)

Entry == [term : Nat, mem : Memberships \cup {Nil}]
Log == Seq(Entry)

FollowerState == [next : Nat \ {0}, match : Nat, promise : Nat,
                  inflight : Nat \cup {NoInflight},
                  probe : BOOLEAN, heartbeat : BOOLEAN]

Message ==
    [type : {"VoteRequest"}, term : Nat, chain : Log]
    \cup [type : {"VoteResponse"}, term : Nat, granted : BOOLEAN]
    \cup [type : {"AppendRequest"}, term : Nat, prev : Log, entries : Log,
          commit : Nat, promise : Nat]
    \cup {m \in [type : {"AppendResponse"}, term : Nat, success : BOOLEAN, match : Log,
                 promise : Nat, last : Nat] : m.success => m.promise <= Len(m.match)}
    \cup [type : {"TimeoutNow"}, term : Nat]

ReplicaState(S) ==
    [status : {"absent", "up", "down"}, role : {Follower, Candidate, Leader},
     term : Nat, votedFor : Replica \cup {Nil}, leader : Replica \cup {Nil},
     votes : SUBSET Replica, followers : [S -> FollowerState],
     relinquishing : BOOLEAN, log : Log, first : Nat, commit : Nat, promise : Nat,
     membership : Memberships, uncommitted : SUBSET Nat,
     sendable : [Replica -> Seq(Message)]]

\* Every replica and every message under way has the shape the code gives it.
TypeOK ==
    /\ replica = [i \in Replica |-> replica[i]]
    /\ \A i \in Replica : \E S \in SUBSET Replica : replica[i] \in ReplicaState(S)
    /\ net \in [Channel -> Seq(Message \cup [type : {"Connected"}])]
    /\ resets \in Nat
    /\ elected \subseteq Nat \X Replica

-----------------------------------------------------------------------------
(* Safety.                                                                  *)

IndicesOrdered(r) ==
    /\ r.commit <= r.promise /\ r.promise <= Last(r)
    /\ r.role = Leader =>
         \A p \in DOMAIN r.followers :
            /\ r.followers[p].promise <= r.followers[p].match
            /\ r.followers[p].match <= Last(r)

\* On every replica what is committed is promised and what is promised is in
\* the log, and a leader credits a follower with promises only for what the
\* follower stored and the leader itself has (MaybeAdvanceCommitIndex,
\* HandleAppendRequest, HandleAppendResponse).
IndexOrder == \A i \in Replica : IndicesOrdered(replica[i])

\* Two replicas never lead in the same term.
ElectionSafety == \A e, f \in elected : e[1] = f[1] => e[2] = f[2]

\* If two logs have entries with the same term at an index, they are the same
\* up to that index: what the hash chain checks of Receive rely on.
LogMatching ==
    \A i, j \in Replica :
        \A idx \in 1..Smaller(Last(replica[i]), Last(replica[j])) :
            replica[i].log[idx].term = replica[j].log[idx].term
              => Chain(replica[i], idx) = Chain(replica[j], idx)

\* Two replicas, crashed ones included, never disagree on an entry both have
\* committed and applied to their databases.
StateMachineSafety ==
    \A i, j \in Replica :
        LET n == Smaller(replica[i].commit, replica[j].commit)
        IN Chain(replica[i], n) = Chain(replica[j], n)

\* The promise a leader counts for a follower is one the follower still keeps,
\* for the same entries, whatever happened to it since it acknowledged.
AcknowledgedPromisesHold ==
    \A i \in Replica : \A p \in DOMAIN replica[i].followers :
        LET n == replica[i].followers[p].promise
        IN n <= replica[p].promise /\ Chain(replica[p], n) = Chain(replica[i], n)

\* The entries a leader counts as stored on a follower are in the follower's
\* log as long as the follower has not moved to a later term.
AcknowledgedEntriesHold ==
    \A i \in Replica : \A p \in DOMAIN replica[i].followers :
        LET n == replica[i].followers[p].match
        IN replica[p].term = replica[i].term =>
             n <= Last(replica[p]) /\ Chain(replica[p], n) = Chain(replica[i], n)

\* What a follower says it stored is what the leader has at that index, when
\* the answer arrives in the term it was given in.  ValidateReceivedMessage
\* would drop any other answer, and leave the follower without further entries;
\* the CHECKs of HandleAppendResponse rely on it.
AnswersMatchLeaderLog ==
    \A i, j \in Replica : \A k \in 1..Len(net[<<j, i>>]) :
        LET r == replica[i]
            m == net[<<j, i>>][k]
        IN /\ r.role = Leader
           /\ m.type = "AppendResponse" /\ m.success /\ m.term = r.term
           => Len(m.match) <= Last(r) /\ m.match = Chain(r, Len(m.match))

\* The pending membership changes are exactly those in the uncommitted part of
\* the log, and there is at most one (LogRequest, CancelFrom, commits).
OnePendingChange ==
    \A i \in Replica :
        LET r == replica[i]
        IN /\ r.uncommitted = {idx \in (r.commit + 1)..Last(r) : r.log[idx].mem # Nil}
           /\ Cardinality(r.uncommitted) <= 1

FollowsMembers(i, r) ==
    /\ r.role # Follower => i \in CurrentMembership(r).voting
    /\ r.role = Leader => DOMAIN r.followers = CurrentMembership(r).all \ {i}

\* Who stands for election or leads is a voter of the membership in force, and a
\* leader follows exactly the other members of its group: "it keeps our
\* followers==all_replicas story intact".
FollowersAreMembers == \A i \in Replica : FollowsMembers(i, replica[i])

\* Whatever a replica has committed is promised by a quorum of the voters of
\* an unchanging group, crashed ones included: the two rounds of
\* MaybeAdvanceCommitIndex.
CommittedByQuorum ==
    \A i \in Replica :
        LET r == replica[i]
            keepers == {p \in r.membership.voting :
                          /\ replica[p].promise >= r.commit
                          /\ Chain(replica[p], r.commit) = Chain(r, r.commit)}
        IN r.status # "absent" =>
             Cardinality(keepers) >= QuorumSize(Cardinality(r.membership.voting))

\* Dropping old entries for space never drops an entry that is still needed:
\* the last applied one, whose hash the next entry and the Merkle leaf of
\* commit_idx are checked against, and all after it (CHECK in TakeCommittedLog).
AppliedEntryStored ==
    \A i \in Replica :
        LET r == replica[i]
        IN r.commit > 0 => Stored(r, r.commit) /\ Stored(r, r.promise)

\* A replica never gives up an entry it promised, nor moves its promise or
\* commit index back.
PromisesKept ==
    [][\A i \in Replica :
          LET r == replica[i]
              s == replica'[i]
          IN /\ r.promise <= s.promise /\ r.commit <= s.commit
             /\ Chain(s, r.promise) = Chain(r, r.promise)]_vars

\* A replica votes at most once in a term and its term never goes back.
OneVotePerTerm ==
    [][\A i \in Replica :
          LET r == replica[i]
              s == replica'[i]
          IN /\ r.term <= s.term
             /\ r.term = s.term /\ r.votedFor # Nil => s.votedFor = r.votedFor]_vars

\* A replica's pending membership changes are changes in its log.
ChangesLogged(r) == r.uncommitted \subseteq {idx \in 1..Last(r) : r.log[idx].mem # Nil}

ReplicaInv(i, r) ==
    /\ \E S \in SUBSET Replica : r \in ReplicaState(S)
    /\ IndicesOrdered(r)
    /\ ChangesLogged(r)
    /\ FollowsMembers(i, r)

\* A replica that has not joined has nothing to lose when it does.
Blank(r) == r.term = 0 /\ r.votedFor = Nil /\ r.commit = 0 /\ r.promise = 0

\* What every handler of Core relies on and restores: the types, the order of
\* the indices, and followers and pending changes that belong to the membership
\* and the log.  None of these parts is inductive without the others.
IndInv ==
    /\ TypeOK
    /\ \A i \in Replica : /\ ReplicaInv(i, replica[i])
                          /\ replica[i].status = "absent" => Blank(replica[i])

-----------------------------------------------------------------------------
(* What a comment in the code says and the code does not do.                *)

\* A leader has every entry that replicas of its term or of earlier ones have
\* committed: "If we committed up to a point in time, we know we match with the
\* rest of the Raft group up to that index" in HandleAppendRequest.
LeaderCompleteness ==
    \A i, j \in Replica :
        LET n == replica[j].commit
        IN /\ Up(i) /\ replica[i].role = Leader
           /\ replica[j].status # "absent" /\ replica[j].term <= replica[i].term
           => n <= Last(replica[i]) /\ Chain(replica[i], n) = Chain(replica[j], n)

-----------------------------------------------------------------------------
(* Liveness.                                                                *)

\* Once connections stop being lost, everything a leader has logged is
\* committed on all members, although a follower is sent nothing while a
\* request to it is in flight (ReplicationState.inflight).
Converges ==
    <>[](\A i \in Replica : Up(i) /\ replica[i].role = Leader =>
           \A p \in CurrentMembership(replica[i]).all :
             Up(p) => replica[p].commit = Last(replica[i]))

\* A leader told to relinquish steps down, and some replica then leads in a later
\* term: a successor with the whole log is found and its election succeeds.
HandsOver ==
    \A i \in Replica :
        replica[i].relinquishing
          ~> /\ ~replica[i].relinquishing
             /\ \E j \in Replica : Up(j) /\ replica[j].role = Leader

-----------------------------------------------------------------------------
(* The abstract log: what the replica furthest ahead, crashed or not, has   *)
(* committed, and how far each replica is in it.                            *)

Furthest == CHOOSE i \in Replica : \A j \in Replica : replica[j].commit <= replica[i].commit

Abstract == INSTANCE ReplicatedLog
              WITH committed <- Chain(replica[Furthest], replica[Furthest].commit),
                   applied   <- [i \in Replica |-> replica[i].commit]

\* The group implements one growing log, of which every replica applies a
\* growing prefix.
RefinesReplicatedLog == Abstract!Spec
=============================================================================
