---------------------------- MODULE RaftLeading -----------------------------
(***************************************************************************)
(* What the operators of module Raft do to the record of one replica, part 2: *)
(* a leader's promise and commit indices and what it sends.                *)
(***************************************************************************)
EXTENDS RaftRecords

-----------------------------------------------------------------------------
(* The leader's promise and commit indices.                                 *)

\* Where f is at least v.
AtLeast(f, v) == {x \in DOMAIN f : f[x] >= v}

\* A function to the naturals has a least value on a set that is not empty.
LEMMA LeastValue ==
    ASSUME NEW D, D # {}, NEW f, \A x \in D : f[x] \in Nat
    PROVE  \E p \in D : \A x \in D : f[p] <= f[x]
<1> DEFINE W == {f[x] : x \in D}
<1>1. W \in SUBSET Nat /\ W # {} /\ \A x \in D : f[x] \in W
  OBVIOUS
<1>2. Min(W) \in W /\ \A y \in W : Min(W) <= y
  <2> HIDE DEF W
  <2> QED BY <1>1, MinNat
<1>3. PICK p \in D : Min(W) = f[p]
  BY <1>2
<1> QED BY <1>1, <1>2, <1>3

\* The k-th largest value is a value of f that k of them reach, and none that k
\* reach is larger.
LEMMA KthLargestIs ==
    ASSUME NEW D, IsFiniteSet(D), NEW f \in [D -> Nat], NEW b \in Nat,
           \A x \in D : f[x] <= b, NEW k \in 1..Cardinality(D)
    PROVE  /\ \E p \in D : /\ KthLargest(f, k) = f[p]
                           /\ Cardinality(AtLeast(f, f[p])) >= k
           /\ \A p \in D : Cardinality(AtLeast(f, f[p])) >= k => f[p] <= KthLargest(f, k)
<1> DEFINE T == {p \in D : Cardinality(AtLeast(f, f[p])) >= k}
           V == {f[p] : p \in T}
<1>1. KthLargest(f, k) = Max(V)
  BY DEF KthLargest, AtLeast
<1>2. D # {}
  BY FS_EmptySet
<1>3. V # {}
  <2>1. PICK p \in D : \A x \in D : f[p] <= f[x]
    BY <1>2, LeastValue
  <2>2. AtLeast(f, f[p]) = D
    BY <2>1 DEF AtLeast
  <2>3. Cardinality(D) >= k
    BY FS_CardinalityType
  <2>4. p \in T
    BY <2>2, <2>3
  <2> QED BY <2>4
<1>4. V \in SUBSET Nat /\ \A x \in V : x <= b
  OBVIOUS
<1>5. Max(V) \in V /\ \A y \in V : Max(V) >= y
  BY <1>3, <1>4, MaxNat
<1>6. PICK p \in T : Max(V) = f[p]
  BY <1>5
<1>7. \A x \in T : f[x] <= Max(V)
  BY <1>4, <1>5
<1> QED BY <1>1, <1>6, <1>7

\* If f is nowhere larger than g but at one place, where it is at most q, then
\* its k-th largest value is at most q as soon as that of g is.
LEMMA KthLargestBound ==
    ASSUME NEW D, IsFiniteSet(D), NEW f \in [D -> Nat], NEW g \in [D -> Nat], NEW b \in Nat,
           \A x \in D : f[x] <= b /\ g[x] <= b, NEW k \in 1..Cardinality(D),
           NEW i \in D, NEW q \in Nat, f[i] <= q, \A x \in D \ {i} : f[x] <= g[x],
           KthLargest(g, k) <= q
    PROVE  KthLargest(f, k) <= q
<1>1. PICK p \in D : KthLargest(f, k) = f[p] /\ Cardinality(AtLeast(f, f[p])) >= k
  BY KthLargestIs
<1>2. SUFFICES ASSUME f[p] > q PROVE FALSE
  BY <1>1
<1> DEFINE A == AtLeast(f, f[p])
<1>3. A \in SUBSET D /\ p \in A /\ i \notin A
  BY <1>2 DEF AtLeast
<1>4. \A x \in A : g[x] >= f[p]
  BY <1>3 DEF AtLeast
<1>5. A # {} /\ \A x \in A : g[x] \in Nat
  BY <1>3
<1>6. PICK y \in A : \A x \in A : g[y] <= g[x]
  BY <1>5, LeastValue
<1>7. A \in SUBSET AtLeast(g, g[y]) /\ AtLeast(g, g[y]) \in SUBSET D
  BY <1>3, <1>6 DEF AtLeast
<1>8. Cardinality(AtLeast(g, g[y])) >= k
  <2>1. IsFiniteSet(AtLeast(g, g[y]))
    BY <1>7, FS_Subset
  <2>2. Cardinality(A) <= Cardinality(AtLeast(g, g[y])) /\ IsFiniteSet(A)
    BY <1>7, <2>1, FS_Subset
  <2>3. Cardinality(A) \in Nat /\ Cardinality(AtLeast(g, g[y])) \in Nat
    BY <2>1, <2>2, FS_CardinalityType
  <2>4. k \in Nat
    BY FS_CardinalityType
  <2> QED BY <1>1, <2>2, <2>3, <2>4
<1>9. g[y] <= KthLargest(g, k)
  BY <1>3, <1>8, KthLargestIs
<1>10. KthLargest(g, k) \in Nat
  <2>1. PICK z \in D : KthLargest(g, k) = g[z]
    BY KthLargestIs
  <2> QED BY <2>1
<1> QED BY <1>2, <1>3, <1>4, <1>9, <1>10

WithFollowers(r, F) == [r EXCEPT !.followers = F]

\* The bookkeeping of a leader about its followers may change in any way that
\* keeps it ordered.
LEMMA FollowersSound ==
    ASSUME NEW i, NEW r, Sound(i, r), NEW F \in [DOMAIN r.followers -> FollowerState],
           r.role = Leader =>
             \A p \in DOMAIN r.followers : F[p].promise <= F[p].match /\ F[p].match <= Last(r)
    PROVE  Sound(i, WithFollowers(r, F)) /\ Alike(r, WithFollowers(r, F))
<1> DEFINE s == [r EXCEPT !.followers = F]
<1>1. DOMAIN F = DOMAIN r.followers
  OBVIOUS
<1>2. Typed(s)
  BY <1>1 DEF Sound, Typed, ReplicaState
<1>3. /\ s.membership = r.membership /\ s.uncommitted = r.uncommitted
      /\ s.followers = F /\ Alike(r, s)
  BY DEF Sound, Typed, ReplicaState, Alike
<1> HIDE DEF s
<1>4. IndicesOrdered(s)
  BY <1>1, <1>3 DEF Sound, IndicesOrdered, Last, Alike
<1>5. ChangesLogged(s)
  BY <1>3 DEF Sound, ChangesLogged, Last, Alike
<1>6. CurrentMembership(s) = CurrentMembership(r)
  BY <1>3 DEF CurrentMembership, Alike
<1>7. FollowsMembers(i, s)
  BY <1>1, <1>3, <1>6 DEF Sound, FollowsMembers, Alike
<1> QED BY <1>2, <1>3, <1>4, <1>5, <1>7 DEF Sound, s, WithFollowers

\* A heartbeat that is due changes nothing else about a follower.
LEMMA HeartbeatsSound ==
    ASSUME NEW i, NEW r, Sound(i, r), NEW s,
           s = [r EXCEPT !.followers = [p \in DOMAIN r.followers |->
                                          [r.followers[p] EXCEPT !.heartbeat = TRUE]]]
    PROVE  Sound(i, s) /\ Alike(r, s)
<1> DEFINE F == [p \in DOMAIN r.followers |-> [r.followers[p] EXCEPT !.heartbeat = TRUE]]
<1>1. \A p \in DOMAIN r.followers : r.followers[p] \in FollowerState
  BY DEF Sound, Typed, ReplicaState
<1>2. F \in [DOMAIN r.followers -> FollowerState]
  BY <1>1 DEF FollowerState
<1>3. \A p \in DOMAIN r.followers : /\ F[p].promise = r.followers[p].promise
                                    /\ F[p].match = r.followers[p].match
  BY <1>1 DEF FollowerState
<1> HIDE DEF F
<1>4. r.role = Leader =>
        \A p \in DOMAIN r.followers : F[p].promise <= F[p].match /\ F[p].match <= Last(r)
  BY <1>3 DEF Sound, IndicesOrdered
<1>5. s = WithFollowers(r, F)
  BY DEF F, WithFollowers
<1>6. Sound(i, WithFollowers(r, F)) /\ Alike(r, WithFollowers(r, F))
  BY <1>2, <1>4, FollowersSound
<1> QED BY <1>5, <1>6, Zenon

\* The voters a leader counts are the voters of the membership in force.
LEMMA CountedVoters ==
    ASSUME NEW i, NEW r, Sound(i, r), r.role = Leader
    PROVE  /\ VotingFollowers(r) \cup {i} = CurrentMembership(r).voting
           /\ IsFiniteSet(CurrentMembership(r).voting)
           /\ MembershipQuorumSize(r) \in 1..Cardinality(CurrentMembership(r).voting)
<1> DEFINE V == CurrentMembership(r).voting
<1>1. CurrentMembership(r) \in Memberships
  BY CurrentType DEF Sound
<1>2. i \in V /\ DOMAIN r.followers = CurrentMembership(r).all \ {i}
  BY DEF Sound, FollowsMembers, Leader, Follower
<1>3. VotingFollowers(r) \cup {i} = V
  BY <1>1, <1>2 DEF VotingFollowers, Memberships
<1>4. IsFiniteSet(V) /\ Cardinality(V) \in Nat \ {0}
  BY <1>1, <1>2, VotersFinite, FS_EmptySet
<1>5. QuorumSize(Cardinality(V)) \in 1..Cardinality(V)
  BY <1>4, QuorumSizeBounds
<1> QED BY <1>3, <1>4, <1>5 DEF MembershipQuorumSize

\* What a quorum has promised it has stored: the new commit index is at most the
\* new promise index, which is at most the last index.
LEMMA NewIndicesOrdered ==
    ASSUME NEW i, NEW r, Sound(i, r), r.role = Leader
    PROVE  /\ NewPromise(i, r) \in Nat /\ NewCommit(i, r, NewPromise(i, r)) \in Nat
           /\ r.promise <= NewPromise(i, r) /\ NewPromise(i, r) <= Last(r)
           /\ r.commit <= NewCommit(i, r, NewPromise(i, r))
           /\ NewCommit(i, r, NewPromise(i, r)) <= NewPromise(i, r)
<1> DEFINE V == CurrentMembership(r).voting
           D == VotingFollowers(r) \cup {i}
           k == MembershipQuorumSize(r)
           stored == [p \in D |-> IF p = i THEN Last(r) ELSE r.followers[p].match]
           high == KthLargest(stored, k)
           promise == NewPromise(i, r)
           promised == [p \in D |-> IF p = i THEN promise ELSE r.followers[p].promise]
           acked == KthLargest(promised, k)
           commit == NewCommit(i, r, promise)
<1>1. IsFiniteSet(D) /\ k \in 1..Cardinality(D)
  BY CountedVoters
<1>2. /\ r.commit \in Nat /\ r.promise \in Nat /\ Last(r) \in Nat
      /\ r.commit <= r.promise /\ r.promise <= Last(r)
  BY DEF Sound, Typed, ReplicaState, Log, IndicesOrdered, Last
<1>3. \A p \in D \ {i} : /\ r.followers[p].match \in Nat /\ r.followers[p].promise \in Nat
                         /\ r.followers[p].promise <= r.followers[p].match
                         /\ r.followers[p].match <= Last(r)
  <2> TAKE p \in D \ {i}
  <2>1. p \in DOMAIN r.followers
    BY DEF VotingFollowers
  <2>2. r.followers[p] \in FollowerState
    BY <2>1 DEF Sound, Typed, ReplicaState
  <2> QED BY <2>1, <2>2 DEF Sound, IndicesOrdered, FollowerState
<1>4. stored \in [D -> Nat] /\ \A x \in D : stored[x] <= Last(r)
  BY <1>2, <1>3
<1>5. high \in Nat /\ high <= Last(r)
  <2> HIDE DEF D, k, stored
  <2>1. PICK p \in D : high = stored[p]
    BY <1>1, <1>2, <1>4, KthLargestIs
  <2> QED BY <1>4, <2>1
<1>6. /\ promise \in Nat /\ r.promise <= promise /\ promise <= Last(r) /\ high <= promise
  <2>1. promise = Larger(r.promise, high)
    BY DEF NewPromise
  <2> HIDE DEF promise, high
  <2> QED BY <1>2, <1>5, <2>1 DEF Larger
<1> HIDE DEF promise
<1>7. /\ promised \in [D -> Nat] /\ \A x \in D : promised[x] <= Last(r)
      /\ i \in D /\ promised[i] <= promise
      /\ \A x \in D \ {i} : promised[x] <= stored[x]
  BY <1>2, <1>3, <1>6
<1>8. acked \in Nat /\ acked <= promise
  <2> HIDE DEF D, k, stored, promised
  <2>1. PICK p \in D : acked = promised[p]
    BY <1>1, <1>2, <1>7, KthLargestIs
  <2>2. \A x \in D : promised[x] <= Last(r) /\ stored[x] <= Last(r)
    BY <1>4, <1>7
  <2>3. acked <= promise
    BY <1>1, <1>2, <1>4, <1>6, <1>7, <2>2, KthLargestBound
  <2> QED BY <1>7, <2>1, <2>3
<1>9. commit \in Nat /\ r.commit <= commit /\ commit <= promise
  <2>1. commit = Larger(r.commit, acked)
    BY DEF NewCommit
  <2> HIDE DEF commit, acked
  <2> QED BY <1>2, <1>6, <1>8, <2>1 DEF Larger
<1> QED BY <1>6, <1>9 DEF promise

\* MaybeAdvanceCommitIndex moves both indices forward and keeps their order.
LEMMA MaybeAdvanceSound ==
    ASSUME NEW i, NEW r, Sound(i, r)
    PROVE  Sound(i, MaybeAdvanceCommitIndex(i, r)) /\ Step(r, MaybeAdvanceCommitIndex(i, r))
<1> DEFINE promise == NewPromise(i, r)
           commit  == NewCommit(i, r, promise)
           a == [r EXCEPT !.promise = promise, !.commit = commit]
           b == IF commit > r.commit THEN MaybeChangeUncommittedMemberships(i, a) ELSE a
           s == [b EXCEPT !.followers = [p \in DOMAIN b.followers |->
                                           [b.followers[p] EXCEPT !.heartbeat = TRUE]]]
<1>1. CASE r.role # Leader
  BY <1>1, AlikeStep DEF MaybeAdvanceCommitIndex, Sound, Alike
<1>2. CASE r.role = Leader /\ promise = r.promise /\ commit = r.commit
  <2>1. MaybeAdvanceCommitIndex(i, r) = r
    BY <1>2 DEF MaybeAdvanceCommitIndex
  <2> QED BY <2>1, AlikeStep DEF Sound, Alike
<1>3. CASE r.role = Leader /\ ~(promise = r.promise /\ commit = r.commit)
  <2>1. MaybeAdvanceCommitIndex(i, r) = s
    BY <1>3 DEF MaybeAdvanceCommitIndex
  <2>2. /\ promise \in Nat /\ commit \in Nat /\ r.promise <= promise /\ promise <= Last(r)
        /\ r.commit <= commit /\ commit <= promise
    BY <1>3, NewIndicesOrdered
  <2> HIDE DEF promise, commit
  <2>3. Typed(a)
    BY <2>2 DEF Sound, Typed, ReplicaState
  <2>4. /\ a.log = r.log /\ a.commit = commit /\ a.promise = promise /\ a.role = r.role
        /\ a.membership = r.membership /\ a.uncommitted = r.uncommitted
        /\ a.followers = r.followers /\ a.status = r.status
        /\ a.term = r.term /\ a.votedFor = r.votedFor
    BY DEF Sound, Typed, ReplicaState
  <2> HIDE DEF a
  <2>5. IndicesOrdered(a)
    BY <2>2, <2>4 DEF Sound, IndicesOrdered, Last
  <2>6. ChangesLogged(a)
    BY <2>4 DEF Sound, ChangesLogged, Last
  <2>7. FollowsMembers(i, a)
    <3>1. CurrentMembership(a) = CurrentMembership(r)
      BY <2>4 DEF CurrentMembership
    <3> QED BY <2>4, <3>1 DEF Sound, FollowsMembers
  <2>8. Step(r, a)
    BY <2>2, <2>4 DEF Step, Sound, Typed, ReplicaState
  <2>9. Sound(i, b) /\ Alike(a, b)
    <3>1. ChangesKnown(a) /\ a.commit <= Last(a)
      BY <2>2, <2>4, <2>6 DEF ChangesKnown, ChangesLogged, Last, Sound, Typed, ReplicaState, Log
    <3>2. CASE commit > r.commit
      BY <2>3, <2>5, <2>7, <3>1, <3>2, MaybeChangeSound DEF Sound, Grouped
    <3>3. CASE ~(commit > r.commit)
      BY <2>3, <2>5, <2>6, <2>7, <3>3 DEF Sound, Alike
    <3> QED BY <3>2, <3>3
  <2> HIDE DEF b
  <2>10. Sound(i, s) /\ Alike(b, s)
    BY <2>9, HeartbeatsSound
  <2> HIDE DEF s
  <2>11. Step(a, s)
    <3>1. Alike(a, s)
      BY <2>9, <2>10 DEF Alike
    <3> QED BY <2>3, <3>1, AlikeStep
  <2> QED BY <2>1, <2>3, <2>8, <2>10, <2>11, StepTransitive DEF Sound
<1> QED BY <1>1, <1>2, <1>3

-----------------------------------------------------------------------------
(* What the leader sends.                                                   *)

\* A stretch of a log is a log.
LEMMA StretchOfLog ==
    ASSUME NEW l \in Log, NEW m \in Nat \ {0}, NEW n \in Nat, n <= Len(l)
    PROVE  /\ SubSeq(l, m, n) \in Log
           /\ Len(SubSeq(l, m, n)) = IF m <= n THEN n - m + 1 ELSE 0
           /\ \A x \in 1..(n - m + 1) : SubSeq(l, m, n)[x] = l[m + x - 1]
  BY DEF Log

WithQueues(r, q) == [r EXCEPT !.sendable = q]

\* The queues of a record may be replaced.
LEMMA QueuesSound ==
    ASSUME NEW i, NEW r, Sound(i, r), NEW q \in [Replica -> Seq(Message)]
    PROVE  Sound(i, WithQueues(r, q)) /\ Alike(r, WithQueues(r, q))
<1> DEFINE s == [r EXCEPT !.sendable = q]
<1>1. Typed(s)
  BY DEF Sound, Typed, ReplicaState
<1>2. /\ s.membership = r.membership /\ s.uncommitted = r.uncommitted
      /\ s.followers = r.followers /\ Alike(r, s)
  BY DEF Sound, Typed, ReplicaState, Alike
<1> HIDE DEF s
<1>3. Sound(i, s)
  BY <1>1, <1>2, KeepsGroup DEF Alike
<1> QED BY <1>2, <1>3 DEF WithQueues, s

\* An append request of a leader is a message.
LEMMA AppendRequestMessageType ==
    ASSUME NEW i, NEW r, Sound(i, r), NEW p \in DOMAIN r.followers, ReadyToAppend(r, p)
    PROVE  AppendRequestMessage(r, p) \in Message /\ LastEntrySent(r, p) \in Nat
<1> DEFINE prev == r.followers[p].next - 1
           last == LastEntrySent(r, p)
<1>1. /\ r.log \in Log /\ Len(r.log) \in Nat /\ r.term \in Nat /\ r.first \in Nat
      /\ r.commit \in Nat /\ r.promise \in Nat
  BY DEF Sound, Typed, ReplicaState, Log
<1>2. prev \in Nat /\ r.followers[p].next \in Nat \ {0}
  <2>1. r.followers[p] \in FollowerState
    BY DEF Sound, Typed, ReplicaState
  <2> QED BY <2>1 DEF FollowerState
<1>3. prev <= Len(r.log)
  BY <1>1, <1>2 DEF ReadyToAppend, Stored
<1>4. last \in Nat /\ last <= Len(r.log)
  BY <1>1, <1>2, <1>3, ChunkAssumption DEF LastEntrySent, Smaller, Last
<1> HIDE DEF prev, last
<1>5. Chain(r, prev) \in Log
  BY <1>1, <1>2, <1>3, StretchOfLog DEF Chain
<1>6. SubSeq(r.log, prev + 1, last) \in Log
  <2>1. prev + 1 \in Nat \ {0}
    BY <1>2
  <2> QED BY <1>1, <1>4, <2>1, StretchOfLog
<1>7. Smaller(r.commit, last) \in Nat /\ Smaller(r.promise, last) \in Nat
  BY <1>1, <1>4 DEF Smaller
<1>8. AppendRequestMessage(r, p) =
        [type |-> "AppendRequest", term |-> r.term, prev |-> Chain(r, prev),
         entries |-> SubSeq(r.log, prev + 1, last),
         commit |-> Smaller(r.commit, last), promise |-> Smaller(r.promise, last)]
  BY DEF AppendRequestMessage, prev, last
<1> QED BY <1>1, <1>4, <1>5, <1>6, <1>7, <1>8 DEF Message, last

\* Sending append requests keeps the leader's bookkeeping ordered.
LEMMA AppendEntriesSound ==
    ASSUME NEW i, NEW r, Sound(i, r)
    PROVE  Sound(i, AppendEntries(r)) /\ Alike(r, AppendEntries(r))
<1> DEFINE to == {p \in DOMAIN r.followers \cap CurrentMembership(r).all : ReadyToAppend(r, p)}
           F == [p \in DOMAIN r.followers |->
                   IF p \in to THEN [r.followers[p] EXCEPT !.heartbeat = FALSE,
                                                           !.inflight = LastEntrySent(r, p)]
                               ELSE r.followers[p]]
           q == [p \in Replica |->
                   IF p \in to THEN Append(r.sendable[p], AppendRequestMessage(r, p))
                               ELSE r.sendable[p]]
<1>1. CASE r.role # Leader
  BY <1>1 DEF AppendEntries, Alike
<1>2. CASE r.role = Leader
  <2>1. \A p \in to : /\ p \in DOMAIN r.followers
                      /\ AppendRequestMessage(r, p) \in Message
                      /\ LastEntrySent(r, p) \in Nat
    BY AppendRequestMessageType
  <2> HIDE DEF to
  <2>2. q \in [Replica -> Seq(Message)]
    <3>1. r.sendable \in [Replica -> Seq(Message)]
      BY DEF Sound, Typed, ReplicaState
    <3> QED BY <2>1, <3>1
  <2>3. \A p \in DOMAIN r.followers : r.followers[p] \in FollowerState
    BY DEF Sound, Typed, ReplicaState
  <2>4. \A p \in DOMAIN r.followers :
          /\ F[p] \in FollowerState
          /\ F[p].promise = r.followers[p].promise /\ F[p].match = r.followers[p].match
    BY <2>1, <2>3 DEF FollowerState
  <2>5. F \in [DOMAIN r.followers -> FollowerState]
    BY <2>4
  <2>6. AppendEntries(r) = [r EXCEPT !.followers = F, !.sendable = q]
    BY <1>2 DEF AppendEntries, to
  <2> HIDE DEF F, q
  <2>7. \A p \in DOMAIN r.followers : F[p].promise <= F[p].match /\ F[p].match <= Last(r)
    BY <1>2, <2>4 DEF Sound, IndicesOrdered
  <2>8. Sound(i, WithFollowers(r, F)) /\ Alike(r, WithFollowers(r, F))
    BY <2>5, <2>7, FollowersSound
  <2>9. /\ Sound(i, WithQueues(WithFollowers(r, F), q))
        /\ Alike(WithFollowers(r, F), WithQueues(WithFollowers(r, F), q))
    BY <2>2, <2>8, QueuesSound
  <2>10. AppendEntries(r) = WithQueues(WithFollowers(r, F), q)
    BY <2>6 DEF WithQueues, WithFollowers, Sound, Typed, ReplicaState
  <2> QED BY <2>8, <2>9, <2>10 DEF Alike
<1> QED BY <1>1, <1>2

\* A leader that hands over becomes a follower and takes nothing back.
LEMMA TryToRelinquishSound ==
    ASSUME NEW i, NEW r, Sound(i, r)
    PROVE  Sound(i, TryToRelinquishLeadership(i, r)) /\ Step(r, TryToRelinquishLeadership(i, r))
<1> DEFINE worthy == {p \in VotingFollowers(r) : r.followers[p].match = Last(r)}
           p == CHOOSE p \in worthy : TRUE
           m == [type |-> "TimeoutNow", term |-> r.term]
           t == Send(r, p, m)
<1>1. CASE ~r.relinquishing \/ worthy = {}
  BY <1>1, AlikeStep DEF TryToRelinquishLeadership, Sound, Alike
<1>2. CASE ~(~r.relinquishing \/ worthy = {})
  <2>1. TryToRelinquishLeadership(i, r) = SetRole(t, Follower)
    BY <1>2 DEF TryToRelinquishLeadership
  <2>2. p \in worthy
    BY <1>2
  <2>3. p \in Replica
    BY <2>2 DEF VotingFollowers, Sound, Typed
  <2>4. m \in Message
    BY DEF Message, Sound, Typed, ReplicaState
  <2> HIDE DEF p, m
  <2>5. Sound(i, t) /\ Alike(r, t)
    BY <2>3, <2>4, SendSound
  <2> HIDE DEF t
  <2>6. Sound(i, SetRole(t, Follower)) /\ Step(t, SetRole(t, Follower))
    BY <2>5, SetRoleSound
  <2> QED BY <2>1, <2>5, <2>6, AlikeStep, StepTransitive DEF Sound
<1> QED BY <1>1, <1>2

\* MaybeChangeStateAndSendMessages, which ends every entry point.
LEMMA MaybeChangeStateSound ==
    ASSUME NEW i, NEW r, Sound(i, r), NEW sp \in [trunc : Nat, room : Nat]
    PROVE  /\ Sound(i, MaybeChangeStateAndSendMessages(i, r, sp))
           /\ Step(r, MaybeChangeStateAndSendMessages(i, r, sp))
<1> DEFINE a == MaybeBecomeLeader(i, r, sp)
           b == MaybeAdvanceCommitIndex(i, a)
           c == AppendEntries(b)
           d == TryToRelinquishLeadership(i, c)
<1>1. Sound(i, a) /\ Step(r, a)
  BY MaybeBecomeLeaderSound
<1>2. Sound(i, b) /\ Step(a, b)
  BY <1>1, MaybeAdvanceSound
<1>3. Sound(i, c) /\ Step(b, c)
  BY <1>2, AppendEntriesSound, AlikeStep DEF Sound
<1>4. Sound(i, d) /\ Step(c, d)
  BY <1>3, TryToRelinquishSound
<1>5. MaybeChangeStateAndSendMessages(i, r, sp) = d
  BY DEF MaybeChangeStateAndSendMessages
<1> HIDE DEF a, b, c, d
<1>6. Step(r, d)
  <2>1. Step(r, b)
    BY <1>1, <1>2, StepTransitive DEF Sound
  <2>2. Step(r, c)
    BY <1>2, <1>3, <2>1, StepTransitive DEF Sound
  <2> QED BY <1>3, <1>4, <2>2, StepTransitive DEF Sound
<1> QED BY <1>4, <1>5, <1>6
=============================================================================
