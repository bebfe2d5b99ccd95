---------------------------- MODULE RaftRecords -----------------------------
(***************************************************************************)
(* What the operators of module Raft do to the record of one replica, part 1: *)
(* the shape of a record, memberships, elections and appends of its own.   *)
(*                                                                         *)
(* Every operator is shown to take a sound record (Sound, the part of the  *)
(* inductive invariant that is about one replica) to a sound record, by a step *)
(* that takes back no promise, commit, term or vote (Step).                *)
(***************************************************************************)
EXTENDS Raft, MembershipProofs, WellFoundedInduction

\* A nonempty set of natural numbers has a least element.
LEMMA MinNat ==
    ASSUME NEW S \in SUBSET Nat, S # {}
    PROVE  /\ Min(S) \in S
           /\ \A y \in S : Min(S) <= y
<1>1. \E x \in S : \A y \in S : x <= y
  <2>1. PICK x \in S : \A y \in S : ~(<<y, x>> \in OpToRel(<, Nat))
    BY NatLessThanWellFounded, WFMin
  <2>2. \A y \in S : ~(y < x)
    BY <2>1 DEF OpToRel
  <2> QED BY <2>2
<1> QED BY <1>1 DEF Min

\* A nonempty bounded set of natural numbers has a greatest element.
LEMMA MaxNat ==
    ASSUME NEW S \in SUBSET Nat, S # {}, NEW b \in Nat, \A x \in S : x <= b
    PROVE  /\ Max(S) \in S
           /\ \A y \in S : Max(S) >= y
<1> DEFINE T == {b - x : x \in S}
<1>1. T \in SUBSET Nat /\ T # {}
  OBVIOUS
<1>2. Min(T) \in T /\ \A y \in T : Min(T) <= y
  BY <1>1, MinNat
<1>3. PICK x \in S : Min(T) = b - x
  BY <1>2
<1>4. \A y \in S : x >= y
  <2> TAKE y \in S
  <2>1. b - y \in T
    OBVIOUS
  <2>2. b - x <= b - y
    BY <1>2, <1>3, <2>1
  <2> QED BY <2>2
<1> QED BY <1>4 DEF Max

\* An element no smaller than the others is the greatest.
LEMMA MaxUnique ==
    ASSUME NEW S \in SUBSET Nat, NEW x \in S, \A y \in S : x >= y
    PROVE  Max(S) = x
<1>1. x \in Nat /\ \A y \in S : y <= x
  OBVIOUS
<1>2. Max(S) \in S /\ Max(S) >= x
  BY <1>1, MaxNat
<1>3. Max(S) \in Nat /\ Max(S) <= x
  BY <1>1, <1>2
<1> QED BY <1>1, <1>2, <1>3

-----------------------------------------------------------------------------
(* Replica records.                                                         *)

Typed(r) == /\ DOMAIN r.followers \in SUBSET Replica
            /\ r \in ReplicaState(DOMAIN r.followers)

\* ReplicaInv with the set of followers named.
Grouped(i, r) == Typed(r) /\ ChangesLogged(r) /\ FollowsMembers(i, r)
Sound(i, r) == Typed(r) /\ IndicesOrdered(r) /\ ChangesLogged(r) /\ FollowsMembers(i, r)

\* s differs from r in nothing that elections and the log depend on.
Alike(r, s) ==
    /\ s.log = r.log /\ s.first = r.first /\ s.commit = r.commit /\ s.promise = r.promise
    /\ s.role = r.role /\ s.term = r.term /\ s.votedFor = r.votedFor /\ s.status = r.status

\* What a replica never does: take back a promise, a commit, a term or a vote.
Step(r, s) ==
    /\ s.status = r.status
    /\ r.commit <= s.commit /\ r.promise <= s.promise
    /\ \A x \in 1..r.promise : s.log[x] = r.log[x]
    /\ r.term <= s.term
    /\ r.term = s.term /\ r.votedFor # Nil => s.votedFor = r.votedFor

\* A change of nothing but bookkeeping takes nothing back.
LEMMA AlikeStep ==
    ASSUME NEW r, Typed(r), NEW s, Alike(r, s)
    PROVE  Step(r, s)
  BY DEF Typed, ReplicaState, Alike, Step

\* Two steps that take nothing back make one that does not either: handlers
\* are compositions of operators.
LEMMA StepTransitive ==
    ASSUME NEW r, Typed(r), NEW s, Typed(s), NEW t, Typed(t), Step(r, s), Step(s, t)
    PROVE  Step(r, t)
<1>1. /\ {r.commit, r.promise, r.term, s.commit, s.promise, s.term} \subseteq Nat
      /\ {t.commit, t.promise, t.term} \subseteq Nat
  BY DEF Typed, ReplicaState
<1> QED BY <1>1 DEF Step

\* Sound is ReplicaInv: the followers' set is the domain of the function.
LEMMA SoundIsInv ==
    ASSUME NEW i, NEW r
    PROVE  Sound(i, r) <=> ReplicaInv(i, r)
<1>1. Typed(r) <=> \E S \in SUBSET Replica : r \in ReplicaState(S)
  BY DEF Typed, ReplicaState
<1> QED BY <1>1 DEF Sound, ReplicaInv

\* The membership in force is a membership, and it is the newest pending one.
LEMMA CurrentType ==
    ASSUME NEW r, Typed(r), ChangesLogged(r)
    PROVE  /\ CurrentMembership(r) \in Memberships
           /\ r.uncommitted # {} => /\ Max(r.uncommitted) \in r.uncommitted
                                   /\ \A y \in r.uncommitted : Max(r.uncommitted) >= y
<1>1. /\ r.log \in Seq(Entry) /\ r.membership \in Memberships
      /\ r.uncommitted \in SUBSET Nat
  BY DEF Typed, ReplicaState, Log
<1>2. \A x \in r.uncommitted : x \in 1..Len(r.log) /\ r.log[x].mem \in Memberships
  <2> TAKE x \in r.uncommitted
  <2>1. x \in 1..Len(r.log) /\ r.log[x].mem # Nil
    BY DEF ChangesLogged, Last
  <2>2. r.log[x] \in Entry
    BY <1>1, <2>1
  <2> QED BY <2>1, <2>2 DEF Entry
<1>3. CASE r.uncommitted = {}
  BY <1>1, <1>3 DEF CurrentMembership
<1>4. CASE r.uncommitted # {}
  <2>1. Len(r.log) \in Nat /\ \A x \in r.uncommitted : x <= Len(r.log)
    BY <1>1, <1>2
  <2>2. /\ Max(r.uncommitted) \in r.uncommitted
        /\ \A y \in r.uncommitted : Max(r.uncommitted) >= y
    BY <1>1, <1>4, <2>1, MaxNat
  <2>3. r.log[Max(r.uncommitted)].mem \in Memberships
    BY <1>2, <2>2
  <2> QED BY <1>4, <2>2, <2>3 DEF CurrentMembership
<1> QED BY <1>3, <1>4

\* A step that leaves the log, the indices and the memberships alone and keeps
\* the role and the followers, or starts as a follower or as a voting candidate,
\* keeps a record sound.
LEMMA KeepsGroup ==
    ASSUME NEW i, NEW r, Sound(i, r), NEW s, Typed(s),
           s.log = r.log, s.commit = r.commit, s.promise = r.promise,
           s.membership = r.membership, s.uncommitted = r.uncommitted,
           \/ s.role = r.role /\ s.followers = r.followers
           \/ s.role = Follower /\ DOMAIN s.followers = {}
           \/ /\ s.role = Candidate /\ DOMAIN s.followers = {}
              /\ i \in CurrentMembership(r).voting
    PROVE  Sound(i, s)
<1>1. CurrentMembership(s) = CurrentMembership(r)
  BY DEF CurrentMembership
<1>2. IndicesOrdered(s)
  BY DEF Sound, IndicesOrdered, Last
<1>3. ChangesLogged(s)
  BY DEF Sound, ChangesLogged, Last
<1>4. FollowsMembers(i, s)
  BY <1>1 DEF Sound, FollowsMembers, Follower, Candidate, Leader
<1> QED BY <1>2, <1>3, <1>4 DEF Sound

\* SetRole to follower may happen at any time.
LEMMA SetRoleSound ==
    ASSUME NEW i, NEW r, Sound(i, r)
    PROVE  Sound(i, SetRole(r, Follower)) /\ Step(r, SetRole(r, Follower))
<1> DEFINE s == SetRole(r, Follower)
<1>1. Typed(s) /\ DOMAIN s.followers = {}
  BY DEF Sound, Typed, ReplicaState, SetRole, NoFollowers, Follower
<1>2. /\ s.log = r.log /\ s.commit = r.commit /\ s.promise = r.promise
      /\ s.membership = r.membership /\ s.uncommitted = r.uncommitted
      /\ s.role = Follower
  BY DEF Sound, Typed, ReplicaState, SetRole
<1>3. Step(r, s)
  BY DEF Sound, Typed, ReplicaState, SetRole, Step
<1> QED BY <1>1, <1>2, <1>3, KeepsGroup

\* AddSendableMessage changes the queue of one peer only.
LEMMA SendSound ==
    ASSUME NEW i, NEW r, Sound(i, r), NEW to \in Replica, NEW m \in Message
    PROVE  Sound(i, Send(r, to, m)) /\ Alike(r, Send(r, to, m))
<1> DEFINE q == [r.sendable EXCEPT ![to] = Append(r.sendable[to], m)]
           s == [r EXCEPT !.sendable = q]
<1>1. r.sendable \in [Replica -> Seq(Message)]
  BY DEF Sound, Typed, ReplicaState
<1>2. q \in [Replica -> Seq(Message)]
  BY <1>1
<1>3. Send(r, to, m) = s
  BY DEF Send
<1>4. Typed(s)
  <2> HIDE DEF q
  <2> QED BY <1>2 DEF Sound, Typed, ReplicaState
<1>5. /\ s.log = r.log /\ s.commit = r.commit /\ s.promise = r.promise
      /\ s.membership = r.membership /\ s.uncommitted = r.uncommitted
      /\ s.role = r.role /\ s.followers = r.followers
      /\ Alike(r, s)
  BY DEF Sound, Typed, ReplicaState, Alike
<1> QED BY <1>3, <1>4, <1>5, KeepsGroup
-----------------------------------------------------------------------------
(* Memberships.                                                             *)

\* HandleMembershipChange makes a leader follow the members in force.
LEMMA HandleMembershipChangeSound ==
    ASSUME NEW i, NEW r, Typed(r), ChangesLogged(r),
           r.role # Follower => i \in CurrentMembership(r).voting
    PROVE  /\ Grouped(i, HandleMembershipChange(i, r))
           /\ Alike(r, HandleMembershipChange(i, r))
           /\ IndicesOrdered(r) => IndicesOrdered(HandleMembershipChange(i, r))
<1>1. CASE r.role # Leader
  BY <1>1 DEF HandleMembershipChange, Grouped, FollowsMembers, Alike
<1>2. CASE r.role = Leader
  <2> DEFINE D == CurrentMembership(r).all \ {i}
             F == [p \in D |-> IF p \in DOMAIN r.followers THEN r.followers[p]
                                                           ELSE NewFollower(r, TRUE)]
             s == [r EXCEPT !.followers = F]
  <2>1. HandleMembershipChange(i, r) = s
    BY <1>2 DEF HandleMembershipChange
  <2>2. D \in SUBSET Replica
    BY CurrentType DEF Memberships
  <2>3. /\ NewFollower(r, TRUE) \in FollowerState
        /\ NewFollower(r, TRUE).promise = 0 /\ NewFollower(r, TRUE).match = 0
    BY DEF NewFollower, FollowerState, NoInflight, Typed, ReplicaState, Last, Log
  <2>4. F \in [D -> FollowerState]
    BY <2>3 DEF Typed, ReplicaState
  <2>5. Typed(s)
    <3> HIDE DEF F, D
    <3> QED BY <2>2, <2>4 DEF Typed, ReplicaState
  <2>6. /\ Alike(r, s) /\ s.followers = F
        /\ s.membership = r.membership /\ s.uncommitted = r.uncommitted
    BY DEF Typed, ReplicaState, Alike
  <2>7. IndicesOrdered(r) => IndicesOrdered(s)
    <3> HAVE IndicesOrdered(r)
    <3>1. Len(r.log) \in Nat
      BY DEF Typed, ReplicaState, Log
    <3>2. \A p \in D : F[p].promise <= F[p].match /\ F[p].match <= Len(r.log)
      <4> TAKE p \in D
      <4>1. CASE p \in DOMAIN r.followers
        <5>1. F[p] = r.followers[p]
          BY <4>1
        <5> HIDE DEF F
        <5> QED BY <1>2, <4>1, <5>1 DEF IndicesOrdered, Last
      <4>2. CASE p \notin DOMAIN r.followers
        <5>1. F[p].promise = 0 /\ F[p].match = 0
          BY <2>3, <4>2
        <5> HIDE DEF F
        <5> QED BY <3>1, <5>1
      <4> QED BY <4>1, <4>2
    <3>3. DOMAIN F = D
      OBVIOUS
    <3> HIDE DEF F, D
    <3> QED BY <2>6, <3>2, <3>3 DEF IndicesOrdered, Last, Alike
  <2>8. ChangesLogged(s)
    BY <2>6 DEF ChangesLogged, Last, Alike
  <2>9. FollowsMembers(i, s)
    <3>1. CurrentMembership(s) = CurrentMembership(r)
      BY <2>6 DEF CurrentMembership, Alike
    <3> QED BY <1>2, <2>6, <3>1 DEF FollowsMembers, Alike, Follower, Leader
  <2> QED BY <2>1, <2>5, <2>6, <2>7, <2>8, <2>9 DEF Grouped
<1> QED BY <1>1, <1>2

\* A pending change within the log is a change there; others were cancelled.
ChangesKnown(r) ==
    /\ \A x \in r.uncommitted : x >= 1 /\ (x <= Last(r) => r.log[x].mem # Nil)
    /\ r.role # Follower => ChangesLogged(r)

\* Committing or cancelling membership changes leaves the pending ones in the
\* log and a leader with the right followers.
LEMMA MaybeChangeSound ==
    ASSUME NEW i, NEW r, Typed(r), r.commit <= Last(r), ChangesKnown(r),
           r.role # Follower => FollowsMembers(i, r)
    PROVE  /\ Grouped(i, MaybeChangeUncommittedMemberships(i, r))
           /\ Alike(r, MaybeChangeUncommittedMemberships(i, r))
           /\ IndicesOrdered(r) => IndicesOrdered(MaybeChangeUncommittedMemberships(i, r))
<1> DEFINE C == {x \in r.uncommitted : x <= r.commit}
           K == {x \in r.uncommitted : x > Last(r)}
           mem == IF C = {} THEN r.membership ELSE r.log[Max(C)].mem
           U == r.uncommitted \ (C \cup K)
           s == [r EXCEPT !.membership = mem, !.uncommitted = U]
<1>1. /\ r.log \in Seq(Entry) /\ r.membership \in Memberships
      /\ r.uncommitted \in SUBSET Nat /\ r.commit \in Nat /\ r.promise \in Nat
      /\ Len(r.log) \in Nat /\ r.commit <= Len(r.log)
  BY DEF Typed, ReplicaState, Log, Last
<1>2. CASE C \cup K = {}
  <2>1. MaybeChangeUncommittedMemberships(i, r) = r
    BY <1>2 DEF MaybeChangeUncommittedMemberships
  <2>2. ChangesLogged(r)
    BY <1>1, <1>2 DEF ChangesKnown, ChangesLogged, Last
  <2>3. FollowsMembers(i, r)
    BY DEF FollowsMembers, Follower, Leader
  <2> QED BY <2>1, <2>2, <2>3 DEF Grouped, Alike
<1>3. CASE C \cup K # {}
  <2>1. MaybeChangeUncommittedMemberships(i, r) = HandleMembershipChange(i, s)
    BY <1>3 DEF MaybeChangeUncommittedMemberships
  <2>2. C # {} => Max(C) \in C /\ \A y \in C : Max(C) >= y
    BY <1>1, MaxNat
  <2>3. mem \in Memberships
    <3>1. CASE C # {}
      <4>1. Max(C) \in 1..Len(r.log) /\ r.log[Max(C)].mem # Nil
        <5>1. PICK x \in C : x = Max(C)
          BY <2>2, <3>1
        <5>2. x \in Nat /\ x >= 1 /\ x <= Len(r.log) /\ r.log[x].mem # Nil
          BY <1>1 DEF ChangesKnown, Last
        <5> QED BY <5>1, <5>2
      <4>2. r.log[Max(C)] \in Entry
        BY <1>1, <4>1
      <4> QED BY <3>1, <4>1, <4>2 DEF Entry
    <3> QED BY <1>1, <3>1
  <2>4. U \in SUBSET Nat
    BY <1>1
  <2>5. Typed(s)
    <3> HIDE DEF mem, U
    <3> QED BY <2>3, <2>4 DEF Typed, ReplicaState
  <2>6. /\ Alike(r, s) /\ s.membership = mem /\ s.uncommitted = U
        /\ s.followers = r.followers
    <3> HIDE DEF mem, U
    <3> QED BY DEF Typed, ReplicaState, Alike
  <2>7. IndicesOrdered(r) => IndicesOrdered(s)
    BY <2>6 DEF IndicesOrdered, Alike, Last
  <2>8. ChangesLogged(s)
    BY <1>1, <2>6 DEF ChangesLogged, Alike, Last, ChangesKnown
  <2>9. s.role # Follower => i \in CurrentMembership(s).voting
    <3> SUFFICES ASSUME r.role # Follower
                 PROVE  CurrentMembership(s) = CurrentMembership(r)
      BY <2>6 DEF Alike, FollowsMembers
    <3>1. ChangesLogged(r)
      BY DEF ChangesKnown
    <3>2. K = {} /\ C # {} /\ r.uncommitted # {}
      BY <1>1, <1>3, <3>1 DEF ChangesLogged, Last
    <3>3. /\ Max(r.uncommitted) \in r.uncommitted
          /\ \A y \in r.uncommitted : Max(r.uncommitted) >= y
      BY <3>1, <3>2, CurrentType
    <3>4. CASE U = {}
      <4>1. C = r.uncommitted
        BY <3>2, <3>4
      <4> QED BY <2>6, <3>2, <3>4, <4>1 DEF CurrentMembership, Alike
    <3>5. CASE U # {}
      <4>1. Max(U) \in U /\ \A y \in U : Max(U) >= y
        BY <1>1, <2>4, <3>3, <3>5, MaxNat
      <4>2. Max(r.uncommitted) \in U
        BY <1>1, <3>2, <3>3, <3>5
      <4>3. Max(U) = Max(r.uncommitted)
        <5>1. \A y \in U : Max(r.uncommitted) >= y
          BY <3>3
        <5> HIDE DEF U
        <5> QED BY <2>4, <4>2, <5>1, MaxUnique
      <4> QED BY <2>6, <3>2, <3>5, <4>3 DEF CurrentMembership, Alike
    <3> QED BY <3>4, <3>5
  <2>10. /\ Grouped(i, HandleMembershipChange(i, s)) /\ Alike(s, HandleMembershipChange(i, s))
         /\ IndicesOrdered(s) => IndicesOrdered(HandleMembershipChange(i, s))
    BY <2>5, <2>8, <2>9, HandleMembershipChangeSound
  <2> QED BY <2>1, <2>6, <2>7, <2>10 DEF Alike
<1> QED BY <1>2, <1>3

\* AddUncommittedMembership makes the change just appended the one in force.
LEMMA AddUncommittedSound ==
    ASSUME NEW i, NEW r, Sound(i, r), NEW new \in SUBSET (1..Last(r)),
           r.role # Follower => \A x \in new : \/ r.log[x].mem = Nil
                                               \/ i \in r.log[x].mem.voting
    PROVE  /\ Sound(i, AddUncommittedMemberships(i, r, new))
           /\ Alike(r, AddUncommittedMemberships(i, r, new))
<1> DEFINE A == {x \in new : r.log[x].mem # Nil}
           U == r.uncommitted \cup A
           s == [r EXCEPT !.uncommitted = U]
<1>1. CASE A = {}
  BY <1>1 DEF AddUncommittedMemberships, Alike
<1>2. CASE A # {}
  <2>1. AddUncommittedMemberships(i, r, new) = HandleMembershipChange(i, s)
    BY <1>2 DEF AddUncommittedMemberships
  <2>2. U \in SUBSET Nat /\ Last(r) \in Nat /\ \A x \in U : x <= Last(r)
    BY DEF Sound, Typed, ReplicaState, Log, Last, ChangesLogged
  <2>3. Typed(s)
    <3> HIDE DEF U
    <3> QED BY <2>2 DEF Sound, Typed, ReplicaState
  <2>4. /\ Alike(r, s) /\ s.uncommitted = U
        /\ s.followers = r.followers /\ s.membership = r.membership
    <3> HIDE DEF U
    <3> QED BY DEF Sound, Typed, ReplicaState, Alike
  <2>5. IndicesOrdered(s)
    BY <2>4 DEF Sound, IndicesOrdered, Alike, Last
  <2>6. ChangesLogged(s)
    BY <2>4 DEF Sound, ChangesLogged, Alike, Last
  <2>7. s.role # Follower => i \in CurrentMembership(s).voting
    <3> SUFFICES ASSUME r.role # Follower
                 PROVE  i \in CurrentMembership(s).voting
      BY <2>4 DEF Alike
    <3>1. Max(U) \in U /\ \A y \in U : Max(U) >= y
      BY <1>2, <2>2, MaxNat
    <3>2. CurrentMembership(s) = r.log[Max(U)].mem
      BY <1>2, <2>4 DEF CurrentMembership, Alike
    <3>3. CASE Max(U) \in A
      BY <3>2, <3>3
    <3>4. CASE Max(U) \in r.uncommitted
      <4>1. /\ Max(r.uncommitted) \in r.uncommitted
            /\ \A y \in r.uncommitted : Max(r.uncommitted) >= y
        BY <3>4, CurrentType DEF Sound
      <4>2. Max(r.uncommitted) = Max(U)
        <5>1. \A y \in r.uncommitted : Max(U) >= y
          BY <3>1
        <5>2. r.uncommitted \in SUBSET Nat
          BY <2>2
        <5> HIDE DEF U
        <5> QED BY <3>4, <5>1, <5>2, MaxUnique
      <4> QED BY <3>2, <3>4, <4>2 DEF Sound, FollowsMembers, CurrentMembership
    <3> QED BY <3>1, <3>3, <3>4
  <2>8. Sound(i, HandleMembershipChange(i, s)) /\ Alike(s, HandleMembershipChange(i, s))
    BY <2>3, <2>5, <2>6, <2>7, HandleMembershipChangeSound DEF Sound, Grouped
  <2> QED BY <2>1, <2>4, <2>8 DEF Alike
<1> QED BY <1>1, <1>2

-----------------------------------------------------------------------------
(* Elections and the leader's own appends.                                  *)

\* Sending to all members changes queues only.
LEMMA BroadcastSound ==
    ASSUME NEW i, NEW r, Sound(i, r), NEW m \in Message
    PROVE  Sound(i, Broadcast(i, r, m)) /\ Alike(r, Broadcast(i, r, m))
<1> DEFINE q == [p \in Replica |-> IF p \in CurrentMembership(r).all \ {i}
                                   THEN Append(r.sendable[p], m) ELSE r.sendable[p]]
           s == [r EXCEPT !.sendable = q]
<1>1. q \in [Replica -> Seq(Message)]
  BY DEF Sound, Typed, ReplicaState
<1>2. Broadcast(i, r, m) = s
  BY DEF Broadcast
<1> HIDE DEF q
<1>3. Typed(s)
  BY <1>1 DEF Sound, Typed, ReplicaState
<1>4. /\ s.membership = r.membership /\ s.uncommitted = r.uncommitted
      /\ s.followers = r.followers /\ Alike(r, s)
  BY DEF Sound, Typed, ReplicaState, Alike
<1> QED BY <1>2, <1>3, <1>4, KeepsGroup DEF Alike

\* The vote request of a replica is a message.
LEMMA RequestVoteMessageType ==
    ASSUME NEW r, Typed(r)
    PROVE  RequestVoteMessage(r) \in Message
  BY DEF Typed, ReplicaState, RequestVoteMessage, Message

\* SetRole keeps the shape of a record.
LEMMA SetRoleTyped ==
    ASSUME NEW r, Typed(r), NEW role \in {Follower, Candidate, Leader}
    PROVE  /\ Typed(SetRole(r, role)) /\ DOMAIN SetRole(r, role).followers = {}
           /\ SetRole(r, role).term = r.term
  BY DEF Typed, ReplicaState, SetRole, NoFollowers

\* Only a voter becomes a candidate, in a new term in which it has not voted.
LEMMA ElectionTimeoutSound ==
    ASSUME NEW i \in Replica, NEW r, Sound(i, r)
    PROVE  Sound(i, ElectionTimeout(i, r)) /\ Step(r, ElectionTimeout(i, r))
<1> DEFINE c == [SetRole(r, Candidate) EXCEPT !.term = @ + 1, !.votedFor = i, !.votes = {i}]
<1>1. CASE i \notin CurrentMembership(r).voting \/ r.role = Leader
  BY <1>1, AlikeStep DEF ElectionTimeout, Alike, Sound
<1>2. CASE ~(i \notin CurrentMembership(r).voting \/ r.role = Leader)
  <2>1. ElectionTimeout(i, r) = Broadcast(i, c, RequestVoteMessage(c))
    BY <1>2 DEF ElectionTimeout
  <2>2. Typed(c) /\ DOMAIN c.followers = {}
    <3> DEFINE b == SetRole(r, Candidate)
    <3>1. Typed(b) /\ DOMAIN b.followers = {}
      BY SetRoleTyped DEF Sound
    <3> HIDE DEF b
    <3>2. c = [b EXCEPT !.term = b.term + 1, !.votedFor = i, !.votes = {i}]
      BY DEF b
    <3> HIDE DEF c
    <3>3. c \in ReplicaState(DOMAIN b.followers) /\ c.followers = b.followers
      <4>1. b \in ReplicaState(DOMAIN b.followers) /\ b.term + 1 \in Nat
        BY <3>1 DEF Typed, ReplicaState
      <4>2. {i} \in SUBSET Replica /\ i \in Replica \cup {Nil}
        OBVIOUS
      <4> DEFINE n == b.term + 1
                 v == {i}
      <4> HIDE DEF n, v
      <4> QED BY <3>2, <4>1, <4>2 DEF ReplicaState, n, v
    <3> QED BY <3>1, <3>3 DEF Typed
  <2>3. /\ c.log = r.log /\ c.commit = r.commit /\ c.promise = r.promise
        /\ c.membership = r.membership /\ c.uncommitted = r.uncommitted
        /\ c.role = Candidate /\ c.term = r.term + 1 /\ c.status = r.status
    BY DEF Sound, Typed, ReplicaState, SetRole
  <2>4. Sound(i, c)
    BY <1>2, <2>2, <2>3, KeepsGroup
  <2>5. Step(r, c)
    BY <2>3 DEF Sound, Typed, ReplicaState, Step
  <2> HIDE DEF c
  <2>6. Sound(i, ElectionTimeout(i, r)) /\ Step(c, ElectionTimeout(i, r))
    BY <2>1, <2>2, <2>4, RequestVoteMessageType, BroadcastSound, AlikeStep
  <2> QED BY <2>4, <2>5, <2>6, StepTransitive DEF Sound
<1> QED BY <1>1, <1>2

\* What Log::Append may drop lies below the entry applied last.
LEMMA TruncatedType ==
    ASSUME NEW r, Typed(r), NEW sp \in [trunc : Nat, room : Nat]
    PROVE  Truncated(r, sp) \in Nat
  BY DEF Typed, ReplicaState, Truncated, Smaller, Larger

Extended(r, n, new) == [r EXCEPT !.first = n, !.log = r.log \o new]

\* Entries at the end of the log disturb nothing before them.
LEMMA AppendSound ==
    ASSUME NEW i, NEW r, Sound(i, r), NEW n \in Nat, NEW new \in Seq(Entry)
    PROVE  /\ Sound(i, Extended(r, n, new)) /\ Step(r, Extended(r, n, new))
           /\ Extended(r, n, new).log = r.log \o new
           /\ Last(Extended(r, n, new)) = Last(r) + Len(new)
           /\ Extended(r, n, new).role = r.role
           /\ Extended(r, n, new).commit = r.commit
           /\ Extended(r, n, new).promise = r.promise
           /\ Extended(r, n, new).term = r.term
<1> DEFINE l == r.log \o new
           s == [r EXCEPT !.first = n, !.log = l]
<1>1. /\ r.log \in Seq(Entry) /\ r.commit \in Nat /\ r.promise \in Nat /\ r.term \in Nat
      /\ r.uncommitted \in SUBSET Nat /\ Len(r.log) \in Nat
      /\ r.followers \in [DOMAIN r.followers -> FollowerState]
  BY DEF Sound, Typed, ReplicaState, Log
<1>2. /\ l \in Seq(Entry) /\ Len(l) = Len(r.log) + Len(new) /\ Len(new) \in Nat
      /\ \A x \in 1..Len(r.log) : l[x] = r.log[x]
  BY <1>1
<1> HIDE DEF l
<1>3. Typed(s)
  BY <1>2 DEF Sound, Typed, ReplicaState, Log
<1>4. /\ s.log = l /\ s.commit = r.commit /\ s.promise = r.promise /\ s.role = r.role
      /\ s.membership = r.membership /\ s.uncommitted = r.uncommitted
      /\ s.followers = r.followers /\ s.status = r.status
      /\ s.term = r.term /\ s.votedFor = r.votedFor
  BY DEF Sound, Typed, ReplicaState
<1> HIDE DEF s
<1>5. IndicesOrdered(s)
  BY <1>1, <1>2, <1>4 DEF Sound, IndicesOrdered, Last, FollowerState
<1>6. ChangesLogged(s)
  BY <1>1, <1>2, <1>4 DEF Sound, ChangesLogged, Last
<1>7. CurrentMembership(s) = CurrentMembership(r)
  <2>1. CASE r.uncommitted = {}
    BY <1>4, <2>1 DEF CurrentMembership
  <2>2. CASE r.uncommitted # {}
    <3>1. Max(r.uncommitted) \in 1..Len(r.log)
      BY <2>2, CurrentType DEF Sound, ChangesLogged, Last
    <3> QED BY <1>2, <1>4, <2>2, <3>1 DEF CurrentMembership
  <2> QED BY <2>1, <2>2
<1>8. FollowsMembers(i, s)
  BY <1>4, <1>7 DEF Sound, FollowsMembers
<1>9. Step(r, s)
  <2>1. r.promise <= Len(r.log)
    BY DEF Sound, IndicesOrdered, Last
  <2> QED BY <1>1, <1>2, <1>4, <2>1 DEF Step
<1>10. Extended(r, n, new) = s
  BY DEF Extended, s, l
<1> QED BY <1>2, <1>3, <1>4, <1>5, <1>6, <1>8, <1>9, <1>10 DEF Sound, Last, l

\* Appending a request of its own, a membership change that keeps the leader
\* voting included, keeps a leader's record sound.
LEMMA ClientRequestSound ==
    ASSUME NEW i, NEW r, Sound(i, r), NEW mem \in Memberships \cup {Nil},
           mem = Nil \/ i \in mem.voting, NEW sp \in [trunc : Nat, room : Nat]
    PROVE  /\ Sound(i, ClientRequestInternal(i, r, mem, sp))
           /\ Step(r, ClientRequestInternal(i, r, mem, sp))
<1> DEFINE e == [term |-> r.term, mem |-> mem]
           n == Truncated(r, sp)
           t == [r EXCEPT !.first = n]
           s == [t EXCEPT !.log = Append(@, e)]
<1>1. n \in Nat /\ e \in Entry /\ r.log \in Seq(Entry) /\ Len(r.log) \in Nat
  <2>1. n \in Nat
    BY TruncatedType DEF Sound
  <2>2. r.term \in Nat /\ r.log \in Seq(Entry)
    BY DEF Sound, Typed, ReplicaState, Log
  <2>3. e \in Entry
    BY <2>2 DEF Entry
  <2> QED BY <2>1, <2>2, <2>3
<1>2. CASE r.role # Leader \/ r.relinquishing
  BY <1>2, AlikeStep DEF ClientRequestInternal, Sound, Alike
<1>3. CASE ~(r.role # Leader \/ r.relinquishing)
  <2>1. Sound(i, t) /\ Step(r, t)
    <3>1. r.log \o <<>> = r.log /\ <<>> \in Seq(Entry)
      BY <1>1
    <3>2. t = [r EXCEPT !.first = n, !.log = r.log]
      BY DEF Sound, Typed, ReplicaState
    <3>3. t = Extended(r, n, <<>>)
      BY <3>1, <3>2 DEF Extended
    <3> HIDE DEF t, n
    <3> QED BY <1>1, <3>1, <3>3, AppendSound
  <2>2. CASE Room(r, sp, 1) = 0
    BY <1>3, <2>1, <2>2 DEF ClientRequestInternal
  <2>3. CASE Room(r, sp, 1) # 0
    <3>1. ClientRequestInternal(i, r, mem, sp)
            = AddUncommittedMemberships(i, s, {Last(r) + 1})
      BY <1>3, <2>3 DEF ClientRequestInternal
    <3>2. /\ Sound(i, s) /\ Step(r, s) /\ Last(s) = Last(r) + 1 /\ s.log = r.log \o <<e>>
      <4>1. s = Extended(r, n, <<e>>)
        <5>1. Append(r.log, e) = r.log \o <<e>>
          BY <1>1
        <5>2. t.log = r.log
          BY DEF Sound, Typed, ReplicaState
        <5>3. s = [t EXCEPT !.log = r.log \o <<e>>]
          BY <5>1, <5>2
        <5> DEFINE l == r.log \o <<e>>
        <5> HIDE DEF l
        <5>4. [t EXCEPT !.log = l] = [r EXCEPT !.first = n, !.log = l]
          BY DEF Sound, Typed, ReplicaState
        <5> QED BY <5>3, <5>4 DEF l, Extended
      <4>2. <<e>> \in Seq(Entry) /\ Len(<<e>>) = 1
        BY <1>1
      <4> DEFINE new == <<e>>
      <4> HIDE DEF s, e, n, new
      <4>3. Sound(i, s) /\ Step(r, s) /\ Last(s) = Last(r) + Len(new) /\ s.log = r.log \o new
        <5>1. s = Extended(r, n, new) /\ new \in Seq(Entry)
          BY <4>1, <4>2 DEF new
        <5>2. Sound(i, s) /\ Step(r, s)
          BY <1>1, <5>1, AppendSound
        <5>3. s.log = r.log \o new
          BY <5>1 DEF Extended, Sound, Typed, ReplicaState
        <5>4. Last(s) = Last(r) + Len(new)
          BY <1>1, <5>1, AppendSound
        <5> QED BY <5>2, <5>3, <5>4
      <4> QED BY <4>2, <4>3 DEF new
    <3>3. s.log[Last(r) + 1].mem = mem
      BY <1>1, <3>2 DEF Last
    <3>4. {Last(r) + 1} \in SUBSET (1..Last(s))
      BY <1>1, <3>2 DEF Last
    <3> HIDE DEF s
    <3>5. /\ Sound(i, AddUncommittedMemberships(i, s, {Last(r) + 1}))
          /\ Alike(s, AddUncommittedMemberships(i, s, {Last(r) + 1}))
      BY <3>2, <3>3, <3>4, AddUncommittedSound
    <3> QED BY <3>1, <3>2, <3>5, AlikeStep, StepTransitive DEF Sound
  <2> QED BY <2>2, <2>3
<1> QED BY <1>2, <1>3

\* A candidate with a quorum becomes a leader that follows all other members.
LEMMA MaybeBecomeLeaderSound ==
    ASSUME NEW i, NEW r, Sound(i, r), NEW sp \in [trunc : Nat, room : Nat]
    PROVE  Sound(i, MaybeBecomeLeader(i, r, sp)) /\ Step(r, MaybeBecomeLeader(i, r, sp))
<1> DEFINE D == CurrentMembership(r).all \ {i}
           F == [p \in D |-> NewFollower(r, FALSE)]
           s == [SetRole(r, Leader) EXCEPT !.followers = F]
<1>1. CASE r.role # Candidate \/ Cardinality(r.votes) < MembershipQuorumSize(r)
  BY <1>1, AlikeStep DEF MaybeBecomeLeader, Sound, Alike
<1>2. CASE ~(r.role # Candidate \/ Cardinality(r.votes) < MembershipQuorumSize(r))
  <2>1. MaybeBecomeLeader(i, r, sp) = ClientRequestInternal(i, s, Nil, sp)
    BY <1>2 DEF MaybeBecomeLeader
  <2>2. D \in SUBSET Replica
    BY CurrentType DEF Memberships, Sound
  <2>3. /\ NewFollower(r, FALSE) \in FollowerState
        /\ NewFollower(r, FALSE).promise = 0 /\ NewFollower(r, FALSE).match = 0
    BY DEF NewFollower, FollowerState, NoInflight, Sound, Typed, ReplicaState, Last, Log
  <2>4. F \in [D -> FollowerState]
    BY <2>3
  <2>5. Typed(s)
    <3> HIDE DEF F, D
    <3> QED BY <2>2, <2>4 DEF Sound, Typed, ReplicaState, SetRole, Leader
  <2>6. /\ s.followers = F /\ s.log = r.log /\ s.commit = r.commit /\ s.promise = r.promise
        /\ s.membership = r.membership /\ s.uncommitted = r.uncommitted
        /\ s.role = Leader /\ s.term = r.term /\ s.votedFor = r.votedFor
        /\ s.status = r.status
    <3> HIDE DEF F
    <3> QED BY DEF Sound, Typed, ReplicaState, SetRole
  <2>7. IndicesOrdered(s)
    <3>1. Len(r.log) \in Nat
      BY DEF Sound, Typed, ReplicaState, Log
    <3>2. \A p \in D : F[p].promise = 0 /\ F[p].match = 0
      BY <2>3
    <3>3. DOMAIN F = D
      OBVIOUS
    <3> HIDE DEF F, D
    <3> QED BY <2>6, <3>1, <3>2, <3>3 DEF Sound, IndicesOrdered, Last
  <2>8. ChangesLogged(s)
    BY <2>6 DEF Sound, ChangesLogged, Last
  <2>9. FollowsMembers(i, s)
    <3>1. CurrentMembership(s) = CurrentMembership(r)
      BY <2>6 DEF CurrentMembership
    <3>2. i \in CurrentMembership(r).voting
      BY <1>2 DEF Sound, FollowsMembers, Follower, Candidate
    <3> QED BY <2>6, <3>1, <3>2 DEF FollowsMembers
  <2>10. Step(r, s)
    BY <2>6 DEF Step, Sound, Typed, ReplicaState
  <2> HIDE DEF s
  <2>11. Sound(i, ClientRequestInternal(i, s, Nil, sp)) /\ Step(s, ClientRequestInternal(i, s, Nil, sp))
    BY <2>5, <2>7, <2>8, <2>9, ClientRequestSound DEF Sound
  <2> QED BY <2>1, <2>5, <2>10, <2>11, StepTransitive DEF Sound
<1> QED BY <1>1, <1>2
=============================================================================
