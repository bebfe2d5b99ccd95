--------------------------- MODULE RaftReceiving ----------------------------
(***************************************************************************)
(* What the operators of module Raft do to the record of one replica, part 3: *)
(* received messages.                                                      *)
(***************************************************************************)
EXTENDS RaftLeading

-----------------------------------------------------------------------------
(* Receiving: terms, votes and answers.                                     *)

\* The fields of a message by its type.
LEMMA MessageFields ==
    ASSUME NEW m \in Message
    PROVE  /\ m.term \in Nat
           /\ m.type \in {"VoteRequest", "VoteResponse", "AppendRequest",
                          "AppendResponse", "TimeoutNow"}
           /\ m.type = "VoteRequest" => m.chain \in Log
           /\ m.type = "VoteResponse" => m.granted \in BOOLEAN
           /\ m.type = "AppendRequest" =>
                /\ m.prev \in Log /\ m.entries \in Log
                /\ m.commit \in Nat /\ m.promise \in Nat
           /\ m.type = "AppendResponse" =>
                /\ m.success \in BOOLEAN /\ m.match \in Log
                /\ m.promise \in Nat /\ m.last \in Nat
                /\ m.success => m.promise <= Len(m.match)
  BY DEF Message

\* A message of a later term makes a follower without a vote in that term.
LEMMA UpdateTermSound ==
    ASSUME NEW i, NEW r, Sound(i, r), NEW m, m.term \in Nat
    PROVE  /\ Sound(i, UpdateTerm(r, m)) /\ Step(r, UpdateTerm(r, m))
           /\ m.term <= UpdateTerm(r, m).term /\ UpdateTerm(r, m).log = r.log
           /\ UpdateTerm(r, m).term = r.term \/ UpdateTerm(r, m).role = Follower
<1> DEFINE b == SetRole(r, Follower)
           s == [b EXCEPT !.term = m.term, !.votedFor = Nil]
<1>1. r.term \in Nat
  BY DEF Sound, Typed, ReplicaState
<1>2. CASE m.term <= r.term
  BY <1>2, AlikeStep DEF UpdateTerm, Sound, Alike
<1>3. CASE ~(m.term <= r.term)
  <2>1. UpdateTerm(r, m) = s
    BY <1>3 DEF UpdateTerm
  <2>2. Sound(i, b) /\ b.role = Follower /\ DOMAIN b.followers = {}
    <3>1. Typed(b) /\ DOMAIN b.followers = {}
      BY SetRoleTyped DEF Sound
    <3>2. b.role = Follower
      BY DEF SetRole, Sound, Typed, ReplicaState
    <3> QED BY <3>1, <3>2, SetRoleSound
  <2>3. /\ b.log = r.log /\ b.commit = r.commit /\ b.promise = r.promise
        /\ b.status = r.status /\ b.term = r.term
    BY DEF SetRole, Sound, Typed, ReplicaState
  <2> HIDE DEF b
  <2>4. Typed(s) /\ s.followers = b.followers
    BY <2>2 DEF Sound, Typed, ReplicaState
  <2>5. /\ s.log = b.log /\ s.commit = b.commit /\ s.promise = b.promise
        /\ s.membership = b.membership /\ s.uncommitted = b.uncommitted
        /\ s.role = b.role /\ s.status = b.status /\ s.term = m.term
    BY <2>2 DEF Sound, Typed, ReplicaState
  <2> HIDE DEF s
  <2>6. Sound(i, s)
    BY <2>2, <2>4, <2>5, KeepsGroup
  <2>7. Step(r, s)
    BY <1>1, <1>3, <2>3, <2>5 DEF Step, Sound, Typed, ReplicaState
  <2> QED BY <1>1, <1>3, <2>1, <2>2, <2>3, <2>5, <2>6, <2>7
<1> QED BY <1>2, <1>3

\* A vote is given only where none was given in the term.
LEMMA HandleVoteRequestSound ==
    ASSUME NEW i, NEW r, Sound(i, r), NEW j \in Replica, NEW m
    PROVE  Sound(i, HandleVoteRequest(r, j, m)) /\ Step(r, HandleVoteRequest(r, j, m))
<1> DEFINE myTerm == TermAt(r, Last(r))
           logOk  == \/ ChainTerm(m.chain) > myTerm
                     \/ ChainTerm(m.chain) = myTerm /\ Len(m.chain) >= Last(r)
           grant  == m.term = r.term /\ logOk /\ r.votedFor \in {Nil, j}
           v == IF grant THEN j ELSE r.votedFor
           s == [r EXCEPT !.votedFor = v]
           a == [type |-> "VoteResponse", term |-> r.term, granted |-> grant]
<1>1. HandleVoteRequest(r, j, m) = Send(s, j, a)
  BY DEF HandleVoteRequest
<1>2. /\ grant \in BOOLEAN
      /\ grant => r.votedFor \in {Nil, j}
  OBVIOUS
<1> HIDE DEF grant
<1>3. a \in Message
  <2>1. r.term \in Nat
    BY DEF Sound, Typed, ReplicaState
  <2> QED BY <1>2, <2>1 DEF Message
<1>4. v \in Replica \cup {Nil}
  BY DEF Sound, Typed, ReplicaState
<1>5. r.votedFor # Nil => v = r.votedFor
  BY <1>2
<1> HIDE DEF v, a
<1>6. Typed(s)
  BY <1>4 DEF Sound, Typed, ReplicaState
<1>7. /\ s.log = r.log /\ s.commit = r.commit /\ s.promise = r.promise
      /\ s.membership = r.membership /\ s.uncommitted = r.uncommitted
      /\ s.role = r.role /\ s.followers = r.followers /\ s.status = r.status
      /\ s.term = r.term /\ s.votedFor = v
  BY DEF Sound, Typed, ReplicaState
<1> HIDE DEF s
<1>8. Sound(i, s)
  BY <1>6, <1>7, KeepsGroup
<1>9. Step(r, s)
  BY <1>5, <1>7 DEF Step, Sound, Typed, ReplicaState
<1>10. Sound(i, Send(s, j, a)) /\ Step(s, Send(s, j, a))
  BY <1>3, <1>8, SendSound, AlikeStep DEF Sound
<1> QED BY <1>1, <1>8, <1>9, <1>10, StepTransitive DEF Sound

\* A vote received is counted and nothing else.
LEMMA HandleVoteResponseSound ==
    ASSUME NEW i, NEW r, Sound(i, r), NEW j \in Replica, NEW m
    PROVE  Sound(i, HandleVoteResponse(r, j, m)) /\ Step(r, HandleVoteResponse(r, j, m))
<1> DEFINE V == r.votes \cup {j}
           s == [r EXCEPT !.votes = V]
<1>1. V \in SUBSET Replica
  BY DEF Sound, Typed, ReplicaState
<1> HIDE DEF V
<1>2. Typed(s)
  BY <1>1 DEF Sound, Typed, ReplicaState
<1>3. /\ s.membership = r.membership /\ s.uncommitted = r.uncommitted
      /\ s.followers = r.followers /\ Alike(r, s)
  BY DEF Sound, Typed, ReplicaState, Alike
<1>4. HandleVoteResponse(r, j, m) \in {r, s}
  BY DEF HandleVoteResponse, V
<1> HIDE DEF s
<1>5. Sound(i, s) /\ Step(r, s)
  BY <1>2, <1>3, KeepsGroup, AlikeStep DEF Alike, Sound
<1>6. Step(r, r)
  BY AlikeStep DEF Alike, Sound
<1> QED BY <1>4, <1>5, <1>6

\* The leader never backs up below index 1.
LEMMA BackUpType ==
    ASSUME NEW r, NEW f \in FollowerState, NEW m, m.match \in Log, m.last \in Nat
    PROVE  BackUp(r, f, m) \in Nat \ {0}
<1> DEFINE match == Len(m.match)
           from == Larger(match + 1, Smaller(f.next - 1, m.last + 1))
           N == {n \in (match + 1)..from :
                   Cardinality({x \in (n + 1)..from : Stored(r, x)}) <= Chunk}
<1>1. match \in Nat /\ f.next \in Nat \ {0}
  BY DEF Log, FollowerState
<1>2. from \in Nat /\ from >= match + 1
  BY <1>1 DEF Larger, Smaller
<1>3. BackUp(r, f, m) = Min(N)
  BY DEF BackUp
<1> HIDE DEF match, from
<1>4. from \in N
  <2>1. {x \in (from + 1)..from : Stored(r, x)} = {}
    BY <1>2
  <2>2. Cardinality({}) <= Chunk
    BY FS_EmptySet, ChunkAssumption
  <2> QED BY <1>1, <1>2, <2>1, <2>2
<1>5. N \in SUBSET Nat /\ \A n \in N : n >= 1
  BY <1>1, <1>2
<1> HIDE DEF N
<1>6. Min(N) \in N
  BY <1>4, <1>5, MinNat
<1>7. Min(N) \in Nat /\ Min(N) >= 1
  BY <1>5, <1>6
<1> QED BY <1>3, <1>7

\* What a follower acknowledges stays within the leader's log, and a promise
\* within what is stored.
LEMMA HandleAppendResponseSound ==
    ASSUME NEW i, NEW r, Sound(i, r), NEW j, NEW m \in Message, m.type = "AppendResponse",
           Len(m.match) <= Last(r)
    PROVE  Sound(i, HandleAppendResponse(r, j, m)) /\ Step(r, HandleAppendResponse(r, j, m))
<1> DEFINE f == r.followers[j]
           n == Len(m.match)
           inflight == IF n >= f.inflight THEN NoInflight ELSE f.inflight
           next == Larger(f.next, n + 1)
           match == Larger(f.match, n)
           promise == Larger(f.promise, m.promise)
           ok == [f EXCEPT !.inflight = inflight, !.next = next, !.match = match,
                           !.promise = promise, !.probe = FALSE]
           ko == [f EXCEPT !.next = BackUp(r, f, m),
                           !.probe = TRUE,
                           !.inflight = NoInflight]
           g == IF m.success THEN ok ELSE ko
           F == [r.followers EXCEPT ![j] = g]
<1>1. CASE m.term # r.term \/ r.role # Leader \/ j \notin DOMAIN r.followers
  BY <1>1, AlikeStep DEF HandleAppendResponse, Sound, Alike
<1>2. CASE ~(m.term # r.term \/ r.role # Leader \/ j \notin DOMAIN r.followers)
  <2>1. HandleAppendResponse(r, j, m) = [r EXCEPT !.followers[j] = g]
    BY <1>2 DEF HandleAppendResponse, inflight, next, match, promise
  <2>2. /\ r.followers \in [DOMAIN r.followers -> FollowerState]
        /\ f \in FollowerState /\ f.promise <= f.match /\ f.match <= Last(r)
        /\ Last(r) \in Nat
    BY <1>2 DEF Sound, Typed, ReplicaState, IndicesOrdered, Last, Log
  <2>3. /\ m.success \in BOOLEAN /\ m.match \in Log /\ m.promise \in Nat /\ m.last \in Nat
        /\ m.success => m.promise <= n
        /\ n \in Nat
    BY MessageFields DEF Log
  <2>4. BackUp(r, f, m) \in Nat \ {0}
    BY <2>2, <2>3, BackUpType
  <2>5. f.promise \in Nat /\ f.match \in Nat /\ n <= Last(r)
    BY <2>2 DEF FollowerState
  <2> HIDE DEF n, f
  <2>6. /\ inflight \in Nat \cup {NoInflight} /\ next \in Nat \ {0}
        /\ match \in Nat /\ match <= Last(r) /\ promise \in Nat
        /\ m.success => promise <= match
    BY <2>2, <2>3, <2>5 DEF FollowerState, Larger, NoInflight
  <2> HIDE DEF inflight, next, match, promise
  <2>7. g \in FollowerState /\ g.promise <= g.match /\ g.match <= Last(r)
    <3>1. CASE m.success
      <4>1. ok \in FollowerState /\ ok.promise = promise /\ ok.match = match
        BY <2>2, <2>6 DEF FollowerState
      <4> HIDE DEF ok
      <4> QED BY <2>6, <3>1, <4>1
    <3>2. CASE ~m.success
      <4>1. ko \in FollowerState /\ ko.promise = f.promise /\ ko.match = f.match
        BY <2>2, <2>4 DEF FollowerState, NoInflight
      <4> HIDE DEF ko
      <4> QED BY <2>2, <3>2, <4>1
    <3> QED BY <3>1, <3>2
  <2> HIDE DEF g
  <2>8. F \in [DOMAIN r.followers -> FollowerState]
    BY <2>2, <2>7
  <2>9. \A p \in DOMAIN r.followers : F[p].promise <= F[p].match /\ F[p].match <= Last(r)
    BY <1>2, <2>2, <2>7 DEF Sound, IndicesOrdered
  <2>10. HandleAppendResponse(r, j, m) = WithFollowers(r, F)
    BY <2>1 DEF WithFollowers
  <2> HIDE DEF F
  <2>11. Sound(i, WithFollowers(r, F)) /\ Alike(r, WithFollowers(r, F))
    BY <2>8, <2>9, FollowersSound
  <2> QED BY <2>10, <2>11, AlikeStep DEF Sound
<1> QED BY <1>1, <1>2

-----------------------------------------------------------------------------
(* Receiving an append request.                                             *)

\* A conflict is with an entry that is stored.
LEMMA FirstConflictIs ==
    ASSUME NEW r, Typed(r), NEW m, m.prev \in Log, m.entries \in Log
    PROVE  /\ FirstConflict(r, m) \in 1..(Len(m.entries) + 1)
           /\ FirstConflict(r, m) <= Len(m.entries) =>
                Len(m.prev) + FirstConflict(r, m) <= Last(r)
<1> DEFINE n == Len(m.entries)
           differ == {k \in 1..n : TermAt(r, Len(m.prev) + k) \notin {0, m.entries[k].term}}
<1>1. n \in Nat /\ Len(m.prev) \in Nat /\ Last(r) \in Nat
  BY DEF Log, Typed, ReplicaState, Last
<1>2. CASE differ = {}
  <2>1. FirstConflict(r, m) = n + 1
    BY <1>2 DEF FirstConflict
  <2> HIDE DEF differ
  <2> DEFINE c == FirstConflict(r, m)
  <2> HIDE DEF c, n
  <2>2. c \in 1..(n + 1) /\ ~(c <= n)
    BY <1>1, <2>1 DEF c
  <2> QED BY <2>2 DEF c, n
<1>3. CASE differ # {}
  <2>1. FirstConflict(r, m) = Min(differ)
    BY <1>3 DEF FirstConflict
  <2>2. \A k \in differ : k \in 1..n /\ Len(m.prev) + k <= Last(r)
    BY DEF TermAt, Stored, Last
  <2>3. differ \in SUBSET Nat
    BY <1>1
  <2> HIDE DEF differ
  <2>4. Min(differ) \in differ
    BY <1>3, <2>3, MinNat
  <2> QED BY <1>1, <2>1, <2>2, <2>4
<1> QED BY <1>2, <1>3

\* A follower may cut its log anywhere above its promise.
LEMMA CancelFromSound ==
    ASSUME NEW i, NEW r, Sound(i, r), r.role = Follower,
           NEW idx \in Nat \ {0}, r.promise < idx, idx <= Last(r)
    PROVE  /\ Sound(i, MaybeChangeUncommittedMemberships(i, CancelFrom(r, idx)))
           /\ Step(r, MaybeChangeUncommittedMemberships(i, CancelFrom(r, idx)))
           /\ Last(MaybeChangeUncommittedMemberships(i, CancelFrom(r, idx))) = idx - 1
           /\ MaybeChangeUncommittedMemberships(i, CancelFrom(r, idx)).role = Follower
<1> DEFINE n == idx - 1
           l == SubSeq(r.log, 1, n)
           t == CancelFrom(r, idx)
           s == MaybeChangeUncommittedMemberships(i, t)
<1>0. n \in Nat /\ r.promise <= n /\ n <= Last(r) /\ Last(r) \in Nat /\ r.promise \in Nat
  BY DEF Sound, Typed, ReplicaState, Last, Log
<1>1. /\ l \in Log /\ Len(l) = n /\ \A x \in 1..n : l[x] = r.log[x]
  <2> HIDE DEF n
  <2>1. r.log \in Log /\ n <= Len(r.log)
    BY <1>0 DEF Sound, Typed, ReplicaState, Last
  <2>2. /\ l \in Log
        /\ Len(l) = IF 1 <= n THEN n - 1 + 1 ELSE 0
        /\ \A x \in 1..(n - 1 + 1) : l[x] = r.log[1 + x - 1]
    BY <1>0, <2>1, StretchOfLog
  <2>3. \A x \in 1..n : 1 + x - 1 = x
    BY <1>0
  <2> HIDE DEF l
  <2> QED BY <1>0, <2>2, <2>3
<1>2. t = [r EXCEPT !.log = l]
  BY DEF CancelFrom
<1> HIDE DEF l, t, n
<1>3. Typed(t)
  BY <1>1, <1>2 DEF Sound, Typed, ReplicaState
<1>4. /\ t.log = l /\ t.commit = r.commit /\ t.promise = r.promise /\ t.role = Follower
      /\ t.uncommitted = r.uncommitted /\ t.status = r.status
      /\ t.term = r.term /\ t.votedFor = r.votedFor
  BY <1>2 DEF Sound, Typed, ReplicaState
<1>5. /\ r.commit \in Nat /\ r.promise \in Nat /\ r.uncommitted \in SUBSET Nat
      /\ Last(r) = Len(r.log) /\ Last(t) = n
  BY <1>1, <1>4 DEF Sound, Typed, ReplicaState, Last
<1>6. ChangesKnown(t)
  BY <1>1, <1>4, <1>5 DEF Sound, ChangesKnown, ChangesLogged
<1>7. IndicesOrdered(t)
  BY <1>0, <1>4, <1>5 DEF Sound, IndicesOrdered, Follower, Leader
<1>8. Step(r, t)
  BY <1>0, <1>1, <1>4, <1>5 DEF Step, Sound, Typed, ReplicaState
<1>9. Sound(i, s) /\ Alike(t, s)
  <2>1. t.commit <= Last(t)
    BY <1>0, <1>4, <1>5 DEF Sound, IndicesOrdered
  <2> QED BY <1>3, <1>4, <1>6, <1>7, <2>1, MaybeChangeSound DEF Sound, Grouped
<1> HIDE DEF s
<1>10. Step(r, s)
  BY <1>3, <1>8, <1>9, AlikeStep, StepTransitive DEF Sound
<1> QED BY <1>4, <1>5, <1>9, <1>10 DEF s, t, n, Alike, Last

\* Cancelling conflicting entries spares every promised one and forgets the
\* membership changes it cancels.
LEMMA CancelConflictsSound ==
    ASSUME NEW i, NEW r, Sound(i, r), r.role = Follower,
           NEW m, m.prev \in Log, m.entries \in Log, Len(m.prev) <= Last(r),
           FirstConflict(r, m) <= Len(m.entries) =>
             r.promise < Len(m.prev) + FirstConflict(r, m)
    PROVE  /\ Sound(i, CancelConflicts(i, r, m)) /\ Step(r, CancelConflicts(i, r, m))
           /\ CancelConflicts(i, r, m).role = Follower
           /\ Len(m.prev) <= Last(CancelConflicts(i, r, m))
<1> DEFINE k == FirstConflict(r, m)
           idx == Len(m.prev) + k
<1>1. CASE k > Len(m.entries)
  BY <1>1, AlikeStep DEF CancelConflicts, Sound, Alike
<1>2. CASE ~(k > Len(m.entries))
  <2>1. /\ k \in Nat \ {0} /\ Len(m.prev) \in Nat /\ Len(m.entries) \in Nat
        /\ k <= Len(m.entries) /\ Len(m.prev) + k <= Last(r)
        /\ r.promise \in Nat /\ Last(r) \in Nat
    <3>1. /\ k \in 1..(Len(m.entries) + 1)
          /\ k <= Len(m.entries) => Len(m.prev) + k <= Last(r)
      BY FirstConflictIs DEF Sound
    <3>2. /\ Len(m.prev) \in Nat /\ Len(m.entries) \in Nat
          /\ r.promise \in Nat /\ Last(r) \in Nat
      BY DEF Log, Sound, Typed, ReplicaState, Last
    <3> HIDE DEF k
    <3> QED BY <1>2, <3>1, <3>2
  <2>2. CancelConflicts(i, r, m) = MaybeChangeUncommittedMemberships(i, CancelFrom(r, idx))
    BY <1>2 DEF CancelConflicts
  <2> HIDE DEF k
  <2>3. /\ idx \in Nat \ {0} /\ r.promise < idx /\ idx <= Last(r)
        /\ Len(m.prev) <= idx - 1
    BY <2>1 DEF k
  <2> HIDE DEF idx
  <2> QED BY <2>2, <2>3, CancelFromSound
<1> QED BY <1>1, <1>2

\* Appending received entries makes their membership changes pending.
LEMMA AppendNewEntriesSound ==
    ASSUME NEW i, NEW r, Sound(i, r), r.role = Follower,
           NEW m, m.prev \in Log, m.entries \in Log, Len(m.prev) <= Last(r),
           NEW sp \in [trunc : Nat, room : Nat]
    PROVE  LET e == AppendNewEntries(i, r, m, sp)
           IN /\ Sound(i, e.r) /\ Step(r, e.r) /\ e.r.role = Follower
              /\ e.processed \in Nat /\ e.processed <= Last(e.r)
<1> DEFINE have  == Last(r) - Len(m.prev)
           n     == Len(m.entries)
           fits  == r.log = m.prev \o SubSeq(m.entries, 1, have)
           count == IF fits THEN Room(r, sp, n - have) ELSE 0
           first == IF fits THEN Truncated(r, sp) ELSE r.first
           new   == SubSeq(m.entries, have + 1, have + count)
           t     == [r EXCEPT !.first = first, !.log = r.log \o new]
           s     == AddUncommittedMemberships(i, t, (Last(r) + 1)..Last(t))
<1>1. /\ have \in Nat /\ n \in Nat /\ Len(m.prev) \in Nat /\ Last(r) \in Nat
      /\ r.first \in Nat /\ r.commit \in Nat
  BY DEF Log, Sound, Typed, ReplicaState, Last
<1>2. CASE have >= n
  <2>1. AppendNewEntries(i, r, m, sp) = [r |-> r, processed |-> Len(m.prev) + n]
    BY <1>2 DEF AppendNewEntries
  <2>2. Step(r, r)
    BY AlikeStep DEF Alike, Sound
  <2> DEFINE l == Len(m.prev)
             top == l + n
  <2>3. have = Last(r) - l
    OBVIOUS
  <2>4. AppendNewEntries(i, r, m, sp) = [r |-> r, processed |-> top]
    BY <2>1
  <2> HIDE DEF l, n, have, fits, count, first, new, t, s
  <2>5. top \in Nat /\ top <= Last(r)
    BY <1>1, <1>2, <2>3 DEF l
  <2> HIDE DEF top
  <2> QED BY <2>2, <2>4, <2>5
<1>3. CASE ~(have >= n)
  <2>1. AppendNewEntries(i, r, m, sp) = [r |-> s, processed |-> Last(t)]
    BY <1>3 DEF AppendNewEntries
  <2>2. first \in Nat
    BY <1>1, TruncatedType DEF Sound
  <2>3. count \in Nat /\ have + count <= n
    <3> HIDE DEF fits, have, n
    <3> QED BY <1>1, <1>3 DEF Room, Smaller
  <2> HIDE DEF fits, have, n, count, first
  <2>4. new \in Seq(Entry)
    <3>1. have + 1 \in Nat \ {0} /\ have + count \in Nat /\ have + count <= Len(m.entries)
      BY <1>1, <2>3 DEF n
    <3>2. new \in Log
      BY <3>1, StretchOfLog
    <3> QED BY <3>2 DEF Log
  <2> HIDE DEF new
  <2>5. t = Extended(r, first, new)
    BY DEF Extended
  <2> HIDE DEF t
  <2>6. /\ Sound(i, t) /\ Step(r, t) /\ Last(t) = Last(r) + Len(new) /\ t.role = Follower
    BY <2>2, <2>4, <2>5, AppendSound
  <2>7. Len(new) \in Nat /\ Last(t) \in Nat
    BY <1>1, <2>4, <2>6
  <2>8. (Last(r) + 1)..Last(t) \in SUBSET (1..Last(t))
    BY <1>1, <2>7
  <2>9. Sound(i, s) /\ Alike(t, s)
    BY <2>6, <2>8, AddUncommittedSound
  <2> HIDE DEF s
  <2>10. Step(r, s)
    BY <2>6, <2>9, AlikeStep, StepTransitive DEF Sound
  <2>11. s.role = Follower /\ Last(s) = Last(t)
    BY <2>6, <2>9 DEF Alike, Last
  <2> QED BY <2>1, <2>7, <2>9, <2>10, <2>11
<1> QED BY <1>2, <1>3

\* The entry loop of HandleAppendRequest.
LEMMA ProcessEntriesSound ==
    ASSUME NEW i, NEW r, Sound(i, r), r.role = Follower,
           NEW m, m.prev \in Log, m.entries \in Log, Len(m.prev) <= Last(r),
           NEW sp \in [trunc : Nat, room : Nat]
    PROVE  LET e == ProcessEntries(i, r, m, sp)
           IN /\ Sound(i, e.r) /\ Step(r, e.r) /\ e.r.role = Follower
              /\ e.processed \in Nat /\ e.processed <= Last(e.r)
<1> DEFINE k == FirstConflict(r, m)
           idx == Len(m.prev) + k
           refuse == k <= Len(m.entries) /\ (idx <= r.commit \/ idx <= r.promise)
           c == CancelConflicts(i, r, m)
<1>1. /\ k \in 1..(Len(m.entries) + 1) /\ Len(m.prev) \in Nat /\ Len(m.entries) \in Nat
      /\ r.promise \in Nat /\ r.commit \in Nat /\ Last(r) \in Nat
  <2>1. k \in 1..(Len(m.entries) + 1)
    BY FirstConflictIs DEF Sound
  <2> HIDE DEF k
  <2> QED BY <2>1 DEF Log, Sound, Typed, ReplicaState, Last
<1>2. k <= Len(m.entries) => idx <= Last(r)
  BY FirstConflictIs DEF Sound
<1>3. CASE refuse
  <2>1. ProcessEntries(i, r, m, sp) = [r |-> r, processed |-> idx - 1]
    BY <1>3 DEF ProcessEntries
  <2>2. idx - 1 \in Nat /\ idx - 1 <= Last(r)
    <3> HIDE DEF k
    <3> QED BY <1>1, <1>2, <1>3
  <2> HIDE DEF idx
  <2> QED BY <2>1, <2>2, AlikeStep DEF Alike, Sound
<1>4. CASE ~refuse
  <2>1. ProcessEntries(i, r, m, sp) = AppendNewEntries(i, c, m, sp)
    BY <1>4 DEF ProcessEntries
  <2>2. k <= Len(m.entries) => r.promise < idx
    <3> HIDE DEF k
    <3> QED BY <1>1, <1>4
  <2>3. Sound(i, c) /\ Step(r, c) /\ c.role = Follower /\ Len(m.prev) <= Last(c)
    BY <2>2, CancelConflictsSound
  <2> HIDE DEF c
  <2>4. LET e == AppendNewEntries(i, c, m, sp)
        IN /\ Sound(i, e.r) /\ Step(c, e.r) /\ e.r.role = Follower
           /\ e.processed \in Nat /\ e.processed <= Last(e.r)
    BY <2>3, AppendNewEntriesSound
  <2>5. Step(r, AppendNewEntries(i, c, m, sp).r)
    BY <2>3, <2>4, StepTransitive DEF Sound
  <2> QED BY <2>1, <2>4, <2>5
<1> QED BY <1>3, <1>4

-----------------------------------------------------------------------------
(* Receive and the other entry points.                                      *)

\* A follower learns commit and promise indices only up to what it processed
\* and never moves them back.
LEMMA LearnIndicesSound ==
    ASSUME NEW i, NEW r, Sound(i, r), r.role = Follower,
           NEW m, m.commit \in Nat, m.promise \in Nat, m.commit <= m.promise,
           NEW processed \in Nat, processed <= Last(r)
    PROVE  /\ Sound(i, LearnIndices(i, r, m, processed))
           /\ Step(r, LearnIndices(i, r, m, processed))
           /\ Last(LearnIndices(i, r, m, processed)) = Last(r)
<1> DEFINE commit == Smaller(m.commit, processed)
           a == [r EXCEPT !.commit = commit]
           c == IF commit <= r.commit THEN r ELSE MaybeChangeUncommittedMemberships(i, a)
           promise == Larger(c.promise, Smaller(m.promise, processed))
           s == [c EXCEPT !.promise = promise]
<1>1. /\ r.commit \in Nat /\ r.promise \in Nat /\ Last(r) \in Nat /\ r.term \in Nat
      /\ r.commit <= r.promise /\ r.promise <= Last(r)
  BY DEF Sound, Typed, ReplicaState, Log, Last, IndicesOrdered
<1>2. commit \in Nat /\ commit <= Last(r) /\ commit <= Smaller(m.promise, processed)
  BY <1>1 DEF Smaller
<1>3. LearnIndices(i, r, m, processed) = s
  BY DEF LearnIndices
<1> HIDE DEF commit
<1>4. /\ Grouped(i, c) /\ c.role = Follower /\ c.log = r.log /\ c.status = r.status
      /\ c.promise = r.promise /\ c.term = r.term /\ c.votedFor = r.votedFor
      /\ c.commit = Larger(r.commit, commit)
  <2>1. CASE commit <= r.commit
    BY <1>1, <1>2, <2>1 DEF Sound, Grouped, Larger
  <2>2. CASE ~(commit <= r.commit)
    <3>1. Typed(a)
      BY <1>2 DEF Sound, Typed, ReplicaState
    <3>2. /\ a.log = r.log /\ a.promise = r.promise /\ a.role = Follower
          /\ a.uncommitted = r.uncommitted /\ a.status = r.status
          /\ a.term = r.term /\ a.votedFor = r.votedFor /\ a.commit = commit
      BY DEF Sound, Typed, ReplicaState
    <3> HIDE DEF a
    <3>3. ChangesKnown(a) /\ a.commit <= Last(a)
      BY <1>2, <3>2 DEF Sound, ChangesKnown, ChangesLogged, Last
    <3>4. Grouped(i, c) /\ Alike(a, c)
      BY <2>2, <3>1, <3>2, <3>3, MaybeChangeSound
    <3> HIDE DEF c
    <3>5. Larger(r.commit, commit) = commit
      BY <1>1, <1>2, <2>2 DEF Larger
    <3> QED BY <3>2, <3>4, <3>5 DEF Alike
  <2> QED BY <2>1, <2>2
<1> HIDE DEF c
<1>5. /\ promise \in Nat /\ r.promise <= promise /\ promise <= Last(r)
      /\ c.commit <= promise /\ r.commit <= c.commit
  BY <1>1, <1>2, <1>4 DEF Larger, Smaller
<1> HIDE DEF promise
<1>6. Typed(s)
  BY <1>4, <1>5 DEF Grouped, Typed, ReplicaState
<1>7. /\ s.log = r.log /\ s.commit = c.commit /\ s.promise = promise /\ s.role = Follower
      /\ s.uncommitted = c.uncommitted
      /\ s.status = r.status /\ s.term = r.term /\ s.votedFor = r.votedFor
  BY <1>4 DEF Grouped, Typed, ReplicaState
<1> HIDE DEF s
<1>8. IndicesOrdered(s)
  BY <1>5, <1>7 DEF IndicesOrdered, Last, Leader, Follower
<1>9. ChangesLogged(s)
  BY <1>4, <1>7 DEF Grouped, ChangesLogged, Last
<1>10. FollowsMembers(i, s)
  BY <1>7 DEF FollowsMembers, Leader, Follower
<1>11. Step(r, s)
  BY <1>1, <1>5, <1>7 DEF Step
<1> QED BY <1>3, <1>6, <1>7, <1>8, <1>9, <1>10, <1>11 DEF Sound, Last

\* An append response is a message that promises no more than it matches.
LEMMA AppendResponseMessageType ==
    ASSUME NEW r, Typed(r), NEW success \in BOOLEAN, NEW match \in Nat, match <= Last(r),
           NEW promise \in Nat, success => promise <= match
    PROVE  AppendResponseMessage(r, success, match, promise) \in Message
<1>1. r.log \in Log /\ r.term \in Nat /\ Last(r) \in Nat
  BY DEF Typed, ReplicaState, Last, Log
<1>2. Chain(r, match) \in Log /\ Len(Chain(r, match)) = match
  <2>1. /\ SubSeq(r.log, 1, match) \in Log
        /\ Len(SubSeq(r.log, 1, match)) = IF 1 <= match THEN match - 1 + 1 ELSE 0
    BY <1>1, StretchOfLog DEF Last
  <2> QED BY <2>1 DEF Chain
<1> DEFINE c == Chain(r, match)
<1> HIDE DEF c
<1>3. AppendResponseMessage(r, success, match, promise) =
        [type |-> "AppendResponse", term |-> r.term, success |-> success,
         match |-> c, promise |-> promise, last |-> Last(r)]
  BY DEF AppendResponseMessage, c
<1>4. c \in Log /\ success => promise <= Len(c)
  BY <1>2 DEF c
<1> QED BY <1>1, <1>2, <1>3, <1>4 DEF Message, c

\* HandleAppendRequest once the previous entry is found.
LEMMA AcceptEntriesSound ==
    ASSUME NEW i, NEW r, Sound(i, r), r.role = Follower, NEW j \in Replica,
           NEW m \in Message, m.type = "AppendRequest", m.commit <= m.promise,
           Len(m.prev) <= Last(r), NEW sp \in [trunc : Nat, room : Nat]
    PROVE  Sound(i, AcceptEntries(i, r, j, m, sp)) /\ Step(r, AcceptEntries(i, r, j, m, sp))
<1> DEFINE e == ProcessEntries(i, r, m, sp)
           p == LearnIndices(i, e.r, m, e.processed)
           n == Smaller(p.promise, e.processed)
           a == AppendResponseMessage(p, TRUE, e.processed, n)
<1>1. m.prev \in Log /\ m.entries \in Log /\ m.commit \in Nat /\ m.promise \in Nat
  BY MessageFields
<1>2. /\ Sound(i, e.r) /\ Step(r, e.r) /\ e.r.role = Follower
      /\ e.processed \in Nat /\ e.processed <= Last(e.r)
  BY <1>1, ProcessEntriesSound
<1>3. AcceptEntries(i, r, j, m, sp) = Send(p, j, a)
  BY DEF AcceptEntries
<1> HIDE DEF e
<1>4. Sound(i, p) /\ Step(e.r, p) /\ Last(p) = Last(e.r)
  BY <1>1, <1>2, LearnIndicesSound
<1> HIDE DEF p
<1>5. n \in Nat /\ n <= e.processed /\ e.processed <= Last(p)
  <2>1. p.promise \in Nat
    BY <1>4 DEF Sound, Typed, ReplicaState
  <2> QED BY <1>2, <1>4, <2>1 DEF Smaller
<1> HIDE DEF n
<1>6. a \in Message
  BY <1>2, <1>4, <1>5, AppendResponseMessageType DEF Sound
<1> HIDE DEF a
<1>7. Sound(i, Send(p, j, a)) /\ Step(p, Send(p, j, a))
  BY <1>4, <1>6, SendSound, AlikeStep DEF Sound
<1>8. Step(r, p)
  BY <1>2, <1>4, StepTransitive DEF Sound
<1> QED BY <1>3, <1>4, <1>7, <1>8, StepTransitive DEF Sound

\* HandleAppendRequest as a whole.
LEMMA HandleAppendRequestSound ==
    ASSUME NEW i, NEW r, Sound(i, r), NEW j \in Replica,
           NEW m \in Message, m.type = "AppendRequest", m.commit <= m.promise,
           m.term <= r.term, NEW sp \in [trunc : Nat, room : Nat]
    PROVE  /\ Sound(i, HandleAppendRequest(i, r, j, m, sp))
           /\ Step(r, HandleAppendRequest(i, r, j, m, sp))
<1> DEFINE idx == Len(m.prev)
           logOk == idx = 0 \/ (Stored(r, idx) /\ ChainTerm(m.prev) = TermAt(r, idx))
           b == IF r.role = Candidate THEN SetRole(r, Follower) ELSE r
           f == IF m.term < r.term THEN r ELSE [b EXCEPT !.leader = j]
           a == AppendResponseMessage(f, FALSE, f.commit, f.promise)
<1>1. CASE m.term = r.term /\ r.role = Leader
  <2>1. HandleAppendRequest(i, r, j, m, sp) = r
    BY <1>1 DEF HandleAppendRequest
  <2> QED BY <2>1, AlikeStep DEF Sound, Alike
<1>2. CASE ~(m.term = r.term /\ r.role = Leader)
  <2>1. /\ r.term \in Nat /\ m.term \in Nat /\ Last(r) \in Nat
        /\ r.role \in {Follower, Candidate, Leader}
        /\ m.prev \in Log /\ idx \in Nat
    BY MessageFields DEF Sound, Typed, ReplicaState, Last, Log
  <2>2. /\ Sound(i, f) /\ Step(r, f) /\ f.log = r.log
        /\ m.term = r.term => f.role = Follower
    <3>1. CASE m.term < r.term
      BY <2>1, <3>1, AlikeStep DEF Alike, Sound
    <3>2. CASE ~(m.term < r.term)
      <4>1. m.term = r.term /\ r.role \in {Follower, Candidate}
        BY <1>2, <2>1, <3>2
      <4>2. Sound(i, b) /\ Step(r, b) /\ b.log = r.log /\ b.role = Follower
        <5>1. CASE r.role = Candidate
          <6>1. b = SetRole(r, Follower)
            BY <5>1
          <6>2. b.log = r.log /\ b.role = Follower
            BY <6>1 DEF SetRole, Sound, Typed, ReplicaState
          <6> QED BY <6>1, <6>2, SetRoleSound
        <5>2. CASE r.role = Follower
          BY <5>2, AlikeStep DEF Alike, Sound, Follower, Candidate
        <5> QED BY <4>1, <5>1, <5>2
      <4> DEFINE g == [b EXCEPT !.leader = j]
      <4>3. f = g
        BY <3>2
      <4> HIDE DEF b, f
      <4>4. Typed(g)
        BY <4>2 DEF Sound, Typed, ReplicaState
      <4>5. /\ g.membership = b.membership /\ g.uncommitted = b.uncommitted
            /\ g.followers = b.followers /\ Alike(b, g)
        BY <4>2 DEF Sound, Typed, ReplicaState, Alike
      <4> HIDE DEF g
      <4>6. Sound(i, g) /\ Step(b, g)
        BY <4>2, <4>4, <4>5, KeepsGroup, AlikeStep DEF Alike, Sound
      <4>7. Step(r, g)
        BY <4>2, <4>6, StepTransitive DEF Sound
      <4> QED BY <4>2, <4>3, <4>5, <4>6, <4>7 DEF Alike
    <3> QED BY <3>1, <3>2
  <2>3. CASE m.term < r.term \/ ~logOk
    <3>1. HandleAppendRequest(i, r, j, m, sp) = Send(f, j, a)
      BY <1>2, <2>3 DEF HandleAppendRequest
    <3> HIDE DEF f
    <3>2. a \in Message
      <4>1. f.commit \in Nat /\ f.promise \in Nat /\ f.commit <= Last(f)
        BY <2>2 DEF Sound, Typed, ReplicaState, IndicesOrdered, Last, Log
      <4> QED BY <2>2, <4>1, AppendResponseMessageType DEF Sound
    <3> HIDE DEF a
    <3>3. Sound(i, Send(f, j, a)) /\ Step(f, Send(f, j, a))
      BY <2>2, <3>2, SendSound, AlikeStep DEF Sound
    <3> QED BY <2>2, <3>1, <3>3, StepTransitive DEF Sound
  <2>4. CASE ~(m.term < r.term \/ ~logOk)
    <3>1. HandleAppendRequest(i, r, j, m, sp) = AcceptEntries(i, f, j, m, sp)
      BY <1>2, <2>4 DEF HandleAppendRequest
    <3>2. f.role = Follower
      BY <2>1, <2>2, <2>4
    <3>3. Len(m.prev) <= Last(f)
      <4>1. Len(m.prev) <= Last(r)
        BY <2>1, <2>4 DEF Stored, Last
      <4> HIDE DEF f
      <4> QED BY <2>2, <4>1 DEF Last
    <3> HIDE DEF f
    <3>4. /\ Sound(i, AcceptEntries(i, f, j, m, sp))
          /\ Step(f, AcceptEntries(i, f, j, m, sp))
      BY <2>2, <3>2, <3>3, AcceptEntriesSound
    <3> QED BY <2>2, <3>1, <3>4, StepTransitive DEF Sound
  <2> QED BY <2>3, <2>4
<1> QED BY <1>1, <1>2
=============================================================================
