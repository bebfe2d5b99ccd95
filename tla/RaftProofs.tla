----------------------------- MODULE RaftProofs -----------------------------
(***************************************************************************)
(* The inductive invariant of module Raft, and what follows from it for every *)
(* group, every configuration and every bound: the types, the order of the *)
(* indices, who leads and follows, and what no step takes back.            *)
(***************************************************************************)
EXTENDS RaftReceiving

\* The handlers of the five kinds of message.
LEMMA DispatchSound ==
    ASSUME NEW i \in Replica, NEW r, Sound(i, r), NEW j \in Replica,
           NEW m \in Message, m.term <= r.term,
           m.type = "AppendRequest" => m.commit <= m.promise,
           m.type = "AppendResponse" => Len(m.match) <= Last(r),
           NEW sp \in [trunc : Nat, room : Nat]
    PROVE  Sound(i, Dispatch(i, r, j, m, sp)) /\ Step(r, Dispatch(i, r, j, m, sp))
<1>1. CASE m.type = "VoteRequest"
  BY <1>1, HandleVoteRequestSound DEF Dispatch
<1>2. CASE m.type = "VoteResponse"
  BY <1>2, HandleVoteResponseSound DEF Dispatch
<1>3. CASE m.type = "AppendRequest"
  BY <1>3, HandleAppendRequestSound DEF Dispatch
<1>4. CASE m.type = "AppendResponse"
  BY <1>4, HandleAppendResponseSound DEF Dispatch
<1>5. CASE m.type = "TimeoutNow"
  <2>1. CASE m.term < r.term
    BY <1>5, <2>1, AlikeStep DEF Dispatch, Sound, Alike
  <2>2. CASE ~(m.term < r.term)
    BY <1>5, <2>2, ElectionTimeoutSound DEF Dispatch
  <2> QED BY <2>1, <2>2
<1> QED BY <1>1, <1>2, <1>3, <1>4, <1>5, MessageFields

\* Raft::Receive.
LEMMA RaftReceiveSound ==
    ASSUME NEW i \in Replica, NEW r, Sound(i, r), NEW j \in Replica,
           NEW m \in Message, NEW sp \in [trunc : Nat, room : Nat]
    PROVE  Sound(i, RaftReceive(i, r, j, m, sp)) /\ Step(r, RaftReceive(i, r, j, m, sp))
<1> DEFINE u == UpdateTerm(r, m)
           d == Dispatch(i, u, j, m, sp)
<1>1. CASE ~ValidateReceivedMessage(r, j, m)
  BY <1>1, AlikeStep DEF RaftReceive, Sound, Alike
<1>2. CASE ValidateReceivedMessage(r, j, m)
  <2>1. RaftReceive(i, r, j, m, sp) = MaybeChangeStateAndSendMessages(i, d, sp)
    BY <1>2 DEF RaftReceive
  <2>2. Sound(i, u) /\ Step(r, u) /\ m.term <= u.term /\ u.log = r.log
    BY MessageFields, UpdateTermSound
  <2>3. m.type = "AppendRequest" => m.commit <= m.promise
    BY <1>2 DEF ValidateReceivedMessage
  <2>4. m.type = "AppendResponse" => Len(m.match) <= Last(r)
    <3>1. Last(r) \in Nat
      BY DEF Sound, Typed, ReplicaState, Last, Log
    <3>2. m.match = <<>> => Len(m.match) = 0
      OBVIOUS
    <3> QED BY <1>2, <3>1, <3>2 DEF ValidateReceivedMessage, ResponseChainOk, Stored, Last
  <2> HIDE DEF u
  <2>5. m.type = "AppendResponse" => Len(m.match) <= Last(u)
    BY <2>2, <2>4 DEF Last
  <2>6. Sound(i, d) /\ Step(u, d)
    BY <2>2, <2>3, <2>5, DispatchSound
  <2> HIDE DEF d
  <2> DEFINE s == MaybeChangeStateAndSendMessages(i, d, sp)
  <2>7. Sound(i, s) /\ Step(d, s)
    BY <2>6, MaybeChangeStateSound
  <2> HIDE DEF s
  <2>8. Step(r, d)
    BY <2>2, <2>6, StepTransitive DEF Sound
  <2>9. Step(r, s)
    BY <2>6, <2>7, <2>8, StepTransitive DEF Sound
  <2> QED BY <2>1, <2>7, <2>9 DEF s
<1> QED BY <1>1, <1>2

\* Raft::TimerTick.
LEMMA TimerTickSound ==
    ASSUME NEW i \in Replica, NEW r, Sound(i, r), NEW expired \in BOOLEAN,
           NEW sp \in [trunc : Nat, room : Nat]
    PROVE  /\ Sound(i, TimerTick(i, r, expired, sp))
           /\ Step(r, TimerTick(i, r, expired, sp))
<1> DEFINE h == [r EXCEPT !.followers = [p \in DOMAIN r.followers |->
                                           [r.followers[p] EXCEPT !.heartbeat = TRUE]]]
           t == IF ~expired THEN r ELSE IF r.role # Leader THEN ElectionTimeout(i, r) ELSE h
           s == MaybeChangeStateAndSendMessages(i, t, sp)
<1>1. TimerTick(i, r, expired, sp) = s
  BY DEF TimerTick
<1>2. Sound(i, h) /\ Alike(r, h)
  BY HeartbeatsSound
<1> HIDE DEF h
<1>3. Sound(i, t) /\ Step(r, t)
  <2>1. CASE ~expired
    BY <2>1, AlikeStep DEF Sound, Alike
  <2>2. CASE expired /\ r.role # Leader
    BY <2>2, ElectionTimeoutSound
  <2>3. CASE expired /\ r.role = Leader
    BY <1>2, <2>3, AlikeStep DEF Sound
  <2> QED BY <2>1, <2>2, <2>3
<1> HIDE DEF t
<1>4. Sound(i, s) /\ Step(t, s)
  BY <1>3, MaybeChangeStateSound
<1> HIDE DEF s
<1> QED BY <1>1, <1>3, <1>4, StepTransitive DEF Sound

\* Raft::ResetPeer.
LEMMA ResetPeerSound ==
    ASSUME NEW i, NEW r, Sound(i, r), NEW j \in Replica
    PROVE  Sound(i, ResetPeer(r, j)) /\ Step(r, ResetPeer(r, j))
<1> DEFINE a == RequestVoteMessage(r)
           g == [r.followers[j] EXCEPT !.next = Last(r) + 1, !.probe = TRUE,
                                       !.heartbeat = TRUE, !.inflight = NoInflight]
           F == [r.followers EXCEPT ![j] = g]
<1>1. CASE j \notin CurrentMembership(r).all
  BY <1>1, AlikeStep DEF ResetPeer, Sound, Alike
<1>2. CASE j \in CurrentMembership(r).all /\ r.role = Candidate
  <2>1. ResetPeer(r, j) = Send(r, j, a)
    BY <1>2 DEF ResetPeer
  <2>2. a \in Message
    BY RequestVoteMessageType DEF Sound
  <2> HIDE DEF a
  <2> QED BY <2>1, <2>2, SendSound, AlikeStep DEF Sound
<1>3. CASE /\ j \in CurrentMembership(r).all
           /\ r.role = Leader /\ j \in DOMAIN r.followers
  <2>1. ResetPeer(r, j) = WithFollowers(r, F)
    BY <1>3 DEF ResetPeer, WithFollowers, Candidate, Leader, Sound, Typed, ReplicaState
  <2>2. /\ r.followers \in [DOMAIN r.followers -> FollowerState] /\ Last(r) \in Nat
        /\ \A p \in DOMAIN r.followers : /\ r.followers[p].promise <= r.followers[p].match
                                         /\ r.followers[p].match <= Last(r)
    BY <1>3 DEF Sound, Typed, ReplicaState, Last, Log, IndicesOrdered
  <2>3. /\ g \in FollowerState /\ g.promise = r.followers[j].promise
        /\ g.match = r.followers[j].match
    <3>1. r.followers[j] \in FollowerState
      BY <1>3, <2>2
    <3>2. Last(r) + 1 \in Nat \ {0}
      BY <2>2
    <3> QED BY <3>1, <3>2 DEF FollowerState
  <2> HIDE DEF g
  <2>4. F \in [DOMAIN r.followers -> FollowerState]
    BY <2>2, <2>3
  <2>5. \A p \in DOMAIN r.followers : F[p].promise <= F[p].match /\ F[p].match <= Last(r)
    BY <2>2, <2>3
  <2> HIDE DEF F
  <2>6. Sound(i, WithFollowers(r, F)) /\ Alike(r, WithFollowers(r, F))
    BY <2>4, <2>5, FollowersSound
  <2> QED BY <2>1, <2>6, AlikeStep DEF Sound
<1>4. CASE /\ j \in CurrentMembership(r).all /\ r.role # Candidate
           /\ ~(r.role = Leader /\ j \in DOMAIN r.followers)
  BY <1>4, AlikeStep DEF ResetPeer, Sound, Alike
<1> QED BY <1>1, <1>2, <1>3, <1>4

\* Raft::LogRequest.
LEMMA LogRequestSound ==
    ASSUME NEW i, NEW r, Sound(i, r), NEW mem \in Memberships \cup {Nil},
           NEW sp \in [trunc : Nat, room : Nat]
    PROVE  Sound(i, LogRequest(i, r, mem, sp)) /\ Step(r, LogRequest(i, r, mem, sp))
<1> DEFINE c == ClientRequestInternal(i, r, mem, sp)
           s == MaybeChangeStateAndSendMessages(i, c, sp)
<1>1. CASE Refused(i, r, mem)
  BY <1>1, AlikeStep DEF LogRequest, Sound, Alike
<1>2. CASE ~Refused(i, r, mem)
  <2>1. LogRequest(i, r, mem, sp) = s
    BY <1>2 DEF LogRequest
  <2>2. mem = Nil \/ i \in mem.voting
    BY <1>2 DEF Refused, ValidProgressionForLeader
  <2>3. Sound(i, c) /\ Step(r, c)
    BY <2>2, ClientRequestSound
  <2> HIDE DEF c
  <2>4. Sound(i, s) /\ Step(c, s)
    BY <2>3, MaybeChangeStateSound
  <2> HIDE DEF s
  <2> QED BY <2>1, <2>3, <2>4, StepTransitive DEF Sound
<1> QED BY <1>1, <1>2

\* Raft::RelinquishLeadership.
LEMMA RelinquishLeadershipSound ==
    ASSUME NEW i, NEW r, Sound(i, r), NEW sp \in [trunc : Nat, room : Nat]
    PROVE  /\ Sound(i, RelinquishLeadership(i, r, sp))
           /\ Step(r, RelinquishLeadership(i, r, sp))
<1> DEFINE c == ClientRequestInternal(i, r, Nil, sp)
           d == [c EXCEPT !.relinquishing = TRUE]
           s == MaybeChangeStateAndSendMessages(i, d, sp)
<1>1. CASE r.role # Leader \/ r.relinquishing
  BY <1>1, AlikeStep DEF RelinquishLeadership, Sound, Alike
<1>2. CASE ~(r.role # Leader \/ r.relinquishing)
  <2>1. RelinquishLeadership(i, r, sp) = s
    BY <1>2 DEF RelinquishLeadership
  <2>2. Sound(i, c) /\ Step(r, c)
    BY ClientRequestSound
  <2> HIDE DEF c
  <2>3. Typed(d)
    BY <2>2 DEF Sound, Typed, ReplicaState
  <2>4. /\ d.membership = c.membership /\ d.uncommitted = c.uncommitted
        /\ d.followers = c.followers /\ Alike(c, d)
    BY <2>2 DEF Sound, Typed, ReplicaState, Alike
  <2> HIDE DEF d
  <2>5. Sound(i, d) /\ Step(c, d)
    BY <2>2, <2>3, <2>4, KeepsGroup, AlikeStep DEF Alike, Sound
  <2>6. Sound(i, s) /\ Step(d, s)
    BY <2>5, MaybeChangeStateSound
  <2> HIDE DEF s
  <2>7. Step(r, d)
    BY <2>2, <2>5, StepTransitive DEF Sound
  <2> QED BY <2>1, <2>5, <2>6, <2>7, StepTransitive DEF Sound
<1> QED BY <1>1, <1>2

\* The constructor makes a sound record, and no leader unless it is the only voter.
LEMMA NewRaftSound ==
    ASSUME NEW i \in Replica, NEW mem \in Memberships, NEW log \in Log, NEW first \in Nat
    PROVE  /\ Sound(i, NewRaft(i, mem, log, first))
           /\ NewRaft(i, mem, log, first).status = "up"
           /\ mem.voting # {i} =>
                 NewRaft(i, mem, log, first) =
                    [status |-> "up", role |-> Follower, term |-> 0, votedFor |-> Nil,
                     leader |-> Nil, votes |-> {}, followers |-> NoFollowers,
                     relinquishing |-> FALSE, log |-> log, first |-> first,
                     commit |-> Len(log), promise |-> Len(log), membership |-> mem,
                     uncommitted |-> {}, sendable |-> NoMessages]
<1> DEFINE r == [status |-> "up", role |-> Follower, term |-> 0, votedFor |-> Nil,
                 leader |-> Nil, votes |-> {}, followers |-> NoFollowers,
                 relinquishing |-> FALSE, log |-> log, first |-> first,
                 commit |-> Len(log), promise |-> Len(log), membership |-> mem,
                 uncommitted |-> {}, sendable |-> NoMessages]
           sp == [trunc |-> 0, room |-> 1]
           e == ElectionTimeout(i, r)
           s == MaybeChangeStateAndSendMessages(i, e, sp)
<1>1. NewRaft(i, mem, log, first) = IF mem.voting # {i} THEN r ELSE s
  BY DEF NewRaft
<1>2. Sound(i, r)
  <2>1. Typed(r)
    <3>1. NoFollowers \in [{} -> FollowerState] /\ DOMAIN NoFollowers = {}
      BY DEF NoFollowers
    <3>2. NoMessages \in [Replica -> Seq(Message)]
      BY DEF NoMessages
    <3>3. Len(log) \in Nat
      BY DEF Log
    <3> HIDE DEF NoFollowers, NoMessages
    <3> QED BY <3>1, <3>2, <3>3 DEF Typed, ReplicaState
  <2>2. IndicesOrdered(r)
    BY DEF IndicesOrdered, Last, Leader, Follower, Log
  <2>3. ChangesLogged(r) /\ FollowsMembers(i, r)
    BY DEF ChangesLogged, FollowsMembers, Leader, Follower
  <2> QED BY <2>1, <2>2, <2>3 DEF Sound
<1>3. r.status = "up" /\ sp \in [trunc : Nat, room : Nat]
  OBVIOUS
<1>4. Sound(i, s) /\ s.status = "up"
  <2> HIDE DEF r, sp
  <2>1. Sound(i, e) /\ Step(r, e)
    BY <1>2, ElectionTimeoutSound
  <2> HIDE DEF e
  <2>2. Sound(i, s) /\ Step(e, s)
    BY <1>3, <2>1, MaybeChangeStateSound
  <2> QED BY <1>3, <2>1, <2>2 DEF Step
<1> HIDE DEF s
<1> QED BY <1>1, <1>2, <1>3, <1>4

\* What a step does to the replica it runs on.
Moves(i, s) == replica' = [replica EXCEPT ![i] = s]

\* The invariant with the records named.
Inv == /\ replica = [i \in Replica |-> replica[i]]
       /\ \A i \in Replica : /\ Sound(i, replica[i])
                             /\ replica[i].status = "absent" => Blank(replica[i])
       /\ net \in [Channel -> Seq(Message \cup [type : {"Connected"}])]
       /\ resets \in Nat
       /\ elected \subseteq Nat \X Replica

\* Inv is IndInv.
LEMMA InvIsIndInv == Inv <=> IndInv
<1>1. \A i \in Replica : Sound(i, replica[i]) <=> ReplicaInv(i, replica[i])
  BY SoundIsInv
<1> QED BY <1>1 DEF Inv, IndInv, TypeOK, ReplicaInv

\* Over a step no replica takes anything back.
Keeps == \A i \in Replica : LET r == replica[i]
                                s == replica'[i]
                            IN /\ r.commit <= s.commit /\ r.promise <= s.promise
                               /\ \A x \in 1..r.promise : s.log[x] = r.log[x]
                               /\ r.term <= s.term
                               /\ r.term = s.term /\ r.votedFor # Nil => s.votedFor = r.votedFor

\* Doing nothing takes nothing back.
LEMMA UnchangedKeeps ==
    ASSUME NEW r, Typed(r)
    PROVE  Step(r, r)
  BY AlikeStep DEF Alike

\* A sound step of one running replica preserves the invariant.
LEMMA MoveKeeps ==
    ASSUME Inv, NEW i \in Replica, replica[i].status = "up", NEW s, Sound(i, s),
           Step(replica[i], s), Moves(i, s),
           net' \in [Channel -> Seq(Message \cup [type : {"Connected"}])],
           resets' \in Nat, elected' \subseteq Nat \X Replica
    PROVE  Inv' /\ Keeps
<1>1. replica'[i] = s /\ \A p \in Replica \ {i} : replica'[p] = replica[p]
  BY DEF Inv, Moves
<1>2. replica' = [p \in Replica |-> replica'[p]]
  BY DEF Inv, Moves
<1>3. s.status = "up"
  BY DEF Step
<1>4. \A p \in Replica : /\ Sound(p, replica'[p])
                         /\ replica'[p].status = "absent" => Blank(replica'[p])
  BY <1>1, <1>3 DEF Inv
<1>5. \A p \in Replica : Step(replica[p], replica'[p])
  BY <1>1, UnchangedKeeps DEF Inv, Sound
<1>6. Keeps
  BY <1>5 DEF Keeps, Step
<1> QED BY <1>2, <1>4, <1>6 DEF Inv

\* So does a step that ends with RaftStep.
LEMMA RaftStepKeeps ==
    ASSUME Inv, NEW i \in Replica, replica[i].status = "up", NEW r, Sound(i, r),
           Step(replica[i], r),
           NEW n \in [Channel -> Seq(Message \cup [type : {"Connected"}])],
           RaftStep(n, i, r), resets' \in Nat
    PROVE  Inv' /\ Keeps
<1> DEFINE M == Message \cup [type : {"Connected"}]
           s == WithQueues(r, NoMessages)
<1>1. NoMessages \in [Replica -> Seq(Message)]
  BY DEF NoMessages
<1>2. Sound(i, s) /\ Alike(r, s)
  BY <1>1, QueuesSound
<1>3. Step(replica[i], s)
  BY <1>2, AlikeStep, StepTransitive DEF Sound, Inv
<1>4. Moves(i, s)
  BY DEF RaftStep, Moves, WithQueues
<1> HIDE DEF s
<1>5. net' \in [Channel -> Seq(M)]
  <2>1. r.sendable \in [Replica -> Seq(Message)]
    BY DEF Sound, Typed, ReplicaState
  <2>2. \A c \in Channel : n[c] \in Seq(M) /\ c[2] \in Replica
    BY DEF Channel
  <2>3. \A c \in Channel : r.sendable[c[2]] \in Seq(M)
    <3> TAKE c \in Channel
    <3>1. r.sendable[c[2]] \in Seq(Message)
      BY <2>1, <2>2
    <3> HIDE DEF M
    <3>2. Message \subseteq M
      BY DEF M
    <3> QED BY <3>1, <3>2
  <2>4. net' = [c \in Channel |-> IF c[1] = i /\ Open(n, i, c[2])
                                  THEN n[c] \o r.sendable[c[2]] ELSE n[c]]
    BY DEF RaftStep
  <2> HIDE DEF M
  <2>5. \A c \in Channel : n[c] \o r.sendable[c[2]] \in Seq(M)
    BY <2>2, <2>3
  <2> QED BY <2>2, <2>4, <2>5
<1>6. elected' \subseteq Nat \X Replica
  <2>1. r.term \in Nat
    BY DEF Sound, Typed, ReplicaState
  <2> QED BY <2>1 DEF Inv, RaftStep
<1> QED BY <1>2, <1>3, <1>4, <1>5, <1>6, MoveKeeps

\* The members of Space.
LEMMA SpaceType ==
    ASSUME NEW sp \in Space
    PROVE  sp \in [trunc : Nat, room : Nat]
  BY SpaceAssumption

\* What NextReplicaGroup proposes is a membership.
LEMMA NextReplicaGroupsType ==
    ASSUME NEW i, NEW r, Sound(i, r), NEW mem \in NextReplicaGroups(i, r)
    PROVE  mem \in Memberships
<1> DEFINE m == CurrentMembership(r)
<1>1. m \in Memberships
  BY CurrentType DEF Sound
<1> HIDE DEF m
<1>2. \A p \in m.all : [m EXCEPT !.voting = m.voting \cup {p}] \in Memberships
  BY <1>1 DEF Memberships
<1>3. \A p : [m EXCEPT !.voting = m.voting \ {p}] \in Memberships
  BY <1>1 DEF Memberships
<1>4. \A p \in m.all \ m.voting : [m EXCEPT !.all = m.all \ {p}] \in Memberships
  BY <1>1 DEF Memberships
<1> QED BY <1>2, <1>3, <1>4 DEF NextReplicaGroups, m

\* HandleTimerTick, with or without a proposal for the group.
LEMMA HandleTimerTickKeeps ==
    ASSUME Inv, NEW i \in Replica, HandleTimerTick(i)
    PROVE  Inv' /\ Keeps
<1>1. replica[i].status = "up" /\ Sound(i, replica[i]) /\ resets' \in Nat
  BY DEF HandleTimerTick, PartOfGroup, Up, Inv
<1>2. PICK sp \in Space, expired \in {FALSE, TimerBound(i)} :
        LET r == TimerTick(i, replica[i], expired, sp)
        IN \/ RaftStep(net, i, r)
           \/ \E mem \in NextReplicaGroups(i, r) : RaftStep(net, i, LogRequest(i, r, mem, sp))
  BY DEF HandleTimerTick
<1> DEFINE r == TimerTick(i, replica[i], expired, sp)
<1>3. expired \in BOOLEAN /\ sp \in [trunc : Nat, room : Nat]
  <2>1. TimerBound(i) \in BOOLEAN
    BY DEF TimerBound
  <2>2. expired \in BOOLEAN
    BY <2>1, Zenon
  <2> QED BY <2>2, SpaceType
<1>4. Sound(i, r) /\ Step(replica[i], r)
  BY <1>1, <1>3, TimerTickSound
<1> HIDE DEF r
<1>5. CASE RaftStep(net, i, r)
  BY <1>1, <1>4, <1>5, RaftStepKeeps DEF Inv
<1>6. ASSUME NEW mem \in NextReplicaGroups(i, r), RaftStep(net, i, LogRequest(i, r, mem, sp))
      PROVE  Inv' /\ Keeps
  <2> DEFINE s == LogRequest(i, r, mem, sp)
  <2>1. mem \in Memberships \cup {Nil}
    BY <1>4, NextReplicaGroupsType
  <2>2. Sound(i, s) /\ Step(r, s)
    BY <1>3, <1>4, <2>1, LogRequestSound
  <2>3. RaftStep(net, i, s)
    BY <1>6
  <2> HIDE DEF s
  <2>4. Step(replica[i], s)
    BY <1>1, <1>4, <2>2, StepTransitive DEF Sound
  <2> QED BY <1>1, <2>2, <2>3, <2>4, RaftStepKeeps DEF Inv
<1> QED BY <1>2, <1>5, <1>6 DEF r

\* HandleE2E with a Raft message.
LEMMA HandleRaftMessageKeeps ==
    ASSUME Inv, NEW i \in Replica, NEW j \in Replica, HandleRaftMessage(i, j)
    PROVE  Inv' /\ Keeps
<1> DEFINE M == Message \cup [type : {"Connected"}]
           q == net[<<j, i>>]
           m == Head(q)
           n == [net EXCEPT ![<<j, i>>] = Tail(q)]
<1>1. /\ replica[i].status = "up" /\ Sound(i, replica[i]) /\ resets' \in Nat
      /\ q # <<>> /\ m.type # "Connected"
  BY DEF HandleRaftMessage, Up, Inv
<1>2. q \in Seq(M) /\ <<j, i>> \in Channel /\ net \in [Channel -> Seq(M)]
  BY DEF Inv, Channel
<1>3. PICK sp \in Space : RaftStep(n, i, RaftReceive(i, replica[i], j, m, sp))
  BY DEF HandleRaftMessage
<1> HIDE DEF q
<1>4. m \in M /\ Tail(q) \in Seq(M)
  <2> HIDE DEF M
  <2> QED BY <1>1, <1>2
<1>5. m \in Message
  BY <1>1, <1>4
<1>6. n \in [Channel -> Seq(M)]
  <2> HIDE DEF M, m
  <2> QED BY <1>2, <1>4
<1> HIDE DEF m, n
<1> DEFINE s == RaftReceive(i, replica[i], j, m, sp)
<1>7. Sound(i, s) /\ Step(replica[i], s)
  BY <1>1, <1>5, SpaceType, RaftReceiveSound
<1>8. RaftStep(n, i, s)
  BY <1>3
<1> HIDE DEF s
<1> QED BY <1>1, <1>6, <1>7, <1>8, RaftStepKeeps

\* A request to the log, accepted or refused.
LEMMA RequestKeeps ==
    ASSUME Inv, NEW i \in Replica, replica[i].status = "up",
           NEW mem \in Memberships \cup {Nil}, Request(i, mem)
    PROVE  Inv' /\ Keeps
<1>1. Sound(i, replica[i]) /\ resets' \in Nat
  BY DEF Inv, Request
<1>2. PICK sp \in Space :
        LET r == LogRequest(i, replica[i], mem, sp)
        IN \/ RaftStep(net, i, r)
           \/ Moves(i, r) /\ UNCHANGED <<net, elected>>
  BY DEF Request, Moves
<1> DEFINE s == LogRequest(i, replica[i], mem, sp)
<1>3. Sound(i, s) /\ Step(replica[i], s)
  BY <1>1, SpaceType, LogRequestSound
<1> HIDE DEF s
<1>4. CASE RaftStep(net, i, s)
  BY <1>1, <1>3, <1>4, RaftStepKeeps DEF Inv
<1>5. CASE Moves(i, s) /\ UNCHANGED <<net, elected>>
  BY <1>1, <1>3, <1>5, MoveKeeps DEF Inv
<1> QED BY <1>2, <1>4, <1>5 DEF s

\* The handlers that log a request.
LEMMA RequestsKeep ==
    ASSUME Inv, NEW i \in Replica, NEW p \in Replica,
           \/ HandleRaftWrite(i)
           \/ HandleRequestRaftMembership(i, p)
           \/ HandleRequestRaftVoting(i, p)
           \/ HandlePeerRequestedRaftRemoval(i, p)
    PROVE  Inv' /\ Keeps
<1> DEFINE m == CurrentMembership(replica[i])
<1>1. m \in Memberships
  BY CurrentType DEF Inv, Sound
<1> HIDE DEF m
<1>2. CASE HandleRaftWrite(i)
  BY <1>2, RequestKeeps DEF HandleRaftWrite, PartOfGroup, Up
<1>3. CASE HandleRequestRaftMembership(i, p)
  <2>1. [m EXCEPT !.all = m.all \cup {p}] \in Memberships
    BY <1>1 DEF Memberships
  <2> DEFINE mem == [m EXCEPT !.all = m.all \cup {p}]
  <2>2. Request(i, mem) /\ replica[i].status = "up"
    BY <1>3 DEF HandleRequestRaftMembership, PartOfGroup, Up, m
  <2> HIDE DEF mem
  <2> QED BY <2>1, <2>2, RequestKeeps DEF mem
<1>4. CASE HandleRequestRaftVoting(i, p)
  <2> DEFINE mem == [m EXCEPT !.voting = m.voting \cup {p}]
  <2>1. mem \in Memberships
    BY <1>1, <1>4 DEF Memberships, HandleRequestRaftVoting, m
  <2>2. Request(i, mem) /\ replica[i].status = "up"
    BY <1>4 DEF HandleRequestRaftVoting, PartOfGroup, Up, m
  <2> HIDE DEF mem
  <2> QED BY <2>1, <2>2, RequestKeeps
<1>5. CASE HandlePeerRequestedRaftRemoval(i, p)
  <2> DEFINE mem == [all |-> m.all \ {p}, voting |-> m.voting \ {p}]
  <2>1. mem \in Memberships
    BY <1>1 DEF Memberships
  <2>2. Request(i, mem) /\ replica[i].status = "up"
    BY <1>5 DEF HandlePeerRequestedRaftRemoval, PartOfGroup, Up, m
  <2> HIDE DEF mem
  <2> QED BY <2>1, <2>2, RequestKeeps
<1> QED BY <1>2, <1>3, <1>4, <1>5

\* HandleRelinquishLeadership.
LEMMA HandleRelinquishKeeps ==
    ASSUME Inv, NEW i \in Replica, HandleRelinquishLeadership(i)
    PROVE  Inv' /\ Keeps
<1>1. replica[i].status = "up" /\ Sound(i, replica[i]) /\ resets' \in Nat
  BY DEF HandleRelinquishLeadership, PartOfGroup, Up, Inv
<1>2. PICK sp \in Space : RaftStep(net, i, RelinquishLeadership(i, replica[i], sp))
  BY DEF HandleRelinquishLeadership
<1> DEFINE s == RelinquishLeadership(i, replica[i], sp)
<1>3. Sound(i, s) /\ Step(replica[i], s)
  BY <1>1, SpaceType, RelinquishLeadershipSound
<1>4. RaftStep(net, i, s)
  BY <1>2
<1> HIDE DEF s
<1> QED BY <1>1, <1>3, <1>4, RaftStepKeeps DEF Inv

\* Lost and new connections.
LEMMA ConnectionsKeep ==
    ASSUME Inv, NEW i \in Replica, NEW j \in Replica, Reconnect(i, j) \/ HandlePeerConnect(i, j)
    PROVE  Inv' /\ Keeps
<1> DEFINE M == Message \cup [type : {"Connected"}]
           s == ResetPeer(replica[i], j)
<1>1. replica[i].status = "up" /\ Sound(i, replica[i]) /\ resets' \in Nat
  BY DEF Reconnect, HandlePeerConnect, Up, Inv
<1>2. Sound(i, s) /\ Step(replica[i], s)
  BY <1>1, ResetPeerSound
<1>3. Moves(i, s) /\ elected' \subseteq Nat \X Replica
  BY DEF Reconnect, HandlePeerConnect, Moves, Inv
<1> HIDE DEF s
<1>4. net' \in [Channel -> Seq(M)]
  <2>1. net \in [Channel -> Seq(M)] /\ <<j, i>> \in Channel /\ <<i, j>> \in Channel
    BY DEF Inv, Channel
  <2>2. <<[type |-> "Connected"]>> \in Seq(M) /\ <<>> \in Seq(M)
    <3>1. [type |-> "Connected"] \in M
      OBVIOUS
    <3> HIDE DEF M
    <3> QED BY <3>1
  <2> DEFINE c == <<[type |-> "Connected"]>>
  <2>3. CASE Reconnect(i, j)
    <3>1. net' = [net EXCEPT ![<<i, j>>] = c, ![<<j, i>>] = <<>>]
      BY <2>3 DEF Reconnect
    <3> HIDE DEF c, M
    <3>2. c \in Seq(M)
      BY <2>2 DEF c
    <3> QED BY <2>1, <2>2, <3>1, <3>2
  <2>4. CASE HandlePeerConnect(i, j)
    <3>1. net' = [net EXCEPT ![<<j, i>>] = Tail(net[<<j, i>>])] /\ net[<<j, i>>] # <<>>
      BY <2>4 DEF HandlePeerConnect
    <3> HIDE DEF M
    <3>2. Tail(net[<<j, i>>]) \in Seq(M)
      BY <2>1, <3>1
    <3> QED BY <2>1, <3>1, <3>2
  <2> QED BY <2>3, <2>4
<1> QED BY <1>1, <1>2, <1>3, <1>4, MoveKeeps

\* A replica that joins takes the place of a blank record.
LEMMA JoinRaftKeeps ==
    ASSUME Inv, NEW i \in Replica, NEW j \in Replica, JoinRaft(i, j)
    PROVE  Inv' /\ Keeps
<1> DEFINE c == Chain(replica[j], replica[j].commit)
           s == NewRaft(i, replica[j].membership, c, replica[j].first)
<1>1. /\ replica[j].membership \in Memberships /\ replica[j].first \in Nat
      /\ replica[j].log \in Log /\ replica[j].commit \in Nat
      /\ replica[j].commit <= Last(replica[j])
  BY DEF Inv, Sound, Typed, ReplicaState, IndicesOrdered, Last, Log
<1>2. c \in Log
  BY <1>1, StretchOfLog DEF Chain, Last
<1> HIDE DEF c
<1>3. Sound(i, s) /\ s.status = "up"
  BY <1>1, <1>2, NewRaftSound
<1>4. /\ Moves(i, s) /\ UNCHANGED <<net, resets, elected>>
      /\ Blank(replica[i])
  BY DEF JoinRaft, Moves, Inv, c
<1> HIDE DEF s
<1>5. replica'[i] = s /\ \A p \in Replica \ {i} : replica'[p] = replica[p]
  BY <1>4 DEF Inv, Moves
<1>6. Inv'
  <2>1. replica' = [p \in Replica |-> replica'[p]]
    BY <1>4 DEF Inv, Moves
  <2> QED BY <1>3, <1>4, <1>5, <2>1 DEF Inv
<1>7. \A p \in Replica \ {i} : Step(replica[p], replica'[p])
  BY <1>5, UnchangedKeeps DEF Inv, Sound
<1>8. s.commit \in Nat /\ s.promise \in Nat /\ s.term \in Nat
  BY <1>3 DEF Sound, Typed, ReplicaState
<1>9. Keeps
  BY <1>4, <1>5, <1>7, <1>8 DEF Keeps, Step, Blank
<1> QED BY <1>6, <1>9

\* A crash leaves the record as it was.
LEMMA CrashKeeps ==
    ASSUME Inv, NEW i \in Replica, Crash(i)
    PROVE  Inv' /\ Keeps
<1> DEFINE r == replica[i]
           s == [r EXCEPT !.status = "down"]
<1>1. Sound(i, r) /\ UNCHANGED <<resets, elected>>
  BY DEF Inv, Crash
<1>2. Moves(i, s)
  BY DEF Crash, Moves
<1>3. Typed(s)
  BY <1>1 DEF Sound, Typed, ReplicaState
<1>4. /\ s.log = r.log /\ s.commit = r.commit /\ s.promise = r.promise
      /\ s.membership = r.membership /\ s.uncommitted = r.uncommitted
      /\ s.role = r.role /\ s.followers = r.followers
      /\ s.term = r.term /\ s.votedFor = r.votedFor /\ s.status = "down"
  BY <1>1 DEF Sound, Typed, ReplicaState
<1> HIDE DEF s
<1>5. Sound(i, s)
  BY <1>1, <1>3, <1>4, KeepsGroup
<1>6. replica'[i] = s /\ \A p \in Replica \ {i} : replica'[p] = replica[p]
  BY <1>2 DEF Inv, Moves
<1>7. Inv'
  <2>1. replica' = [p \in Replica |-> replica'[p]]
    BY <1>2 DEF Inv, Moves
  <2>2. net' \in [Channel -> Seq(Message \cup [type : {"Connected"}])]
    BY DEF Inv, Crash
  <2> QED BY <1>1, <1>4, <1>5, <1>6, <2>1, <2>2 DEF Inv
<1>8. \A p \in Replica \ {i} : Step(replica[p], replica'[p])
  BY <1>6, UnchangedKeeps DEF Inv, Sound
<1>9. r.commit \in Nat /\ r.promise \in Nat /\ r.term \in Nat
  BY <1>1 DEF Sound, Typed, ReplicaState
<1>10. Keeps
  BY <1>4, <1>6, <1>8, <1>9 DEF Keeps, Step
<1> QED BY <1>7, <1>10

-----------------------------------------------------------------------------
(* The theorems.                                                            *)

\* The record of a replica that has not joined.
LEMMA AbsentSound ==
    ASSUME NEW i \in Replica
    PROVE  Sound(i, Absent(i)) /\ Blank(Absent(i))
<1> DEFINE mem == [all |-> {}, voting |-> {}]
           r == NewRaft(i, mem, <<>>, 1)
           s == [r EXCEPT !.status = "absent"]
<1>1. mem \in Memberships /\ mem.voting # {i} /\ <<>> \in Log /\ Len(<<>>) = 0
  BY DEF Memberships, Log
<1>2. /\ Sound(i, r)
      /\ r.term = 0 /\ r.votedFor = Nil /\ r.commit = 0 /\ r.promise = 0
  <2> HIDE DEF mem
  <2> QED BY <1>1, NewRaftSound
<1>3. Absent(i) = s
  BY DEF Absent
<1> HIDE DEF r
<1>4. Typed(s)
  BY <1>2 DEF Sound, Typed, ReplicaState
<1>5. /\ s.log = r.log /\ s.commit = r.commit /\ s.promise = r.promise
      /\ s.membership = r.membership /\ s.uncommitted = r.uncommitted
      /\ s.role = r.role /\ s.followers = r.followers
      /\ s.term = r.term /\ s.votedFor = r.votedFor
  BY <1>2 DEF Sound, Typed, ReplicaState
<1> HIDE DEF s
<1>6. Sound(i, s)
  BY <1>2, <1>4, <1>5, KeepsGroup
<1> QED BY <1>2, <1>3, <1>5, <1>6 DEF Blank

\* The initial states, founder alone or group formed.
LEMMA InitInv ==
    ASSUME Init
    PROVE  Inv
<1>1. Founder \in Replica /\ InitMembership \in Memberships
  BY GroupAssumption DEF Memberships
<1>2. /\ net \in [Channel -> Seq(Message \cup [type : {"Connected"}])]
      /\ resets \in Nat /\ elected \subseteq Nat \X Replica
  BY <1>1 DEF Init
<1>3. CASE Founded
  <2>1. First(Founder) \in Memberships /\ <<>> \in Log
    BY <1>1 DEF First, Memberships, Log
  <2> DEFINE n == NewRaft(Founder, First(Founder), <<>>, 1)
  <2>2. Sound(Founder, n) /\ n.status = "up"
    BY <1>1, <2>1, NewRaftSound
  <2>3. replica = [i \in Replica |-> IF i = Founder THEN n ELSE Absent(i)]
    BY <1>3 DEF Founded
  <2> HIDE DEF n
  <2> QED BY <1>2, <2>2, <2>3, AbsentSound DEF Inv
<1>4. CASE Formed
  <2> DEFINE e == [term |-> 1, mem |-> InitMembership]
             n(i) == NewRaft(i, InitMembership, <<e>>, 1)
             v(i) == IF i = Founder THEN i ELSE Nil
             l(i) == IF i = Founder THEN Nil ELSE Founder
             s(i) == [n(i) EXCEPT !.term = 1, !.votedFor = v(i), !.leader = l(i)]
  <2>1. replica = [i \in Replica |->
          IF i \notin InitMembership.all THEN Absent(i) ELSE s(i)]
    BY <1>4 DEF Formed
  <2>2. <<e>> \in Log
    <3>1. e \in Entry
      BY <1>1 DEF Entry
    <3> HIDE DEF e
    <3> QED BY <3>1 DEF Log
  <2>3. \A i \in Replica : v(i) \in Replica \cup {Nil} /\ l(i) \in Replica \cup {Nil}
    BY <1>1
  <2> HIDE DEF e, v, l
  <2>4. ASSUME NEW i \in Replica
        PROVE  Sound(i, s(i)) /\ s(i).status = "up"
    <3>1. Sound(i, n(i)) /\ n(i).status = "up"
      BY <1>1, <2>2, NewRaftSound
    <3> DEFINE r == n(i)
               t == s(i)
    <3>2. t = [r EXCEPT !.term = 1, !.votedFor = v(i), !.leader = l(i)]
      OBVIOUS
    <3>3. Sound(i, r) /\ r.status = "up"
      BY <3>1
    <3> HIDE DEF n, r, s, t
    <3>4. Typed(t)
      BY <2>3, <3>2, <3>3 DEF Sound, Typed, ReplicaState
    <3>5. /\ t.log = r.log /\ t.commit = r.commit /\ t.promise = r.promise
          /\ t.membership = r.membership /\ t.uncommitted = r.uncommitted
          /\ t.role = r.role /\ t.followers = r.followers /\ t.status = r.status
      BY <3>2, <3>3 DEF Sound, Typed, ReplicaState
    <3>6. Sound(i, t)
      BY <3>3, <3>4, <3>5, KeepsGroup
    <3> QED BY <3>3, <3>5, <3>6 DEF t
  <2> HIDE DEF s
  <2> QED BY <1>2, <2>1, <2>4, AbsentSound DEF Inv
<1> QED BY <1>3, <1>4 DEF Init

\* Every step preserves the invariant and takes nothing back.
LEMMA NextKeeps ==
    ASSUME Inv, [Next]_vars
    PROVE  Inv' /\ Keeps
<1>1. CASE UNCHANGED vars
  <2>1. Inv'
    BY <1>1 DEF Inv, vars
  <2>2. \A i \in Replica : Step(replica[i], replica'[i])
    BY <1>1, UnchangedKeeps DEF Inv, Sound, vars
  <2> QED BY <2>1, <2>2 DEF Keeps, Step
<1>2. CASE Next
  <2>1. PICK i \in Replica :
          \/ HandleTimerTick(i) \/ HandleRaftWrite(i) \/ HandleRelinquishLeadership(i)
          \/ Crash(i)
          \/ \E j \in Replica :
               \/ HandleRaftMessage(i, j) \/ HandleRequestRaftMembership(i, j)
               \/ HandleRequestRaftVoting(i, j) \/ HandlePeerRequestedRaftRemoval(i, j)
               \/ Reconnect(i, j) \/ HandlePeerConnect(i, j) \/ JoinRaft(i, j)
    BY <1>2, Zenon DEF Next
  <2>2. CASE HandleTimerTick(i)
    BY <2>2, HandleTimerTickKeeps
  <2>3. CASE HandleRaftWrite(i)
    BY <2>3, RequestsKeep
  <2>4. CASE HandleRelinquishLeadership(i)
    BY <2>4, HandleRelinquishKeeps
  <2>5. CASE Crash(i)
    BY <2>5, CrashKeeps
  <2>6. ASSUME NEW j \in Replica, HandleRaftMessage(i, j)
        PROVE  Inv' /\ Keeps
    BY <2>6, HandleRaftMessageKeeps
  <2>7. ASSUME NEW j \in Replica,
               \/ HandleRequestRaftMembership(i, j) \/ HandleRequestRaftVoting(i, j)
               \/ HandlePeerRequestedRaftRemoval(i, j)
        PROVE  Inv' /\ Keeps
    BY <2>7, RequestsKeep
  <2>8. ASSUME NEW j \in Replica, Reconnect(i, j) \/ HandlePeerConnect(i, j)
        PROVE  Inv' /\ Keeps
    BY <2>8, ConnectionsKeep
  <2>9. ASSUME NEW j \in Replica, JoinRaft(i, j)
        PROVE  Inv' /\ Keeps
    BY <2>9, JoinRaftKeeps
  <2> QED BY <2>1, <2>2, <2>3, <2>4, <2>5, <2>6, <2>7, <2>8, <2>9
<1> QED BY <1>1, <1>2

\* The handlers of Core restore everything they rely on, from any state that
\* has it and for every group and every bound: IndInv is inductive.
THEOREM Inductive == Spec => []IndInv
<1>1. Init => Inv
  BY InitInv
<1>2. Inv /\ [Next]_vars => Inv'
  BY NextKeeps
<1>3. Inv => IndInv
  BY InvIsIndInv
<1> QED BY <1>1, <1>2, <1>3, PTL DEF Spec

\* Replica records, queued messages and messages under way always have their
\* types; in particular a leader's next index for a follower never falls below 1
\* when it backs up (HandleAppendResponse).
THEOREM TypeCorrect == Spec => []TypeOK
<1>1. IndInv => TypeOK
  BY DEF IndInv
<1> QED BY <1>1, Inductive, PTL

\* commit <= promise <= last index on every replica, and a leader's promise and
\* match indices for a follower stay within its own log.
THEOREM IndicesStayOrdered == Spec => []IndexOrder
<1>1. IndInv => IndexOrder
  BY DEF IndInv, ReplicaInv, IndexOrder
<1> QED BY <1>1, Inductive, PTL

\* Candidates and leaders are voters of the membership in force, and a leader's
\* followers are the other members, whatever changes were logged, committed or
\* cancelled before.
THEOREM FollowersMatchGroup == Spec => []FollowersAreMembers
<1>1. IndInv => FollowersAreMembers
  BY DEF IndInv, ReplicaInv, FollowersAreMembers
<1> QED BY <1>1, Inductive, PTL

\* No handler moves a promise or commit index back or replaces a promised
\* entry, although HandleAppendRequest cancels conflicting entries.
THEOREM PromisesAreKept == Spec => PromisesKept
<1> DEFINE P == \A i \in Replica :
                  LET r == replica[i]
                      s == replica'[i]
                  IN /\ r.promise <= s.promise /\ r.commit <= s.commit
                     /\ Chain(s, r.promise) = Chain(r, r.promise)
<1>1. ASSUME Inv, [Next]_vars
      PROVE  P
  <2>1. Inv' /\ Keeps
    BY <1>1, NextKeeps
  <2>2. SUFFICES ASSUME NEW i \in Replica
                 PROVE  /\ replica[i].promise <= replica'[i].promise
                        /\ replica[i].commit <= replica'[i].commit
                        /\ Chain(replica'[i], replica[i].promise)
                             = Chain(replica[i], replica[i].promise)
    OBVIOUS
  <2> DEFINE r == replica[i]
             s == replica'[i]
             n == r.promise
  <2>3. /\ n \in Nat /\ n <= s.promise /\ r.commit <= s.commit
        /\ \A x \in 1..n : s.log[x] = r.log[x]
    BY <1>1, <2>1 DEF Keeps, Inv, Sound, Typed, ReplicaState
  <2>4. /\ r.log \in Seq(Entry) /\ n <= Len(r.log)
        /\ s.log \in Seq(Entry) /\ s.promise <= Len(s.log) /\ s.promise \in Nat
    BY <1>1, <2>1 DEF Inv, Sound, Typed, ReplicaState, IndicesOrdered, Last, Log
  <2> HIDE DEF r, s, n
  <2>5. Chain(s, n) = Chain(r, n)
    BY <2>3, <2>4 DEF Chain
  <2> QED BY <2>3, <2>5 DEF r, s, n
<1>2. Init => Inv
  BY InitInv
<1>3. Inv /\ [Next]_vars => Inv'
  BY NextKeeps
<1>4. Inv /\ [Next]_vars => [P]_vars
  BY <1>1
<1>5. Spec => [][P]_vars
  <2> HIDE DEF P
  <2> QED BY <1>2, <1>3, <1>4, PTL DEF Spec
<1> QED BY <1>5 DEF PromisesKept

\* A replica votes for one candidate in a term and never returns to an earlier
\* term: what elections rest on, with votes kept in memory only.
THEOREM VotesAreKept == Spec => OneVotePerTerm
<1> DEFINE P == \A i \in Replica :
                  LET r == replica[i]
                      s == replica'[i]
                  IN /\ r.term <= s.term
                     /\ r.term = s.term /\ r.votedFor # Nil => s.votedFor = r.votedFor
<1>1. ASSUME Inv, [Next]_vars
      PROVE  P
  BY <1>1, NextKeeps DEF Keeps
<1>2. Init => Inv
  BY InitInv
<1>3. Inv /\ [Next]_vars => Inv'
  BY NextKeeps
<1>4. Inv /\ [Next]_vars => [P]_vars
  BY <1>1
<1>5. Spec => [][P]_vars
  <2> HIDE DEF P
  <2> QED BY <1>2, <1>3, <1>4, PTL DEF Spec
<1> QED BY <1>5 DEF OneVotePerTerm
=============================================================================
