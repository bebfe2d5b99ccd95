-------------------------- MODULE MembershipProofs --------------------------
(***************************************************************************)
(* Why Raft::quorum_size and ValidProgressionForLeader are enough: what    *)
(* any two quorums have in common, within a group, across one change of    *)
(* the group, and across two changes made from the same group.             *)
(***************************************************************************)
EXTENDS Membership, FiniteSetTheorems, TLAPS

IsQuorum(Q, m) ==
    Q \subseteq m.voting /\ Cardinality(Q) >= QuorumSize(Cardinality(m.voting))

\* A quorum is not larger than the group, is a majority of it, and has
\* SuperMajority voters to spare unless it is the whole group (quorum_size).
LEMMA QuorumSizeBounds ==
    ASSUME NEW v \in Nat \ {0}
    PROVE  /\ QuorumSize(v) \in 1..v
           /\ QuorumSize(v) = v \/ 2 * QuorumSize(v) >= v + SuperMajority + 1
  BY SuperMajorityAssumption DEF QuorumSize

\* The voters of a membership are finitely many.
LEMMA VotersFinite ==
    ASSUME NEW m \in Memberships
    PROVE  IsFiniteSet(m.voting) /\ Cardinality(m.voting) \in Nat
  BY ReplicaAssumption, FS_Subset, FS_CardinalityType DEF Memberships

\* Two subsets that are together larger than a set they are in overlap.
LEMMA Overlap ==
    ASSUME NEW V, IsFiniteSet(V), NEW A \in SUBSET V, NEW B \in SUBSET V
    PROVE  /\ IsFiniteSet(A \cap B)
           /\ Cardinality(A \cap B) \in Nat
           /\ Cardinality(A \cap B) >= Cardinality(A) + Cardinality(B) - Cardinality(V)
<1>1. /\ IsFiniteSet(A) /\ IsFiniteSet(B)
      /\ IsFiniteSet(A \cup B) /\ IsFiniteSet(A \cap B)
      /\ Cardinality(A \cup B) <= Cardinality(V)
  <2>1. A \cup B \in SUBSET V /\ A \cap B \in SUBSET V
    OBVIOUS
  <2> QED BY <2>1, FS_Subset
<1>2. Cardinality(A \cup B) = Cardinality(A) + Cardinality(B) - Cardinality(A \cap B)
  BY <1>1, FS_Union
<1> QED BY <1>1, <1>2, FS_CardinalityType
-----------------------------------------------------------------------------

\* Any two quorums of a group share more than SuperMajority voters, or all of
\* them: no entry is committed and no leader elected behind the other's back.
THEOREM QuorumsIntersect ==
    ASSUME NEW m \in Memberships, m.voting # {},
           NEW A, IsQuorum(A, m), NEW B, IsQuorum(B, m)
    PROVE  /\ A \cap B # {}
           /\ \/ Cardinality(A \cap B) > SuperMajority
              \/ A = m.voting \/ B = m.voting
<1> DEFINE v == Cardinality(m.voting)
<1>1. IsFiniteSet(m.voting) /\ v \in Nat \ {0}
  BY VotersFinite, FS_EmptySet
<1>2. /\ QuorumSize(v) \in 1..v
      /\ QuorumSize(v) = v \/ 2 * QuorumSize(v) >= v + SuperMajority + 1
  BY <1>1, QuorumSizeBounds
<1>3. /\ IsFiniteSet(A) /\ IsFiniteSet(B)
      /\ Cardinality(A) \in QuorumSize(v)..v /\ Cardinality(B) \in QuorumSize(v)..v
      /\ Cardinality(A) = v => A = m.voting
  <2>1. A \in SUBSET m.voting /\ B \in SUBSET m.voting
    BY DEF IsQuorum
  <2>2. /\ IsFiniteSet(A) /\ Cardinality(A) <= v /\ (v = Cardinality(A) => A = m.voting)
        /\ IsFiniteSet(B) /\ Cardinality(B) <= v
    BY <1>1, <2>1, FS_Subset
  <2>3. Cardinality(A) \in Nat /\ Cardinality(B) \in Nat
    BY <2>2, FS_CardinalityType
  <2> QED BY <1>2, <2>2, <2>3 DEF IsQuorum
<1>4. /\ Cardinality(A \cap B) \in Nat
      /\ Cardinality(A \cap B) >= Cardinality(A) + Cardinality(B) - v
  BY <1>1, Overlap DEF IsQuorum
<1>5. Cardinality(A \cap B) >= 1
  BY <1>1, <1>2, <1>3, <1>4, SuperMajorityAssumption
<1>6. A \cap B # {}
  BY <1>5, FS_EmptySet
<1>7. Cardinality(A \cap B) > SuperMajority \/ Cardinality(A) = v
  BY <1>1, <1>2, <1>3, <1>4, SuperMajorityAssumption
<1> QED BY <1>3, <1>6, <1>7
-----------------------------------------------------------------------------

\* A single change adds or removes at most one voter.
LEMMA OneVoterAtATime ==
    ASSUME NEW from \in Memberships, NEW to \in Memberships, SingleChange(from, to)
    PROVE  /\ IsFiniteSet(to.voting \ from.voting)
           /\ IsFiniteSet(from.voting \ to.voting)
           /\ Cardinality(to.voting \ from.voting) \in Nat
           /\ Cardinality(from.voting \ to.voting) \in Nat
           /\ Cardinality(to.voting \ from.voting)
                + Cardinality(from.voting \ to.voting) <= 1
           /\ Cardinality(to.voting) = Cardinality(from.voting)
                + Cardinality(to.voting \ from.voting)
                - Cardinality(from.voting \ to.voting)
<1> DEFINE va == to.voting \ from.voting
           vr == from.voting \ to.voting
           aa == to.all \ from.all
           ar == from.all \ to.all
<1>1. \A S \in SUBSET Replica : IsFiniteSet(S) /\ Cardinality(S) \in Nat
  BY ReplicaAssumption, FS_Subset, FS_CardinalityType
<1>2. {va, vr, aa, ar, to.voting, from.voting} \subseteq SUBSET Replica
  BY DEF Memberships
<1>3. Cardinality(va) + Cardinality(vr) <= 1
  <2>1. {Cardinality(va), Cardinality(vr), Cardinality(aa), Cardinality(ar)} \subseteq Nat
    BY <1>1, <1>2
  <2>2. \/ Cardinality(va) + Cardinality(vr) + Cardinality(aa) + Cardinality(ar) = 1
        \/ /\ Cardinality(va) + Cardinality(vr) + Cardinality(aa) + Cardinality(ar) = 2
           /\ Cardinality(vr) = 1
           /\ Cardinality(ar) = 1
    BY DEF SingleChange
  <2> QED BY <2>1, <2>2
<1>4. Cardinality(to.voting) - Cardinality(to.voting \cap from.voting) = Cardinality(va)
  BY <1>1, <1>2, FS_Difference, FS_Intersection
<1>5. Cardinality(from.voting) - Cardinality(to.voting \cap from.voting) = Cardinality(vr)
  <2>1. to.voting \cap from.voting = from.voting \cap to.voting
    OBVIOUS
  <2>2. IsFiniteSet(from.voting) /\ Cardinality(from.voting) \in Nat
    BY <1>1, <1>2
  <2>3. /\ Cardinality(from.voting \cap to.voting) \in Nat
        /\ Cardinality(vr) = Cardinality(from.voting) - Cardinality(from.voting \cap to.voting)
    BY <2>2, FS_Difference, FS_Intersection, FS_CardinalityType
  <2> QED BY <2>1, <2>2, <2>3
<1>6. Cardinality(to.voting \cap from.voting) \in Nat
  <2>1. to.voting \cap from.voting \in SUBSET Replica
    BY <1>2
  <2> QED BY <1>1, <2>1
<1> QED BY <1>1, <1>2, <1>3, <1>4, <1>5, <1>6

\* A quorum of a membership and one of the membership a leader makes of it by
\* a valid step have a voter in common: the old and the new group cannot
\* decide without each other.
THEOREM QuorumsIntersectAcrossChange ==
    ASSUME NEW from \in Memberships, NEW to \in Memberships, NEW leader,
           ValidProgressionForLeader(leader, from, to), from.voting # {},
           NEW A, IsQuorum(A, from), NEW B, IsQuorum(B, to)
    PROVE  A \cap B # {}
<1> DEFINE v == Cardinality(from.voting)
           w == Cardinality(to.voting)
           U == from.voting \cup to.voting
           added == Cardinality(to.voting \ from.voting)
           removed == Cardinality(from.voting \ to.voting)
<1>1. /\ IsFiniteSet(from.voting) /\ v \in Nat \ {0}
      /\ IsFiniteSet(to.voting) /\ w \in Nat \ {0}
  BY VotersFinite, FS_EmptySet DEF ValidProgressionForLeader
<1>2. /\ added \in Nat /\ removed \in Nat /\ added + removed <= 1
      /\ w = v + added - removed
  BY OneVoterAtATime DEF ValidProgressionForLeader
<1>3. IsFiniteSet(U) /\ Cardinality(U) = v + added
  <2>1. Cardinality(to.voting \ from.voting)
          = Cardinality(to.voting) - Cardinality(to.voting \cap from.voting)
    BY <1>1, FS_Difference
  <2>2. /\ IsFiniteSet(U)
        /\ Cardinality(U) = v + w - Cardinality(from.voting \cap to.voting)
    BY <1>1, FS_Union
  <2>3. from.voting \cap to.voting = to.voting \cap from.voting
    OBVIOUS
  <2>4. Cardinality(from.voting \cap to.voting) \in Nat
    BY <1>1, FS_Intersection, FS_CardinalityType
  <2> QED BY <1>1, <1>2, <2>1, <2>2, <2>3, <2>4
<1>4. /\ QuorumSize(v) \in 1..v
      /\ QuorumSize(v) = v \/ 2 * QuorumSize(v) >= v + SuperMajority + 1
      /\ QuorumSize(w) \in 1..w
      /\ QuorumSize(w) = w \/ 2 * QuorumSize(w) >= w + SuperMajority + 1
  BY <1>1, QuorumSizeBounds
<1>5. QuorumSize(v) + QuorumSize(w) > v + added
  BY <1>1, <1>2, <1>4, SuperMajorityAssumption
<1>6. /\ A \in SUBSET U /\ B \in SUBSET U
      /\ Cardinality(A) >= QuorumSize(v) /\ Cardinality(B) >= QuorumSize(w)
  BY DEF IsQuorum
<1>7. Cardinality(A) \in Nat /\ Cardinality(B) \in Nat
  BY <1>3, <1>6, FS_Subset, FS_CardinalityType
<1>8. Cardinality(A) + Cardinality(B) > Cardinality(U)
  BY <1>1, <1>2, <1>3, <1>4, <1>5, <1>6, <1>7
<1> QED BY <1>3, <1>6, <1>8, FS_MajoritiesIntersect
-----------------------------------------------------------------------------

\* Two leaders may each make a change from the same group, neither knowing of
\* the other's: LogRequest refuses a second change only while the leader's own
\* log holds an uncommitted one, and a new leader may take changes before it
\* has committed anything.  With SuperMajority at least 1 and a group larger
\* than it the quorums of the two new groups still share a voter.
THEOREM SiblingQuorumsIntersect ==
    ASSUME SuperMajority >= 1,
           NEW from \in Memberships, Cardinality(from.voting) > SuperMajority,
           NEW l, NEW m \in Memberships, ValidProgressionForLeader(l, from, m),
           NEW k, NEW n \in Memberships, ValidProgressionForLeader(k, from, n),
           NEW A, IsQuorum(A, m), NEW B, IsQuorum(B, n)
    PROVE  A \cap B # {}
<1> DEFINE v  == Cardinality(from.voting)
           vm == Cardinality(m.voting)
           vn == Cardinality(n.voting)
           am == Cardinality(m.voting \ from.voting)
           rm == Cardinality(from.voting \ m.voting)
           an == Cardinality(n.voting \ from.voting)
           rn == Cardinality(from.voting \ n.voting)
           U  == from.voting \cup (m.voting \ from.voting) \cup (n.voting \ from.voting)
<1>1. /\ IsFiniteSet(from.voting) /\ v \in Nat
      /\ vm \in Nat /\ vm > SuperMajority
      /\ vn \in Nat /\ vn > SuperMajority
  BY VotersFinite, SuperMajorityAssumption DEF ValidProgressionForLeader
<1>2. /\ IsFiniteSet(m.voting \ from.voting)
      /\ am \in Nat /\ rm \in Nat /\ am + rm <= 1 /\ vm = v + am - rm
  BY OneVoterAtATime DEF ValidProgressionForLeader
<1>3. /\ IsFiniteSet(n.voting \ from.voting)
      /\ an \in Nat /\ rn \in Nat /\ an + rn <= 1 /\ vn = v + an - rn
  BY OneVoterAtATime DEF ValidProgressionForLeader
<1>4. IsFiniteSet(U) /\ Cardinality(U) \in Nat /\ Cardinality(U) <= v + am + an
  <2> DEFINE W == from.voting \cup (m.voting \ from.voting)
  <2>1. /\ IsFiniteSet(W)
        /\ Cardinality(W) = v + am - Cardinality(from.voting \cap (m.voting \ from.voting))
        /\ Cardinality(from.voting \cap (m.voting \ from.voting)) \in Nat
    BY <1>1, <1>2, FS_Union, FS_Intersection, FS_CardinalityType
  <2>2. /\ IsFiniteSet(U)
        /\ Cardinality(U) = Cardinality(W) + an - Cardinality(W \cap (n.voting \ from.voting))
        /\ Cardinality(W \cap (n.voting \ from.voting)) \in Nat
    <3> HIDE DEF W
    <3>1. U = W \cup (n.voting \ from.voting)
      BY DEF W
    <3> QED BY <2>1, <1>3, <3>1, FS_Union, FS_Intersection, FS_CardinalityType
  <2>3. Cardinality(W) \in Nat /\ Cardinality(U) \in Nat
    BY <2>1, <2>2, FS_CardinalityType
  <2> QED BY <1>1, <1>2, <1>3, <2>1, <2>2, <2>3
<1>5. /\ QuorumSize(vm) \in 1..vm
      /\ QuorumSize(vm) = vm \/ 2 * QuorumSize(vm) >= vm + SuperMajority + 1
      /\ QuorumSize(vn) \in 1..vn
      /\ QuorumSize(vn) = vn \/ 2 * QuorumSize(vn) >= vn + SuperMajority + 1
  BY <1>1, QuorumSizeBounds, SuperMajorityAssumption
<1>6. QuorumSize(vm) + QuorumSize(vn) > v + am + an
  BY <1>1, <1>2, <1>3, <1>5, SuperMajorityAssumption
<1>7. /\ A \in SUBSET U /\ B \in SUBSET U
      /\ Cardinality(A) >= QuorumSize(vm) /\ Cardinality(B) >= QuorumSize(vn)
  BY DEF IsQuorum
<1>8. Cardinality(A) \in Nat /\ Cardinality(B) \in Nat
  BY <1>4, <1>7, FS_Subset, FS_CardinalityType
<1>9. Cardinality(A) + Cardinality(B) > Cardinality(U)
  BY <1>1, <1>2, <1>3, <1>4, <1>5, <1>6, <1>7, <1>8
<1> QED BY <1>4, <1>7, <1>9, FS_MajoritiesIntersect
=============================================================================
