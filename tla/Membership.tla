----------------------------- MODULE Membership -----------------------------
(***************************************************************************)
(* Replica group memberships and the quorum arithmetic built on them:      *)
(* enclave/raft/membership.cc and Raft::quorum_size.  A membership is the  *)
(* set of all replicas of a group and the subset of them that vote.        *)
(***************************************************************************)
EXTENDS Integers, FiniteSets

CONSTANTS
    Replica,        \* every peer id a group may ever contain
    SuperMajority   \* RaftGroupConfig.super_majority

ASSUME ReplicaAssumption == IsFiniteSet(Replica)
ASSUME SuperMajorityAssumption == SuperMajority \in Nat

\* What FromProto builds: it inserts a voting replica into both sets, so the
\* voters are always among the members.
Memberships == {m \in [all : SUBSET Replica, voting : SUBSET Replica] :
                  m.voting \subseteq m.all}

First(me) == [all |-> {me}, voting |-> {me}]

\* Mutant of QuorumSize: half of the voters is enough.
QuorumSizeOffByOne(v) == (v - SuperMajority) \div 2 + SuperMajority

\* The number of votes or acknowledgements needed among v voters.  The code
\* computes in size_t: for v < SuperMajority the difference wraps to a number
\* beyond any v, and the minimum is v.
QuorumSize(v) ==
    LET needed == (v - SuperMajority) \div 2 + 1 + SuperMajority
    IN IF v < SuperMajority \/ needed > v THEN v ELSE needed

-----------------------------------------------------------------------------

\* The step from one membership to another is a single change, or the removal
\* of one voter from both sets at once.
SingleChange(from, to) ==
    LET votingAdded   == to.voting \ from.voting
        votingRemoved == from.voting \ to.voting
        allAdded      == to.all \ from.all
        allRemoved    == from.all \ to.all
        changes       == Cardinality(votingAdded) + Cardinality(votingRemoved)
                           + Cardinality(allAdded) + Cardinality(allRemoved)
    IN \/ changes = 1
       \/ /\ changes = 2
          /\ Cardinality(votingRemoved) = 1
          /\ votingRemoved = allRemoved

\* Membership changes the leader accepts: the super majority is not lost, only
\* one thing changes, and the leader stays a voting member.
ValidProgressionForLeader(leader, from, to) ==
    /\ ~ ( /\ Cardinality(from.voting) > SuperMajority
           /\ Cardinality(to.voting) <= SuperMajority )
    /\ to.voting # {} /\ to.all # {}
    /\ SingleChange(from, to)
    /\ leader \in to.voting
    /\ leader \in to.all
    /\ to.voting \subseteq to.all
=============================================================================
