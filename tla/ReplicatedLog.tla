--------------------------- MODULE ReplicatedLog ----------------------------
(***************************************************************************)
(* What a replica group promises its Core objects: one sequence of entries *)
(* that only grows, of which every replica has applied a prefix that only  *)
(* grows.  TakeCommittedLog hands out exactly the entries of that prefix.  *)
(***************************************************************************)
EXTENDS Naturals, Sequences

CONSTANTS Replica, Entry

VARIABLES
    committed,   \* the entries of the group, in order
    applied      \* how many of them each replica has handed to its database

vars == <<committed, applied>>

Init ==
    /\ committed \in Seq(Entry)
    /\ applied \in [Replica -> 0..Len(committed)]

\* A replica learns that new entries are committed and applies them all.
Commit(i) ==
    /\ committed' \in Seq(Entry)
    /\ Len(committed') > Len(committed)
    /\ SubSeq(committed', 1, Len(committed)) = committed
    /\ applied' = [applied EXCEPT ![i] = Len(committed')]

\* A replica catches up with entries that are already committed, one step or
\* a whole database at a time.
Apply(i) ==
    /\ \E n \in (applied[i] + 1)..Len(committed) : applied' = [applied EXCEPT ![i] = n]
    /\ UNCHANGED committed

Next == \E i \in Replica : Commit(i) \/ Apply(i)

Spec == Init /\ [][Next]_vars
=============================================================================
