------------------------------- MODULE MCRaft -------------------------------
(***************************************************************************)
(* Raft on small instances.  Elections, writes and hand-overs are bounded  *)
(* by the pairs <<term, replica>> at which they may happen.                *)
(***************************************************************************)
EXTENDS Raft

CONSTANTS r1, r2, r3

Three == {r1, r2, r3}
ThreeVoters == [all |-> Three, voting |-> Three]
Alone == First(r1)

Never == {}
Links12 == {<<r1, r2>>, <<r2, r1>>}
Links13 == {<<r1, r3>>, <<r3, r1>>}

\* r1 and r3 take over from each other, up to term 5.
Rivals == {<<1, r1>>, <<1, r3>>, <<2, r3>>, <<3, r1>>, <<4, r3>>}
RivalWrites == {<<2, r1>>, <<3, r3>>}

\* r2 succeeds r1.
Successor == {<<1, r1>>, <<2, r2>>}

\* The first leader may change its group twice, its successor once.
Changes == {<<2, 2>>, <<2, 3>>, <<3, 2>>}
AnyChanges == (1..5) \X (1..MaxLog - 1)

\* r1 and r3 split the votes of term 2.
Split == {<<1, r1>>, <<1, r3>>, <<2, r1>>}

Always == (1..5) \X Three
FirstTwo == {<<1, r1>>, <<2, r1>>}
Term1 == {<<1, r1>>}
Term2 == {<<2, r1>>}
FounderTimers == {<<1, r2>>}

\* Appends always find room; or drop an entry and fail at once, after one entry, or after two.
Roomy == {[trunc |-> 0, room |-> 9]}
Tight == {[trunc |-> 1, room |-> n] : n \in 0..2}

\* r2 stands when r1 has logged one change; or r1 goes on and logs another.
SucceedsOrGoesOn ==
    (\E i \in Three : replica'[i].term = 3)
      => /\ \E i \in Three : Last(replica'[i]) >= 3
         /\ \A i \in Three : Last(replica'[i]) = 4 => replica'[i].log[4].term = 3

\* Nothing gets through between r1 and r3.
Partitioned == \A c \in Links13 : Len(net'[c]) >= Len(net[c])

\* Nothing does before term 5; then they connect anew.
PartitionedUntilTerm5 ==
    IF resets' = 0 THEN Partitioned
    ELSE resets = 1 \/ \E i \in Three : replica[i].term >= 5
=============================================================================
