----------------------------- MODULE PeerSession -----------------------------
(***************************************************************************)
(* The encrypted session two enclaves keep with each other:                 *)
(* enclave/peers/peers.cc (Peer and PeerManager), driven by core.cc.  The   *)
(* initiator sends a Syn and waits; the acceptor is connected as it answers *)
(* with a Synack.  A session numbers the data of each direction, and data   *)
(* that does not decrypt ends it with a Rst.                                *)
(*                                                                         *)
(* The hosts' link below it is the one PeerTransport models: in order, and  *)
(* losing messages only to a newer Syn, Synack or Rst, to a full buffer or  *)
(* to an abandoned peer.  Of the last two the sending enclave is told.      *)
(***************************************************************************)
EXTENDS Integers, Sequences, FiniteSets

CONSTANTS
    Handshakes,     \* identities of Syns, more than are ever in use at once
    MaxData,        \* bound: messages an enclave sends in one session
    Incidents,      \* bound: what may happen, each kind once: see Kinds
    MaxIncidents    \* bound: how many of them happen

Kinds == {
    "join",         \* a connection opened while joining, by either end
    "hasty",        \* a timer tick that finds messages still under way
    "unattested",   \* an attestation that fails
    "expired",      \* a session ended by an old attestation or a new minimum
    "dropped",      \* a message refused by a full buffer
    "abandoned"}    \* a host giving up on the other

ASSUME SessionConstants ==
    /\ Handshakes \subseteq Nat \ {0}
    /\ Incidents \subseteq Kinds
    /\ {MaxData, MaxIncidents} \subseteq Nat

\* The two enclaves, named by how their ids compare.
Ends == {"lower", "higher"}
Other(e) == CHOOSE o \in Ends : o # e

VARIABLES
    peer,        \* peer[e]: the Peer for the other enclave, disconnected before its first message
    link,        \* link[e]: messages under way from e to the other
    sender,      \* sender[e]: the sender of e's host: "none" yet, "running" or "abandoned"
    resets,      \* resets[e]: a ResetPeer under way from e's host to e
    happened     \* the incidents so far

vars == <<peer, link, sender, resets, happened>>

-----------------------------------------------------------------------------
(* A Peer: the Syn it waits for an answer to, or the session and the numbers *)
(* of the next message to encrypt and to decrypt in it.  A session has the   *)
(* identity of the Syn it was opened with.                                   *)

InternalDisconnect == [handshake |-> 0, session |-> 0, tx |-> 0, rx |-> 0]

Split(h) == [InternalDisconnect EXCEPT !.session = h]

InternalCurrentState(p) ==
    IF p.handshake # 0 THEN "connecting"
    ELSE IF p.session # 0 THEN "connected" ELSE "disconnected"

State(e) == InternalCurrentState(peer[e])

Syn(h) == [kind |-> "syn", id |-> h, n |-> 0]
Synack(h) == [kind |-> "synack", id |-> h, n |-> 0]
Data(s, n) == [kind |-> "data", id |-> s, n |-> n]
Rst == [kind |-> "rst", id |-> 0, n |-> 0]

\* A fresh ephemeral key: a Syn no message or Peer refers to.
InUse ==
    UNION {{peer[e].handshake, peer[e].session}
             \cup {link[e][k].id : k \in 1..Len(link[e])} : e \in Ends}
Fresh(h) == h \in Handshakes \ InUse /\ \A g \in Handshakes \ InUse : h <= g

Incident(what) ==
    /\ what \in Incidents \ happened /\ Cardinality(happened) < MaxIncidents
    /\ happened' = happened \cup {what}

-----------------------------------------------------------------------------
(* The link.                                                                 *)

Idle == \A e \in Ends : link[e] = <<>>

\* What is under way once e has taken the next message of the other.
Taken(e) == [link EXCEPT ![Other(e)] = Tail(@)]

\* A Syn, Synack or Rst discards what has not left the host yet.
Supersede(queue, m) == {Append(SubSeq(queue, 1, k), m) : k \in 0..Len(queue)}

\* What e sends when links are under way.  A Syn or Synack resumes talking to
\* an abandoned peer; a Rst to one is dropped.
SendAnew(e, links, m) ==
    /\ \E q \in Supersede(links[e], m) : link' = [links EXCEPT ![e] = q]
    /\ sender' = [sender EXCEPT ![e] = "running"]

SendRst(e, links) ==
    \/ /\ sender[e] = "abandoned"
       /\ link' = links
       /\ UNCHANGED sender
    \/ /\ sender[e] # "abandoned"
       /\ SendAnew(e, links, Rst)

\* Mutant of Disconnect: nobody is told.
DisconnectsSilently(e, links) ==
    /\ peer' = [peer EXCEPT ![e] = InternalDisconnect]
    /\ link' = links /\ UNCHANGED sender

Disconnect(e, links) ==
    /\ peer' = [peer EXCEPT ![e] = InternalDisconnect]
    /\ SendRst(e, links)

-----------------------------------------------------------------------------
(* Opening a session.                                                        *)

InternalConnect(e) ==
    \E h \in Handshakes :
        /\ Fresh(h)
        /\ peer' = [peer EXCEPT ![e] = [InternalDisconnect EXCEPT !.handshake = h]]
        /\ SendAnew(e, link, Syn(h))

MaybeConnect(e) == State(e) = "disconnected" /\ InternalConnect(e)

\* On a timer tick a member of the group connects to the members above it.  Ticks
\* are further apart than messages take, with few exceptions.
ConnectToRaftMembers ==
    /\ MaybeConnect("lower")
    /\ \/ Idle /\ UNCHANGED happened
       \/ ~Idle /\ Incident("hasty")
    /\ UNCHANGED resets

\* An enclave that joins connects to its first peer, then to the whole group.
Join(e) ==
    /\ MaybeConnect(e)
    /\ Incident("join")
    /\ UNCHANGED resets

\* A Syn is accepted in any state.  If its attestation fails the Peer stays
\* disconnected and nothing is sent.
Accept(e, h) ==
    \/ /\ peer' = [peer EXCEPT ![e] = Split(h)]
       /\ SendAnew(e, Taken(e), Synack(h))
       /\ UNCHANGED happened
    \/ /\ Incident("unattested")
       /\ peer' = [peer EXCEPT ![e] = InternalDisconnect]
       /\ link' = Taken(e)
       /\ UNCHANGED sender

\* The Synack must answer the Syn this Peer waits for, and attest.
FinishConnection(e, h) ==
    \/ /\ h = peer[e].handshake
       /\ peer' = [peer EXCEPT ![e] = Split(h)]
       /\ link' = Taken(e)
       /\ UNCHANGED <<sender, happened>>
    \/ /\ h # peer[e].handshake
       /\ Disconnect(e, Taken(e))
       /\ UNCHANGED happened
    \/ /\ h = peer[e].handshake /\ Incident("unattested")
       /\ Disconnect(e, Taken(e))

-----------------------------------------------------------------------------
(* Messages from the other enclave.                                          *)

RecvSynack(e, h) ==
    \/ State(e) = "connecting" /\ FinishConnection(e, h)
    \/ State(e) # "connecting" /\ Disconnect(e, Taken(e)) /\ UNCHANGED happened

Decrypts(e, m) == m.id = peer[e].session /\ m.n = peer[e].rx

\* Data may be an attestation update, which ends the session if it fails.
RecvData(e, m) ==
    \/ /\ State(e) # "connected"
       /\ link' = Taken(e)
       /\ UNCHANGED <<peer, sender, happened>>
    \/ /\ State(e) = "connected" /\ Decrypts(e, m)
       /\ peer' = [peer EXCEPT ![e].rx = @ + 1]
       /\ link' = Taken(e)
       /\ UNCHANGED <<sender, happened>>
    \/ /\ State(e) = "connected" /\ ~Decrypts(e, m)
       /\ Disconnect(e, Taken(e))
       /\ UNCHANGED happened
    \/ /\ State(e) = "connected" /\ Decrypts(e, m) /\ Incident("unattested")
       /\ Disconnect(e, Taken(e))

\* Mutant of RecvRst: a Rst ends a session, not an attempt to open one.
KeepsHandshake(e) ==
    /\ peer' = [peer EXCEPT ![e] = IF State(e) = "connecting" THEN @ ELSE InternalDisconnect]
    /\ link' = Taken(e)
    /\ UNCHANGED <<sender, happened>>

RecvRst(e) ==
    /\ peer' = [peer EXCEPT ![e] = InternalDisconnect]
    /\ link' = Taken(e)
    /\ UNCHANGED <<sender, happened>>

RecvFromPeer(e) ==
    /\ link[Other(e)] # <<>>
    /\ LET m == Head(link[Other(e)])
       IN \/ m.kind = "syn" /\ Accept(e, m.id)
          \/ m.kind = "synack" /\ RecvSynack(e, m.id)
          \/ m.kind = "data" /\ RecvData(e, m)
          \/ m.kind = "rst" /\ RecvRst(e)
    /\ UNCHANGED resets

-----------------------------------------------------------------------------
(* Sending, and ending a session.                                            *)

\* Mutant of SendToPeer: the enclave is not told of a full buffer.
SendsIntoFullBuffer(e) ==
    /\ State(e) = "connected" /\ peer[e].tx < MaxData
    /\ peer' = [peer EXCEPT ![e].tx = @ + 1]
    /\ \/ /\ link' = [link EXCEPT ![e] = Append(@, Data(peer[e].session, peer[e].tx))]
          /\ UNCHANGED happened
       \/ Incident("dropped") /\ UNCHANGED link
    /\ UNCHANGED <<sender, resets>>

\* The host of an abandoned peer, or one whose buffer is full, refuses the data
\* and has the enclave reset the peer.
SendToPeer(e) ==
    LET m == Data(peer[e].session, peer[e].tx)
    IN /\ State(e) = "connected" /\ peer[e].tx < MaxData
       /\ peer' = [peer EXCEPT ![e].tx = @ + 1]
       /\ \/ /\ sender[e] # "abandoned"
             /\ link' = [link EXCEPT ![e] = Append(@, m)]
             /\ UNCHANGED <<resets, happened>>
          \/ /\ sender[e] # "abandoned" /\ Incident("dropped")
             /\ resets' = [resets EXCEPT ![e] = TRUE]
             /\ UNCHANGED link
          \/ /\ sender[e] = "abandoned"
             /\ resets' = [resets EXCEPT ![e] = TRUE]
             /\ UNCHANGED <<link, happened>>
       /\ UNCHANGED sender

ResetPeer(e) ==
    /\ resets[e]
    /\ resets' = [resets EXCEPT ![e] = FALSE]
    /\ Disconnect(e, link)
    /\ UNCHANGED happened

\* The clock passes the last attestation by more than the timeout, or the
\* minimums rise above the peer's.
Expire(e) ==
    /\ State(e) = "connected"
    /\ Incident("expired")
    /\ Disconnect(e, link)
    /\ UNCHANGED resets

InSession == \E h \in Handshakes : \A e \in Ends : peer[e].session = h

\* Nothing is under way between the enclaves, or from a host to its enclave.
Quiet == Idle /\ \A e \in Ends : ~resets[e]

\* An enclave refreshes its attestation with the peers it is connected to.  One
\* that stays in a session the other has left finds the attestation too old in
\* the end, long after all that was under way has arrived.
Outlive(e) ==
    /\ State(e) = "connected" /\ ~InSession /\ Quiet
    /\ Disconnect(e, link)
    /\ UNCHANGED <<resets, happened>>

\* e's host finds no way to the other for AbandonDuration.
Abandon(e) ==
    /\ sender[e] = "running" /\ Incident("abandoned")
    /\ sender' = [sender EXCEPT ![e] = "abandoned"]
    /\ link' = [link EXCEPT ![e] = <<>>]
    /\ resets' = [resets EXCEPT ![e] = TRUE]
    /\ UNCHANGED peer

-----------------------------------------------------------------------------

Init ==
    /\ peer = [e \in Ends |-> InternalDisconnect]
    /\ link = [e \in Ends |-> <<>>]
    /\ sender = [e \in Ends |-> "none"]
    /\ resets = [e \in Ends |-> FALSE]
    /\ happened = {}

Next ==
    \/ ConnectToRaftMembers
    \/ \E e \in Ends :
         \/ Join(e) \/ RecvFromPeer(e) \/ SendToPeer(e)
         \/ ResetPeer(e) \/ Expire(e) \/ Outlive(e) \/ Abandon(e)

Spec == Init /\ [][Next]_vars

FairSpec ==
    /\ Spec
    /\ WF_vars(ConnectToRaftMembers)
    /\ \A e \in Ends : WF_vars(RecvFromPeer(e)) /\ WF_vars(ResetPeer(e)) /\ WF_vars(Outlive(e))

-----------------------------------------------------------------------------
(* Properties.                                                               *)

UnderWay(e, kinds) == \E k \in 1..Len(link[e]) : link[e][k].kind \in kinds

Unsettled == \E e \in Ends : resets[e] \/ UnderWay(e, {"syn", "synack", "rst"})

\* An enclave connected in a session the other is not in will hear of it: a
\* Syn, Synack, Rst or ResetPeer is under way.  The exception is a host that
\* gave up on its peer and no longer sends it a Rst.
SplitNoticed ==
    \A e \in Ends :
        State(e) = "connected" /\ peer[Other(e)].session # peer[e].session
          => Unsettled \/ sender[Other(e)] = "abandoned"

\* In a session both enclaves are in, what one has encrypted and the other has
\* not decrypted is under way, in order, unless the session is about to end.
NothingMissing ==
    InSession /\ ~Unsettled
      => \A e \in Ends :
           link[e] = [k \in 1..(peer[e].tx - peer[Other(e)].rx) |->
                        Data(peer[e].session, peer[Other(e)].rx + k - 1)]

\* The initiator waits for the answer to a Syn that did not attest, or for one
\* the other's host gave up on.
Unanswered ==
    /\ State("lower") = "connecting" /\ Quiet
    /\ happened \cap {"unattested", "abandoned"} # {}

\* "By utilizing these mechanisms, we should be able to re-establish good
\* connections should any connection state become invalid."
Reestablishes == []<>InSession

\* The enclaves get into a session again, except after a Syn that is never answered.
ReestablishesUnlessUnanswered == []<>(InSession \/ Unanswered)
=============================================================================
