---------------------------- MODULE PeerTransport ----------------------------
(***************************************************************************)
(* The hosts' store-and-forward link from one enclave to another:          *)
(* host/peer/client.go (PeerClient and its peerSender), host/peer/server.go *)
(* (peerReceiver) and host/peer/sequence_number.go.  The sender numbers     *)
(* messages by epoch and place in the epoch, keeps them until they are      *)
(* acknowledged and sends them again on a new connection; the receiver      *)
(* hands each to its enclave once.  A message that establishes an enclave   *)
(* session (Syn or Synack) opens an epoch and supersedes what is queued.    *)
(* Raft relies on this link being in order and without loss in a session.   *)
(***************************************************************************)
EXTENDS Integers, Sequences, FiniteSetsExt

CONSTANTS
    EpochWidth,    \* 2^32: epochs are uint32
    BufferSize,    \* PeerConfig.BufferSize, the capacity of the send channel
    MaxSent,       \* bound: messages the enclave sends
    MaxLosses,     \* bound: connections lost
    MayAbandon     \* bound: whether the sender may run into AbandonDuration

ASSUME TransportConstants == /\ EpochWidth \in Nat /\ BufferSize \in Nat \ {0}
                             /\ MaxSent \in Nat /\ MaxSent < EpochWidth
                             /\ MaxLosses \in Nat
                             /\ MayAbandon \in BOOLEAN

VARIABLES
    sender,      \* the peerSender: "none" yet, "running" or "abandoned"
    tx,          \* its send channel
    pending,     \* frames that might be resent
    lastAck,     \* the last sequence number acknowledged
    current,     \* the sequence number of the next frame
    conn,        \* the TCP connection: "open", or "closed" at either end
    wire,        \* frames under way on it
    acks,        \* acknowledgements under way on it
    seqno,       \* the receiver's last sequence number
    delivered,   \* history: what the receiver handed to its enclave
    sent,        \* the messages the enclave has sent; each one's id is its place
    session,     \* the id of the last Syn, Synack or Rst
    refused,     \* history: messages refused; unless it is a Rst the enclave is told to reset
    inEpoch,     \* history: ids of the messages transmitted in the current epoch
    losses,      \* connections lost so far
    severed      \* history: one was lost before the sender's epoch was acknowledged

enclaveVars == <<sent, session, refused>>
senderVars == <<sender, tx, pending, lastAck, current, inEpoch>>
receiverVars == <<seqno, delivered>>
connVars == <<conn, wire, acks, losses, severed>>
vars == <<enclaveVars, senderVars, receiverVars, connVars>>

-----------------------------------------------------------------------------
(* Sequence numbers.                                                        *)

Zero == [epoch |-> 0, seq |-> 0]

Follows(s, pred) ==
    \/ s.epoch > pred.epoch /\ s.seq = 0
    \/ s.epoch = pred.epoch /\ s.seq = pred.seq + 1

NextSeqno(s) == [s EXCEPT !.seq = @ + 1]

NextEpoch(s) == [epoch |-> (s.epoch + 1) % EpochWidth, seq |-> 0]

\* The epochs are subtracted as uint32 and the difference is widened to int: it
\* is never negative.  The difference of the uint64 numbers keeps its sign.
Cmp(s, o) ==
    IF s.epoch # o.epoch THEN (s.epoch - o.epoch) % EpochWidth ELSE s.seq - o.seq

-----------------------------------------------------------------------------
(* The sending host.                                                        *)

IsEstablishing(m) == m.kind = "syn"
IsReset(m) == m.kind = "rst"

\* Send has a sender for the message, unless the peer was abandoned and this
\* does not start a new session.
HasSender(m) == sender # "abandoned" \/ IsEstablishing(m)

\* Mutant of QueueMessage: what finds the channel full is dropped silently.
DropsWhenFull(m) ==
    /\ tx' = IF IsEstablishing(m) \/ IsReset(m) THEN <<m>>
             ELSE IF Len(tx) < BufferSize THEN Append(tx, m) ELSE tx
    /\ UNCHANGED refused

\* A Syn, Synack or Rst replaces the channel by a fresh one.  Anything else is
\* refused when the channel is full.
QueueMessage(m) ==
    \/ /\ IsEstablishing(m) \/ IsReset(m)
       /\ tx' = <<m>>
       /\ UNCHANGED refused
    \/ /\ ~IsEstablishing(m) /\ ~IsReset(m) /\ Len(tx) < BufferSize
       /\ tx' = Append(tx, m)
       /\ UNCHANGED refused
    \/ /\ ~IsEstablishing(m) /\ ~IsReset(m) /\ Len(tx) >= BufferSize
       /\ refused' = refused \cup {m.id}
       /\ UNCHANGED tx

\* The enclave sends data only in a session.
Send(kind) ==
    LET m == [id |-> Len(sent) + 1, kind |-> kind]
    IN /\ Len(sent) < MaxSent
       /\ kind = "data" => session > 0 /\ IsEstablishing(sent[session])
       /\ sent' = Append(sent, m)
       /\ session' = IF kind = "data" THEN session ELSE m.id
       /\ \/ HasSender(m) /\ QueueMessage(m) /\ sender' = "running"
          \/ ~HasSender(m) /\ refused' = refused \cup {m.id} /\ UNCHANGED <<tx, sender>>
       /\ UNCHANGED <<pending, lastAck, current, inEpoch, receiverVars, connVars>>

\* Mutant of Unacked: a frame beyond the acknowledged ones is forgotten too.
ForgetsOneMore(frames, ack) ==
    SelectSeq(frames, LAMBDA f : Cmp(f.seqno, NextSeqno(ack)) > 0)

\* What processAck leaves of the frames: it drops from the front while their
\* numbers do not exceed ack.
Unacked(frames, ack) ==
    LET beyond == {k \in 1..Len(frames) : Cmp(frames[k].seqno, ack) > 0}
    IN SubSeq(frames, Min(beyond \cup {Len(frames) + 1}), Len(frames))

\* Mutant of Connect: what is pending is not sent again.
ConnectsWithoutResending ==
    /\ sender = "running" /\ conn = "closed"
    /\ conn' = "open"
    /\ lastAck' = seqno
    /\ pending' = Unacked(pending, seqno)
    /\ current' = [seqno EXCEPT !.seq = @ + 1 + Len(pending')]
    /\ wire' = <<>> /\ acks' = <<>>
    /\ UNCHANGED <<sender, tx, inEpoch, losses, severed, enclaveVars, receiverVars>>

\* A new connection: the receiver answers the hello with its sequence number,
\* which counts as an acknowledgement, and what is still pending is sent again.
\* Numbering goes on from the acknowledged number, past the frames sent again.
Connect ==
    /\ sender = "running" /\ conn = "closed"
    /\ Cmp(seqno, lastAck) >= 0
    /\ conn' = "open"
    /\ lastAck' = seqno
    /\ pending' = Unacked(pending, seqno)
    /\ current' = [seqno EXCEPT !.seq = @ + 1 + Len(pending')]
    /\ wire' = pending' /\ acks' = <<>>
    /\ UNCHANGED <<sender, tx, inEpoch, losses, severed, enclaveVars, receiverVars>>

\* The next message of the channel is numbered, saved and written.
Transmit ==
    /\ conn = "open" /\ tx # <<>>
    /\ LET m     == Head(tx)
           opens == IsEstablishing(m)
           frame == [seqno |-> IF opens THEN NextEpoch(current) ELSE current, msg |-> m]
       IN /\ current' = NextSeqno(frame.seqno)
          /\ pending' = (IF opens THEN <<>> ELSE pending) \o <<frame>>
          /\ inEpoch' = (IF opens THEN {} ELSE inEpoch) \cup {m.id}
          /\ wire' = Append(wire, frame)
    /\ tx' = Tail(tx)
    /\ UNCHANGED <<sender, lastAck, conn, acks, losses, severed, enclaveVars, receiverVars>>

\* An acknowledgement older than the last one ends the connection.
ProcessAck ==
    /\ conn = "open" /\ acks # <<>>
    /\ IF Cmp(Head(acks), lastAck) >= 0
       THEN /\ lastAck' = Head(acks)
            /\ pending' = Unacked(pending, Head(acks))
            /\ acks' = Tail(acks)
            /\ UNCHANGED <<conn, wire>>
       ELSE /\ conn' = "closed" /\ wire' = <<>> /\ acks' = <<>>
            /\ UNCHANGED <<lastAck, pending>>
    /\ UNCHANGED <<sender, tx, current, inEpoch, losses, severed, enclaveVars, receiverVars>>

\* No connection for AbandonDuration: the sender and all it holds are dropped
\* and the enclave is told to reset the peer.
Abandon ==
    /\ MayAbandon /\ sender = "running" /\ conn = "closed"
    /\ sender' = "abandoned"
    /\ tx' = <<>> /\ pending' = <<>> /\ inEpoch' = {}
    /\ lastAck' = Zero /\ current' = NextSeqno(Zero)
    /\ UNCHANGED <<enclaveVars, receiverVars, connVars>>

-----------------------------------------------------------------------------
(* The receiving host.                                                      *)

\* Mutant of ReceiveFrame: a frame is handed over before its number is checked.
DeliversDuplicates(f) ==
    /\ delivered' = Append(delivered, f.msg)
    /\ seqno' = IF Cmp(f.seqno, seqno) <= 0 THEN seqno ELSE f.seqno
    /\ wire' = Tail(wire) /\ acks' = Append(acks, seqno')
    /\ UNCHANGED conn

\* A frame seen before is acknowledged again, the next one is handed to the
\* enclave and acknowledged, any other ends the connection.
ReceiveFrame(f) ==
    \/ /\ Cmp(f.seqno, seqno) <= 0
       /\ wire' = Tail(wire) /\ acks' = Append(acks, seqno)
       /\ UNCHANGED <<conn, receiverVars>>
    \/ /\ Cmp(f.seqno, seqno) > 0 /\ Follows(f.seqno, seqno)
       /\ seqno' = f.seqno
       /\ delivered' = Append(delivered, f.msg)
       /\ wire' = Tail(wire) /\ acks' = Append(acks, f.seqno)
       /\ UNCHANGED conn
    \/ /\ Cmp(f.seqno, seqno) > 0 /\ ~Follows(f.seqno, seqno)
       /\ conn' = "closed" /\ wire' = <<>> /\ acks' = <<>>
       /\ UNCHANGED receiverVars

Receive ==
    /\ conn = "open" /\ wire # <<>>
    /\ ReceiveFrame(Head(wire))
    /\ UNCHANGED <<losses, severed, enclaveVars, senderVars>>

\* The connection is lost with all that is under way on it.
Lose ==
    /\ conn = "open" /\ losses < MaxLosses
    /\ losses' = losses + 1
    /\ severed' = (severed \/ \E k \in 1..Len(pending) : pending[k].seqno.epoch # lastAck.epoch)
    /\ conn' = "closed" /\ wire' = <<>> /\ acks' = <<>>
    /\ UNCHANGED <<enclaveVars, senderVars, receiverVars>>

-----------------------------------------------------------------------------

Init ==
    /\ sender = "none" /\ tx = <<>> /\ pending = <<>> /\ inEpoch = {}
    /\ lastAck = Zero /\ current = NextSeqno(Zero)
    /\ conn = "closed" /\ wire = <<>> /\ acks = <<>> /\ losses = 0 /\ severed = FALSE
    /\ seqno = Zero /\ delivered = <<>>
    /\ sent = <<>> /\ session = 0 /\ refused = {}

Next ==
    \/ \E kind \in {"syn", "rst", "data"} : Send(kind)
    \/ Connect \/ Transmit \/ ProcessAck \/ Abandon
    \/ Receive \/ Lose

Spec == Init /\ [][Next]_vars

\* The run loops of both hosts go on as long as there is something to do.
FairSpec ==
    Spec /\ WF_vars(Connect) /\ WF_vars(Transmit) /\ WF_vars(ProcessAck) /\ WF_vars(Receive)

-----------------------------------------------------------------------------
(* Properties.                                                              *)

Ids(msgs) == {msgs[k].id : k \in 1..Len(msgs)}

\* What the receiver's enclave gets is what was sent, in the order of sending
\* and nothing twice, whatever was resent on however many connections.
InOrder == \A k \in 1..(Len(delivered) - 1) : delivered[k].id < delivered[k + 1].id

\* Nothing is missing between a message of a session and the one delivered
\* before it, unless the enclave was told to reset the peer: "our host-side
\* message passing is in-order and lossless", on which Raft's inflight rests.
NoGap ==
    \A k \in 2..Len(delivered) :
        delivered[k].kind = "data"
          => (delivered[k - 1].id + 1)..(delivered[k].id - 1) \subseteq refused

\* NoGap holds as long as connections are lost only once the receiver has
\* acknowledged the epoch they carry (lastAck + 1 is pending[0]'s number).
NoGapUnlessSevered == severed \/ NoGap

\* The sender forgets a message of its epoch only when it has been delivered, as
\* long as connections are lost only once their epoch is acknowledged.
NothingForgotten ==
    \/ severed
    \/ inEpoch \subseteq Ids(delivered) \cup {pending[k].msg.id : k \in 1..Len(pending)}

\* Every message is delivered in the end, unless it was refused, a later
\* session superseded it, the peer was abandoned, or a connection was lost before
\* the epoch it carried was acknowledged.
Lossless ==
    \A n \in 1..MaxSent :
        Len(sent) >= n ~> \/ n \in refused \cup Ids(delivered)
                          \/ n < session
                          \/ sender = "abandoned" \/ severed
=============================================================================
