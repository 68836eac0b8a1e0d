------------------------------- MODULE Records -------------------------------
(***************************************************************************)
(* The earlier implementation's connection between the node that ships     *)
(* products and one that receives them: SctpSock and UdpSock of net,       *)
(* Codec, LatentChunk of prod/Chunk_old.cpp, Channel, Peer, McastSender,   *)
(* McastReceiver and Shipping of comms.                                    *)
(*                                                                         *)
(* A message is a record.  Its reader peeks at the beginning, decodes, and *)
(* must take the rest from the socket before it looks at the next; the     *)
(* data of a chunk is left in the socket until the store wants it.  A part *)
(* of a message (identifier, metadata, data) counts as one unit of length. *)
(* Each channel has a decoder of its own; all are empty between messages,  *)
(* so there is one per reader here.                                        *)
(*                                                                         *)
(* SCTP messages are sent unordered and with a time-to-live: what cannot   *)
(* be delivered in time is abandoned.  A backlog that the remote asks for  *)
(* never starts (see Backlog), so one thread only announces things.        *)
(***************************************************************************)
EXTENDS Integers, Sequences, SequencesExt

CONSTANTS
    NumItems,  \* of the product that is shipped: its information, and its chunks
    MaxSend,   \* messages in the buffer of a sending socket
    MaxRecv,   \* messages in the buffer of a receiving one
    MaxDgrams, \* bound of the model: datagrams in the buffer of the receiver
    MaxStrange \* bound of the model: by node, messages of types that are not known

Item == 1 .. NumItems
IsChunk(x) == x # 1  \* the first item is the product-information

ShippingNode == "shipping"
ReceivingNode == "receiving"
Node == {ShippingNode, ReceivingNode}
Remote(n) == IF n = ShippingNode THEN ReceivingNode ELSE ShippingNode

ASSUME RecordsAssumption ==
    NumItems \in Nat \ {0} /\ MaxSend \in Nat \ {0} /\ MaxRecv \in Nat \ {0}
    /\ MaxDgrams \in Nat \ {0} /\ MaxStrange \in [Node -> Nat]

Mcast == "mcast"
Reader == Node \cup {Mcast}

VARIABLES
    outgoing,     \* messages to a node that the sending socket still has
    input,        \* of a reader: records that have arrived
    dec,          \* of a reader: current record of its socket, decoder
    at,           \* where the receiving thread of a node's peer is
    item,         \* the item that it is to send or to ask for
    store,        \* items that a node has
    requested,    \* Receiving::Impl::requestedChunks and requestedProdInfos
    outstanding,  \* Peer::Impl::requestedChunks of the receiver
    notices,      \* notices to be sent by a node
    shipped,      \* steps that ship() has made
    gone,         \* nodes that have closed the connection
    strange,      \* messages of unknown types that have been sent
    pending       \* records that have come to a reader and have not been dealt with

sockVars == <<outgoing, input, dec>>
itemVars == <<store, requested, outstanding, notices>>
recordVars == <<sockVars, at, item, itemVars, shipped, gone, strange, pending>>

NoItem == 0

(* A message on one of the streams of the association; those of product-   *)
(* information and of chunks are told apart by the item.                   *)
Record(kind, x) ==
    [kind |-> kind, item |-> x, len |-> IF kind = "content" /\ IsChunk(x) THEN 2 ELSE 1, off |-> 0]
Datagram(x) == [kind |-> "content", item |-> x, len |-> IF IsChunk(x) THEN 3 ELSE 2, off |-> 0]

Fresh == [have |-> FALSE, pos |-> 0, bytes |-> 0]

RecordsInit ==
    /\ outgoing = [n \in Node |-> <<>>]
    /\ input = [r \in Reader |-> <<>>] /\ dec = [r \in Reader |-> Fresh]
    /\ at = [n \in Node |-> "new"] /\ item = [n \in Node |-> NoItem]
    /\ store = [n \in Node |-> {}] /\ requested = {} /\ outstanding = {}
    /\ notices = [n \in Node |-> <<>>]
    /\ shipped = 0 /\ gone = {} /\ strange = [n \in Node |-> 0]
    /\ pending = [r \in Reader |-> 0]

-----------------------------------------------------------------------------
(* Sockets and decoders, as functions of s: the records and the state of   *)
(* the socket and its decoder.                                             *)
Least(a, b) == IF a < b THEN a ELSE b
Avail(s) == Head(s.q).len - Head(s.q).off

(* recv() and recvv().  The rest of a datagram that is not read is lost;   *)
(* that of an SCTP message stays.                                          *)
Peek(s) == [s EXCEPT !.d.have = TRUE]
Read(s, n) ==
    [s EXCEPT !.d.have = FALSE,
              !.q = IF s.datagram \/ n >= Avail(s) THEN Tail(@) ELSE [@ EXCEPT ![1].off = @ + n]]

(* SctpSock::Impl::discard() reads as much as the message has; of a        *)
(* datagram one byte is enough.                                            *)
DiscardRest(s) == IF s.d.have THEN Read(s, IF s.datagram THEN 1 ELSE Head(s.q).len) ELSE s

Reset(s) == [s EXCEPT !.d.pos = 0, !.d.bytes = 0]
Clear(s) == Reset(DiscardRest(s))

(* Decoder::fill() peeks from the beginning again; 0 stands for everything. *)
Fill(s, n) ==
    LET got == IF n = 0 THEN Avail(s) ELSE Least(s.d.pos + n, Avail(s))
    IN  [Peek(s) EXCEPT !.d.bytes = @ + got - s.d.pos]
Decode(s, n) == [s EXCEPT !.d.pos = @ + n, !.d.bytes = @ - n]

(* Mutant of DecodeData: the bytes that were peeked at are not read again. *)
ReadsDataOnly(s, n) == Reset(Read(s, n))

(* Decoder::decode() of a byte-array. *)
DecodeData(s, n) == Reset(Read(s, s.d.pos + n))

StateOf(r) == [q |-> input[r], d |-> dec[r], datagram |-> r = Mcast]
Becomes(r, s) == input' = [input EXCEPT ![r] = s.q] /\ dec' = [dec EXCEPT ![r] = s.d]

(* Channel::recv(): a latent chunk stays in the socket. *)
ChannelRecv(s) == Clear(Decode(Fill(s, 0), 1))
LatentRecv(s) == Decode(Fill(s, 1), 1)

-----------------------------------------------------------------------------
(* The network. *)
MoveTo(r, place) == at' = [at EXCEPT ![r] = place]

(* sndrcvinfoInit(), send() and sendv(): blocks while the buffer is full. *)
CanSend(n) == Len(outgoing[Remote(n)]) < MaxSend
Send(n, m) == outgoing' = [outgoing EXCEPT ![Remote(n)] = Append(@, m)]
SendThrows(n) == Remote(n) \in gone

Deliver(n, i) ==
    /\ Len(input[n]) < MaxRecv
    /\ input' = [input EXCEPT ![n] = Append(@, outgoing[n][i])]
    /\ outgoing' = [outgoing EXCEPT ![n] = RemoveAt(@, i)]
    /\ pending' = [pending EXCEPT ![n] = @ + 1]
    /\ UNCHANGED <<dec, at, item, itemVars, shipped, gone, strange>>

(* Mutant of Expire: messages live for ever. *)
LivesForEver(n, i) == FALSE

Expire(n, i) ==
    /\ outgoing' = [outgoing EXCEPT ![n] = RemoveAt(@, i)]
    /\ UNCHANGED <<input, dec, at, item, itemVars, shipped, gone, strange, pending>>

-----------------------------------------------------------------------------
(* Shipping::ship(): every item is multicast, in order; the product is put *)
(* into the store; the peers are notified of every item.  A datagram may   *)
(* be lost.                                                                *)
McastItem ==
    /\ shipped < NumItems
    /\ shipped' = shipped + 1
    /\ \/ UNCHANGED <<input, pending>>
       \/ /\ Len(input[Mcast]) < MaxDgrams
          /\ input' = [input EXCEPT ![Mcast] = Append(@, Datagram(shipped + 1))]
          /\ pending' = [pending EXCEPT ![Mcast] = @ + 1]
    /\ UNCHANGED <<outgoing, dec, at, item, itemVars, gone, strange>>

AddProduct ==
    /\ shipped = NumItems
    /\ shipped' = shipped + 1
    /\ store' = [store EXCEPT ![ShippingNode] = Item]
    /\ UNCHANGED <<sockVars, at, item, requested, outstanding, notices, gone, strange, pending>>

(* PeerSet::notify() and SendQ::push(): what is too old leaves the queue. *)
(* A peer is in the set once its handshake is over.                       *)
IsUp(n) == at[n] \notin {"new", "getVersion", "ended"}

QueueNotice(n, x) ==
    IF ~IsUp(n) THEN UNCHANGED notices
    ELSE \E k \in 0 .. Len(notices[n]) :
            notices' = [notices EXCEPT ![n] = Append(SubSeq(@, k + 1, Len(@)), x)]

NotifySet ==
    /\ shipped \in NumItems + 1 .. 2 * NumItems
    /\ shipped' = shipped + 1
    /\ QueueNotice(ShippingNode, shipped - NumItems)
    /\ UNCHANGED <<sockVars, at, item, store, requested, outstanding, gone, strange, pending>>

-----------------------------------------------------------------------------
(* Peer::Impl::Impl(): the versions are exchanged.  The first message must *)
(* be the remote's version.                                                *)
SendVersion(n) ==
    /\ at[n] = "new" /\ ~SendThrows(n) /\ CanSend(n)
    /\ Send(n, Record("version", NoItem))
    /\ MoveTo(n, "getVersion")
    /\ UNCHANGED <<input, dec, item, itemVars, shipped, gone, strange, pending>>

GetVersion(n) ==
    /\ at[n] = "getVersion" /\ input[n] # <<>>
    /\ IF Head(input[n]).kind = "version"
       THEN /\ Becomes(n, ChannelRecv(Peek(StateOf(n))))
            /\ MoveTo(n, IF n = ReceivingNode THEN "backlog?" ELSE "loop")
            /\ pending' = [pending EXCEPT ![n] = @ - 1]
       ELSE Becomes(n, Peek(StateOf(n))) /\ MoveTo(n, "ended") /\ UNCHANGED pending
    /\ UNCHANGED <<outgoing, item, itemVars, shipped, gone, strange>>

(* Element::Impl::operator(): the receiver may lack an earlier chunk. *)
SkipBacklog ==
    /\ at[ReceivingNode] = "backlog?"
    /\ MoveTo(ReceivingNode, "loop")
    /\ UNCHANGED <<sockVars, item, itemVars, shipped, gone, strange, pending>>
RequestBacklog ==
    /\ at[ReceivingNode] = "backlog?" /\ ~SendThrows(ReceivingNode) /\ CanSend(ReceivingNode)
    /\ Send(ReceivingNode, Record("backlog", NoItem))
    /\ MoveTo(ReceivingNode, "loop")
    /\ UNCHANGED <<input, dec, item, itemVars, shipped, gone, strange, pending>>

(* getSize() returns 0 when the remote has closed the connection. *)
IsEof(n) == input[n] = <<>> /\ outgoing[n] = <<>> /\ Remote(n) \in gone

ReachEof(n) ==
    /\ at[n] \in {"loop", "getVersion"} /\ IsEof(n)
    /\ MoveTo(n, "ended")
    /\ UNCHANGED <<sockVars, item, itemVars, shipped, gone, strange, pending>>

(* runReceiver(): getSize(), getStreamId(), and the recv() of the stream's *)
(* channel.  What follows it without sending is part of the same step.     *)
CurrentItem(r) == Head(input[r]).item
HasMessage(n, kind) == at[n] = "loop" /\ input[n] # <<>> /\ Head(input[n]).kind = kind
Received(n) == ChannelRecv(Peek(StateOf(n)))
IsTaken(r) == pending' = [pending EXCEPT ![r] = @ - 1]

(* A message that leads to nothing: a type that is not known; a backlog,   *)
(* whose thread waits for ever; a notice of what the node has, or has      *)
(* asked for.  The shipping node asks for nothing.                         *)
DiscardUnknown(n) ==
    /\ \E kind \in {"strange", "version"} : HasMessage(n, kind)
    /\ Becomes(n, DiscardRest(Peek(StateOf(n))))
    /\ IsTaken(n)
    /\ UNCHANGED <<outgoing, at, item, itemVars, shipped, gone, strange>>

StartBacklog(n) ==
    /\ HasMessage(n, "backlog")
    /\ Becomes(n, Received(n)) /\ IsTaken(n)
    /\ UNCHANGED <<outgoing, at, item, itemVars, shipped, gone, strange>>

ShouldRequest(n, x) == n = ReceivingNode /\ x \notin store[n] /\ x \notin requested

IgnoreNotice(n) ==
    /\ HasMessage(n, "notice") /\ ~ShouldRequest(n, CurrentItem(n))
    /\ Becomes(n, Received(n)) /\ IsTaken(n)
    /\ UNCHANGED <<outgoing, at, item, itemVars, shipped, gone, strange>>

(* request() is recorded, and is sent by the thread that receives; ... *)
ReceiveNotice(n) ==
    LET x == CurrentItem(n)
    IN  /\ HasMessage(n, "notice") /\ ShouldRequest(n, x)
        /\ Becomes(n, Received(n)) /\ IsTaken(n)
        /\ requested' = requested \cup {x}
        /\ outstanding' = IF IsChunk(x) THEN outstanding \cup {x} ELSE outstanding
        /\ item' = [item EXCEPT ![n] = x]
        /\ MoveTo(n, "request")
        /\ UNCHANGED <<outgoing, store, notices, shipped, gone, strange>>

(* ... so is what the remote asks for, if the store has it. *)
ReceiveRequest(n) ==
    /\ HasMessage(n, "request")
    /\ Becomes(n, Received(n)) /\ IsTaken(n)
    /\ item' = [item EXCEPT ![n] = CurrentItem(n)]
    /\ MoveTo(n, IF CurrentItem(n) \in store[n] THEN "content" ELSE "loop")
    /\ UNCHANGED <<outgoing, itemVars, shipped, gone, strange>>

SendItem(n) ==
    /\ at[n] \in {"request", "content"} /\ ~SendThrows(n) /\ CanSend(n)
    /\ Send(n, Record(at[n], item[n]))
    /\ MoveTo(n, "loop")
    /\ UNCHANGED <<input, dec, item, itemVars, shipped, gone, strange, pending>>

(* accept() and Product::add(): a new chunk's data is drained, that of a   *)
(* duplicate is discarded.                                                 *)
Drained(s, x) == IF x \in store[ReceivingNode] THEN Clear(s) ELSE DecodeData(s, 1)

Accept(x) ==
    store' = [store EXCEPT ![ReceivingNode] = @ \cup {x}] /\ requested' = requested \ {x}

ReceiveItem ==
    LET x == CurrentItem(ReceivingNode)
        s == Peek(StateOf(ReceivingNode))
    IN  /\ HasMessage(ReceivingNode, "content")
        /\ Becomes(ReceivingNode, IF IsChunk(x) THEN Drained(LatentRecv(s), x) ELSE ChannelRecv(s))
        /\ IsTaken(ReceivingNode)
        /\ Accept(x) /\ outstanding' = outstanding \ {x}
        /\ UNCHANGED <<outgoing, at, item, notices, shipped, gone, strange>>

(* McastReceiver::Impl::operator(): the identifier of the message first,   *)
(* then the rest from the beginning again; what the store has left is      *)
(* cleared.  A datagram is dropped if traffic is controlled.               *)
McastRecv(x) ==
    LET s == Decode(Fill(StateOf(Mcast), 1), 1)
    IN  Decode(Fill(s, IF IsChunk(x) THEN 1 ELSE 0), 1)

McastDrop ==
    /\ input[Mcast] # <<>>
    /\ Becomes(Mcast, Clear(McastRecv(CurrentItem(Mcast)))) /\ IsTaken(Mcast)
    /\ UNCHANGED <<outgoing, at, item, itemVars, shipped, gone, strange>>

McastReceive ==
    LET x == CurrentItem(Mcast)
        s == McastRecv(x)
    IN  /\ input[Mcast] # <<>>
        /\ Becomes(Mcast, Clear(IF IsChunk(x) THEN Drained(s, x) ELSE s)) /\ IsTaken(Mcast)
        /\ Accept(x)
        /\ IF x \in store[ReceivingNode] THEN UNCHANGED notices ELSE QueueNotice(ReceivingNode, x)
        /\ UNCHANGED <<outgoing, at, item, outstanding, shipped, gone, strange>>

(* runSender(), which starts with the receiver. *)
Announces(n) == IsUp(n) /\ at[n] # "backlog?" /\ notices[n] # <<>>
Announce(n) ==
    /\ Announces(n) /\ ~SendThrows(n) /\ CanSend(n)
    /\ Send(n, Record("notice", Head(notices[n])))
    /\ notices' = [notices EXCEPT ![n] = Tail(@)]
    /\ UNCHANGED <<input, dec, at, item, store, requested, outstanding>>
    /\ UNCHANGED <<shipped, gone, strange, pending>>

(* A later version of the program may send what this one does not know. *)
SendStrange(n) ==
    /\ IsUp(n) /\ strange[n] < MaxStrange[n] /\ CanSend(n)
    /\ Send(n, Record("strange", NoItem))
    /\ strange' = [strange EXCEPT ![n] = @ + 1]
    /\ UNCHANGED <<input, dec, at, item, itemVars, shipped, gone, pending>>

(* An exception ends a peer.  Its socket is closed with the last reference *)
(* to it, sooner or later or never.                                        *)
SendFails(n) ==
    /\ SendThrows(n)
    /\ at[n] \in {"new", "backlog?", "request", "content"} \/ Announces(n)
    /\ MoveTo(n, "ended")
    /\ UNCHANGED <<sockVars, item, itemVars, shipped, gone, strange, pending>>

Close(n) ==
    /\ at[n] = "ended" /\ n \notin gone
    /\ gone' = gone \cup {n}
    /\ UNCHANGED <<sockVars, at, item, itemVars, shipped, strange, pending>>

-----------------------------------------------------------------------------
ReceiverStep(n) ==
    \/ SendVersion(n) \/ GetVersion(n) \/ ReachEof(n) \/ SendFails(n)
    \/ DiscardUnknown(n) \/ StartBacklog(n) \/ IgnoreNotice(n) \/ ReceiveNotice(n)
    \/ ReceiveRequest(n) \/ SendItem(n)
    \/ n = ReceivingNode /\ (SkipBacklog \/ RequestBacklog \/ ReceiveItem)

NetStep == \E n \in Node : \E i \in DOMAIN outgoing[n] : Deliver(n, i) \/ Expire(n, i)

RecordsNext ==
    \/ \E n \in Node : ReceiverStep(n) \/ Announce(n) \/ SendStrange(n) \/ Close(n)
    \/ NetStep
    \/ McastItem \/ AddProduct \/ NotifySet
    \/ McastDrop \/ McastReceive

RecordsSpec ==
    /\ RecordsInit /\ [][RecordsNext]_recordVars
    /\ \A n \in Node : WF_recordVars(ReceiverStep(n))
    /\ WF_recordVars(NetStep)

-----------------------------------------------------------------------------
(* A message is "completely consumed; otherwise, its tail might be read in *)
(* the next iteration" (comms/mcast/McastReceiver.cpp:91), whichever of    *)
(* the store, the chunk's destructor and the channel has to do it: when a  *)
(* reader looks for the next, nothing of the last one is left in socket or *)
(* decoder, and as many have been dealt with as have left the socket.      *)
RecordsAreTaken ==
    \A r \in Reader : (r \in Node => at[r] # "ended") =>
        /\ dec[r] = Fresh
        /\ \A i \in DOMAIN input[r] : input[r][i].off = 0
        /\ pending[r] = Len(input[r])

(* A peer sends requests and chunks on the thread that receives            *)
(* (comms/p2p/Peer.cpp:210-232), so both ends may be blocked by each       *)
(* other's full buffers.  The time-to-live of what is in them              *)
(* (net/SctpSock.cpp:561) ends that: one of the receivers goes on.         *)
ReceiverGoesOn == []<>(\E n \in Node : at[n] \notin {"backlog?", "request", "content"})

-----------------------------------------------------------------------------
(* The following do not hold. *)

(* The remote's version comes first: messages are unordered, and may be    *)
(* abandoned.                                                              *)
HandshakeSucceeds == \A n \in Node : at[n] = "ended" => gone # {}

(* What has been asked for, and is not on its way, has come: a request or  *)
(* a chunk that was abandoned is not asked for again.                      *)
OnItsWay(x) ==
    \E n \in Node :
        \/ at[n] \in {"request", "content"} /\ item[n] = x
        \/ \E m \in ToSet(outgoing[n]) \cup ToSet(input[n]) :
                m.kind \in {"request", "content"} /\ m.item = x
RequestedComes == \A x \in requested : OnItsWay(x)

(* The peer's set of requested chunks has those that are missing: what     *)
(* comes by multicast stays in it (comms/p2p/Peer.cpp:242).                *)
OutstandingIsMissing == outstanding \cap store[ReceivingNode] = {}

=============================================================================
