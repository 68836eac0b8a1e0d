-------------------------------- MODULE Mcast --------------------------------
(***************************************************************************)
(* Multicast of products: McastSndr and McastRcvr                          *)
(* (main/protocol/McastProto.cpp) over UdpSock (main/inet/Socket.cpp).     *)
(*                                                                         *)
(* A packet is its kind and its size: the message-identifier and the fixed *)
(* fields, each aligned to its width, and the name or the data.  The       *)
(* network loses, duplicates and reorders packets, the receiving socket    *)
(* drops them when its buffer is full, and other programs may send packets *)
(* to the multicast group.                                                 *)
(***************************************************************************)
EXTENDS Lists, Integers, FiniteSets

CONSTANTS
    MaxPayload,    \* UdpSock::MAX_PAYLOAD
    VarSizes,      \* lengths of names and of segments
    MaxSent,       \* how many packets are multicast
    BufferSize,    \* packets that the receiving socket holds
    MaxDuplicates, \* how many packets the network duplicates
    RuntSizes      \* sizes of other programs' packets

ASSUME McastAssumption ==
    /\ MaxPayload \in Nat \ {0} /\ VarSizes \subseteq Nat /\ RuntSizes \subseteq Nat
    /\ MaxSent \in Nat /\ BufferSize \in Nat \ {0} /\ MaxDuplicates \in Nat

Kind == {"prodInfo", "dataSeg", "other"}
Packet == [kind : Kind, var : VarSizes \cup {0}, size : Nat]

VARIABLES
    numSent,     \* packets that were multicast
    nxt,         \* the values that nxt16 and nxt32 have gone past, in the sender
    sndr,        \* "ready", or "failed" after an exception
    net,         \* packets in the network
    duplicates,  \* packets that the network has duplicated
    buffer,      \* packets in the receiving socket's buffer
    sock,        \* the receiving socket: "open", "shutdown" or "halted"
    rcvr,        \* where the receiver's operator() is
    skip,        \* readIov[0].iov_len: bytes of the packet that were peeked
    arrived,     \* how many packets have come into the buffer
    seen         \* which of them the receiver has handled, counting from one

sndrVars == <<numSent, nxt, sndr>>
netVars == <<net, duplicates>>
mcastVars == <<sndrVars, netVars, buffer, sock, rcvr, skip, arrived, seen>>

McastTypeOK ==
    /\ numSent \in 0..MaxSent /\ nxt \in [{2, 4} -> Nat] /\ sndr \in {"ready", "failed"}
    /\ net \in Seq(Packet) /\ duplicates \in 0..MaxDuplicates
    /\ buffer \in Seq(Packet) /\ Len(buffer) =< BufferSize
    /\ sock \in {"open", "shutdown", "halted"}
    /\ rcvr \in {"id", "fixed", "name", "hereIs", "discard", "returned", "failed"}
    /\ skip \in 0..MaxPayload
    /\ arrived \in Nat /\ seen \subseteq 1..arrived

McastInit ==
    /\ numSent = 0 /\ nxt = [width \in {2, 4} |-> 0] /\ sndr = "ready"
    /\ net = <<>> /\ duplicates = 0
    /\ buffer = <<>> /\ sock = "open" /\ rcvr = "id" /\ skip = 0
    /\ arrived = 0 /\ seen = {}

-----------------------------------------------------------------------------
(* The fields before the variable part: msgId and SegSize have two bytes,  *)
(* ProdIndex, ProdSize and the offset four.                                *)
CommonFields == <<2, 4, 4>>
Fields(kind) ==
    CASE kind = "prodInfo" -> CommonFields
      [] kind = "dataSeg" -> Append(CommonFields, 4)
      [] OTHER -> <<>>

(* padLen(): the difference is unsigned. *)
PadLen(nbytes, align) == ((align - nbytes) % 2^16) % align

(* addWrite(value) and addPeek(value), after so many bytes. *)
AddWrite(nbytes, width) == nbytes + PadLen(nbytes, width) + width
AddPeek(nbytes, width) == nbytes + PadLen(nbytes, width) + width

(* The calls of either one for the fields, in their order. *)
WriteFields(nbytes, kind) ==
    LET fields == Fields(kind)
        common == AddWrite(AddWrite(AddWrite(nbytes, fields[1]), fields[2]), fields[3])
    IN  IF kind = "dataSeg" THEN AddWrite(common, fields[4]) ELSE common
PeekFields(nbytes, kind) ==
    LET fields == Fields(kind)
        common == AddPeek(AddPeek(AddPeek(nbytes, fields[1]), fields[2]), fields[3])
    IN  IF kind = "dataSeg" THEN AddPeek(common, fields[4]) ELSE common

PacketSize(kind, var) == WriteFields(AddWrite(0, 2), kind) + var
Width(kind, width) == Cardinality({i \in DOMAIN Fields(kind) : Fields(kind)[i] = width})

(* multicast(prodInfo) and multicast(seg): vetIoElt() throws if the packet *)
(* is too large.  write() leaves nxt16 and nxt32 as they are.              *)
Multicast(kind, var) ==
    LET size == PacketSize(kind, var) IN
    /\ sndr = "ready" /\ numSent < MaxSent
    /\ numSent' = numSent + 1
    /\ nxt' = [nxt EXCEPT ![2] = @ + 1 + Width(kind, 2), ![4] = @ + Width(kind, 4)]
    /\ IF size > MaxPayload
       THEN sndr' = "failed" /\ UNCHANGED net
       ELSE /\ net' = Append(net, [kind |-> kind, var |-> var, size |-> size])
            /\ UNCHANGED sndr
    /\ UNCHANGED <<duplicates, buffer, sock, rcvr, skip, arrived, seen>>

(* The network. *)
Runt(size) ==
    /\ numSent < MaxSent /\ numSent' = numSent + 1
    /\ net' = Append(net, [kind |-> "other", var |-> 0, size |-> size])
    /\ UNCHANGED <<nxt, sndr, duplicates, buffer, sock, rcvr, skip, arrived, seen>>

Remaining(i) == SubSeq(net, 1, i - 1) \o SubSeq(net, i + 1, Len(net))

Lose(i) ==
    /\ net' = Remaining(i)
    /\ UNCHANGED <<sndrVars, duplicates, buffer, sock, rcvr, skip, arrived, seen>>

Duplicate(i) ==
    /\ duplicates < MaxDuplicates /\ duplicates' = duplicates + 1
    /\ net' = Append(net, net[i])
    /\ UNCHANGED <<sndrVars, buffer, sock, rcvr, skip, arrived, seen>>

Arrive(i) ==
    /\ net' = Remaining(i)
    /\ IF Len(buffer) < BufferSize
       THEN buffer' = Append(buffer, net[i]) /\ arrived' = arrived + 1
       ELSE UNCHANGED <<buffer, arrived>>
    /\ UNCHANGED <<sndrVars, duplicates, sock, rcvr, skip, seen>>

-----------------------------------------------------------------------------
(* UdpSock::peek() up to a number of bytes, which waits for a packet.  A   *)
(* packet that is too small is discarded, and the receiver returns.        *)
PeekTo(nbytes, next) ==
    \/ /\ sock = "halted" /\ rcvr' = "returned"
       /\ UNCHANGED <<buffer, skip>>
    \/ /\ sock = "shutdown" /\ buffer = <<>> /\ rcvr' = "returned"
       /\ skip' = 0 /\ UNCHANGED buffer
    \/ /\ sock # "halted" /\ buffer # <<>> /\ Head(buffer).size < nbytes
       /\ rcvr' = "returned" /\ buffer' = Tail(buffer) /\ skip' = 0
    \/ /\ sock # "halted" /\ buffer # <<>> /\ Head(buffer).size >= nbytes
       /\ rcvr' = next /\ skip' = nbytes /\ UNCHANGED buffer

PeekStep(at, nbytes, next) ==
    /\ rcvr = at /\ PeekTo(nbytes, next)
    /\ UNCHANGED <<sndrVars, netVars, sock, arrived, seen>>

(* operator()(): the message-identifier, *)
PeekId ==
    PeekStep("id", AddPeek(0, 2),
             IF buffer # <<>> /\ Head(buffer).kind # "other" THEN "fixed" ELSE "discard")

(* addCommon() and, for a segment, its offset, *)
PeekFixed ==
    LET kind == Head(buffer).kind IN
    /\ buffer # <<>>
    /\ PeekStep("fixed", PeekFields(skip, kind),
                IF kind = "prodInfo" THEN "name" ELSE "hereIs")

(* and the name. *)
PeekName == PeekStep("name", skip + Head(buffer).var, "hereIs")

(* The packet at the head of the buffer, among those that have arrived. *)
Current == arrived - Len(buffer) + 1

(* hereIsMcast(prodInfo), after the packet was discarded; or hereIsMcast(  *)
(* udpSeg), which may peek at the data, and then the packet is discarded.  *)
HereIsMcast ==
    /\ rcvr = "hereIs"
    /\ seen' = seen \cup {Current}
    /\ \/ rcvr' = "discard" /\ buffer' = Tail(buffer) /\ skip' = 0
       \/ rcvr' = "failed" /\ UNCHANGED <<buffer, skip>>
    /\ UNCHANGED <<sndrVars, netVars, sock, arrived>>

(* Mutant of Discard: two packets are read. *)
DiscardsTwo ==
    /\ rcvr = "discard" /\ (buffer # <<>> \/ sock # "open")
    /\ buffer' = IF Len(buffer) < 2 THEN <<>> ELSE Tail(Tail(buffer))
    /\ rcvr' = "id" /\ skip' = 0
    /\ seen' = IF skip # 0 THEN seen \cup {Current} ELSE seen
    /\ UNCHANGED <<sndrVars, netVars, sock, arrived>>

(* The loop's discard(), a read() of whatever packet is next: the one that *)
(* was peeked, if its message-identifier is unknown.                       *)
Discard ==
    /\ rcvr = "discard" /\ (buffer # <<>> \/ sock # "open")
    /\ buffer' = IF buffer = <<>> THEN buffer ELSE Tail(buffer)
    /\ rcvr' = "id" /\ skip' = 0
    /\ seen' = IF skip # 0 THEN seen \cup {Current} ELSE seen
    /\ UNCHANGED <<sndrVars, netVars, sock, arrived>>

(* halt(): Socket::Impl::shutdown() calls ::shutdown() and then sets halt. *)
Shutdown ==
    /\ sock = "open" /\ sock' = "shutdown"
    /\ UNCHANGED <<sndrVars, netVars, buffer, rcvr, skip, arrived, seen>>

SetHalt ==
    /\ sock = "shutdown" /\ sock' = "halted"
    /\ UNCHANGED <<sndrVars, netVars, buffer, rcvr, skip, arrived, seen>>

RcvrStep == PeekId \/ PeekFixed \/ PeekName \/ HereIsMcast \/ Discard \/ SetHalt

McastNext ==
    \/ \E var \in VarSizes : Multicast("prodInfo", var) \/ Multicast("dataSeg", var)
    \/ \E size \in RuntSizes : Runt(size)
    \/ \E i \in DOMAIN net : Lose(i) \/ Duplicate(i) \/ Arrive(i)
    \/ RcvrStep \/ Shutdown

McastSpec == McastInit /\ [][McastNext]_mcastVars

-----------------------------------------------------------------------------
(* What is given to the subscriber was peeked to its last byte: both sides *)
(* align the fields alike.                                                 *)
LayoutsAgree ==
    rcvr = "hereIs" =>
        LET packet == Head(buffer) IN
        skip + (IF packet.kind = "dataSeg" THEN packet.var ELSE 0) = packet.size

(* The loop's discard() takes the packet after the one that was received,  *)
(* so every other packet is lost; but never two of them in a row, and      *)
(* requests to peers recover them.                                         *)
AtMostEveryOtherIsLost ==
    rcvr \notin {"returned", "failed"} =>
        \A i \in 1..(arrived - Len(buffer)) : {i - 1, i} \cap seen # {}

(* The receiver reads packets as the sender lays them out, and what it     *)
(* skips is bounded (McastProto.cpp).                                      *)
McastInv == LayoutsAgree /\ AtMostEveryOtherIsLost

(* "Halts the multicast receiver ...  Causes `operator()()` to return":    *)
(* whichever peek() or discard() it is in.                                 *)
HaltedRcvrReturns == (sock = "shutdown") ~> (rcvr \in {"returned", "failed"})

(* "Discards the current packet.  Idempotent" (discard(), Socket.h): every *)
(* packet that has left the buffer was handled.                            *)
DiscardIsIdempotent == rcvr = "id" => seen = 1..(arrived - Len(buffer))

(* "Write buffer for 2-byte values" (Socket.cpp): the values of a packet   *)
(* are written inside of it.                                               *)
WriteBufferFits == \A width \in {2, 4} : nxt[width] =< MaxPayload \div width

=============================================================================
