-------------------------------- MODULE Wire ---------------------------------
(***************************************************************************)
(* Messages between two peers on one TCP connection, byte by byte: what    *)
(* main/protocol/PeerProto.cpp writes and reads, with the alignment, the   *)
(* partial transfers and the counters of TcpSock (main/inet/Socket.cpp),   *)
(* and the data of a segment (TcpSegData in main/protocol/hycast.cpp),     *)
(* which is read only if the repository wants it.                          *)
(*                                                                         *)
(* A byte is known by its message, its field and its place in that: values *)
(* are left out.  The connection is one of notices, requests or chunks, in *)
(* one direction.  Threads of the sender that write at the same time are   *)
(* in PeerConn.                                                            *)
(***************************************************************************)
EXTENDS Lists, Integers

CONSTANTS
    Messages,     \* messages: a number, a kind and the bytes of name or data
    SocketBuffer, \* how many bytes the connection holds
    CounterLimit, \* 2^32: bytesWritten and bytesRead are unsigned
    Handshakes    \* bytes that each kind of connection has carried before

MessageKind == [note |-> {"PROD_INFO_NOTICE", "DATA_SEG_NOTICE"},
                reqst |-> {"PROD_INFO_REQUEST", "DATA_SEG_REQUEST"},
                chunk |-> {"PROD_INFO", "DATA_SEG"}]

ASSUME WireAssumption ==
    /\ SocketBuffer \in Nat \ {0} /\ CounterLimit \in Nat \ {0} /\ CounterLimit % 4 = 0
    /\ Handshakes \in [DOMAIN MessageKind -> Nat]
    /\ \A msg \in Messages : msg.var \in Nat

VARIABLES
    conn,         \* what the connection is for
    unsent,       \* messages that may be sent
    sent,         \* messages whose writing has begun
    fields,       \* fields of the last of them that are not yet written
    out,          \* bytes that write() has to write
    bytesWritten,
    pipe,         \* bytes in the connection
    open,         \* the sender has not shut it down
    reader,         \* the message being received, and what the receiver does
    want,         \* fields that are to be read
    inp,          \* bytes that read() has read of the first of them
    bytesRead,
    got,          \* messages that were received, Garbage if that was another
    have,         \* segments in the repository, by message
    unread,       \* messages whose data was left in the connection
    short         \* messages whose data was cut off

sndVars == <<unsent, sent, fields, out, bytesWritten>>
rcvVars == <<reader, want, inp, bytesRead, got, unread, short>>
wireVars == <<conn, sndVars, pipe, open, rcvVars, have>>

Garbage == [num |-> 0, kind |-> "none", var |-> 0]

-----------------------------------------------------------------------------
(* A field, its width, and whether it is aligned: names and data are not.  *)
Field(name, width) == [name |-> name, width |-> width, aligned |-> TRUE]
Raw(name, width) == [name |-> name, width |-> width, aligned |-> FALSE]
MsgId == Field("msgId", 2)

(* What follows the message's identifier, without the data of a segment.   *)
Header(msg) ==
    CASE msg.kind \in {"PROD_INFO_NOTICE", "PROD_INFO_REQUEST"} -> <<Field("index", 4)>>
      [] msg.kind \in {"DATA_SEG_NOTICE", "DATA_SEG_REQUEST"} ->
            <<Field("index", 4), Field("offset", 4)>>
      [] msg.kind = "PROD_INFO" ->
            <<Field("length", 2), Field("index", 4), Field("prodSize", 4), Raw("name", msg.var)>>
      [] msg.kind = "DATA_SEG" ->
            <<Field("length", 2), Field("index", 4), Field("prodSize", 4), Field("offset", 4)>>
Data(msg) == IF msg.kind = "DATA_SEG" THEN <<Raw("data", msg.var)>> ELSE <<>>

ByteOf(msg, field, i) == [num |-> msg.num, name |-> field.name, place |-> i]
Padding == [num |-> 0, name |-> "pad", place |-> 0]

(* padLen(): the difference is unsigned, and a multiple of the width off.  *)
PadTo(nbytes, field) == IF field.aligned THEN (field.width - nbytes) % field.width ELSE 0

WireInit ==
    /\ conn \in DOMAIN MessageKind
    /\ unsent = {msg \in Messages : msg.kind \in MessageKind[conn]}
    /\ sent = <<>> /\ fields = <<>> /\ out = <<>> /\ pipe = <<>> /\ open = TRUE
    /\ bytesWritten = Handshakes[conn] /\ bytesRead = Handshakes[conn]
    /\ reader = "msgId" /\ want = <<MsgId>> /\ inp = <<>>
    /\ got = <<>> /\ have = {} /\ unread = {} /\ short = {}

-----------------------------------------------------------------------------
(* The sender: notify(), request() and send().  A chunk is sent because it *)
(* was requested, which it was because the repository did not have it.     *)
BeginMessage(msg) ==
    /\ open /\ fields = <<>> /\ out = <<>> /\ msg \in unsent /\ msg.num \notin have
    /\ unsent' = unsent \ {msg} /\ sent' = Append(sent, msg)
    /\ fields' = <<MsgId>> \o Header(msg) \o Data(msg)
    /\ UNCHANGED <<conn, out, bytesWritten, pipe, open, rcvVars, have>>

(* Mutant of BeginField: the value is not aligned. *)
WritesUnaligned ==
    /\ open /\ out = <<>> /\ fields # <<>>
    /\ out' = [i \in 1..Head(fields).width |-> ByteOf(sent[Len(sent)], Head(fields), i)]
    /\ fields' = Tail(fields)
    /\ UNCHANGED <<conn, unsent, sent, bytesWritten, pipe, open, rcvVars, have>>

(* alignWriteTo() and the value. *)
BeginField ==
    /\ open /\ out = <<>> /\ fields # <<>>
    /\ LET field == Head(fields)
           msg == sent[Len(sent)] IN
       out' = [i \in 1..PadTo(bytesWritten, field) |-> Padding]
              \o [i \in 1..field.width |-> ByteOf(msg, field, i)]
    /\ fields' = Tail(fields)
    /\ UNCHANGED <<conn, unsent, sent, bytesWritten, pipe, open, rcvVars, have>>

(* ::write() takes as many bytes as there is room for, or fewer. *)
WriteSome(n) ==
    /\ open /\ n =< Len(out) /\ Len(pipe) + n =< SocketBuffer
    /\ pipe' = pipe \o SubSeq(out, 1, n)
    /\ out' = SubSeq(out, n + 1, Len(out))
    /\ bytesWritten' = (bytesWritten + n) % CounterLimit
    /\ UNCHANGED <<conn, unsent, sent, fields, open, rcvVars, have>>

(* The connection ends, in the middle of a message perhaps. *)
ShutdownConn ==
    /\ open /\ open' = FALSE
    /\ UNCHANGED <<conn, sndVars, pipe, rcvVars, have>>

-----------------------------------------------------------------------------
(* The message that is being received is the next one that was sent. *)
Reading == sent[Len(got) + 1]

(* alignReadTo(), and the value. *)
Need == PadTo(bytesRead - Len(inp), Head(want)) + Head(want).width

(* ::read() returns as many bytes as there are, or fewer. *)
ReadSome(n) ==
    /\ reader \in {"msgId", "header", "data"} /\ want # <<>>
    /\ n =< Len(pipe) /\ n =< Need - Len(inp)
    /\ inp' = inp \o SubSeq(pipe, 1, n)
    /\ pipe' = SubSeq(pipe, n + 1, Len(pipe))
    /\ bytesRead' = (bytesRead + n) % CounterLimit
    /\ UNCHANGED <<conn, sndVars, open, reader, want, got, have, unread, short>>

IsValue(field) ==
    /\ Len(got) < Len(sent)
    /\ SubSeq(inp, Len(inp) - field.width + 1, Len(inp))
         = [i \in 1..field.width |-> ByteOf(Reading, field, i)]

(* read() of a value returns true.  Other bytes than the field's are taken *)
(* for an identifier that does not exist, or for another message: from     *)
(* there on the receiver is lost.                                          *)
EndField ==
    /\ reader \in {"msgId", "header", "data"} /\ want # <<>> /\ Len(inp) = Need
    /\ inp' = <<>>
    /\ IF IsValue(Head(want))
       THEN /\ want' = IF reader = "msgId" THEN Header(Reading) ELSE Tail(want)
            /\ reader' = IF reader = "msgId" THEN "header" ELSE reader
            /\ UNCHANGED got
       ELSE reader' = "lost" /\ want' = <<>> /\ got' = Append(got, Garbage)
    /\ UNCHANGED <<conn, sndVars, pipe, open, bytesRead, have, unread, short>>

NextMessage == reader' = "msgId" /\ want' = <<MsgId>> /\ got' = Append(got, Reading)

(* available(), sendMe() or hereIs() with a message that is whole. *)
HandleMessage ==
    /\ reader = "header" /\ want = <<>> /\ Data(Reading) = <<>>
    /\ NextMessage
    /\ UNCHANGED <<conn, sndVars, pipe, open, inp, bytesRead, have, unread, short>>

(* hereIs(TcpSeg&) down to RcvProdFile::Impl::save(): the data is read if  *)
(* the product-file does not have the segment.                             *)
HereIs ==
    /\ reader = "header" /\ want = <<>> /\ Data(Reading) # <<>>
    /\ have' = have \cup {Reading.num}
    /\ IF Reading.num \in have
       THEN NextMessage /\ unread' = unread \cup {Reading.num}
       ELSE reader' = "data" /\ want' = Data(Reading) /\ UNCHANGED <<got, unread>>
    /\ UNCHANGED <<conn, sndVars, pipe, open, inp, bytesRead, short>>

(* getData() returns. *)
EndData ==
    /\ reader = "data" /\ want = <<>> /\ NextMessage
    /\ UNCHANGED <<conn, sndVars, pipe, open, inp, bytesRead, have, unread, short>>

(* read() returns false at the end of the connection, which ends the       *)
(* thread; but getData() does not look at what read() returns.             *)
Eof ==
    /\ reader \in {"msgId", "header", "data"} /\ want # <<>>
    /\ ~open /\ pipe = <<>> /\ Len(inp) < Need
    /\ inp' = <<>>
    /\ IF reader = "data" THEN NextMessage /\ short' = short \cup {Reading.num}
       ELSE reader' = "ended" /\ want' = <<>> /\ UNCHANGED <<got, short>>
    /\ UNCHANGED <<conn, sndVars, pipe, open, bytesRead, have, unread>>

(* Meanwhile, hereIsMcast() saves the segment. *)
McastSaves(msg) ==
    /\ msg.kind = "DATA_SEG" /\ msg.num \notin have
    /\ have' = have \cup {msg.num}
    /\ UNCHANGED <<conn, sndVars, pipe, open, rcvVars>>

ReadStep ==
    \/ \E n \in 1..SocketBuffer : ReadSome(n)
    \/ EndField \/ HandleMessage \/ HereIs \/ EndData \/ Eof
WriteStep == BeginField \/ \E n \in 1..SocketBuffer : WriteSome(n)
WireNext ==
    \/ \E msg \in unsent : BeginMessage(msg)
    \/ WriteStep \/ ReadStep \/ ShutdownConn
    \/ \E msg \in Messages : conn = "chunk" /\ McastSaves(msg)

WireSpec == WireInit /\ [][WireNext]_wireVars

-----------------------------------------------------------------------------
(* What was received is the beginning of what was sent. *)
InOrder == Len(got) =< Len(sent) /\ got = SubSeq(sent, 1, Len(got))

(* Every message is read as it was written, in order, however the bytes    *)
(* are divided and the counters wrap around, unless a segment was left     *)
(* unread.                                                                 *)
ReadAsWritten == (\A msg \in Elems(sent) : msg.num \notin unread) => InOrder

(* The messages that were begun are received, if the connection lasts      *)
(* and no segment was left unread: neither end waits for a byte that the   *)
(* other does not send.                                                    *)
MessageIsReceived ==
    (got # sent) ~> (got = sent \/ ~open \/ unread # {})

(* A receiver ends when the connection does. *)
EofEndsReader == ~open ~> reader \in {"ended", "lost"}

(* Statements that do not hold. *)

(* "false: Chunk was previously accepted" (hereIs(), P2pMgr.cpp) is an     *)
(* answer like another: the next message is received as it was written.    *)
NextIsReadAsWritten == InOrder

(* "Saves a data-segment": one that is in the repository has its data.     *)
SavedIsWhole == short = {}

=============================================================================
