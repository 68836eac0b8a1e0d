------------------------------- MODULE PeerConn ------------------------------
(***************************************************************************)
(* A connection between two peers: Peer (main/p2p/Peer.cpp), ChunkIdQueue  *)
(* (main/p2p/ChunkIdQueue.cpp) and PeerProto (main/protocol/PeerProto.cpp) *)
(* at both ends, from operator() to its return, with TcpSock               *)
(* (main/inet/Socket.cpp) between them.                                    *)
(*                                                                         *)
(* A request or a chunk is two writes, its message-identifier and the      *)
(* rest, so that two threads that write to one socket can interleave; a    *)
(* notice, which one thread writes, is one.  A connection holds at most    *)
(* Capacity writes in each direction.  Messages about paths to the         *)
(* publisher are left out: only the receipt of one makes a peer send one.  *)
(***************************************************************************)
EXTENDS Sequences, Integers

CONSTANTS
    End,          \* the two ends of the connection
    Publisher,    \* the end that is the publisher's, if any
    MaxId,        \* chunks are 1..MaxId
    Offers,       \* how many of them each end's node notifies the remote of
    Capacity,     \* writes that a connection holds in one direction
    Reassigned,   \* chunks that the manager requests from another peer first
    HereIsThrows  \* whether the node may fail to accept a chunk: outcomes

ASSUME PeerConnAssumption ==
    /\ \E a, b \in End : a # b /\ End = {a, b}
    /\ MaxId \in Nat /\ Offers \in [End -> 0..MaxId] /\ Capacity \in Nat \ {0}
    /\ Reassigned \subseteq 1..MaxId
    /\ HereIsThrows \in {{FALSE}, BOOLEAN}

Id == 1..MaxId
Empty == 0  \* ChunkId()

VARIABLES
    peer,     \* Peer::Impl: where operator() is, and done or exceptPtr
    proto,    \* PeerProto::Impl: where operator() is, and done or exPtr
    thread,   \* what every other thread does
    queue,    \* noticeQueue and requestQueue
    closed,   \* queues that are closed
    shut,     \* sockets on which shutdown() was called
    buf,      \* what was written to each socket and not read at the far one
    offered,  \* the number of chunks that the node has notified the remote of
    asked,    \* what is known of each chunk: nothing, a notice, or a request
    got       \* chunks that the node has received

vars == <<peer, proto, thread, queue, closed, shut, buf, offered, asked, got>>

Other(e) == CHOOSE o \in End : o # e
IsSub(e) == e # Publisher

(* SubPeerProto::startTasks() *)
HasReqst(e) == Other(e) # Publisher

Thread == {"notifier", "requester", "reqst", "note", "chunk"}
Queue == {"notice", "request"}
Socket == End \X {"note", "srvr", "clnt"}
Far(s) == <<Other(s[1]), CASE s[2] = "note" -> "note" [] s[2] = "srvr" -> "clnt" [] OTHER -> "srvr">>

Half(part, id) == [part |-> part, id |-> id]
Write == [part : 1..2, id : Id \cup {Empty}]
State(at, id) == [at |-> at, id |-> id]
Idle == State("idle", Empty)

(* done says more than an exception: waitUntilDone() throws only without it. *)
Status == {"run", "except", "done"}

(* "idle" waits for a queue or a message, "rest" for the rest of the       *)
(* message, "first" and "second" write a message.                          *)
ThreadAt == {"none", "idle", "rest", "first", "second", "ended"}
TypeOK ==
    /\ peer \in [End -> [at : {"new", "wait", "proto", "requester", "notifier", "returned"},
                         status : Status]]
    /\ proto \in [End -> [at : {"new", "wait", "reqst", "note", "chunk", "ended"},
                          status : Status]]
    /\ thread \in [End -> [Thread -> [at : ThreadAt, id : Id \cup {Empty}]]]
    /\ queue \in [End -> [Queue -> Seq(Id)]]
    /\ closed \in [End -> SUBSET Queue]
    /\ shut \subseteq Socket
    /\ buf \in [Socket -> Seq(Write)] /\ \A s \in Socket : Len(buf[s]) =< Capacity
    /\ offered \in [End -> 0..MaxId]
    /\ asked \in [End -> [Id -> {"nothing", "notice", "request"}]] /\ got \in [End -> SUBSET Id]

(* Both ends are constructed: the sockets are connected. *)
Init ==
    /\ peer = [e \in End |-> [at |-> "new", status |-> "run"]]
    /\ proto = [e \in End |-> [at |-> "new", status |-> "run"]]
    /\ thread = [e \in End |-> [t \in Thread |-> State("none", Empty)]]
    /\ queue = [e \in End |-> [q \in Queue |-> <<>>]]
    /\ closed = [e \in End |-> {}]
    /\ shut = {} /\ buf = [s \in Socket |-> <<>>]
    /\ offered = [e \in End |-> 0]
    /\ asked = [e \in End |-> [id \in Id |-> "nothing"]] /\ got = [e \in End |-> {}]

-----------------------------------------------------------------------------
(* TcpSock.  write() blocks while the connection is full; it throws once   *)
(* the socket is shut down, and sooner or later once the far one is.       *)
CanWrite(s) == s \notin shut /\ (Far(s) \in shut \/ Len(buf[s]) < Capacity)
Put(s, half) ==
    buf' = IF Far(s) \in shut THEN buf ELSE [buf EXCEPT ![s] = Append(@, half)]
WriteThrows(s) == s \in shut \/ Far(s) \in shut

(* read() returns what has arrived before it reports the end of input. *)
CanRead(s) == buf[Far(s)] # <<>>
Oldest(s) == Head(buf[Far(s)])
Take(s) == buf' = [buf EXCEPT ![Far(s)] = Tail(@)]
AtEof(s) == buf[Far(s)] = <<>> /\ (s \in shut \/ Far(s) \in shut)

-----------------------------------------------------------------------------
Goto(e, t, state) == thread' = [thread EXCEPT ![e][t] = state]

(* setExcept() and halt() of PeerProto, handleException() and setDone() of *)
(* Peer.                                                                   *)
Except(status) == IF status = "run" THEN "except" ELSE status
SetExcept(e) == proto' = [proto EXCEPT ![e].status = Except(@)]
HaltProto(e) == proto' = [proto EXCEPT ![e].status = "done"]
HandleException(e) == peer' = [peer EXCEPT ![e].status = Except(@)]
SetDone(e) == peer' = [peer EXCEPT ![e].status = "done"]

(* Threads of Peer write notices and requests that were queued.            *)
WriterOf(q) == IF q = "notice" THEN "notifier" ELSE "requester"
SocketOf(e, t) ==
    <<e, CASE t \in {"notifier", "note"} -> "note" [] t = "reqst" -> "srvr" [] OTHER -> "clnt">>

(* runNotifier() and runRequester(): pop(), which returns an empty         *)
(* identifier if the queue is closed, and then isDone().                   *)
Pop(e, q) ==
    LET t == WriterOf(q) IN
    /\ thread[e][t].at = "idle"
    /\ q \in closed[e] \/ queue[e][q] # <<>>
    /\ LET id == IF q \in closed[e] THEN Empty ELSE Head(queue[e][q]) IN
       Goto(e, t, State(IF peer[e].status = "done" THEN "ended"
                        ELSE IF q = "notice" THEN "second" ELSE "first", id))
    /\ queue' = [queue EXCEPT ![e][q] = IF q \in closed[e] THEN @ ELSE Tail(@)]
    /\ UNCHANGED <<peer, proto, closed, shut, buf, offered, asked, got>>

(* The socket to which a thread writes.  The thread that receives notices  *)
(* writes requests, and the one that receives requests writes chunks.      *)
Sink(e, t) == IF t = "note" THEN <<e, "clnt">> ELSE SocketOf(e, t)

WriteFirst(e, t) ==
    /\ thread[e][t].at = "first" /\ CanWrite(Sink(e, t))
    /\ Put(Sink(e, t), Half(1, thread[e][t].id))
    /\ Goto(e, t, [thread[e][t] EXCEPT !.at = "second"])
    /\ UNCHANGED <<peer, proto, queue, closed, shut, offered, asked, got>>

WriteSecond(e, t) ==
    /\ thread[e][t].at = "second" /\ CanWrite(Sink(e, t))
    /\ Put(Sink(e, t), Half(2, thread[e][t].id))
    /\ Goto(e, t, Idle)
    /\ UNCHANGED <<peer, proto, queue, closed, shut, offered, asked, got>>

(* The exception of a write ends the thread: the ones of Peer call         *)
(* handleException(), the ones of PeerProto setExcept().                   *)
WriteFails(e, t) ==
    /\ thread[e][t].at \in {"first", "second"} /\ WriteThrows(Sink(e, t))
    /\ Goto(e, t, State("ended", Empty))
    /\ IF t \in {"notifier", "requester"} THEN HandleException(e) /\ UNCHANGED proto
       ELSE SetExcept(e) /\ UNCHANGED peer
    /\ UNCHANGED <<queue, closed, shut, buf, offered, asked, got>>

-----------------------------------------------------------------------------
(* recvNotices(), recvRequests(), recvChunks(): the message's identifier.  *)
Receiver == {"reqst", "note", "chunk"}

RecvFirst(e, t) ==
    LET s == SocketOf(e, t) IN
    /\ t # "note" /\ thread[e][t].at = "idle" /\ CanRead(s)
    /\ IF Oldest(s).part = 1
       THEN /\ Goto(e, t, State("rest", Oldest(s).id)) /\ UNCHANGED proto
       ELSE \* "Invalid message ID"
            /\ Goto(e, t, State("ended", Empty)) /\ SetExcept(e)
    /\ Take(s)
    /\ UNCHANGED <<peer, queue, closed, shut, offered, asked, got>>

(* read() returns false, and the thread halts the protocol. *)
RecvEof(e, t) ==
    /\ thread[e][t].at \in {"idle", "rest"} /\ AtEof(SocketOf(e, t))
    /\ Goto(e, t, State("ended", Empty)) /\ HaltProto(e)
    /\ UNCHANGED <<peer, queue, closed, shut, buf, offered, asked, got>>

(* The far end has reset the connection. *)
RecvFails(e, t) ==
    /\ thread[e][t].at \in {"idle", "rest"} /\ Far(SocketOf(e, t)) \in shut
    /\ Goto(e, t, State("ended", Empty)) /\ SetExcept(e)
    /\ UNCHANGED <<peer, queue, closed, shut, buf, offered, asked, got>>

(* The rest of the message. *)
Rest(e, t) ==
    LET s == SocketOf(e, t) IN
    /\ thread[e][t].at = (IF t = "note" THEN "idle" ELSE "rest")
    /\ CanRead(s) /\ Take(s)

(* recvProdNotice(), recvSegNotice(), and available(): an index of zero is *)
(* taken for the end of input, and the manager decides on the request.     *)
RecvNotice(e) ==
    LET id == Oldest(<<e, "note">>).id IN
    /\ Rest(e, "note")
    /\ \/ /\ id = Empty
          /\ HaltProto(e) /\ Goto(e, "note", State("ended", Empty)) /\ UNCHANGED asked
       \/ /\ id \in Reassigned
          /\ Goto(e, "note", Idle)
          /\ asked' = [asked EXCEPT ![e][id] = "notice"] /\ UNCHANGED proto
       \/ /\ id \in Id \ Reassigned
          /\ Goto(e, "note", State("first", id))
          /\ asked' = [asked EXCEPT ![e][id] = "request"] /\ UNCHANGED proto
    /\ UNCHANGED <<peer, queue, closed, shut, offered, got>>

(* Mutant of Has: the chunk of the latest notice is missing. *)
HasEarlier(e, id) == id \in 1..(offered[e] - 1)

(* recvProdReq(), recvSegReq() and sendMe(): the chunk is sent if the node *)
(* has it.  With another thread's bytes in the place of the message's, it  *)
(* is taken for some other chunk, and what follows for a message.          *)
Has(e, id) == id \in 1..offered[e]

RecvRequest(e) ==
    LET id == thread[e]["reqst"].id IN
    /\ Rest(e, "reqst")
    /\ IF Oldest(SocketOf(e, "reqst")) = Half(2, id)
       THEN /\ Goto(e, "reqst", IF Has(e, id) THEN State("first", id) ELSE Idle)
            /\ UNCHANGED proto
       ELSE Goto(e, "reqst", State("ended", Empty)) /\ SetExcept(e)
    /\ UNCHANGED <<peer, queue, closed, shut, offered, asked, got>>

(* recvProdInfo(), recvDataSeg() and hereIs(). *)
RecvChunk(e) ==
    /\ Rest(e, "chunk")
    /\ \E throws \in HereIsThrows :
         IF throws
         THEN Goto(e, "chunk", State("ended", Empty)) /\ SetExcept(e) /\ UNCHANGED got
         ELSE /\ Goto(e, "chunk", Idle)
              /\ got' = [got EXCEPT ![e] = @ \cup {thread[e]["chunk"].id}]
              /\ UNCHANGED proto
    /\ UNCHANGED <<peer, queue, closed, shut, offered, asked>>

-----------------------------------------------------------------------------
(* startTasks() of PeerProto and of Peer: the threads of an end. *)
ProtoTasks(e) == {t \in Receiver : IF t = "reqst" THEN HasReqst(e) ELSE IsSub(e)}
PeerTasks(e) == {"notifier"} \cup {t \in {"requester"} : IsSub(e)}

Ended(e, t) == thread[e][t].at \in {"none", "ended"}
Shutdown(e, t) == IF thread[e][t].at = "none" THEN {} ELSE {SocketOf(e, t)}

(* Mutant of StopTask: a thread is joined without a shutdown() first. *)
OnlyJoins(e, from, to) ==
    /\ proto[e].at = from
    /\ IF from = "wait" THEN proto[e].status # "run" ELSE Ended(e, from)
    /\ proto' = [proto EXCEPT ![e].at = to]
    /\ UNCHANGED <<peer, thread, queue, closed, shut, buf, offered, asked, got>>

(* PeerProto::operator(): waitUntilDone(), and stopTasks() of a publisher  *)
(* or a subscriber: shutdown() and join() of one thread after another, ... *)
StopTask(e, from, to) ==
    /\ proto[e].at = from
    /\ IF from = "wait" THEN proto[e].status # "run" ELSE Ended(e, from)
    /\ proto' = [proto EXCEPT ![e].at = to]
    /\ shut' = shut \cup Shutdown(e, to)
    /\ UNCHANGED <<peer, thread, queue, closed, buf, offered, asked, got>>

StopTasks(e) ==
    \/ StopTask(e, "wait", "reqst")
    \/ StopTask(e, "reqst", "note")
    \/ StopTask(e, "note", "chunk")

(* ... and disconnect().  Then runPeerProto() tells the peer. *)
EndProto(e) ==
    /\ proto[e].at = "chunk" /\ Ended(e, "chunk")
    /\ proto' = [proto EXCEPT ![e].at = "ended"]
    /\ shut' = shut \cup {s \in Socket : s[1] = e}
    /\ IF proto[e].status = "done" THEN SetDone(e) ELSE HandleException(e)
    /\ UNCHANGED <<thread, queue, closed, buf, offered, asked, got>>

(* Peer::operator(): startTasks() ... *)
StartPeer(e) ==
    /\ peer[e].at = "new"
    /\ peer' = [peer EXCEPT ![e].at = "wait"]
    /\ proto' = [proto EXCEPT ![e].at = "wait"]
    /\ thread' = [thread EXCEPT ![e] = [t \in Thread |->
            IF t \in PeerTasks(e) \cup ProtoTasks(e) THEN Idle ELSE @[t]]]
    /\ UNCHANGED <<queue, closed, shut, buf, offered, asked, got>>

(* Mutant of StopProto: the queues are closed first. *)
ClosesQueuesFirst(e) ==
    /\ peer[e].at = "wait" /\ peer[e].status # "run"
    /\ peer' = [peer EXCEPT ![e].at = "proto"]
    /\ HaltProto(e)
    /\ closed' = [closed EXCEPT ![e] = Queue]
    /\ UNCHANGED <<thread, queue, shut, buf, offered, asked, got>>

(* ... waitUntilDone(), and stopTasks(): halt() of the protocol, ... *)
StopProto(e) ==
    /\ peer[e].at = "wait" /\ peer[e].status # "run"
    /\ peer' = [peer EXCEPT ![e].at = "proto"]
    /\ HaltProto(e)
    /\ UNCHANGED <<thread, queue, closed, shut, buf, offered, asked, got>>

(* ... and then close() and join(). *)
CloseQueue(e, q, from, to) ==
    /\ peer[e].at = from
    /\ IF from = "proto" THEN proto[e].at = "ended" ELSE Ended(e, from)
    /\ peer' = [peer EXCEPT ![e].at = to]
    /\ closed' = [closed EXCEPT ![e] = @ \cup {q}]
    /\ UNCHANGED <<proto, thread, queue, shut, buf, offered, asked, got>>

ReturnPeer(e) ==
    /\ peer[e].at = "notifier" /\ Ended(e, "notifier")
    /\ peer' = [peer EXCEPT ![e].at = "returned"]
    /\ UNCHANGED <<proto, thread, queue, closed, shut, buf, offered, asked, got>>

-----------------------------------------------------------------------------
(* The manager of the peer.  notify() and request() throw once the peer is *)
(* done, and push() does nothing once the queue is closed.                 *)
Push(e, q, id) ==
    /\ peer[e].status # "done" /\ peer[e].at # "new"
    /\ queue' = [queue EXCEPT ![e][q] = IF q \in closed[e] THEN @ ELSE Append(@, id)]

Notify(e) ==
    /\ offered[e] < Offers[e] /\ (IsSub(e) => offered[e] + 1 \in got[e])
    /\ Push(e, "notice", offered[e] + 1)
    /\ offered' = [offered EXCEPT ![e] = @ + 1]
    /\ UNCHANGED <<peer, proto, thread, closed, shut, buf, asked, got>>

(* The other peer of which the chunk was requested has stopped. *)
Request(e, id) ==
    /\ asked[e][id] = "notice"
    /\ Push(e, "request", id)
    /\ asked' = [asked EXCEPT ![e][id] = "request"]
    /\ UNCHANGED <<peer, proto, thread, closed, shut, buf, offered, got>>

Halt(e) ==
    /\ peer[e].status # "done" /\ SetDone(e)
    /\ UNCHANGED <<proto, thread, queue, closed, shut, buf, offered, asked, got>>

ManagerStep(e) == Notify(e) \/ Halt(e) \/ \E id \in Id : Request(e, id)

ThreadStep(e, t) ==
    \/ WriteFirst(e, t) \/ WriteSecond(e, t) \/ WriteFails(e, t)
    \/ t \in Receiver /\ (RecvFirst(e, t) \/ RecvEof(e, t) \/ RecvFails(e, t))
    \/ t = "notifier" /\ Pop(e, "notice")
    \/ t = "requester" /\ Pop(e, "request")
    \/ t = "note" /\ RecvNotice(e)
    \/ t = "reqst" /\ RecvRequest(e)
    \/ t = "chunk" /\ RecvChunk(e)

ProtoStep(e) == StopTasks(e) \/ EndProto(e)
PeerStep(e) ==
    \/ StartPeer(e) \/ StopProto(e) \/ ReturnPeer(e)
    \/ CloseQueue(e, "request", "proto", "requester")
    \/ CloseQueue(e, "notice", "requester", "notifier")

ProgramStep == \E e \in End : ProtoStep(e) \/ PeerStep(e) \/ \E t \in Thread : ThreadStep(e, t)

Next == ProgramStep \/ \E e \in End : ManagerStep(e)

(* A thread that can run does not wait for ever for all the others: they   *)
(* come to rest, as chunks are finite.  The manager need not notify,       *)
(* request or halt.                                                        *)
Spec == Init /\ [][Next]_vars
FairSpec == Spec /\ WF_vars(ProgramStep)

-----------------------------------------------------------------------------
(* "Upon return, all subtasks have terminated and the remote peer will     *)
(* have been disconnected" (operator() of Peer and of PeerProto).          *)
NothingOutlivesPeer ==
    \A e \in End : peer[e].at = "returned" =>
        /\ \A t \in Thread : Ended(e, t)
        /\ \A s \in Socket : s[1] = e => s \in shut

(* A closed queue pops an empty identifier while done may still be false,  *)
(* so that the notifier sends it: the remote peer never gets to read it,   *)
(* as it would take it for the end of input.                               *)
EmptyIdStaysHere ==
    \A s \in Socket : \A i \in DOMAIN buf[s] : buf[s][i].id # Empty

(* Both, whichever thread of either end is the last to stop. *)
ConnInv == NothingOutlivesPeer /\ EmptyIdStaysHere

(* Everything a peer reads was written for it: bytes of two messages never *)
(* mix on a connection.                                                    *)
MessagesAreWhole ==
    \A e \in End : \A t \in Receiver :
        CanRead(SocketOf(e, t)) =>
            LET half == Oldest(SocketOf(e, t)) IN
            /\ thread[e][t].at = "idle" => half.part = 1
            /\ thread[e][t].at = "rest" => half = Half(2, thread[e][t].id)

(* "`halt()` ... causes `operator()()` to return", and so does an          *)
(* exception of a thread, and the end of the remote peer, whatever the     *)
(* threads of both ends are doing.                                         *)
PeerReturns ==
    []<>(\A e \in End :
            peer[e].at \in {"new", "returned"}
            \/ (peer[e].status = "run" /\ proto[e].status = "run" /\ peer[Other(e)].at # "returned"))

(* A chunk that the manager wants of the remote peer is received, unless   *)
(* one of the ends stops.                                                  *)
RequestIsAnswered ==
    []<>(\/ \E e \in End : peer[e].status # "run"
         \/ \A e \in End : \A id \in Id : asked[e][id] = "request" => id \in got[e])

=============================================================================
