----------------------------- MODULE PeersProofs -----------------------------
(***************************************************************************)
(* Proofs about the peers of both implementations: a connection between    *)
(* two peers (PeerConn), and, of the earlier implementation, the set of    *)
(* active peers (ActivePeers) and the records of a connection (Records).   *)
(* The three share nothing but this module.                                *)
(***************************************************************************)
EXTENDS PeerConn, ActivePeers, Records, FiniteSetTheorems, TLAPS

(***************************************************************************)
(* PeerConn, for any number of chunks and any capacity of a connection.    *)
(* What ends an end's threads is a chain: the protocol stops and joins its *)
(* receivers one by one and disconnects, and only then does the peer close *)
(* a queue.  So whoever pops an empty identifier writes to a socket that   *)
(* is shut down.                                                           *)
(***************************************************************************)
(* PeerProto::operator() and its threads. *)
ProtoInv ==
    \A e \in End :
        /\ proto[e].at = "new" => \A t \in Thread : thread[e][t].at = "none"
        /\ proto[e].at \in {"note", "chunk", "ended"} => Ended(e, "reqst")
        /\ proto[e].at \in {"chunk", "ended"} => Ended(e, "note")
        /\ proto[e].at = "ended" =>
              Ended(e, "chunk") /\ \A s \in Socket : s[1] = e => s \in shut

(* Peer::operator(), its threads and its queues. *)
PeerInv ==
    \A e \in End :
        /\ peer[e].at = "new" <=> proto[e].at = "new"
        /\ peer[e].at \in {"requester", "notifier", "returned"} =>
              proto[e].at = "ended"
        /\ peer[e].at \in {"notifier", "returned"} => Ended(e, "requester")
        /\ peer[e].at = "returned" => Ended(e, "notifier")
        /\ closed[e] # {} => proto[e].at = "ended"

(* Who writes an empty identifier cannot write it, and who waits for the   *)
(* rest of a message knows its chunk.                                      *)
EmptyInv ==
    \A e \in End, t \in Thread :
        /\ thread[e][t].at \in {"first", "second"} =>
              thread[e][t].id # Empty \/ Sink(e, t) \in shut
        /\ thread[e][t].at = "rest" => thread[e][t].id # Empty

ConnIInv == TypeOK /\ ProtoInv /\ PeerInv /\ EmptyInv /\ EmptyIdStaysHere

-----------------------------------------------------------------------------
(* The other one of two ends, and the far socket of a connection. *)
LEMMA OtherEnd == \A e \in End : Other(e) \in End /\ Other(e) # e
BY PeerConnAssumption DEF Other

(* The far end of a socket is a socket. *)
LEMMA FarSocket == \A s \in Socket : Far(s) \in Socket
<1> SUFFICES ASSUME NEW s \in Socket PROVE Far(s) \in Socket
  OBVIOUS
<1>1. s[1] \in End /\ s[2] \in {"note", "srvr", "clnt"}
  BY DEF Socket
<1>2. Other(s[1]) \in End
  BY <1>1, OtherEnd
<1>3. QED
  BY <1>2 DEF Far, Socket

(* Every thread of an end reads from and writes to sockets of that end. *)
LEMMA OwnSockets ==
  \A e \in End, t \in Thread :
      /\ SocketOf(e, t) \in Socket /\ Sink(e, t) \in Socket
      /\ SocketOf(e, t)[1] = e /\ Sink(e, t)[1] = e
BY DEF SocketOf, Sink, Socket, Thread

(* What TypeOK says of a thread, of the protocol and of the peer. *)
ThreadState == [at : ThreadAt, id : Id \cup {Empty}]
ProtoState == [at : {"new", "wait", "reqst", "note", "chunk", "ended"}, status : Status]
PeerState == [at : {"new", "wait", "proto", "requester", "notifier", "returned"},
              status : Status]

(* A thread that goes to another place leaves every other where it is. *)
LEMMA GotoMoves ==
  ASSUME TypeOK, NEW e \in End, NEW t \in Thread, NEW st \in ThreadState,
         Goto(e, t, st)
  PROVE  /\ thread' \in [End -> [Thread -> ThreadState]]
         /\ \A f \in End, u \in Thread :
               thread'[f][u] = IF f = e /\ u = t THEN st ELSE thread[f][u]
BY DEF TypeOK, Goto, ThreadState

(* Only operator() of the protocol changes the place in it. *)
LEMMA ProtoStatus ==
  ASSUME TypeOK, NEW e \in End, SetExcept(e) \/ HaltProto(e) \/ proto' = proto
  PROVE  /\ proto' \in [End -> ProtoState]
         /\ \A f \in End : proto'[f].at = proto[f].at
<1>1. ASSUME NEW x \in Status, proto' = [proto EXCEPT ![e].status = x]
      PROVE  /\ proto' \in [End -> ProtoState]
             /\ \A f \in End : proto'[f].at = proto[f].at
  BY <1>1 DEF TypeOK, ProtoState
<1>2. proto[e].status \in Status
  BY DEF TypeOK
<1>3. Except(proto[e].status) \in Status /\ "done" \in Status
  BY <1>2 DEF Except, Status
<1>4. CASE SetExcept(e)
  <2>1. proto' = [proto EXCEPT ![e].status = Except(proto[e].status)]
    BY <1>4 DEF SetExcept
  <2>2. QED
    BY <1>1, <1>3, <2>1
<1>5. CASE HaltProto(e)
  BY <1>1, <1>3, <1>5 DEF HaltProto
<1>6. CASE proto' = proto
  BY <1>6 DEF TypeOK, ProtoState
<1>7. QED
  BY <1>4, <1>5, <1>6

(* The same for the peer. *)
LEMMA PeerStatus ==
  ASSUME TypeOK, NEW e \in End, HandleException(e) \/ SetDone(e) \/ peer' = peer
  PROVE  /\ peer' \in [End -> PeerState]
         /\ \A f \in End : peer'[f].at = peer[f].at
<1>1. ASSUME NEW x \in Status, peer' = [peer EXCEPT ![e].status = x]
      PROVE  /\ peer' \in [End -> PeerState]
             /\ \A f \in End : peer'[f].at = peer[f].at
  BY <1>1 DEF TypeOK, PeerState
<1>2. peer[e].status \in Status
  BY DEF TypeOK
<1>3. Except(peer[e].status) \in Status /\ "done" \in Status
  BY <1>2 DEF Except, Status
<1>4. CASE HandleException(e)
  <2>1. peer' = [peer EXCEPT ![e].status = Except(peer[e].status)]
    BY <1>4 DEF HandleException
  <2>2. QED
    BY <1>1, <1>3, <2>1
<1>5. CASE SetDone(e)
  BY <1>1, <1>3, <1>5 DEF SetDone
<1>6. CASE peer' = peer
  BY <1>6 DEF TypeOK, PeerState
<1>7. QED
  BY <1>4, <1>5, <1>6

(* A write to a connection that has room, or that nobody reads any more. *)
LEMMA PutType ==
  ASSUME TypeOK, NEW s \in Socket, CanWrite(s), NEW half \in Write, Put(s, half)
  PROVE  buf' \in [Socket -> Seq(Write)] /\ \A r \in Socket : Len(buf'[r]) =< Capacity
<1>1. CASE Far(s) \in shut
  BY <1>1 DEF TypeOK, Put
<1>2. CASE Far(s) \notin shut
  <2>1. buf[s] \in Seq(Write) /\ Len(buf[s]) < Capacity
    BY <1>2 DEF TypeOK, CanWrite
  <2>2. Append(buf[s], half) \in Seq(Write) /\ Len(Append(buf[s], half)) = Len(buf[s]) + 1
    BY <2>1
  <2>3. buf' = [buf EXCEPT ![s] = Append(buf[s], half)]
    BY <1>2 DEF Put
  <2>4. \A r \in Socket : buf'[r] = IF r = s THEN Append(buf[s], half) ELSE buf[r]
    BY <2>3 DEF TypeOK
  <2>5. Len(buf[s]) + 1 =< Capacity
    BY <2>1, PeerConnAssumption
  <2>6. QED
    BY <2>2, <2>3, <2>4, <2>5 DEF TypeOK
<1>3. QED
  BY <1>1, <1>2

(* A read from the far end of a connection that holds something. *)
LEMMA TakeType ==
  ASSUME TypeOK, EmptyIdStaysHere, NEW s \in Socket, CanRead(s), Take(s)
  PROVE  /\ Oldest(s) \in Write /\ Oldest(s).id \in Id
         /\ buf' \in [Socket -> Seq(Write)]
         /\ \A r \in Socket : Len(buf'[r]) =< Capacity
<1> DEFINE f == Far(s)
<1>1. f \in Socket /\ buf[f] \in Seq(Write) /\ buf[f] # <<>> /\ Len(buf[f]) =< Capacity
  BY FarSocket DEF TypeOK, CanRead
<1>2. /\ Head(buf[f]) = buf[f][1] /\ 1 \in DOMAIN buf[f] /\ Head(buf[f]) \in Write
      /\ Tail(buf[f]) \in Seq(Write) /\ Len(Tail(buf[f])) = Len(buf[f]) - 1
      /\ Len(buf[f]) \in Nat
  BY <1>1
<1>3. Oldest(s) \in Write /\ Oldest(s).id \in Id
  BY <1>1, <1>2 DEF Oldest, EmptyIdStaysHere, Write
<1>4. buf' = [buf EXCEPT ![f] = Tail(buf[f])]
  BY DEF Take
<1>5. \A r \in Socket : buf'[r] = IF r = f THEN Tail(buf[f]) ELSE buf[r]
  BY <1>1, <1>4 DEF TypeOK
<1>6. Len(Tail(buf[f])) =< Capacity
  BY <1>1, <1>2, PeerConnAssumption
<1>7. QED
  BY <1>2, <1>3, <1>4, <1>5, <1>6 DEF TypeOK

-----------------------------------------------------------------------------
(* What every step of a thread has in common: it runs, it goes somewhere,  *)
(* it knows its chunk unless its socket is shut down, and at most it       *)
(* reports an exception or the end of input.                               *)
Sane(e, t, st) ==
    /\ st.at # "none"
    /\ st.at \in {"first", "second"} => st.id # Empty \/ Sink(e, t) \in shut
    /\ st.at = "rest" => st.id # Empty

Moves(e, t) ==
    /\ thread[e][t].at \notin {"none", "ended"}
    /\ \E st \in ThreadState : Sane(e, t, st) /\ Goto(e, t, st)
    /\ SetExcept(e) \/ HaltProto(e) \/ proto' = proto
    /\ HandleException(e) \/ peer' = peer
    /\ UNCHANGED <<closed, shut, offered>>

(* Every step of a thread is such a step. *)
LEMMA WriterMoves ==
  ASSUME ConnIInv, NEW e \in End, NEW t \in Thread,
         WriteFirst(e, t) \/ WriteSecond(e, t) \/ WriteFails(e, t)
  PROVE  Moves(e, t)
<1> DEFINE old == thread[e][t]
<1>1. old \in ThreadState /\ (old.at \in {"first", "second"} =>
                                  old.id # Empty \/ Sink(e, t) \in shut)
  BY DEF ConnIInv, TypeOK, ThreadState, EmptyInv
<1>2. CASE WriteFirst(e, t)
  <2> DEFINE st == [old EXCEPT !.at = "second"]
  <2>1. st \in ThreadState /\ Sane(e, t, st)
    BY <1>1, <1>2 DEF WriteFirst, Sane, ThreadState, ThreadAt
  <2>2. QED
    BY <1>2, <2>1 DEF WriteFirst, Moves
<1>3. CASE WriteSecond(e, t)
  <2>1. Idle \in ThreadState /\ Sane(e, t, Idle)
    BY DEF Sane, Idle, State, ThreadState, ThreadAt
  <2>2. QED
    BY <1>3, <2>1 DEF WriteSecond, Moves
<1>4. CASE WriteFails(e, t)
  <2>1. State("ended", Empty) \in ThreadState /\ Sane(e, t, State("ended", Empty))
    BY DEF Sane, State, ThreadState, ThreadAt
  <2>2. QED
    BY <1>4, <2>1 DEF WriteFails, Moves
<1>5. QED
  BY <1>2, <1>3, <1>4

(* What a writer of notices or requests takes from its queue, it carries. *)
LEMMA PopMoves ==
  ASSUME ConnIInv, NEW e \in End, NEW q \in Queue, Pop(e, q)
  PROVE  Moves(e, WriterOf(q)) /\ queue' \in [End -> [Queue -> Seq(Id)]]
<1> DEFINE t == WriterOf(q)
           id == IF q \in closed[e] THEN Empty ELSE Head(queue[e][q])
           st == State(IF peer[e].status = "done" THEN "ended"
                       ELSE IF q = "notice" THEN "second" ELSE "first", id)
<1>1. t \in Thread
  BY DEF WriterOf, Thread
<1>2. queue[e][q] \in Seq(Id)
  BY DEF ConnIInv, TypeOK
<1>3. q \notin closed[e] => id \in Id /\ id # Empty /\ Tail(queue[e][q]) \in Seq(Id)
  <2>1. q \notin closed[e] => queue[e][q] # <<>>
    BY DEF Pop
  <2>2. queue[e][q] # <<>> => Head(queue[e][q]) \in Id /\ Tail(queue[e][q]) \in Seq(Id)
    BY <1>2
  <2>3. \A i \in Id : i # Empty
    BY DEF Id, Empty
  <2>4. QED
    BY <2>1, <2>2, <2>3
<1>4. q \in closed[e] => Sink(e, t) \in shut
  BY <1>1, OwnSockets DEF ConnIInv, PeerInv, ProtoInv
<1>5. st \in ThreadState
  BY <1>3 DEF State, ThreadState, ThreadAt
<1>6. Sane(e, t, st)
  BY <1>3, <1>4 DEF State, Sane
<1>7. Moves(e, t)
  <2>1. Goto(e, t, st)
    BY DEF Pop
  <2>2. thread[e][t].at = "idle" /\ UNCHANGED <<peer, proto, closed, shut, offered>>
    BY DEF Pop
  <2>3. QED
    BY <1>5, <1>6, <2>1, <2>2 DEF Moves
<1>8. queue' \in [End -> [Queue -> Seq(Id)]]
  <2>1. queue' = [queue EXCEPT ![e][q] = IF q \in closed[e] THEN queue[e][q]
                                         ELSE Tail(queue[e][q])]
    BY DEF Pop
  <2>2. QED
    BY <1>2, <1>3, <2>1 DEF ConnIInv, TypeOK
<1>9. QED
  BY <1>7, <1>8

Receive(e, t) ==
    \/ RecvFirst(e, t) \/ RecvEof(e, t) \/ RecvFails(e, t)
    \/ t = "note" /\ RecvNotice(e)
    \/ t = "reqst" /\ RecvRequest(e)
    \/ t = "chunk" /\ RecvChunk(e)

(* A step of a receiving thread moves that thread, and at most fails its connection. *)
LEMMA ReceiverMoves ==
  ASSUME ConnIInv, NEW e \in End, NEW t \in Receiver, Receive(e, t)
  PROVE  Moves(e, t)
<1> DEFINE old == thread[e][t]
           end == State("ended", Empty)
           s == SocketOf(e, t)
<1>1. s \in Socket /\ TypeOK /\ EmptyIdStaysHere
  BY OwnSockets DEF ConnIInv, Receiver, Thread
<1>2. /\ Idle \in ThreadState /\ Sane(e, t, Idle)
      /\ end \in ThreadState /\ Sane(e, t, end)
  BY DEF Idle, State, Sane, ThreadState, ThreadAt
<1>3. \A id \in Id : /\ State("rest", id) \in ThreadState /\ Sane(e, t, State("rest", id))
                     /\ State("first", id) \in ThreadState /\ Sane(e, t, State("first", id))
  BY DEF State, Sane, ThreadState, ThreadAt, Id, Empty
<1>4. CASE RecvFirst(e, t)
  <2>1. Oldest(s).id \in Id
    BY <1>1, <1>4, TakeType DEF RecvFirst
  <2>2. \E st \in ThreadState : Sane(e, t, st) /\ Goto(e, t, st)
    BY <1>2, <1>3, <1>4, <2>1 DEF RecvFirst
  <2>3. QED
    BY <1>4, <2>2 DEF RecvFirst, Moves
<1>5. CASE RecvEof(e, t)
  BY <1>2, <1>5 DEF RecvEof, Moves
<1>6. CASE RecvFails(e, t)
  BY <1>2, <1>6 DEF RecvFails, Moves
<1>7. CASE t = "note" /\ RecvNotice(e)
  <2>1. \E st \in ThreadState : Sane(e, t, st) /\ Goto(e, t, st)
    BY <1>2, <1>3, <1>7 DEF RecvNotice
  <2>2. QED
    BY <1>7, <2>1 DEF RecvNotice, Rest, Moves
<1>8. CASE t = "reqst" /\ RecvRequest(e)
  <2>1. old.at = "rest" /\ old.id \in Id
    BY <1>8 DEF RecvRequest, Rest, ConnIInv, TypeOK, EmptyInv, Thread
  <2>2. \E st \in ThreadState : Sane(e, t, st) /\ Goto(e, t, st)
    BY <1>2, <1>3, <1>8, <2>1 DEF RecvRequest
  <2>3. QED
    BY <1>8, <2>1, <2>2 DEF RecvRequest, Moves
<1>9. CASE t = "chunk" /\ RecvChunk(e)
  <2>1. \E st \in ThreadState : Sane(e, t, st) /\ Goto(e, t, st)
    BY <1>2, <1>9 DEF RecvChunk
  <2>2. QED
    BY <1>9, <2>1 DEF RecvChunk, Rest, Moves
<1>10. QED
  BY <1>4, <1>5, <1>6, <1>7, <1>8, <1>9 DEF Receive

(* A thread that moves does not come back from its end, and leaves the     *)
(* places of both operator()s alone.                                       *)
LEMMA MovesKeep ==
  ASSUME ConnIInv, NEW e \in End, NEW t \in Thread, Moves(e, t)
  PROVE  /\ ProtoInv' /\ PeerInv' /\ EmptyInv'
         /\ thread' \in [End -> [Thread -> ThreadState]]
         /\ proto' \in [End -> ProtoState] /\ peer' \in [End -> PeerState]
<1>1. PICK st \in ThreadState : Sane(e, t, st) /\ Goto(e, t, st)
  BY DEF Moves
<1>2. TypeOK
  BY DEF ConnIInv
<1>3. /\ thread' \in [End -> [Thread -> ThreadState]]
      /\ \A f \in End, u \in Thread :
            thread'[f][u] = IF f = e /\ u = t THEN st ELSE thread[f][u]
  BY <1>1, <1>2, GotoMoves
<1>4. proto' \in [End -> ProtoState] /\ \A f \in End : proto'[f].at = proto[f].at
  BY <1>2, ProtoStatus DEF Moves
<1>5. peer' \in [End -> PeerState] /\ \A f \in End : peer'[f].at = peer[f].at
  BY <1>2, PeerStatus DEF Moves
<1>6. \A f \in End, u \in Thread : Ended(f, u) => Ended(f, u)'
  BY <1>3 DEF Ended, Moves
<1>7. closed' = closed /\ shut' = shut
  BY DEF Moves
<1>8. ProtoInv'
  <2>1. proto[e].at # "new"
    BY DEF ConnIInv, ProtoInv, Moves
  <2>2. \A f \in End : proto'[f].at = "new" => \A u \in Thread : thread'[f][u].at = "none"
    BY <1>3, <1>4, <2>1 DEF ConnIInv, ProtoInv
  <2>3. QED
    BY <1>4, <1>6, <1>7, <2>2 DEF ConnIInv, ProtoInv, Thread
<1>9. PeerInv'
  BY <1>4, <1>5, <1>6, <1>7 DEF ConnIInv, PeerInv, Thread
<1>10. EmptyInv'
  BY <1>1, <1>3, <1>7 DEF ConnIInv, EmptyInv, Sane
<1>11. QED
  BY <1>3, <1>4, <1>5, <1>8, <1>9, <1>10

-----------------------------------------------------------------------------
(* The types of what a thread's step changes besides: what it wrote, read, *)
(* asked for and got.                                                      *)
LEMMA ThreadTypes ==
  ASSUME ConnIInv, NEW e \in End, NEW t \in Thread, ThreadStep(e, t)
  PROVE  TypeOK'
<1> DEFINE BufOK == /\ buf' \in [Socket -> Seq(Write)]
                    /\ \A s \in Socket : Len(buf'[s]) =< Capacity
           AskedOK == asked' \in [End -> [Id -> {"nothing", "notice", "request"}]]
           GotOK == got' \in [End -> SUBSET Id]
           QueueOK == queue' \in [End -> [Queue -> Seq(Id)]]
<1>0. /\ TypeOK /\ EmptyIdStaysHere
      /\ \A u \in Thread : SocketOf(e, u) \in Socket /\ Sink(e, u) \in Socket
  BY OwnSockets DEF ConnIInv
<1>1. buf' = buf => BufOK
  BY <1>0 DEF TypeOK
<1>2. asked' = asked => AskedOK
  BY <1>0 DEF TypeOK
<1>3. got' = got => GotOK
  BY <1>0 DEF TypeOK
<1>4. queue' = queue => QueueOK
  BY <1>0 DEF TypeOK
<1>5. ASSUME Moves(e, t), BufOK, AskedOK, GotOK, QueueOK PROVE TypeOK'
  <2>1. thread' \in [End -> [Thread -> ThreadState]] /\ proto' \in [End -> ProtoState]
        /\ peer' \in [End -> PeerState]
    BY <1>5, MovesKeep
  <2>2. UNCHANGED <<closed, shut, offered>>
    BY <1>5 DEF Moves
  <2>3. QED
    BY <1>0, <1>5, <2>1, <2>2 DEF TypeOK, ThreadState, ProtoState, PeerState
<1>6. CASE WriteFirst(e, t)
  <2>1. Half(1, thread[e][t].id) \in Write
    BY <1>0 DEF TypeOK, Half, Write
  <2>2. BufOK
    BY <1>0, <1>6, <2>1, PutType DEF WriteFirst
  <2>3. QED
    BY <1>2, <1>3, <1>4, <1>5, <1>6, <2>2, WriterMoves DEF WriteFirst
<1>7. CASE WriteSecond(e, t)
  <2>1. Half(2, thread[e][t].id) \in Write
    BY <1>0 DEF TypeOK, Half, Write
  <2>2. BufOK
    BY <1>0, <1>7, <2>1, PutType DEF WriteSecond
  <2>3. QED
    BY <1>2, <1>3, <1>4, <1>5, <1>7, <2>2, WriterMoves DEF WriteSecond
<1>8. CASE WriteFails(e, t)
  BY <1>1, <1>2, <1>3, <1>4, <1>5, <1>8, WriterMoves DEF WriteFails
<1>9. ASSUME NEW q \in Queue, t = WriterOf(q), Pop(e, q) PROVE TypeOK'
  BY <1>1, <1>2, <1>3, <1>5, <1>9, PopMoves DEF Pop
<1>10. CASE t \in Receiver /\ RecvFirst(e, t)
  <2>1. BufOK
    BY <1>0, <1>10, TakeType DEF RecvFirst
  <2>2. Moves(e, t)
    BY <1>10, ReceiverMoves DEF Receive
  <2>3. QED
    BY <1>2, <1>3, <1>4, <1>5, <1>10, <2>1, <2>2 DEF RecvFirst
<1>11. CASE t \in Receiver /\ RecvEof(e, t)
  BY <1>1, <1>2, <1>3, <1>4, <1>5, <1>11, ReceiverMoves DEF RecvEof, Receive
<1>12. CASE t \in Receiver /\ RecvFails(e, t)
  BY <1>1, <1>2, <1>3, <1>4, <1>5, <1>12, ReceiverMoves DEF RecvFails, Receive
<1>13. CASE t = "note" /\ RecvNotice(e)
  <2>1. BufOK
    BY <1>0, <1>13, TakeType DEF RecvNotice, Rest
  <2>2. AskedOK
    <3>1. ASSUME NEW id \in Id, NEW x \in {"notice", "request"},
                 asked' = [asked EXCEPT ![e][id] = x]
          PROVE  AskedOK
      BY <1>0, <3>1 DEF TypeOK
    <3>2. Reassigned \subseteq Id
      BY PeerConnAssumption DEF Id
    <3>3. QED
      BY <1>2, <1>13, <3>1, <3>2 DEF RecvNotice
  <2>3. Moves(e, t)
    BY <1>13, ReceiverMoves DEF Receive, Receiver
  <2>4. QED
    BY <1>3, <1>4, <1>5, <1>13, <2>1, <2>2, <2>3 DEF RecvNotice
<1>14. CASE t = "reqst" /\ RecvRequest(e)
  <2>1. BufOK
    BY <1>0, <1>14, TakeType DEF RecvRequest, Rest
  <2>2. Moves(e, t)
    BY <1>14, ReceiverMoves DEF Receive, Receiver
  <2>3. QED
    BY <1>2, <1>3, <1>4, <1>5, <1>14, <2>1, <2>2 DEF RecvRequest
<1>15. CASE t = "chunk" /\ RecvChunk(e)
  <2>1. BufOK
    BY <1>0, <1>15, TakeType DEF RecvChunk, Rest
  <2>2. GotOK
    <3>1. thread[e]["chunk"].id \in Id
      BY <1>15 DEF RecvChunk, Rest, ConnIInv, TypeOK, EmptyInv, Thread
    <3>2. ASSUME got' = [got EXCEPT ![e] = @ \cup {thread[e]["chunk"].id}] PROVE GotOK
      BY <1>0, <3>1, <3>2 DEF TypeOK
    <3>3. QED
      BY <1>3, <1>15, <3>2 DEF RecvChunk
  <2>3. Moves(e, t)
    BY <1>15, ReceiverMoves DEF Receive, Receiver
  <2>4. QED
    BY <1>2, <1>4, <1>5, <1>15, <2>1, <2>2, <2>3 DEF RecvChunk
<1>16. QED
  BY <1>6, <1>7, <1>8, <1>9, <1>10, <1>11, <1>12, <1>13, <1>14, <1>15
  DEF ThreadStep, WriterOf, Queue

(* What a thread's step writes is never an empty identifier. *)
LEMMA ThreadWritesIds ==
  ASSUME ConnIInv, NEW e \in End, NEW t \in Thread, ThreadStep(e, t)
  PROVE  EmptyIdStaysHere'
<1>1. CASE WriteFirst(e, t)
  BY <1>1 DEF ConnIInv, TypeOK, EmptyInv, EmptyIdStaysHere, WriteFirst, Put, Half,
       CanWrite
<1>2. CASE WriteSecond(e, t)
  BY <1>2 DEF ConnIInv, TypeOK, EmptyInv, EmptyIdStaysHere, WriteSecond, Put, Half,
       CanWrite
<1>3. ASSUME NEW s \in Socket, CanRead(s), Take(s) PROVE EmptyIdStaysHere'
  BY <1>3, FarSocket DEF ConnIInv, TypeOK, EmptyIdStaysHere, CanRead, Take
<1>4. CASE UNCHANGED buf
  BY <1>4 DEF ConnIInv, EmptyIdStaysHere
<1>5. \A u \in Thread : SocketOf(e, u) \in Socket
  BY OwnSockets
<1>6. CASE t \in Receiver /\ Receive(e, t)
  BY <1>3, <1>4, <1>5, <1>6
  DEF Receive, Rest, RecvFirst, RecvEof, RecvFails, RecvNotice, RecvRequest, RecvChunk,
      Receiver, Thread
<1>7. CASE WriteFails(e, t) \/ Pop(e, "notice") \/ Pop(e, "request")
  BY <1>4, <1>7 DEF WriteFails, Pop
<1>8. QED
  BY <1>1, <1>2, <1>6, <1>7 DEF ThreadStep, Receive, Receiver

-----------------------------------------------------------------------------
(* stopTasks() of the protocol: a thread is joined once it has ended. *)
LEMMA StopTaskKeeps ==
  ASSUME ConnIInv, NEW e \in End,
         NEW from \in {"wait", "reqst", "note"}, NEW to \in {"reqst", "note", "chunk"},
         \/ from = "wait" /\ to = "reqst"
         \/ from = "reqst" /\ to = "note"
         \/ from = "note" /\ to = "chunk",
         StopTask(e, from, to)
  PROVE  ConnIInv'
<1>1. /\ UNCHANGED <<peer, thread, queue, closed, buf, offered, asked, got>>
      /\ proto[e].at = from /\ proto' = [proto EXCEPT ![e].at = to]
      /\ shut' = shut \cup Shutdown(e, to)
      /\ from # "wait" => Ended(e, from)
  BY DEF StopTask
<1>2. Shutdown(e, to) \subseteq Socket
  BY OwnSockets DEF Shutdown, Thread
<1>3. /\ proto' \in [End -> ProtoState]
      /\ \A f \in End : proto'[f].at = IF f = e THEN to ELSE proto[f].at
  BY <1>1 DEF ConnIInv, TypeOK, ProtoState
<1>4. TypeOK'
  BY <1>1, <1>2, <1>3 DEF ConnIInv, TypeOK, ProtoState
<1>5. \A f \in End, u \in Thread : Ended(f, u)' <=> Ended(f, u)
  BY <1>1 DEF Ended
<1>6. shut \subseteq shut'
  BY <1>1
<1>7. ProtoInv'
  <2>1. ASSUME NEW f \in End, f # e
        PROVE  /\ proto'[f].at = proto[f].at
               /\ \A u \in Thread : thread'[f][u] = thread[f][u]
    BY <1>1, <1>3, <2>1
  <2>2. /\ proto'[e].at \in {"note", "chunk"} => Ended(e, "reqst")'
        /\ proto'[e].at = "chunk" => Ended(e, "note")'
        /\ proto'[e].at \in {"reqst", "note", "chunk"}
    BY <1>1, <1>3, <1>5 DEF ConnIInv, ProtoInv, Thread
  <2>3. QED
    BY <1>5, <1>6, <2>1, <2>2 DEF ConnIInv, ProtoInv, Thread
<1>8. PeerInv'
  BY <1>1, <1>3, <1>5 DEF ConnIInv, PeerInv, Thread
<1>9. EmptyInv' /\ EmptyIdStaysHere'
  BY <1>1, <1>6 DEF ConnIInv, EmptyInv, EmptyIdStaysHere
<1>10. QED
  BY <1>4, <1>7, <1>8, <1>9 DEF ConnIInv

(* ... and disconnect(), after which everything of the end is shut down. *)
LEMMA EndProtoKeeps ==
  ASSUME ConnIInv, NEW e \in End, EndProto(e)
  PROVE  ConnIInv'
<1>1. /\ UNCHANGED <<thread, queue, closed, buf, offered, asked, got>>
      /\ proto[e].at = "chunk" /\ proto' = [proto EXCEPT ![e].at = "ended"]
      /\ shut' = shut \cup {s \in Socket : s[1] = e}
      /\ Ended(e, "chunk")
      /\ HandleException(e) \/ SetDone(e)
  BY DEF EndProto
<1>2. TypeOK
  BY DEF ConnIInv
<1>3. /\ proto' \in [End -> ProtoState]
      /\ \A f \in End : proto'[f].at = IF f = e THEN "ended" ELSE proto[f].at
  BY <1>1 DEF ConnIInv, TypeOK, ProtoState
<1>4. peer' \in [End -> PeerState] /\ \A f \in End : peer'[f].at = peer[f].at
  BY <1>1, <1>2, PeerStatus
<1>5. TypeOK'
  BY <1>1, <1>3, <1>4 DEF ConnIInv, TypeOK, ProtoState, PeerState
<1>6. \A f \in End, u \in Thread : Ended(f, u)' <=> Ended(f, u)
  BY <1>1 DEF Ended
<1>7. ProtoInv'
  BY <1>1, <1>3, <1>6 DEF ConnIInv, ProtoInv, Thread
<1>8. PeerInv'
  BY <1>1, <1>3, <1>4, <1>6 DEF ConnIInv, PeerInv, Thread
<1>9. EmptyInv' /\ EmptyIdStaysHere'
  BY <1>1 DEF ConnIInv, EmptyInv, EmptyIdStaysHere
<1>10. QED
  BY <1>5, <1>7, <1>8, <1>9 DEF ConnIInv

(* The steps of Peer::operator(). *)
LEMMA PeerKeeps ==
  ASSUME ConnIInv, NEW e \in End, PeerStep(e)
  PROVE  ConnIInv'
<1>1. CASE StartPeer(e)
  <2>1. /\ UNCHANGED <<queue, closed, shut, buf, offered, asked, got>>
        /\ peer[e].at = "new" /\ peer' = [peer EXCEPT ![e].at = "wait"]
        /\ proto' = [proto EXCEPT ![e].at = "wait"]
    BY <1>1 DEF StartPeer
  <2>2. /\ proto' \in [End -> ProtoState] /\ peer' \in [End -> PeerState]
        /\ \A f \in End : /\ proto'[f].at = IF f = e THEN "wait" ELSE proto[f].at
                          /\ peer'[f].at = IF f = e THEN "wait" ELSE peer[f].at
    BY <2>1 DEF ConnIInv, TypeOK, ProtoState, PeerState
  <2>3. \A u \in Thread : thread[e][u].at = "none"
    BY <2>1 DEF ConnIInv, PeerInv, ProtoInv
  <2>4. /\ thread' \in [End -> [Thread -> ThreadState]]
        /\ \A f \in End, u \in Thread : f # e => thread'[f][u] = thread[f][u]
        /\ \A u \in Thread : thread'[e][u].at \in {"none", "idle"}
    BY <1>1, <2>3
    DEF StartPeer, ConnIInv, TypeOK, ThreadState, ThreadAt, Idle, State
  <2>5. TypeOK'
    BY <2>1, <2>2, <2>4 DEF ConnIInv, TypeOK, ThreadState, ProtoState, PeerState
  <2>6. ProtoInv'
    BY <2>1, <2>2, <2>4 DEF ConnIInv, ProtoInv, Ended, Thread
  <2>7. PeerInv'
    BY <2>1, <2>2, <2>4 DEF ConnIInv, PeerInv, Ended, Thread
  <2>8. EmptyInv' /\ EmptyIdStaysHere'
    BY <2>1, <2>4 DEF ConnIInv, EmptyInv, EmptyIdStaysHere
  <2>9. QED
    BY <2>5, <2>6, <2>7, <2>8 DEF ConnIInv
<1>2. CASE StopProto(e)
  <2>1. /\ UNCHANGED <<thread, queue, closed, shut, buf, offered, asked, got>>
        /\ peer[e].at = "wait" /\ peer' = [peer EXCEPT ![e].at = "proto"]
        /\ HaltProto(e)
    BY <1>2 DEF StopProto
  <2>2. TypeOK
    BY DEF ConnIInv
  <2>3. proto' \in [End -> ProtoState] /\ \A f \in End : proto'[f].at = proto[f].at
    BY <2>1, <2>2, ProtoStatus
  <2>4. /\ peer' \in [End -> PeerState]
        /\ \A f \in End : peer'[f].at = IF f = e THEN "proto" ELSE peer[f].at
    BY <2>1 DEF ConnIInv, TypeOK, PeerState
  <2>5. TypeOK'
    BY <2>1, <2>3, <2>4 DEF ConnIInv, TypeOK, ProtoState, PeerState
  <2>6. ProtoInv' /\ PeerInv'
    BY <2>1, <2>3, <2>4 DEF ConnIInv, ProtoInv, PeerInv, Ended
  <2>7. EmptyInv' /\ EmptyIdStaysHere'
    BY <2>1 DEF ConnIInv, EmptyInv, EmptyIdStaysHere
  <2>8. QED
    BY <2>5, <2>6, <2>7 DEF ConnIInv
<1>3. ASSUME NEW q \in Queue, NEW from \in {"proto", "requester", "notifier"},
             NEW to \in {"requester", "notifier", "returned"},
             \/ from = "proto" /\ to = "requester" /\ proto[e].at = "ended"
             \/ from = "requester" /\ to = "notifier" /\ Ended(e, "requester")
             \/ from = "notifier" /\ to = "returned" /\ Ended(e, "notifier"),
             peer[e].at = from, peer' = [peer EXCEPT ![e].at = to],
             closed' = closed \/ closed' = [closed EXCEPT ![e] = @ \cup {q}],
             UNCHANGED <<proto, thread, queue, shut, buf, offered, asked, got>>
      PROVE  ConnIInv'
  <2>1. /\ peer' \in [End -> PeerState]
        /\ \A f \in End : peer'[f].at = IF f = e THEN to ELSE peer[f].at
    <3>1. peer \in [End -> PeerState]
      BY DEF ConnIInv, TypeOK, PeerState
    <3>2. [peer[e] EXCEPT !.at = to] \in PeerState
      BY <3>1 DEF PeerState
    <3>3. peer' = [peer EXCEPT ![e] = [peer[e] EXCEPT !.at = to]]
      BY <1>3
    <3>4. peer[e] \in [at : {"new", "wait", "proto", "requester", "notifier",
                             "returned"}, status : Status]
      BY <3>1 DEF PeerState
    <3>5. QED
      BY <3>1, <3>2, <3>3, <3>4
  <2>2. closed' \in [End -> SUBSET Queue] /\ \A f \in End : f # e => closed'[f] = closed[f]
    <3>1. closed \in [End -> SUBSET Queue]
      BY DEF ConnIInv, TypeOK
    <3>2. CASE closed' = closed
      BY <3>1, <3>2
    <3>3. CASE closed' = [closed EXCEPT ![e] = @ \cup {q}]
      BY <3>1, <3>3
    <3>4. QED
      BY <1>3, <3>2, <3>3
  <2>3. TypeOK'
    BY <1>3, <2>1, <2>2 DEF ConnIInv, TypeOK, PeerState
  <2>4. proto[e].at = "ended"
    BY <1>3 DEF ConnIInv, PeerInv
  <2>5. PeerInv'
    BY <1>3, <2>1, <2>2, <2>4 DEF ConnIInv, PeerInv, Ended
  <2>6. ProtoInv' /\ EmptyInv' /\ EmptyIdStaysHere'
    BY <1>3 DEF ConnIInv, ProtoInv, Ended, EmptyInv, EmptyIdStaysHere
  <2>7. QED
    BY <2>3, <2>5, <2>6 DEF ConnIInv
<1>4. CASE CloseQueue(e, "request", "proto", "requester")
  BY <1>3, <1>4 DEF CloseQueue, Queue
<1>5. CASE CloseQueue(e, "notice", "requester", "notifier")
  BY <1>3, <1>5 DEF CloseQueue, Queue
<1>6. CASE ReturnPeer(e)
  BY <1>3, <1>6 DEF ReturnPeer, Queue
<1>7. QED
  BY <1>1, <1>2, <1>4, <1>5, <1>6 DEF PeerStep

(* The steps of the manager: they only fill the queues and halt the peer. *)
LEMMA ManagerKeeps ==
  ASSUME ConnIInv, NEW e \in End, ManagerStep(e)
  PROVE  ConnIInv'
<1>0. TypeOK
  BY DEF ConnIInv
<1>1. /\ UNCHANGED <<proto, thread, closed, shut, buf, got>>
      /\ peer' = peer \/ SetDone(e)
  BY DEF ManagerStep, Notify, Request, Halt
<1>2. peer' \in [End -> PeerState] /\ \A f \in End : peer'[f].at = peer[f].at
  BY <1>0, <1>1, PeerStatus
<1>3. ASSUME NEW q \in Queue, NEW id \in Id, Push(e, q, id)
      PROVE  queue' \in [End -> [Queue -> Seq(Id)]]
  <2>1. queue[e][q] \in Seq(Id) /\ Append(queue[e][q], id) \in Seq(Id)
    BY <1>0 DEF TypeOK
  <2>2. queue' = [queue EXCEPT ![e][q] = IF q \in closed[e] THEN queue[e][q]
                                         ELSE Append(queue[e][q], id)]
    BY <1>3 DEF Push
  <2>3. QED
    BY <1>0, <2>1, <2>2 DEF TypeOK
<1>4. /\ queue' \in [End -> [Queue -> Seq(Id)]]
      /\ offered' \in [End -> 0..MaxId]
      /\ asked' \in [End -> [Id -> {"nothing", "notice", "request"}]]
  <2>1. CASE Notify(e)
    <3>1. offered[e] + 1 \in Id /\ offered[e] + 1 \in 0..MaxId
      BY <1>0, <2>1, PeerConnAssumption DEF TypeOK, Notify, Id
    <3>2. offered' \in [End -> 0..MaxId]
      BY <1>0, <2>1, <3>1 DEF TypeOK, Notify
    <3>3. QED
      BY <1>0, <1>3, <2>1, <3>1, <3>2 DEF TypeOK, Notify, Queue
  <2>2. ASSUME NEW id \in Id, Request(e, id)
        PROVE  /\ queue' \in [End -> [Queue -> Seq(Id)]]
               /\ offered' \in [End -> 0..MaxId]
               /\ asked' \in [End -> [Id -> {"nothing", "notice", "request"}]]
    BY <1>0, <1>3, <2>2 DEF TypeOK, Request, Queue
  <2>3. CASE Halt(e)
    BY <1>0, <2>3 DEF TypeOK, Halt
  <2>4. QED
    BY <2>1, <2>2, <2>3 DEF ManagerStep
<1>5. TypeOK'
  BY <1>0, <1>1, <1>2, <1>4 DEF TypeOK, PeerState
<1>6. ProtoInv' /\ PeerInv' /\ EmptyInv' /\ EmptyIdStaysHere'
  BY <1>1, <1>2 DEF ConnIInv, ProtoInv, PeerInv, Ended, EmptyInv, EmptyIdStaysHere
<1>7. QED
  BY <1>5, <1>6 DEF ConnIInv

-----------------------------------------------------------------------------
(* The invariant holds when both ends have been constructed. *)
LEMMA ConnInitInv == Init => ConnIInv
<1> SUFFICES ASSUME Init PROVE ConnIInv
  OBVIOUS
<1>1. TypeOK
  <2>1. peer \in [End -> PeerState] /\ proto \in [End -> ProtoState]
    BY DEF Init, PeerState, ProtoState, Status
  <2>2. thread \in [End -> [Thread -> ThreadState]]
    BY DEF Init, State, ThreadState, ThreadAt
  <2>3. queue \in [End -> [Queue -> Seq(Id)]] /\ closed \in [End -> SUBSET Queue]
    BY DEF Init
  <2>4. buf \in [Socket -> Seq(Write)] /\ \A s \in Socket : Len(buf[s]) =< Capacity
    BY PeerConnAssumption DEF Init
  <2>5. /\ offered \in [End -> 0..MaxId] /\ got \in [End -> SUBSET Id]
        /\ asked \in [End -> [Id -> {"nothing", "notice", "request"}]]
        /\ shut \subseteq Socket
    BY PeerConnAssumption DEF Init
  <2>6. QED
    BY <2>1, <2>2, <2>3, <2>4, <2>5 DEF TypeOK, PeerState, ProtoState, ThreadState
<1>2. ProtoInv /\ PeerInv
  BY DEF Init, ProtoInv, PeerInv, State
<1>3. EmptyInv /\ EmptyIdStaysHere
  BY DEF Init, EmptyInv, EmptyIdStaysHere, State
<1>4. QED
  BY <1>1, <1>2, <1>3 DEF ConnIInv

(* The invariant is an invariant. *)
LEMMA ConnInvariance == Spec => []ConnIInv
<1>1. ConnIInv /\ [Next]_vars => ConnIInv'
  <2> SUFFICES ASSUME ConnIInv, [Next]_vars PROVE ConnIInv'
    OBVIOUS
  <2>1. ASSUME NEW e \in End, NEW t \in Thread, ThreadStep(e, t) PROVE ConnIInv'
    <3>1. TypeOK' /\ EmptyIdStaysHere'
      BY <2>1, ThreadTypes, ThreadWritesIds
    <3>2. Moves(e, t)
      BY <2>1, WriterMoves, PopMoves, ReceiverMoves
      DEF ThreadStep, Receive, Receiver, WriterOf, Queue
    <3>3. QED
      BY <3>1, <3>2, MovesKeep DEF ConnIInv
  <2>2. ASSUME NEW e \in End, StopTasks(e) PROVE ConnIInv'
    BY <2>2, StopTaskKeeps DEF StopTasks
  <2>3. CASE UNCHANGED vars
    BY <2>3 DEF vars, ConnIInv, TypeOK, ProtoInv, PeerInv, EmptyInv, EmptyIdStaysHere,
         Ended
  <2>4. QED
    BY <2>1, <2>2, <2>3, EndProtoKeeps, PeerKeeps, ManagerKeeps
    DEF Next, ProgramStep, ProtoStep
<1>2. QED
  BY ConnInitInv, <1>1, PTL DEF Spec

-----------------------------------------------------------------------------
(* The state is always of the declared types: no connection ever holds     *)
(* more than its capacity.                                                 *)
THEOREM ConnTypesAreKept == Spec => []TypeOK
BY ConnInvariance, PTL DEF ConnIInv

(* When Peer::operator() returns, all of its threads and the protocol's    *)
(* have ended and its sockets are shut down; and the empty identifier that *)
(* a closed queue yields never reaches the remote peer.                    *)
THEOREM ConnectionIsSafe == Spec => []ConnInv
<1>1. ConnIInv => NothingOutlivesPeer
  <2> SUFFICES ASSUME ConnIInv, NEW e \in End, peer[e].at = "returned"
               PROVE  /\ \A t \in Thread : Ended(e, t)
                      /\ \A s \in Socket : s[1] = e => s \in shut
    BY DEF NothingOutlivesPeer
  <2>1. proto[e].at = "ended" /\ Ended(e, "requester") /\ Ended(e, "notifier")
    BY DEF ConnIInv, PeerInv
  <2>2. Ended(e, "reqst") /\ Ended(e, "note") /\ Ended(e, "chunk")
    BY <2>1 DEF ConnIInv, ProtoInv
  <2>3. QED
    BY <2>1, <2>2 DEF ConnIInv, ProtoInv, Thread
<1>2. ConnIInv => ConnInv
  BY <1>1 DEF ConnIInv, ConnInv
<1>3. QED
  BY <1>2, ConnInvariance, PTL

(* Action property: a thread that has ended does not run again, and a      *)
(* socket that is shut down stays so.                                      *)

-----------------------------------------------------------------------------
(***************************************************************************)
(* The set of active peers.  An inserter has a peer at hand while it is    *)
(* inserting it, and the adder's are from the peer-source.                 *)
(***************************************************************************)
HandInv ==
    \A i \in Inserter :
        /\ ipc[i] \in {"connected", "try", "removed", "submit", "submitted"} =>
              inserting[i] \in Peer
        /\ ipc[i] = "idle" => inserting[i] = NoPeer
        /\ i = Adder /\ inserting[i] \in Peer => inserting[i] \in Initiated

(* Nobody has been in the set for less time than has passed since the last *)
(* insertion into it.                                                      *)
StayInv == \A p \in active : lastInsert =< stay[p]

(* Only members are owed a notice, and nobody one of what it gave itself. *)
OwedInv ==
    /\ \A p \in Peer : owed[p] # {} => p \in active
    /\ \A x \in untold : \A p \in Peer : giver[x] = p => x \notin owed[p]
    /\ \A p \in Peer : owed[p] \subseteq 1 .. have

ActiveInv ==
    /\ ActiveTypeOK /\ HandInv /\ NoAddressIsLost
    /\ StayInv /\ ExcessIsBounded
    /\ OwedInv /\ MemberIsTold

(* An element is in the set of a sequence's elements, and the other way. *)
LEMMA ToSetHas ==
  ASSUME NEW q
  PROVE  /\ \A n \in DOMAIN q : q[n] \in ToSet(q)
         /\ \A y \in ToSet(q) : \E n \in DOMAIN q : y = q[n]
BY DEF ToSet

(* What SendQ::push() drops is too old, and it drops nothing else. *)
LEMMA PushedKeeps ==
  ASSUME NEW q \in Seq(News), NEW x \in News
  PROVE  /\ Pushed(q, x) \in Seq(News)
         /\ x \in ToSet(Pushed(q, x))
         /\ \A y \in ToSet(q) : y \in ToSet(Pushed(q, x)) \/ IsStale(y)
<1> DEFINE D == Dropped(q)
           k == Cardinality(D)
           kept == SubSeq(q, k + 1, Len(q))
<1>1. Len(q) \in Nat /\ DOMAIN q = 1 .. Len(q)
  OBVIOUS
<1>2. D \in SUBSET (1 .. Len(q)) /\ IsFiniteSet(1 .. Len(q)) /\ Cardinality(1 .. Len(q)) = Len(q)
  BY <1>1, FS_Interval DEF Dropped
<1>3. IsFiniteSet(D) /\ k \in Nat /\ k =< Len(q)
  BY <1>2, FS_Subset, FS_CardinalityType
<1>4. ASSUME NEW j \in 1 .. Len(q), j =< k PROVE IsStale(q[j])
  <2>1. SUFFICES ASSUME j \notin D PROVE FALSE
    BY <1>4 DEF Dropped
  <2>2. D \in SUBSET (1 .. j - 1)
    BY <1>1, <2>1 DEF Dropped
  <2>3. IsFiniteSet(1 .. j - 1) /\ Cardinality(1 .. j - 1) = j - 1
    <3>1. j - 1 \in Int /\ j - 1 >= 0
      BY <1>1
    <3>2. /\ IsFiniteSet(1 .. (j - 1))
          /\ Cardinality(1 .. (j - 1)) = IF 1 > j - 1 THEN 0 ELSE (j - 1) - 1 + 1
      BY <3>1, FS_Interval
    <3>3. QED
      BY <3>1, <3>2
  <2>4. k =< j - 1
    BY <2>2, <2>3, FS_Subset
  <2>5. QED
    BY <1>1, <1>3, <1>4, <2>4
<1>5. /\ kept \in Seq(News) /\ Len(kept) = Len(q) - k
      /\ \A n \in 1 .. Len(q) - k : kept[n] = q[n + k]
  BY <1>1, <1>3
<1>6. Pushed(q, x) = kept \o <<x>>
  BY DEF Pushed
<1> HIDE DEF kept, k
<1>7. /\ Pushed(q, x) = kept \o <<x>> /\ Pushed(q, x) \in Seq(News)
      /\ Len(Pushed(q, x)) = Len(kept) + 1
      /\ Pushed(q, x)[Len(kept) + 1] = x
      /\ \A n \in 1 .. Len(kept) : Pushed(q, x)[n] = kept[n]
  <2>1. ASSUME NEW r \in Seq(News)
        PROVE  /\ r \o <<x>> \in Seq(News) /\ Len(r \o <<x>>) = Len(r) + 1
               /\ (r \o <<x>>)[Len(r) + 1] = x
               /\ \A n \in 1 .. Len(r) : (r \o <<x>>)[n] = r[n]
    OBVIOUS
  <2>2. QED
    BY <1>5, <1>6, <2>1
<1>8. DOMAIN Pushed(q, x) = 1 .. Len(kept) + 1 /\ Len(kept) \in Nat
  BY <1>5, <1>7
<1>9. x \in ToSet(Pushed(q, x))
  <2>1. Len(kept) + 1 \in DOMAIN Pushed(q, x)
    BY <1>8
  <2>2. QED
    BY <1>7, <2>1, ToSetHas
<1>10. ASSUME NEW j \in 1 .. Len(q), j > k PROVE q[j] \in ToSet(Pushed(q, x))
  <2>1. j - k \in 1 .. Len(kept) /\ j - k + k = j
    BY <1>1, <1>3, <1>5, <1>10
  <2>2. Pushed(q, x)[j - k] = q[j]
    BY <1>5, <1>7, <2>1
  <2>3. j - k \in DOMAIN Pushed(q, x)
    BY <1>8, <2>1
  <2>4. QED
    BY <2>2, <2>3, ToSetHas
<1>11. ASSUME NEW y \in ToSet(q) PROVE y \in ToSet(Pushed(q, x)) \/ IsStale(y)
  <2>1. PICK j \in 1 .. Len(q) : y = q[j]
    BY <1>1 DEF ToSet
  <2>2. QED
    BY <1>1, <1>3, <1>4, <1>10, <2>1
<1>12. QED
  BY <1>7, <1>9, <1>11

(* The head of a queue, and what is behind it. *)
LEMMA SendQHead ==
  ASSUME NEW q \in Seq(News), q # <<>>
  PROVE  Tail(q) \in Seq(News) /\ \A y \in ToSet(q) : y = Head(q) \/ y \in ToSet(Tail(q))
<1>1. /\ Tail(q) \in Seq(News) /\ Head(q) = q[1] /\ Len(q) \in Nat \ {0}
      /\ Len(Tail(q)) = Len(q) - 1 /\ \A n \in 1 .. Len(q) - 1 : Tail(q)[n] = q[n + 1]
  OBVIOUS
<1>2. ASSUME NEW j \in 1 .. Len(q), j # 1 PROVE q[j] \in ToSet(Tail(q))
  <2>1. j - 1 \in 1 .. Len(q) - 1 /\ (j - 1) + 1 = j
    BY <1>1, <1>2
  <2>2. j - 1 \in DOMAIN Tail(q) /\ Tail(q)[j - 1] = q[j]
    BY <1>1, <2>1
  <2>3. QED
    BY <2>2 DEF ToSet
<1>3. QED
  BY <1>1, <1>2 DEF ToSet

(* What a step may add to a set that is finite. *)
LEMMA ActiveFinite ==
  ASSUME ActiveTypeOK
  PROVE  /\ IsFiniteSet(active) /\ Cardinality(active) \in Nat
         /\ IsFiniteSet(Inserter) /\ Cardinality(Inserter) \in Nat
         /\ \A S : S \subseteq Inserter =>
              IsFiniteSet(S) /\ Cardinality(S) \in Nat /\ Cardinality(S) =< Cardinality(Inserter)
<1>1. IsFiniteSet(active)
  BY ActivePeersAssumption, FS_Subset DEF ActiveTypeOK
<1>2. IsFiniteSet(Inserter)
  BY ActivePeersAssumption, FS_AddElement DEF Inserter
<1>3. \A S : S \subseteq Inserter => IsFiniteSet(S) /\ Cardinality(S) =< Cardinality(Inserter)
  BY <1>2, FS_Subset
<1>4. QED
  BY <1>1, <1>2, <1>3, FS_CardinalityType

(* Every step keeps the types.                                             *)
LEMMA ActiveTypeOKStep == ActiveInv /\ [ActiveNext]_peerVars => ActiveTypeOK'
<1> SUFFICES ASSUME ActiveInv, [ActiveNext]_peerVars PROVE ActiveTypeOK'
  OBVIOUS
<1>0. CASE UNCHANGED peerVars
  BY <1>0
  DEF ActiveInv, ActiveTypeOK, HandInv, Place, Run, News, MaxReside, Inserter,
      peerVars, setVars, insertVars, taskVars, newsVars
<1>1. ASSUME NEW i \in Inserter, VersionsAgree(i) PROVE ActiveTypeOK'
  BY <1>1, ActivePeersAssumption
  DEF ActiveInv, ActiveTypeOK, HandInv, Place, Run, News, MaxReside, Inserter,
      VersionsAgree, GoOn, setVars, insertVars, taskVars, newsVars
<1>2. ASSUME NEW i \in Inserter, VersionsDiffer(i) PROVE ActiveTypeOK'
  BY <1>2, ActivePeersAssumption
  DEF ActiveInv, ActiveTypeOK, HandInv, Place, Run, News, MaxReside, Inserter,
      VersionsDiffer, InsertFails, TryAgainLater, GoOn, setVars, insertVars,
      taskVars, newsVars
<1>3. ASSUME NEW i \in Inserter, InserterIsCanceled(i) PROVE ActiveTypeOK'
  BY <1>3, ActivePeersAssumption
  DEF ActiveInv, ActiveTypeOK, HandInv, Place, Run, News, MaxReside, Inserter,
      InserterIsCanceled, GoOn, CancellationPoint, Waiting, setVars,
      insertVars, taskVars, newsVars
<1>4. ASSUME NEW i \in Inserter, InsertIntoRoom(i) PROVE ActiveTypeOK'
  BY <1>4, ActivePeersAssumption
  DEF ActiveInv, ActiveTypeOK, HandInv, Place, Run, News, MaxReside, Inserter,
      InsertIntoRoom, GoOn, MayInsert, setVars, insertVars, taskVars, newsVars
<1>5. ASSUME NEW i \in Inserter, RemoveWorst(i) PROVE ActiveTypeOK'
  <2>1. PICK p \in active : /\ worst' = [worst EXCEPT ![i] = p]
                            /\ active' = active \ {p} /\ owed' = [owed EXCEPT ![p] = {}]
    BY <1>5 DEF RemoveWorst, Worst, ActiveWithout
  <2>2. /\ active' \subseteq Peer /\ worst' \in [Inserter -> Peer \cup {NoPeer}]
        /\ owed' \in [Peer -> SUBSET News]
    BY <2>1 DEF ActiveInv, ActiveTypeOK
  <2>3. ipc' \in [Inserter -> Place]
    BY <1>5 DEF ActiveInv, ActiveTypeOK, RemoveWorst, GoOn, Place
  <2>4. QED
    BY <1>5, <2>2, <2>3 DEF ActiveInv, ActiveTypeOK, RemoveWorst, taskVars
<1>6. ASSUME NEW i \in Inserter, NoneIsWorst(i) PROVE ActiveTypeOK'
  BY <1>6, ActivePeersAssumption
  DEF ActiveInv, ActiveTypeOK, HandInv, Place, Run, News, MaxReside, Inserter,
      NoneIsWorst, InsertFails, MayInsert, TryAgainLater, GoOn, setVars,
      insertVars, taskVars, newsVars
<1>7. ASSUME NEW i \in Inserter, CancelWorst(i) PROVE ActiveTypeOK'
  BY <1>7, ActivePeersAssumption
  DEF ActiveInv, ActiveTypeOK, HandInv, Place, Run, News, MaxReside, Inserter,
      CancelWorst, GoOn, setVars, insertVars, taskVars, newsVars
<1>8. ASSUME NEW i \in Inserter, SubmitPeer(i) PROVE ActiveTypeOK'
  BY <1>8, ActivePeersAssumption
  DEF ActiveInv, ActiveTypeOK, HandInv, Place, Run, News, MaxReside, Inserter,
      SubmitPeer, GoOn, setVars, insertVars, taskVars, newsVars
<1>9. ASSUME NEW i \in Inserter, AddPeer(i) PROVE ActiveTypeOK'
  <2>1. inserting[i] \in Peer /\ (i = Adder => inserting[i] \in Initiated)
    BY <1>9 DEF ActiveInv, HandInv, AddPeer
  <2>2. /\ active' \subseteq Peer /\ lastInsert' \in 0 .. Stasis
        /\ initiatedPeers' \subseteq Initiated
    BY <1>9, <2>1, ActivePeersAssumption DEF ActiveInv, ActiveTypeOK, AddPeer, LastInsert
  <2>3. 0 \in ValueMin .. ValueMax /\ 0 \in 0 .. Stasis
    <3>1. ValueMin \in Int /\ ValueMin =< 0
      BY ActivePeersAssumption
    <3>2. QED
      BY <3>1, ActivePeersAssumption
  <2>4. value' \in [Peer -> ValueMin .. ValueMax]
    BY <1>9, <2>3 DEF ActiveInv, ActiveTypeOK, AddPeer
  <2>5. stay' \in [Peer -> 0 .. Stasis]
    BY <1>9, <2>3 DEF ActiveInv, ActiveTypeOK, AddPeer
  <2>6. ipc' \in [Inserter -> Place] /\ inserting' \in [Inserter -> Peer \cup {NoPeer}]
    BY <1>9 DEF ActiveInv, ActiveTypeOK, AddPeer, GoOn, Place
  <2>7. QED
    BY <1>9, <2>2, <2>4, <2>5, <2>6 DEF ActiveInv, ActiveTypeOK, AddPeer, taskVars,
         newsVars
<1>10. ASSUME NEW i \in Inserter, NEW p \in Peer, Connected(i, p) PROVE
    ActiveTypeOK'
  BY <1>10, ActivePeersAssumption
  DEF ActiveInv, ActiveTypeOK, HandInv, Place, Run, News, MaxReside, Inserter,
      Connected, GoOn, Candidates, setVars, insertVars, taskVars, newsVars
<1>11. ASSUME StopThreads PROVE ActiveTypeOK'
  BY <1>11, ActivePeersAssumption
  DEF ActiveInv, ActiveTypeOK, HandInv, Place, Run, News, MaxReside, Inserter,
      StopThreads, setVars, insertVars, taskVars, newsVars
<1>12. ASSUME TimePasses PROVE ActiveTypeOK'
  BY <1>12, ActivePeersAssumption
  DEF ActiveInv, ActiveTypeOK, HandInv, Place, Run, News, MaxReside, Inserter,
      TimePasses, Older, setVars, insertVars, taskVars, newsVars
<1>13. ASSUME NEW p \in Peer, IncValue(p) PROVE ActiveTypeOK'
  BY <1>13, ActivePeersAssumption
  DEF ActiveInv, ActiveTypeOK, HandInv, Place, Run, News, MaxReside, Inserter,
      IncValue, SetValue, setVars, insertVars, taskVars, newsVars
<1>14. ASSUME NEW p \in Peer, DecValue(p) PROVE ActiveTypeOK'
  BY <1>14, ActivePeersAssumption
  DEF ActiveInv, ActiveTypeOK, HandInv, Place, Run, News, MaxReside, Inserter,
      DecValue, SetValue, setVars, insertVars, taskVars, newsVars
<1>15. ASSUME NEW p \in Peer, RunPeer(p) PROVE ActiveTypeOK'
  <2>1. /\ receiver' \in [Peer -> Run] /\ sndr' \in [Peer -> Run] /\ task' \in [Peer -> Run]
    BY <1>15 DEF ActiveInv, ActiveTypeOK, RunPeer, Run
  <2>2. QED
    BY <1>15, <2>1 DEF ActiveInv, ActiveTypeOK, RunPeer, setVars, insertVars, newsVars
<1>16. ASSUME NEW p \in Peer, RemoteCloses(p) PROVE ActiveTypeOK'
  BY <1>16, ActivePeersAssumption
  DEF ActiveInv, ActiveTypeOK, HandInv, Place, Run, News, MaxReside, Inserter,
      RemoteCloses, setVars, insertVars, taskVars, newsVars
<1>17. ASSUME NEW p \in Peer, ReceiverEnds(p) PROVE ActiveTypeOK'
  BY <1>17, ActivePeersAssumption
  DEF ActiveInv, ActiveTypeOK, HandInv, Place, Run, News, MaxReside, Inserter,
      ReceiverEnds, setVars, insertVars, taskVars, newsVars
<1>18. ASSUME NEW p \in Peer, TaskEnds(p) PROVE ActiveTypeOK'
  BY <1>18, ActivePeersAssumption
  DEF ActiveInv, ActiveTypeOK, HandInv, Place, Run, News, MaxReside, Inserter,
      TaskEnds, setVars, insertVars, taskVars, newsVars
<1>19. ASSUME NEW p \in Peer, SendNotice(p) PROVE ActiveTypeOK'
  <2>1. sendQ' \in [Peer -> Seq(News)]
    <3>1. sendQ[p] \in Seq(News) /\ sendQ[p] # <<>>
        /\ sendQ' = [sendQ EXCEPT ![p] = Tail(sendQ[p])]
      BY <1>19 DEF ActiveInv, ActiveTypeOK, SendNotice
    <3>2. Tail(sendQ[p]) \in Seq(News)
      BY <3>1, SendQHead
    <3>3. QED
      BY <3>1, <3>2 DEF ActiveInv, ActiveTypeOK
  <2>2. owed' \in [Peer -> SUBSET News] /\ sndr' \in [Peer -> Run]
    <3>1. CASE conn[p] = "open"
      BY <1>19, <3>1 DEF ActiveInv, ActiveTypeOK, SendNotice
    <3>2. CASE conn[p] # "open"
      BY <1>19, <3>2 DEF ActiveInv, ActiveTypeOK, SendNotice, Run
    <3>3. QED
      BY <3>1, <3>2
  <2>3. QED
    BY <1>19, <2>1, <2>2 DEF ActiveInv, ActiveTypeOK, SendNotice, setVars, insertVars
<1>20. ASSUME NEW x \in News, NotifyPeers(x) PROVE ActiveTypeOK'
  <2>1. \A q \in Peer : sendQ[q] \in Seq(News) /\ Pushed(sendQ[q], x) \in Seq(News)
    BY PushedKeeps DEF ActiveInv, ActiveTypeOK
  <2>2. sendQ' \in [Peer -> Seq(News)]
    BY <1>20, <2>1 DEF NotifyPeers
  <2>3. 0 \in -1 .. MaxReside + 1
    BY ActivePeersAssumption DEF MaxReside
  <2>4. noticeAge' \in [News -> -1 .. MaxReside + 1]
    BY <1>20, <2>3 DEF ActiveInv, ActiveTypeOK, NotifyPeers
  <2>5. giver' \in [News -> Peer \cup {NoPeer}] /\ untold' \subseteq 1 .. have'
    BY <1>20 DEF ActiveInv, ActiveTypeOK, NotifyPeers
  <2>6. QED
    BY <1>20, <2>2, <2>4, <2>5
    DEF ActiveInv, ActiveTypeOK, NotifyPeers, setVars, insertVars, taskVars
<1>21. ASSUME NEW x \in News, NEW p \in Peer \cup {NoPeer}, Get(x, p) PROVE
    ActiveTypeOK'
  <2>1. have' \in 0 .. MaxNews /\ untold' \subseteq 1 .. have'
    BY <1>21, ActivePeersAssumption DEF ActiveInv, ActiveTypeOK, Get, News
  <2>2. giver' \in [News -> Peer \cup {NoPeer}]
    BY <1>21 DEF ActiveInv, ActiveTypeOK, Get
  <2>3. owed' \in [Peer -> SUBSET News]
    BY <1>21 DEF ActiveInv, ActiveTypeOK, Get
  <2>4. QED
    BY <1>21, <2>1, <2>2, <2>3 DEF ActiveInv, ActiveTypeOK, Get, setVars, insertVars,
         taskVars
<1>22. QED
  BY <1>0, <1>1, <1>2, <1>3, <1>4, <1>5, <1>6, <1>7, <1>8, <1>9, <1>10, <1>11,
     <1>12, <1>13, <1>14, <1>15, <1>16, <1>17, <1>18, <1>19, <1>20, <1>21
  DEF ActiveNext, InserterStep

(* An inserter keeps its peer until it is in the set or has failed.        *)
LEMMA HandInvStep == ActiveInv /\ [ActiveNext]_peerVars => HandInv'
<1> SUFFICES ASSUME ActiveInv, [ActiveNext]_peerVars PROVE HandInv'
  OBVIOUS
<1>0. CASE UNCHANGED peerVars
  BY <1>0
  DEF ActiveInv, HandInv, ActiveTypeOK, Inserter, peerVars, setVars,
      insertVars, taskVars, newsVars
<1>1. ASSUME NEW i \in Inserter, VersionsAgree(i) PROVE HandInv'
  BY <1>1, ActivePeersAssumption
  DEF ActiveInv, HandInv, ActiveTypeOK, Inserter, VersionsAgree, GoOn, setVars,
      insertVars, taskVars, newsVars
<1>2. ASSUME NEW i \in Inserter, VersionsDiffer(i) PROVE HandInv'
  BY <1>2, ActivePeersAssumption
  DEF ActiveInv, HandInv, ActiveTypeOK, Inserter, VersionsDiffer, InsertFails,
      TryAgainLater, GoOn, setVars, insertVars, taskVars, newsVars
<1>3. ASSUME NEW i \in Inserter, InserterIsCanceled(i) PROVE HandInv'
  BY <1>3, ActivePeersAssumption
  DEF ActiveInv, HandInv, ActiveTypeOK, Inserter, InserterIsCanceled, GoOn,
      CancellationPoint, Waiting, setVars, insertVars, taskVars, newsVars
<1>4. ASSUME NEW i \in Inserter, InsertIntoRoom(i) PROVE HandInv'
  BY <1>4, ActivePeersAssumption
  DEF ActiveInv, HandInv, ActiveTypeOK, Inserter, InsertIntoRoom, GoOn,
      MayInsert, setVars, insertVars, taskVars, newsVars
<1>5. ASSUME NEW i \in Inserter, RemoveWorst(i) PROVE HandInv'
  BY <1>5, ActivePeersAssumption
  DEF ActiveInv, HandInv, ActiveTypeOK, Inserter, RemoveWorst, GoOn, MayInsert,
      Worst, ActiveWithout, setVars, insertVars, taskVars, newsVars
<1>6. ASSUME NEW i \in Inserter, NoneIsWorst(i) PROVE HandInv'
  BY <1>6, ActivePeersAssumption
  DEF ActiveInv, HandInv, ActiveTypeOK, Inserter, NoneIsWorst, InsertFails,
      MayInsert, TryAgainLater, GoOn, setVars, insertVars, taskVars, newsVars
<1>7. ASSUME NEW i \in Inserter, CancelWorst(i) PROVE HandInv'
  BY <1>7, ActivePeersAssumption
  DEF ActiveInv, HandInv, ActiveTypeOK, Inserter, CancelWorst, GoOn, setVars,
      insertVars, taskVars, newsVars
<1>8. ASSUME NEW i \in Inserter, SubmitPeer(i) PROVE HandInv'
  BY <1>8, ActivePeersAssumption
  DEF ActiveInv, HandInv, ActiveTypeOK, Inserter, SubmitPeer, GoOn, setVars,
      insertVars, taskVars, newsVars
<1>9. ASSUME NEW i \in Inserter, AddPeer(i) PROVE HandInv'
  BY <1>9, ActivePeersAssumption
  DEF ActiveInv, HandInv, ActiveTypeOK, Inserter, AddPeer, GoOn, LastInsert,
      setVars, insertVars, taskVars, newsVars
<1>10. ASSUME NEW i \in Inserter, NEW p \in Peer, Connected(i, p) PROVE
    HandInv'
  BY <1>10, ActivePeersAssumption
  DEF ActiveInv, HandInv, ActiveTypeOK, Inserter, Connected, GoOn, Candidates,
      setVars, insertVars, taskVars, newsVars
<1>11. ASSUME StopThreads PROVE HandInv'
  BY <1>11, ActivePeersAssumption
  DEF ActiveInv, HandInv, ActiveTypeOK, Inserter, StopThreads, setVars,
      insertVars, taskVars, newsVars
<1>12. ASSUME TimePasses PROVE HandInv'
  BY <1>12, ActivePeersAssumption
  DEF ActiveInv, HandInv, ActiveTypeOK, Inserter, TimePasses, Older, setVars,
      insertVars, taskVars, newsVars
<1>13. ASSUME NEW p \in Peer, IncValue(p) PROVE HandInv'
  BY <1>13, ActivePeersAssumption
  DEF ActiveInv, HandInv, ActiveTypeOK, Inserter, IncValue, SetValue, setVars,
      insertVars, taskVars, newsVars
<1>14. ASSUME NEW p \in Peer, DecValue(p) PROVE HandInv'
  BY <1>14, ActivePeersAssumption
  DEF ActiveInv, HandInv, ActiveTypeOK, Inserter, DecValue, SetValue, setVars,
      insertVars, taskVars, newsVars
<1>15. ASSUME NEW p \in Peer, RunPeer(p) PROVE HandInv'
  BY <1>15, ActivePeersAssumption
  DEF ActiveInv, HandInv, ActiveTypeOK, Inserter, RunPeer, setVars, insertVars,
      taskVars, newsVars
<1>16. ASSUME NEW p \in Peer, RemoteCloses(p) PROVE HandInv'
  BY <1>16, ActivePeersAssumption
  DEF ActiveInv, HandInv, ActiveTypeOK, Inserter, RemoteCloses, setVars,
      insertVars, taskVars, newsVars
<1>17. ASSUME NEW p \in Peer, ReceiverEnds(p) PROVE HandInv'
  BY <1>17, ActivePeersAssumption
  DEF ActiveInv, HandInv, ActiveTypeOK, Inserter, ReceiverEnds, setVars,
      insertVars, taskVars, newsVars
<1>18. ASSUME NEW p \in Peer, TaskEnds(p) PROVE HandInv'
  BY <1>18, ActivePeersAssumption
  DEF ActiveInv, HandInv, ActiveTypeOK, Inserter, TaskEnds, setVars,
      insertVars, taskVars, newsVars
<1>19. ASSUME NEW p \in Peer, SendNotice(p) PROVE HandInv'
  BY <1>19, ActivePeersAssumption
  DEF ActiveInv, HandInv, ActiveTypeOK, Inserter, SendNotice, setVars,
      insertVars, taskVars, newsVars
<1>20. ASSUME NEW x \in News, NotifyPeers(x) PROVE HandInv'
  BY <1>20, ActivePeersAssumption
  DEF ActiveInv, HandInv, ActiveTypeOK, Inserter, NotifyPeers, Told, setVars,
      insertVars, taskVars, newsVars
<1>21. ASSUME NEW x \in News, NEW p \in Peer \cup {NoPeer}, Get(x, p) PROVE
    HandInv'
  BY <1>21, ActivePeersAssumption
  DEF ActiveInv, HandInv, ActiveTypeOK, Inserter, Get, setVars, insertVars,
      taskVars, newsVars
<1>22. QED
  BY <1>0, <1>1, <1>2, <1>3, <1>4, <1>5, <1>6, <1>7, <1>8, <1>9, <1>10, <1>11,
     <1>12, <1>13, <1>14, <1>15, <1>16, <1>17, <1>18, <1>19, <1>20, <1>21
  DEF ActiveNext, InserterStep

(* An address leaves the source only with the adder, and goes back if it   *)
(* fails.                                                                  *)
LEMMA NoAddressIsLostStep == ActiveInv /\ [ActiveNext]_peerVars => NoAddressIsLost'
<1> SUFFICES ASSUME ActiveInv, [ActiveNext]_peerVars PROVE NoAddressIsLost'
  OBVIOUS
<1>0. CASE UNCHANGED peerVars
  BY <1>0
  DEF ActiveInv, NoAddressIsLost, HandInv, ActiveTypeOK, Inserter, peerVars,
      setVars, insertVars, taskVars, newsVars
<1>1. ASSUME NEW i \in Inserter, VersionsAgree(i) PROVE NoAddressIsLost'
  BY <1>1, ActivePeersAssumption
  DEF ActiveInv, NoAddressIsLost, HandInv, ActiveTypeOK, Inserter,
      VersionsAgree, GoOn, setVars, insertVars, taskVars, newsVars
<1>2. ASSUME NEW i \in Inserter, VersionsDiffer(i) PROVE NoAddressIsLost'
  BY <1>2, ActivePeersAssumption
  DEF ActiveInv, NoAddressIsLost, HandInv, ActiveTypeOK, Inserter,
      VersionsDiffer, InsertFails, TryAgainLater, GoOn, setVars, insertVars,
      taskVars, newsVars
<1>3. ASSUME NEW i \in Inserter, InserterIsCanceled(i) PROVE NoAddressIsLost'
  BY <1>3, ActivePeersAssumption
  DEF ActiveInv, NoAddressIsLost, HandInv, ActiveTypeOK, Inserter,
      InserterIsCanceled, GoOn, CancellationPoint, Waiting, setVars,
      insertVars, taskVars, newsVars
<1>4. ASSUME NEW i \in Inserter, InsertIntoRoom(i) PROVE NoAddressIsLost'
  BY <1>4, ActivePeersAssumption
  DEF ActiveInv, NoAddressIsLost, HandInv, ActiveTypeOK, Inserter,
      InsertIntoRoom, GoOn, MayInsert, setVars, insertVars, taskVars, newsVars
<1>5. ASSUME NEW i \in Inserter, RemoveWorst(i) PROVE NoAddressIsLost'
  BY <1>5, ActivePeersAssumption
  DEF ActiveInv, NoAddressIsLost, HandInv, ActiveTypeOK, Inserter, RemoveWorst,
      GoOn, MayInsert, Worst, ActiveWithout, setVars, insertVars, taskVars,
      newsVars
<1>6. ASSUME NEW i \in Inserter, NoneIsWorst(i) PROVE NoAddressIsLost'
  BY <1>6, ActivePeersAssumption
  DEF ActiveInv, NoAddressIsLost, HandInv, ActiveTypeOK, Inserter, NoneIsWorst,
      InsertFails, MayInsert, TryAgainLater, GoOn, setVars, insertVars,
      taskVars, newsVars
<1>7. ASSUME NEW i \in Inserter, CancelWorst(i) PROVE NoAddressIsLost'
  BY <1>7, ActivePeersAssumption
  DEF ActiveInv, NoAddressIsLost, HandInv, ActiveTypeOK, Inserter, CancelWorst,
      GoOn, setVars, insertVars, taskVars, newsVars
<1>8. ASSUME NEW i \in Inserter, SubmitPeer(i) PROVE NoAddressIsLost'
  BY <1>8, ActivePeersAssumption
  DEF ActiveInv, NoAddressIsLost, HandInv, ActiveTypeOK, Inserter, SubmitPeer,
      GoOn, setVars, insertVars, taskVars, newsVars
<1>9. ASSUME NEW i \in Inserter, AddPeer(i) PROVE NoAddressIsLost'
  BY <1>9, ActivePeersAssumption
  DEF ActiveInv, NoAddressIsLost, HandInv, ActiveTypeOK, Inserter, AddPeer,
      GoOn, LastInsert, setVars, insertVars, taskVars, newsVars
<1>10. ASSUME NEW i \in Inserter, NEW p \in Peer, Connected(i, p) PROVE
    NoAddressIsLost'
  BY <1>10, ActivePeersAssumption
  DEF ActiveInv, NoAddressIsLost, HandInv, ActiveTypeOK, Inserter, Connected,
      GoOn, Candidates, setVars, insertVars, taskVars, newsVars
<1>11. ASSUME StopThreads PROVE NoAddressIsLost'
  BY <1>11, ActivePeersAssumption
  DEF ActiveInv, NoAddressIsLost, HandInv, ActiveTypeOK, Inserter, StopThreads,
      setVars, insertVars, taskVars, newsVars
<1>12. ASSUME TimePasses PROVE NoAddressIsLost'
  BY <1>12, ActivePeersAssumption
  DEF ActiveInv, NoAddressIsLost, HandInv, ActiveTypeOK, Inserter, TimePasses,
      Older, setVars, insertVars, taskVars, newsVars
<1>13. ASSUME NEW p \in Peer, IncValue(p) PROVE NoAddressIsLost'
  BY <1>13, ActivePeersAssumption
  DEF ActiveInv, NoAddressIsLost, HandInv, ActiveTypeOK, Inserter, IncValue,
      SetValue, setVars, insertVars, taskVars, newsVars
<1>14. ASSUME NEW p \in Peer, DecValue(p) PROVE NoAddressIsLost'
  BY <1>14, ActivePeersAssumption
  DEF ActiveInv, NoAddressIsLost, HandInv, ActiveTypeOK, Inserter, DecValue,
      SetValue, setVars, insertVars, taskVars, newsVars
<1>15. ASSUME NEW p \in Peer, RunPeer(p) PROVE NoAddressIsLost'
  BY <1>15, ActivePeersAssumption
  DEF ActiveInv, NoAddressIsLost, HandInv, ActiveTypeOK, Inserter, RunPeer,
      setVars, insertVars, taskVars, newsVars
<1>16. ASSUME NEW p \in Peer, RemoteCloses(p) PROVE NoAddressIsLost'
  BY <1>16, ActivePeersAssumption
  DEF ActiveInv, NoAddressIsLost, HandInv, ActiveTypeOK, Inserter,
      RemoteCloses, setVars, insertVars, taskVars, newsVars
<1>17. ASSUME NEW p \in Peer, ReceiverEnds(p) PROVE NoAddressIsLost'
  BY <1>17, ActivePeersAssumption
  DEF ActiveInv, NoAddressIsLost, HandInv, ActiveTypeOK, Inserter,
      ReceiverEnds, setVars, insertVars, taskVars, newsVars
<1>18. ASSUME NEW p \in Peer, TaskEnds(p) PROVE NoAddressIsLost'
  BY <1>18, ActivePeersAssumption
  DEF ActiveInv, NoAddressIsLost, HandInv, ActiveTypeOK, Inserter, TaskEnds,
      setVars, insertVars, taskVars, newsVars
<1>19. ASSUME NEW p \in Peer, SendNotice(p) PROVE NoAddressIsLost'
  BY <1>19, ActivePeersAssumption
  DEF ActiveInv, NoAddressIsLost, HandInv, ActiveTypeOK, Inserter, SendNotice,
      setVars, insertVars, taskVars, newsVars
<1>20. ASSUME NEW x \in News, NotifyPeers(x) PROVE NoAddressIsLost'
  BY <1>20, ActivePeersAssumption
  DEF ActiveInv, NoAddressIsLost, HandInv, ActiveTypeOK, Inserter, NotifyPeers,
      Told, setVars, insertVars, taskVars, newsVars
<1>21. ASSUME NEW x \in News, NEW p \in Peer \cup {NoPeer}, Get(x, p) PROVE
    NoAddressIsLost'
  BY <1>21, ActivePeersAssumption
  DEF ActiveInv, NoAddressIsLost, HandInv, ActiveTypeOK, Inserter, Get,
      setVars, insertVars, taskVars, newsVars
<1>22. QED
  BY <1>0, <1>1, <1>2, <1>3, <1>4, <1>5, <1>6, <1>7, <1>8, <1>9, <1>10, <1>11,
     <1>12, <1>13, <1>14, <1>15, <1>16, <1>17, <1>18, <1>19, <1>20, <1>21
  DEF ActiveNext, InserterStep

(* A new member is the youngest, and time passes alike for all.            *)
LEMMA StayInvStep == ActiveInv /\ [ActiveNext]_peerVars => StayInv'
<1> SUFFICES ASSUME ActiveInv, [ActiveNext]_peerVars PROVE StayInv'
  OBVIOUS
<1>0. CASE UNCHANGED peerVars
  BY <1>0
  DEF ActiveInv, StayInv, ActiveTypeOK, peerVars, setVars, insertVars,
      taskVars, newsVars
<1>1. ASSUME NEW i \in Inserter, VersionsAgree(i) PROVE StayInv'
  BY <1>1, ActivePeersAssumption
  DEF ActiveInv, StayInv, ActiveTypeOK, VersionsAgree, GoOn, setVars,
      insertVars, taskVars, newsVars
<1>2. ASSUME NEW i \in Inserter, VersionsDiffer(i) PROVE StayInv'
  BY <1>2, ActivePeersAssumption
  DEF ActiveInv, StayInv, ActiveTypeOK, VersionsDiffer, InsertFails,
      TryAgainLater, GoOn, setVars, insertVars, taskVars, newsVars
<1>3. ASSUME NEW i \in Inserter, InserterIsCanceled(i) PROVE StayInv'
  BY <1>3, ActivePeersAssumption
  DEF ActiveInv, StayInv, ActiveTypeOK, InserterIsCanceled, GoOn,
      CancellationPoint, Waiting, setVars, insertVars, taskVars, newsVars
<1>4. ASSUME NEW i \in Inserter, InsertIntoRoom(i) PROVE StayInv'
  BY <1>4, ActivePeersAssumption
  DEF ActiveInv, StayInv, ActiveTypeOK, InsertIntoRoom, GoOn, MayInsert,
      setVars, insertVars, taskVars, newsVars
<1>5. ASSUME NEW i \in Inserter, RemoveWorst(i) PROVE StayInv'
  BY <1>5, ActivePeersAssumption
  DEF ActiveInv, StayInv, ActiveTypeOK, RemoveWorst, GoOn, MayInsert, Worst,
      ActiveWithout, setVars, insertVars, taskVars, newsVars
<1>6. ASSUME NEW i \in Inserter, NoneIsWorst(i) PROVE StayInv'
  BY <1>6, ActivePeersAssumption
  DEF ActiveInv, StayInv, ActiveTypeOK, NoneIsWorst, InsertFails, MayInsert,
      TryAgainLater, GoOn, setVars, insertVars, taskVars, newsVars
<1>7. ASSUME NEW i \in Inserter, CancelWorst(i) PROVE StayInv'
  BY <1>7, ActivePeersAssumption
  DEF ActiveInv, StayInv, ActiveTypeOK, CancelWorst, GoOn, setVars, insertVars,
      taskVars, newsVars
<1>8. ASSUME NEW i \in Inserter, SubmitPeer(i) PROVE StayInv'
  BY <1>8, ActivePeersAssumption
  DEF ActiveInv, StayInv, ActiveTypeOK, SubmitPeer, GoOn, setVars, insertVars,
      taskVars, newsVars
<1>9. ASSUME NEW i \in Inserter, AddPeer(i) PROVE StayInv'
  <2>1. lastInsert' = 0
    BY <1>9 DEF AddPeer, LastInsert
  <2>2. inserting[i] \in Peer
    BY <1>9 DEF ActiveInv, HandInv, AddPeer
  <2>3. active' \subseteq Peer /\ stay' \in [Peer -> 0 .. Stasis]
    BY <1>9, <2>2, ActivePeersAssumption DEF ActiveInv, ActiveTypeOK, AddPeer
  <2>4. QED
    BY <2>1, <2>3, ActivePeersAssumption DEF StayInv
<1>10. ASSUME NEW i \in Inserter, NEW p \in Peer, Connected(i, p) PROVE
    StayInv'
  BY <1>10, ActivePeersAssumption
  DEF ActiveInv, StayInv, ActiveTypeOK, Connected, GoOn, Candidates, setVars,
      insertVars, taskVars, newsVars
<1>11. ASSUME StopThreads PROVE StayInv'
  BY <1>11, ActivePeersAssumption
  DEF ActiveInv, StayInv, ActiveTypeOK, StopThreads, setVars, insertVars,
      taskVars, newsVars
<1>12. ASSUME TimePasses PROVE StayInv'
  BY <1>12, ActivePeersAssumption
  DEF ActiveInv, StayInv, ActiveTypeOK, TimePasses, Older, setVars, insertVars,
      taskVars, newsVars
<1>13. ASSUME NEW p \in Peer, IncValue(p) PROVE StayInv'
  BY <1>13, ActivePeersAssumption
  DEF ActiveInv, StayInv, ActiveTypeOK, IncValue, SetValue, setVars,
      insertVars, taskVars, newsVars
<1>14. ASSUME NEW p \in Peer, DecValue(p) PROVE StayInv'
  BY <1>14, ActivePeersAssumption
  DEF ActiveInv, StayInv, ActiveTypeOK, DecValue, SetValue, setVars,
      insertVars, taskVars, newsVars
<1>15. ASSUME NEW p \in Peer, RunPeer(p) PROVE StayInv'
  BY <1>15, ActivePeersAssumption
  DEF ActiveInv, StayInv, ActiveTypeOK, RunPeer, setVars, insertVars, taskVars,
      newsVars
<1>16. ASSUME NEW p \in Peer, RemoteCloses(p) PROVE StayInv'
  BY <1>16, ActivePeersAssumption
  DEF ActiveInv, StayInv, ActiveTypeOK, RemoteCloses, setVars, insertVars,
      taskVars, newsVars
<1>17. ASSUME NEW p \in Peer, ReceiverEnds(p) PROVE StayInv'
  BY <1>17, ActivePeersAssumption
  DEF ActiveInv, StayInv, ActiveTypeOK, ReceiverEnds, setVars, insertVars,
      taskVars, newsVars
<1>18. ASSUME NEW p \in Peer, TaskEnds(p) PROVE StayInv'
  BY <1>18, ActivePeersAssumption
  DEF ActiveInv, StayInv, ActiveTypeOK, TaskEnds, setVars, insertVars,
      taskVars, newsVars
<1>19. ASSUME NEW p \in Peer, SendNotice(p) PROVE StayInv'
  BY <1>19, ActivePeersAssumption
  DEF ActiveInv, StayInv, ActiveTypeOK, SendNotice, setVars, insertVars,
      taskVars, newsVars
<1>20. ASSUME NEW x \in News, NotifyPeers(x) PROVE StayInv'
  BY <1>20, ActivePeersAssumption
  DEF ActiveInv, StayInv, ActiveTypeOK, NotifyPeers, Told, setVars, insertVars,
      taskVars, newsVars
<1>21. ASSUME NEW x \in News, NEW p \in Peer \cup {NoPeer}, Get(x, p) PROVE
    StayInv'
  BY <1>21, ActivePeersAssumption
  DEF ActiveInv, StayInv, ActiveTypeOK, Get, setVars, insertVars, taskVars,
      newsVars
<1>22. QED
  BY <1>0, <1>1, <1>2, <1>3, <1>4, <1>5, <1>6, <1>7, <1>8, <1>9, <1>10, <1>11,
     <1>12, <1>13, <1>14, <1>15, <1>16, <1>17, <1>18, <1>19, <1>20, <1>21
  DEF ActiveNext, InserterStep

(* Each inserter adds one peer at most to what it has seen.                *)
LEMMA ExcessIsBoundedStep == ActiveInv /\ [ActiveNext]_peerVars => ExcessIsBounded'
<1> SUFFICES ASSUME ActiveInv, [ActiveNext]_peerVars PROVE ExcessIsBounded'
  OBVIOUS
<1>0. CASE UNCHANGED peerVars
  BY <1>0
  DEF ActiveInv, ExcessIsBounded, Pending, ActiveTypeOK, peerVars, setVars,
      insertVars, taskVars, newsVars
<1>1. ASSUME NEW i \in Inserter, VersionsAgree(i) PROVE ExcessIsBounded'
  BY <1>1, ActivePeersAssumption
  DEF ActiveInv, ExcessIsBounded, Pending, ActiveTypeOK, VersionsAgree, GoOn,
      setVars, insertVars, taskVars, newsVars
<1>2. ASSUME NEW i \in Inserter, VersionsDiffer(i) PROVE ExcessIsBounded'
  BY <1>2, ActivePeersAssumption
  DEF ActiveInv, ExcessIsBounded, Pending, ActiveTypeOK, VersionsDiffer,
      InsertFails, TryAgainLater, GoOn, setVars, insertVars, taskVars, newsVars
<1>3. ASSUME NEW i \in Inserter, InserterIsCanceled(i) PROVE ExcessIsBounded'
  BY <1>3, ActivePeersAssumption
  DEF ActiveInv, ExcessIsBounded, Pending, ActiveTypeOK, InserterIsCanceled,
      GoOn, CancellationPoint, Waiting, setVars, insertVars, taskVars, newsVars
<1>4. ASSUME NEW i \in Inserter, InsertIntoRoom(i) PROVE ExcessIsBounded'
  <2>1. Cardinality(active) < MaxPeers /\ active' = active
    BY <1>4, ActiveFinite, ActivePeersAssumption
    DEF ActiveInv, InsertIntoRoom, Full, setVars
  <2>2. Pending' \subseteq Inserter
    BY DEF Pending
  <2>3. QED
    BY <2>1, <2>2, ActiveFinite, ActivePeersAssumption DEF ActiveInv, ExcessIsBounded
<1>5. ASSUME NEW i \in Inserter, RemoveWorst(i) PROVE ExcessIsBounded'
  <2>1. PICK p \in active : active' = active \ {p}
    BY <1>5 DEF RemoveWorst, Worst, ActiveWithout
  <2>2. Pending' = Pending \cup {i} /\ i \notin Pending /\ Pending \subseteq Inserter
    BY <1>5 DEF ActiveInv, ActiveTypeOK, RemoveWorst, MayInsert, GoOn, Pending
  <2>3. Cardinality(active') = Cardinality(active) - 1
    BY <2>1, ActiveFinite, FS_RemoveElement DEF ActiveInv
  <2>4. Cardinality(Pending') = Cardinality(Pending) + 1
    BY <2>2, ActiveFinite, FS_AddElement DEF ActiveInv
  <2>5. QED
    BY <2>2, <2>3, <2>4, ActiveFinite, ActivePeersAssumption DEF ActiveInv,
         ExcessIsBounded
<1>6. ASSUME NEW i \in Inserter, NoneIsWorst(i) PROVE ExcessIsBounded'
  BY <1>6, ActivePeersAssumption
  DEF ActiveInv, ExcessIsBounded, Pending, ActiveTypeOK, NoneIsWorst,
      InsertFails, MayInsert, TryAgainLater, GoOn, setVars, insertVars,
      taskVars, newsVars
<1>7. ASSUME NEW i \in Inserter, CancelWorst(i) PROVE ExcessIsBounded'
  BY <1>7, ActivePeersAssumption
  DEF ActiveInv, ExcessIsBounded, Pending, ActiveTypeOK, CancelWorst, GoOn,
      setVars, insertVars, taskVars, newsVars
<1>8. ASSUME NEW i \in Inserter, SubmitPeer(i) PROVE ExcessIsBounded'
  BY <1>8, ActivePeersAssumption
  DEF ActiveInv, ExcessIsBounded, Pending, ActiveTypeOK, SubmitPeer, GoOn,
      setVars, insertVars, taskVars, newsVars
<1>9. ASSUME NEW i \in Inserter, AddPeer(i) PROVE ExcessIsBounded'
  <2>1. active' = active \cup {inserting[i]}
    BY <1>9 DEF AddPeer
  <2>2. Pending' = Pending \ {i} /\ i \in Pending /\ Pending \subseteq Inserter
    BY <1>9 DEF ActiveInv, ActiveTypeOK, AddPeer, GoOn, Pending
  <2>3. Cardinality(active') \in {Cardinality(active), Cardinality(active) + 1}
    BY <2>1, ActiveFinite, FS_AddElement DEF ActiveInv
  <2>4. Cardinality(Pending') = Cardinality(Pending) - 1
    BY <2>2, ActiveFinite, FS_RemoveElement DEF ActiveInv
  <2>5. QED
    BY <2>2, <2>3, <2>4, ActiveFinite, ActivePeersAssumption DEF ActiveInv,
         ExcessIsBounded
<1>10. ASSUME NEW i \in Inserter, NEW p \in Peer, Connected(i, p) PROVE
    ExcessIsBounded'
  BY <1>10, ActivePeersAssumption
  DEF ActiveInv, ExcessIsBounded, Pending, ActiveTypeOK, Connected, GoOn,
      Candidates, setVars, insertVars, taskVars, newsVars
<1>11. ASSUME StopThreads PROVE ExcessIsBounded'
  BY <1>11, ActivePeersAssumption
  DEF ActiveInv, ExcessIsBounded, Pending, ActiveTypeOK, StopThreads, setVars,
      insertVars, taskVars, newsVars
<1>12. ASSUME TimePasses PROVE ExcessIsBounded'
  BY <1>12, ActivePeersAssumption
  DEF ActiveInv, ExcessIsBounded, Pending, ActiveTypeOK, TimePasses, Older,
      setVars, insertVars, taskVars, newsVars
<1>13. ASSUME NEW p \in Peer, IncValue(p) PROVE ExcessIsBounded'
  BY <1>13, ActivePeersAssumption
  DEF ActiveInv, ExcessIsBounded, Pending, ActiveTypeOK, IncValue, SetValue,
      setVars, insertVars, taskVars, newsVars
<1>14. ASSUME NEW p \in Peer, DecValue(p) PROVE ExcessIsBounded'
  BY <1>14, ActivePeersAssumption
  DEF ActiveInv, ExcessIsBounded, Pending, ActiveTypeOK, DecValue, SetValue,
      setVars, insertVars, taskVars, newsVars
<1>15. ASSUME NEW p \in Peer, RunPeer(p) PROVE ExcessIsBounded'
  BY <1>15, ActivePeersAssumption
  DEF ActiveInv, ExcessIsBounded, Pending, ActiveTypeOK, RunPeer, setVars,
      insertVars, taskVars, newsVars
<1>16. ASSUME NEW p \in Peer, RemoteCloses(p) PROVE ExcessIsBounded'
  BY <1>16, ActivePeersAssumption
  DEF ActiveInv, ExcessIsBounded, Pending, ActiveTypeOK, RemoteCloses, setVars,
      insertVars, taskVars, newsVars
<1>17. ASSUME NEW p \in Peer, ReceiverEnds(p) PROVE ExcessIsBounded'
  BY <1>17, ActivePeersAssumption
  DEF ActiveInv, ExcessIsBounded, Pending, ActiveTypeOK, ReceiverEnds, setVars,
      insertVars, taskVars, newsVars
<1>18. ASSUME NEW p \in Peer, TaskEnds(p) PROVE ExcessIsBounded'
  BY <1>18, ActivePeersAssumption
  DEF ActiveInv, ExcessIsBounded, Pending, ActiveTypeOK, TaskEnds, setVars,
      insertVars, taskVars, newsVars
<1>19. ASSUME NEW p \in Peer, SendNotice(p) PROVE ExcessIsBounded'
  BY <1>19, ActivePeersAssumption
  DEF ActiveInv, ExcessIsBounded, Pending, ActiveTypeOK, SendNotice, setVars,
      insertVars, taskVars, newsVars
<1>20. ASSUME NEW x \in News, NotifyPeers(x) PROVE ExcessIsBounded'
  BY <1>20, ActivePeersAssumption
  DEF ActiveInv, ExcessIsBounded, Pending, ActiveTypeOK, NotifyPeers, Told,
      setVars, insertVars, taskVars, newsVars
<1>21. ASSUME NEW x \in News, NEW p \in Peer \cup {NoPeer}, Get(x, p) PROVE
    ExcessIsBounded'
  BY <1>21, ActivePeersAssumption
  DEF ActiveInv, ExcessIsBounded, Pending, ActiveTypeOK, Get, setVars,
      insertVars, taskVars, newsVars
<1>22. QED
  BY <1>0, <1>1, <1>2, <1>3, <1>4, <1>5, <1>6, <1>7, <1>8, <1>9, <1>10, <1>11,
     <1>12, <1>13, <1>14, <1>15, <1>16, <1>17, <1>18, <1>19, <1>20, <1>21
  DEF ActiveNext, InserterStep

(* A peer that is removed is owed nothing.                                 *)
LEMMA OwedInvStep == ActiveInv /\ [ActiveNext]_peerVars => OwedInv'
<1> SUFFICES ASSUME ActiveInv, [ActiveNext]_peerVars PROVE OwedInv'
  OBVIOUS
<1>0. CASE UNCHANGED peerVars
  BY <1>0
  DEF ActiveInv, OwedInv, ActiveTypeOK, News, peerVars, setVars, insertVars,
      taskVars, newsVars
<1>1. ASSUME NEW i \in Inserter, VersionsAgree(i) PROVE OwedInv'
  BY <1>1, ActivePeersAssumption
  DEF ActiveInv, OwedInv, ActiveTypeOK, News, VersionsAgree, GoOn, setVars,
      insertVars, taskVars, newsVars
<1>2. ASSUME NEW i \in Inserter, VersionsDiffer(i) PROVE OwedInv'
  BY <1>2, ActivePeersAssumption
  DEF ActiveInv, OwedInv, ActiveTypeOK, News, VersionsDiffer, InsertFails,
      TryAgainLater, GoOn, setVars, insertVars, taskVars, newsVars
<1>3. ASSUME NEW i \in Inserter, InserterIsCanceled(i) PROVE OwedInv'
  BY <1>3, ActivePeersAssumption
  DEF ActiveInv, OwedInv, ActiveTypeOK, News, InserterIsCanceled, GoOn,
      CancellationPoint, Waiting, setVars, insertVars, taskVars, newsVars
<1>4. ASSUME NEW i \in Inserter, InsertIntoRoom(i) PROVE OwedInv'
  BY <1>4, ActivePeersAssumption
  DEF ActiveInv, OwedInv, ActiveTypeOK, News, InsertIntoRoom, GoOn, MayInsert,
      setVars, insertVars, taskVars, newsVars
<1>5. ASSUME NEW i \in Inserter, RemoveWorst(i) PROVE OwedInv'
  BY <1>5, ActivePeersAssumption
  DEF ActiveInv, OwedInv, ActiveTypeOK, News, RemoveWorst, GoOn, MayInsert,
      Worst, ActiveWithout, setVars, insertVars, taskVars, newsVars
<1>6. ASSUME NEW i \in Inserter, NoneIsWorst(i) PROVE OwedInv'
  BY <1>6, ActivePeersAssumption
  DEF ActiveInv, OwedInv, ActiveTypeOK, News, NoneIsWorst, InsertFails,
      MayInsert, TryAgainLater, GoOn, setVars, insertVars, taskVars, newsVars
<1>7. ASSUME NEW i \in Inserter, CancelWorst(i) PROVE OwedInv'
  BY <1>7, ActivePeersAssumption
  DEF ActiveInv, OwedInv, ActiveTypeOK, News, CancelWorst, GoOn, setVars,
      insertVars, taskVars, newsVars
<1>8. ASSUME NEW i \in Inserter, SubmitPeer(i) PROVE OwedInv'
  BY <1>8, ActivePeersAssumption
  DEF ActiveInv, OwedInv, ActiveTypeOK, News, SubmitPeer, GoOn, setVars,
      insertVars, taskVars, newsVars
<1>9. ASSUME NEW i \in Inserter, AddPeer(i) PROVE OwedInv'
  BY <1>9, ActivePeersAssumption
  DEF ActiveInv, OwedInv, ActiveTypeOK, News, AddPeer, GoOn, LastInsert,
      setVars, insertVars, taskVars, newsVars
<1>10. ASSUME NEW i \in Inserter, NEW p \in Peer, Connected(i, p) PROVE
    OwedInv'
  BY <1>10, ActivePeersAssumption
  DEF ActiveInv, OwedInv, ActiveTypeOK, News, Connected, GoOn, Candidates,
      setVars, insertVars, taskVars, newsVars
<1>11. ASSUME StopThreads PROVE OwedInv'
  BY <1>11, ActivePeersAssumption
  DEF ActiveInv, OwedInv, ActiveTypeOK, News, StopThreads, setVars, insertVars,
      taskVars, newsVars
<1>12. ASSUME TimePasses PROVE OwedInv'
  BY <1>12, ActivePeersAssumption
  DEF ActiveInv, OwedInv, ActiveTypeOK, News, TimePasses, Older, setVars,
      insertVars, taskVars, newsVars
<1>13. ASSUME NEW p \in Peer, IncValue(p) PROVE OwedInv'
  BY <1>13, ActivePeersAssumption
  DEF ActiveInv, OwedInv, ActiveTypeOK, News, IncValue, SetValue, setVars,
      insertVars, taskVars, newsVars
<1>14. ASSUME NEW p \in Peer, DecValue(p) PROVE OwedInv'
  BY <1>14, ActivePeersAssumption
  DEF ActiveInv, OwedInv, ActiveTypeOK, News, DecValue, SetValue, setVars,
      insertVars, taskVars, newsVars
<1>15. ASSUME NEW p \in Peer, RunPeer(p) PROVE OwedInv'
  BY <1>15, ActivePeersAssumption
  DEF ActiveInv, OwedInv, ActiveTypeOK, News, RunPeer, setVars, insertVars,
      taskVars, newsVars
<1>16. ASSUME NEW p \in Peer, RemoteCloses(p) PROVE OwedInv'
  BY <1>16, ActivePeersAssumption
  DEF ActiveInv, OwedInv, ActiveTypeOK, News, RemoteCloses, setVars,
      insertVars, taskVars, newsVars
<1>17. ASSUME NEW p \in Peer, ReceiverEnds(p) PROVE OwedInv'
  BY <1>17, ActivePeersAssumption
  DEF ActiveInv, OwedInv, ActiveTypeOK, News, ReceiverEnds, setVars,
      insertVars, taskVars, newsVars
<1>18. ASSUME NEW p \in Peer, TaskEnds(p) PROVE OwedInv'
  BY <1>18, ActivePeersAssumption
  DEF ActiveInv, OwedInv, ActiveTypeOK, News, TaskEnds, setVars, insertVars,
      taskVars, newsVars
<1>19. ASSUME NEW p \in Peer, SendNotice(p) PROVE OwedInv'
  <2>1. UNCHANGED <<active, untold, giver, have>>
    BY <1>19 DEF SendNotice, setVars
  <2>2. owed' \in [Peer -> SUBSET News] /\ \A r \in Peer : owed'[r] \subseteq owed[r]
    <3>1. CASE conn[p] = "open"
      BY <1>19, <3>1 DEF ActiveInv, ActiveTypeOK, SendNotice
    <3>2. CASE conn[p] # "open"
      BY <1>19, <3>2 DEF ActiveInv, ActiveTypeOK, SendNotice
    <3>3. QED
      BY <3>1, <3>2
  <2>3. QED
    BY <2>1, <2>2 DEF ActiveInv, OwedInv
<1>20. ASSUME NEW x \in News, NotifyPeers(x) PROVE OwedInv'
  BY <1>20, ActivePeersAssumption
  DEF ActiveInv, OwedInv, ActiveTypeOK, News, NotifyPeers, Told, setVars,
      insertVars, taskVars, newsVars
<1>21. ASSUME NEW x \in News, NEW p \in Peer \cup {NoPeer}, Get(x, p) PROVE
    OwedInv'
  <2>1. /\ active' = active /\ untold' = untold \cup {x} /\ have' = x /\ x = have + 1
        /\ giver' = [giver EXCEPT ![x] = p]
    BY <1>21 DEF Get, setVars
  <2>2. \A r \in Peer : owed'[r] = IF r \in active \ {p} /\ sndr[r] # "ended"
                                   THEN owed[r] \cup {x} ELSE owed[r]
    BY <1>21 DEF Get
  <2>3. have \in Nat /\ x \notin 1 .. have /\ 1 .. have \subseteq 1 .. x /\ x \in 1 .. x
    BY <2>1 DEF ActiveInv, ActiveTypeOK
  <2>4. \A y \in News : giver'[y] = IF y = x THEN p ELSE giver[y]
    BY <2>1 DEF ActiveInv, ActiveTypeOK
  <2>5. \A r \in Peer : owed'[r] # {} => r \in active'
    BY <2>1, <2>2 DEF ActiveInv, OwedInv
  <2>6. ASSUME NEW y \in untold', NEW r \in Peer, giver'[y] = r PROVE y \notin owed'[r]
    <3>1. CASE y = x
      <4>1. r = p /\ owed'[r] = owed[r]
        BY <2>2, <2>4, <2>6, <3>1
      <4>2. x \notin owed[r]
        BY <2>3 DEF ActiveInv, OwedInv
      <4>3. QED
        BY <3>1, <4>1, <4>2
    <3>2. CASE y # x
      <4>1. y \in untold
        BY <2>1, <2>6, <3>2
      <4>2. y \in News
        BY <4>1, ActivePeersAssumption DEF ActiveInv, ActiveTypeOK, News
      <4>3. y \notin owed[r]
        BY <2>4, <2>6, <3>2, <4>1, <4>2 DEF ActiveInv, OwedInv
      <4>4. QED
        BY <2>2, <3>2, <4>3
    <3>3. QED
      BY <3>1, <3>2
  <2>7. \A r \in Peer : owed'[r] \subseteq 1 .. have'
    BY <2>1, <2>2, <2>3 DEF ActiveInv, OwedInv
  <2>8. QED
    BY <2>5, <2>6, <2>7 DEF OwedInv
<1>22. QED
  BY <1>0, <1>1, <1>2, <1>3, <1>4, <1>5, <1>6, <1>7, <1>8, <1>9, <1>10, <1>11,
     <1>12, <1>13, <1>14, <1>15, <1>16, <1>17, <1>18, <1>19, <1>20, <1>21
  DEF ActiveNext, InserterStep

(* Only what is too old leaves a queue without being sent.                 *)
LEMMA MemberIsToldStep == ActiveInv /\ [ActiveNext]_peerVars => MemberIsTold'
<1> SUFFICES ASSUME ActiveInv, [ActiveNext]_peerVars PROVE MemberIsTold'
  OBVIOUS
<1>0. CASE UNCHANGED peerVars
  BY <1>0
  DEF ActiveInv, MemberIsTold, OwedInv, ActiveTypeOK, News, MaxReside,
      peerVars, setVars, insertVars, taskVars, newsVars
<1>1. ASSUME NEW i \in Inserter, VersionsAgree(i) PROVE MemberIsTold'
  BY <1>1, ActivePeersAssumption
  DEF ActiveInv, MemberIsTold, OwedInv, ActiveTypeOK, News, MaxReside,
      VersionsAgree, GoOn, setVars, insertVars, taskVars, newsVars
<1>2. ASSUME NEW i \in Inserter, VersionsDiffer(i) PROVE MemberIsTold'
  BY <1>2, ActivePeersAssumption
  DEF ActiveInv, MemberIsTold, OwedInv, ActiveTypeOK, News, MaxReside,
      VersionsDiffer, InsertFails, TryAgainLater, GoOn, setVars, insertVars,
      taskVars, newsVars
<1>3. ASSUME NEW i \in Inserter, InserterIsCanceled(i) PROVE MemberIsTold'
  BY <1>3, ActivePeersAssumption
  DEF ActiveInv, MemberIsTold, OwedInv, ActiveTypeOK, News, MaxReside,
      InserterIsCanceled, GoOn, CancellationPoint, Waiting, setVars,
      insertVars, taskVars, newsVars
<1>4. ASSUME NEW i \in Inserter, InsertIntoRoom(i) PROVE MemberIsTold'
  BY <1>4, ActivePeersAssumption
  DEF ActiveInv, MemberIsTold, OwedInv, ActiveTypeOK, News, MaxReside,
      InsertIntoRoom, GoOn, MayInsert, setVars, insertVars, taskVars, newsVars
<1>5. ASSUME NEW i \in Inserter, RemoveWorst(i) PROVE MemberIsTold'
  BY <1>5, ActivePeersAssumption
  DEF ActiveInv, MemberIsTold, OwedInv, ActiveTypeOK, News, MaxReside,
      RemoveWorst, GoOn, MayInsert, Worst, ActiveWithout, setVars, insertVars,
      taskVars, newsVars
<1>6. ASSUME NEW i \in Inserter, NoneIsWorst(i) PROVE MemberIsTold'
  BY <1>6, ActivePeersAssumption
  DEF ActiveInv, MemberIsTold, OwedInv, ActiveTypeOK, News, MaxReside,
      NoneIsWorst, InsertFails, MayInsert, TryAgainLater, GoOn, setVars,
      insertVars, taskVars, newsVars
<1>7. ASSUME NEW i \in Inserter, CancelWorst(i) PROVE MemberIsTold'
  BY <1>7, ActivePeersAssumption
  DEF ActiveInv, MemberIsTold, OwedInv, ActiveTypeOK, News, MaxReside,
      CancelWorst, GoOn, setVars, insertVars, taskVars, newsVars
<1>8. ASSUME NEW i \in Inserter, SubmitPeer(i) PROVE MemberIsTold'
  BY <1>8, ActivePeersAssumption
  DEF ActiveInv, MemberIsTold, OwedInv, ActiveTypeOK, News, MaxReside,
      SubmitPeer, GoOn, setVars, insertVars, taskVars, newsVars
<1>9. ASSUME NEW i \in Inserter, AddPeer(i) PROVE MemberIsTold'
  BY <1>9, ActivePeersAssumption
  DEF ActiveInv, MemberIsTold, OwedInv, ActiveTypeOK, News, MaxReside, AddPeer,
      GoOn, LastInsert, setVars, insertVars, taskVars, newsVars
<1>10. ASSUME NEW i \in Inserter, NEW p \in Peer, Connected(i, p) PROVE
    MemberIsTold'
  BY <1>10, ActivePeersAssumption
  DEF ActiveInv, MemberIsTold, OwedInv, ActiveTypeOK, News, MaxReside,
      Connected, GoOn, Candidates, setVars, insertVars, taskVars, newsVars
<1>11. ASSUME StopThreads PROVE MemberIsTold'
  BY <1>11, ActivePeersAssumption
  DEF ActiveInv, MemberIsTold, OwedInv, ActiveTypeOK, News, MaxReside,
      StopThreads, setVars, insertVars, taskVars, newsVars
<1>12. ASSUME TimePasses PROVE MemberIsTold'
  BY <1>12, ActivePeersAssumption
  DEF ActiveInv, MemberIsTold, OwedInv, ActiveTypeOK, News, MaxReside,
      TimePasses, Older, setVars, insertVars, taskVars, newsVars
<1>13. ASSUME NEW p \in Peer, IncValue(p) PROVE MemberIsTold'
  BY <1>13, ActivePeersAssumption
  DEF ActiveInv, MemberIsTold, OwedInv, ActiveTypeOK, News, MaxReside,
      IncValue, SetValue, setVars, insertVars, taskVars, newsVars
<1>14. ASSUME NEW p \in Peer, DecValue(p) PROVE MemberIsTold'
  BY <1>14, ActivePeersAssumption
  DEF ActiveInv, MemberIsTold, OwedInv, ActiveTypeOK, News, MaxReside,
      DecValue, SetValue, setVars, insertVars, taskVars, newsVars
<1>15. ASSUME NEW p \in Peer, RunPeer(p) PROVE MemberIsTold'
  BY <1>15, ActivePeersAssumption
  DEF ActiveInv, MemberIsTold, OwedInv, ActiveTypeOK, News, MaxReside, RunPeer,
      setVars, insertVars, taskVars, newsVars
<1>16. ASSUME NEW p \in Peer, RemoteCloses(p) PROVE MemberIsTold'
  BY <1>16, ActivePeersAssumption
  DEF ActiveInv, MemberIsTold, OwedInv, ActiveTypeOK, News, MaxReside,
      RemoteCloses, setVars, insertVars, taskVars, newsVars
<1>17. ASSUME NEW p \in Peer, ReceiverEnds(p) PROVE MemberIsTold'
  BY <1>17, ActivePeersAssumption
  DEF ActiveInv, MemberIsTold, OwedInv, ActiveTypeOK, News, MaxReside,
      ReceiverEnds, setVars, insertVars, taskVars, newsVars
<1>18. ASSUME NEW p \in Peer, TaskEnds(p) PROVE MemberIsTold'
  BY <1>18, ActivePeersAssumption
  DEF ActiveInv, MemberIsTold, OwedInv, ActiveTypeOK, News, MaxReside,
      TaskEnds, setVars, insertVars, taskVars, newsVars
<1>19. ASSUME NEW p \in Peer, SendNotice(p) PROVE MemberIsTold'
  <2>1. /\ sendQ[p] \in Seq(News) /\ sendQ[p] # <<>>
        /\ sendQ' = [sendQ EXCEPT ![p] = Tail(sendQ[p])]
        /\ UNCHANGED <<untold, noticeAge>>
    BY <1>19 DEF ActiveInv, ActiveTypeOK, SendNotice
  <2>2. \A r \in Peer : sendQ'[r] = IF r = p THEN Tail(sendQ[p]) ELSE sendQ[r]
    BY <2>1 DEF ActiveInv, ActiveTypeOK
  <2>3. \A r \in Peer : /\ owed'[r] \subseteq owed[r]
                        /\ r = p => owed'[r] \subseteq owed[r] \ {Head(sendQ[p])}
    BY <1>19 DEF ActiveInv, ActiveTypeOK, SendNotice
  <2>4. \A y \in ToSet(sendQ[p]) : y = Head(sendQ[p]) \/ y \in ToSet(Tail(sendQ[p]))
    BY <2>1, SendQHead
  <2>5. QED
    BY <2>1, <2>2, <2>3, <2>4 DEF ActiveInv, MemberIsTold
<1>20. ASSUME NEW x \in News, NotifyPeers(x) PROVE MemberIsTold'
  <2>1. /\ x \in untold /\ untold' = untold \ {x} /\ owed' = owed
        /\ noticeAge' = [noticeAge EXCEPT ![x] = 0]
    BY <1>20 DEF NotifyPeers
  <2>2. \A r \in Peer : sendQ'[r] = IF r \in Told(x) THEN Pushed(sendQ[r], x) ELSE sendQ[r]
    BY <1>20 DEF NotifyPeers
  <2>3. SUFFICES ASSUME NEW r \in Peer, NEW y \in owed[r] \ untold'
                 PROVE  y \in ToSet(sendQ'[r]) \/ noticeAge'[y] > MaxReside
    BY <2>1 DEF MemberIsTold
  <2>4. sendQ[r] \in Seq(News)
    BY DEF ActiveInv, ActiveTypeOK
  <2>5. CASE y = x
    <3>1. r \in active /\ giver[x] # r
      BY <2>1, <2>3, <2>5 DEF ActiveInv, OwedInv
    <3>2. r \in Told(x)
      BY <3>1 DEF Told
    <3>3. QED
      BY <2>2, <2>4, <2>5, <3>2, PushedKeeps
  <2>6. CASE y # x
    <3>1. y \in ToSet(sendQ[r]) \/ noticeAge[y] > MaxReside
      BY <2>1, <2>3, <2>6 DEF ActiveInv, MemberIsTold
    <3>2. noticeAge'[y] = noticeAge[y]
      BY <2>1, <2>3, <2>6 DEF ActiveInv, ActiveTypeOK
    <3>3. \A z \in ToSet(sendQ[r]) : z \in ToSet(Pushed(sendQ[r], x)) \/ noticeAge[z] > MaxReside
      BY <2>4, PushedKeeps DEF IsStale
    <3>4. QED
      BY <2>2, <3>1, <3>2, <3>3
  <2>7. QED
    BY <2>5, <2>6
<1>21. ASSUME NEW x \in News, NEW p \in Peer \cup {NoPeer}, Get(x, p) PROVE
    MemberIsTold'
  BY <1>21, ActivePeersAssumption
  DEF ActiveInv, MemberIsTold, OwedInv, ActiveTypeOK, News, MaxReside, Get,
      setVars, insertVars, taskVars, newsVars
<1>22. QED
  BY <1>0, <1>1, <1>2, <1>3, <1>4, <1>5, <1>6, <1>7, <1>8, <1>9, <1>10, <1>11,
     <1>12, <1>13, <1>14, <1>15, <1>16, <1>17, <1>18, <1>19, <1>20, <1>21
  DEF ActiveNext, InserterStep

(* The invariant holds at first. *)
LEMMA ActiveInitInv == ActiveInit => ActiveInv
<1> SUFFICES ASSUME ActiveInit PROVE ActiveInv
  OBVIOUS
<1>1. ActiveTypeOK
  <2>1. 0 \in ValueMin .. ValueMax /\ 0 \in 0 .. Stasis /\ Stasis \in 0 .. Stasis
    BY ActivePeersAssumption
  <2>2. -1 \in -1 .. MaxReside + 1
    BY ActivePeersAssumption DEF MaxReside
  <2>3. /\ value \in [Peer -> ValueMin .. ValueMax] /\ stay \in [Peer -> 0 .. Stasis]
        /\ lastInsert \in 0 .. Stasis
    BY <2>1 DEF ActiveInit
  <2>4. noticeAge \in [News -> -1 .. MaxReside + 1]
    BY <2>2 DEF ActiveInit
  <2>5. sendQ \in [Peer -> Seq(News)]
    BY DEF ActiveInit
  <2>6. /\ conn \in [Peer -> {"new", "open", "closed"}]
        /\ task \in [Peer -> Run] /\ receiver \in [Peer -> Run] /\ sndr \in [Peer -> Run]
    BY DEF ActiveInit, Run
  <2>7. /\ ipc \in [Inserter -> Place] /\ inserting \in [Inserter -> Peer \cup {NoPeer}]
        /\ worst \in [Inserter -> Peer \cup {NoPeer}]
    BY DEF ActiveInit, Place
  <2>8. giver \in [News -> Peer \cup {NoPeer}] /\ owed \in [Peer -> SUBSET News]
    BY DEF ActiveInit
  <2>9. QED
    BY <2>3, <2>4, <2>5, <2>6, <2>7, <2>8 DEF ActiveInit, ActiveTypeOK
<1>2. HandInv /\ NoAddressIsLost
  BY ActivePeersAssumption DEF ActiveInit, HandInv, NoAddressIsLost
<1>3. StayInv /\ OwedInv /\ MemberIsTold
  BY DEF ActiveInit, StayInv, OwedInv, MemberIsTold
<1>4. ExcessIsBounded
  <2>1. active = {} /\ Pending = {}
    BY DEF ActiveInit, Pending
  <2>2. Cardinality(Inserter) >= 1
    <3>1. IsFiniteSet(Inserter) /\ Inserter # {} /\ Cardinality(Inserter) \in Nat
      BY <1>1, ActiveFinite DEF Inserter
    <3>2. QED
      BY <3>1, FS_EmptySet
  <2>3. Cardinality(Inserter) \in Nat
    BY <1>1, ActiveFinite
  <2>4. QED
    BY <2>1, <2>2, <2>3, FS_EmptySet, ActivePeersAssumption DEF ExcessIsBounded
<1>5. QED
  BY <1>1, <1>2, <1>3, <1>4 DEF ActiveInv

(* It is an invariant. *)
LEMMA ActiveInvariance == ActiveSpec => []ActiveInv
<1>1. ActiveInv /\ [ActiveNext]_peerVars => ActiveInv'
  BY ActiveTypeOKStep, HandInvStep, NoAddressIsLostStep, StayInvStep,
     ExcessIsBoundedStep, OwedInvStep, MemberIsToldStep
  DEF ActiveInv
<1>2. QED
  BY ActiveInitInv, <1>1, PTL DEF ActiveSpec

(* However many threads insert peers, the set exceeds its maximum by less  *)
(* than their number; and its members are told of what comes, unless the   *)
(* notice has become too old.                                              *)
THEOREM ActiveSetIsSound == ActiveSpec => []SetInv
<1>1. ActiveInv => SetInv
  BY DEF ActiveInv, SetInv
<1>2. QED
  BY <1>1, ActiveInvariance, PTL

(* A failed attempt loses no address of the peer-source. *)
THEOREM AddressesAreKept == ActiveSpec => []NoAddressIsLost
<1>1. ActiveInv => NoAddressIsLost
  BY DEF ActiveInv
<1>2. QED
  BY <1>1, ActiveInvariance, PTL

(* A step that removes a peer finds it in the set for the whole            *)
(* stasis-duration.                                                        *)
THEOREM OnlyMeasuredAreRemoved == ActiveSpec => RemovedWasMeasured
<1>1. ActiveInv /\ [ActiveNext]_peerVars =>
          [\A p \in active : p \in active' \/ stay[p] = Stasis]_peerVars
  <2> SUFFICES ASSUME ActiveInv, ActiveNext
               PROVE  \A p \in active : p \in active' \/ stay[p] = Stasis
    OBVIOUS
  <2>1. ASSUME NEW i \in Inserter, RemoveWorst(i)
        PROVE  \A p \in active : stay[p] = Stasis
    <3>1. lastInsert = Stasis
      BY <2>1, ActivePeersAssumption
      DEF ActiveInv, ActiveTypeOK, RemoveWorst, MayInsert, Waiting
    <3>2. QED
      BY <3>1, ActivePeersAssumption DEF ActiveInv, ActiveTypeOK, StayInv
  <2>2. ASSUME NEW i \in Inserter, InserterStep(i), ~RemoveWorst(i)
        PROVE  active \subseteq active'
    BY <2>2
    DEF InserterStep, VersionsAgree, VersionsDiffer, InserterIsCanceled, InsertIntoRoom,
        NoneIsWorst, CancelWorst, SubmitPeer, AddPeer, InsertFails, setVars
  <2>3. ASSUME NEW p \in Peer, NEW i \in Inserter, Connected(i, p)
        PROVE  active' = active
    BY <2>3 DEF Connected, setVars
  <2>4. ASSUME NEW p \in Peer,
               \/ IncValue(p) \/ DecValue(p) \/ RunPeer(p) \/ RemoteCloses(p)
               \/ ReceiverEnds(p) \/ TaskEnds(p) \/ SendNotice(p)
        PROVE  active' = active
    BY <2>4
    DEF IncValue, DecValue, SetValue, RunPeer, RemoteCloses, ReceiverEnds, TaskEnds,
        SendNotice, setVars
  <2>5. ASSUME NEW x \in News, NEW p \in Peer \cup {NoPeer}, NotifyPeers(x) \/ Get(x, p)
        PROVE  active' = active
    BY <2>5 DEF NotifyPeers, Get, setVars
  <2>6. CASE StopThreads \/ TimePasses
    BY <2>6 DEF StopThreads, TimePasses, setVars
  <2>7. QED
    BY <2>1, <2>2, <2>3, <2>4, <2>5, <2>6 DEF ActiveNext
<1>2. QED
  BY <1>1, ActiveInvariance, PTL DEF ActiveSpec, RemovedWasMeasured

-----------------------------------------------------------------------------
(***************************************************************************)
(* Records.  What a socket holds is what the network brought: messages of  *)
(* the streams, or datagrams, none of which has been read in part.         *)
(***************************************************************************)
Kinds == {"version", "backlog", "notice", "request", "content", "strange"}
Sent == {Record(kind, x) : kind \in Kinds, x \in Item \cup {NoItem}}
Datagrams == {Datagram(x) : x \in Item}

Places == {"new", "getVersion", "backlog?", "loop", "request", "content", "ended"}

(* What a reader's socket and decoder are, and how many messages wait. *)
SockInv ==
    /\ DOMAIN input = Reader /\ \A n \in Node : input[n] \in Seq(Sent)
    /\ input[Mcast] \in Seq(Datagrams)
    /\ DOMAIN dec = Reader /\ pending \in [Reader -> Int]
    /\ \A r \in Reader : (r \in Node => at[r] # "ended") =>
         dec[r] = Fresh /\ pending[r] = Len(input[r])

(* The types of the rest. *)
OtherTypes ==
    /\ outgoing \in [Node -> Seq(Sent)]
    /\ at \in [Node -> Places] /\ item \in [Node -> Item \cup {NoItem}]
    /\ notices \in [Node -> Seq(Item)] /\ shipped \in 0 .. 2 * NumItems + 1

RecordsInv == OtherTypes /\ SockInv

Messages == [kind : Kinds, item : Nat, len : Nat, off : Nat]
Decoders == [have : BOOLEAN, pos : Int, bytes : Int]
Sockets == [q : Seq(Messages), d : Decoders, datagram : BOOLEAN]

(* The position and the bytes of a decoder. *)
SetDecoder(s, v, w) == [s EXCEPT !.d.pos = v, !.d.bytes = w]

(* They are what is assigned to them, and nothing else changes. *)
LEMMA SetDecoderSock ==
    ASSUME NEW s \in Sockets, NEW v \in Int, NEW w \in Int
    PROVE  /\ SetDecoder(s, v, w) \in Sockets
           /\ SetDecoder(s, v, w).q = s.q /\ SetDecoder(s, v, w).datagram = s.datagram
           /\ SetDecoder(s, v, w).d.have = s.d.have
           /\ SetDecoder(s, v, w).d.pos = v /\ SetDecoder(s, v, w).d.bytes = w
BY DEF SetDecoder, Sockets, Decoders

SetBytes(s, w) == [s EXCEPT !.d.bytes = w]
(* To set the number of bytes that remain leaves the queue and the position alone. *)
LEMMA SetBytesSock ==
    ASSUME NEW s \in Sockets, NEW w \in Int
    PROVE  /\ SetBytes(s, w) \in Sockets
           /\ SetBytes(s, w).q = s.q /\ SetBytes(s, w).datagram = s.datagram
           /\ SetBytes(s, w).d.have = s.d.have /\ SetBytes(s, w).d.pos = s.d.pos
BY DEF SetBytes, Sockets, Decoders

(* To peek at a record moves nothing. *)
LEMMA PeekSock ==
    ASSUME NEW s \in Sockets
    PROVE  /\ Peek(s) \in Sockets
           /\ Peek(s).q = s.q /\ Peek(s).datagram = s.datagram
           /\ Peek(s).d.have /\ Peek(s).d.pos = s.d.pos /\ Peek(s).d.bytes = s.d.bytes
BY DEF Peek, Sockets, Decoders

(* To fill the decoder is to peek. *)
LEMMA FillSock ==
    ASSUME NEW s \in Sockets, s.q # << >>, NEW n \in Nat
    PROVE  /\ Fill(s, n) \in Sockets
           /\ Fill(s, n).q = s.q /\ Fill(s, n).datagram = s.datagram
           /\ Fill(s, n).d.have /\ Fill(s, n).d.pos = s.d.pos
<1>1. Head(s.q) \in Messages
  BY DEF Sockets
<1>2. Avail(s) \in Int
  BY <1>1 DEF Avail, Messages
<1> DEFINE filled == IF n = 0 THEN Avail(s) ELSE Least(s.d.pos + n, Avail(s))
<1>3. s.d.pos \in Int
  BY DEF Sockets, Decoders
<1>4. filled \in Int
  BY <1>2, <1>3 DEF Least
<1> DEFINE w == Peek(s).d.bytes + filled - s.d.pos
<1>5. Fill(s, n) = SetBytes(Peek(s), w)
  BY DEF Fill, SetBytes
<1>6. w \in Int
  <2>1. Peek(s).d.bytes \in Int
    BY PeekSock DEF Sockets, Decoders
  <2> HIDE DEF filled
  <2>2. QED
    BY <2>1, <1>3, <1>4
<1> HIDE DEF w
<1> DEFINE p == Peek(s)
<1>7. /\ p \in Sockets /\ p.q = s.q /\ p.datagram = s.datagram
      /\ p.d.have /\ p.d.pos = s.d.pos
  BY PeekSock
<1>8. Fill(s, n) = SetBytes(p, w)
  BY <1>5
<1> HIDE DEF p
<1>9. QED
  BY <1>6, <1>7, <1>8, SetBytesSock

(* To decode moves the decoder and not the socket. *)
LEMMA DecodeSock ==
    ASSUME NEW s \in Sockets, NEW n \in Nat
    PROVE  /\ Decode(s, n) \in Sockets
           /\ Decode(s, n).q = s.q /\ Decode(s, n).datagram = s.datagram
           /\ Decode(s, n).d.have = s.d.have /\ Decode(s, n).d.pos = s.d.pos + n
<1>1. s.d.pos \in Int /\ s.d.bytes \in Int
  BY DEF Sockets, Decoders
<1> DEFINE v == s.d.pos + n
           w == s.d.bytes - n
<1>2. v \in Int /\ w \in Int
  BY <1>1
<1>3. Decode(s, n) = SetDecoder(s, v, w)
  BY DEF Decode, SetDecoder
<1> HIDE DEF w
<1>4. QED
  BY <1>2, <1>3, SetDecoderSock

(* To reset the decoder moves nothing on the socket. *)
LEMMA ResetSock ==
    ASSUME NEW s \in Sockets
    PROVE  /\ Reset(s) \in Sockets
           /\ Reset(s).q = s.q /\ Reset(s).datagram = s.datagram
           /\ Reset(s).d.have = s.d.have /\ Reset(s).d.pos = 0 /\ Reset(s).d.bytes = 0
<1>1. Reset(s) = SetDecoder(s, 0, 0)
  BY DEF Reset, SetDecoder
<1>2. QED
  BY <1>1, SetDecoderSock

(* A decoder that has nothing is as new. *)
LEMMA FreshDecoder ==
    ASSUME NEW d \in Decoders, ~d.have, d.pos = 0, d.bytes = 0
    PROVE  d = Fresh
BY DEF Decoders, Fresh

(* If nothing is in hand either, the decoder is as new. *)
LEMMA ResetIs ==
    ASSUME NEW s \in Sockets, ~s.d.have
    PROVE  Reset(s) = [q |-> s.q, d |-> Fresh, datagram |-> s.datagram]
<1>1. Reset(s).d \in Decoders
  BY ResetSock DEF Sockets
<1>2. ~Reset(s).d.have /\ Reset(s).d.pos = 0 /\ Reset(s).d.bytes = 0
  BY ResetSock
<1>3. Reset(s).d = Fresh
  BY <1>1, <1>2, FreshDecoder
<1>4. QED
  BY <1>3, ResetSock DEF Sockets

(* A read of enough takes the record from the socket; so does any read of  *)
(* a datagram.                                                             *)
LEMMA ReadSock ==
    ASSUME NEW s \in Sockets, s.q # << >>, NEW n \in Nat, s.datagram \/ n >= Avail(s)
    PROVE  /\ Read(s, n) \in Sockets
           /\ Read(s, n).q = Tail(s.q) /\ Read(s, n).datagram = s.datagram
           /\ ~Read(s, n).d.have
           /\ Read(s, n).d.pos = s.d.pos /\ Read(s, n).d.bytes = s.d.bytes
<1>1. Read(s, n) = [s EXCEPT !.d.have = FALSE, !.q = Tail(s.q)]
  BY DEF Read
<1>2. Tail(s.q) \in Seq(Messages)
  BY DEF Sockets
<1>3. QED
  BY <1>1, <1>2 DEF Sockets, Decoders

(* What is left of a record that has been peeked at is discarded, ... *)
LEMMA DiscardSock ==
    ASSUME NEW s \in Sockets, s.q # << >>, Head(s.q).off = 0, s.d.have
    PROVE  /\ DiscardRest(s) \in Sockets /\ DiscardRest(s).q = Tail(s.q)
           /\ DiscardRest(s).datagram = s.datagram /\ ~DiscardRest(s).d.have
           /\ DiscardRest(s).d.pos = s.d.pos /\ DiscardRest(s).d.bytes = s.d.bytes
<1> DEFINE n == IF s.datagram THEN 1 ELSE Head(s.q).len
<1>1. Head(s.q) \in Messages /\ s.datagram \in BOOLEAN
  BY DEF Sockets
<1>2. n \in Nat /\ (s.datagram \/ n >= Avail(s))
  BY <1>1 DEF Avail, Messages
<1>3. DiscardRest(s) = Read(s, n)
  BY DEF DiscardRest
<1> HIDE DEF n
<1>4. QED
  BY <1>2, <1>3, ReadSock

(* Clearing the input takes exactly the record at the head of the queue. *)
LEMMA ClearSock ==
    ASSUME NEW s \in Sockets, s.q # << >>, Head(s.q).off = 0, s.d.have
    PROVE  Clear(s) = [q |-> Tail(s.q), d |-> Fresh, datagram |-> s.datagram]
BY DiscardSock, ResetIs DEF Clear

(* ... and nothing more is. *)
LEMMA ClearAgain ==
    ASSUME NEW s \in Sockets, s.d = Fresh
    PROVE  Clear(s) = s
<1>1. DiscardRest(s) = s
  BY DEF DiscardRest, Fresh
<1>2. Reset(s) = [q |-> s.q, d |-> Fresh, datagram |-> s.datagram]
  BY ResetIs DEF Fresh
<1>3. QED
  BY <1>1, <1>2 DEF Clear, Sockets

(* A channel takes the whole of a message. *)
LEMMA ChannelTakes ==
    ASSUME NEW s \in Sockets, s.q # << >>, Head(s.q).off = 0
    PROVE  ChannelRecv(s) = [q |-> Tail(s.q), d |-> Fresh, datagram |-> s.datagram]
<1> DEFINE f == Fill(s, 0)
           e == Decode(f, 1)
<1>1. f \in Sockets /\ f.q = s.q /\ f.datagram = s.datagram /\ f.d.have
  BY FillSock
<1> HIDE DEF f
<1>2. e \in Sockets /\ e.q = s.q /\ e.datagram = s.datagram /\ e.d.have
  BY <1>1, DecodeSock
<1>3. ChannelRecv(s) = Clear(e)
  BY DEF ChannelRecv, f
<1> HIDE DEF e
<1>4. QED
  BY <1>2, <1>3, ClearSock

(* The data of a chunk is drained into the store, or discarded. *)
LEMMA DrainTakes ==
    ASSUME NEW s \in Sockets, NEW x, s.q # << >>, Head(s.q).off = 0, s.d.have,
           s.d.pos \in Nat, s.datagram \/ s.d.pos + 1 >= Head(s.q).len
    PROVE  Drained(s, x) = [q |-> Tail(s.q), d |-> Fresh, datagram |-> s.datagram]
<1>1. CASE x \in store[ReceivingNode]
  BY <1>1, ClearSock DEF Drained
<1>2. CASE x \notin store[ReceivingNode]
  <2> DEFINE n == s.d.pos + 1
  <2>1. n \in Nat
    OBVIOUS
  <2>2. s.datagram \/ n >= Avail(s)
    <3>1. Head(s.q) \in Messages
      BY DEF Sockets
    <3>2. QED
      BY <3>1 DEF Avail, Messages
  <2>3. Drained(s, x) = Reset(Read(s, n))
    BY <1>2 DEF Drained, DecodeData
  <2> HIDE DEF n
  <2>4. /\ Read(s, n) \in Sockets /\ Read(s, n).q = Tail(s.q)
        /\ Read(s, n).datagram = s.datagram /\ ~Read(s, n).d.have
    BY <2>1, <2>2, ReadSock
  <2>5. QED
    BY <2>3, <2>4, ResetIs
<1>3. QED
  BY <1>1, <1>2

(* The data of a chunk that comes in a message of its own, ... *)
LEMMA LatentTakes ==
    ASSUME NEW s \in Sockets, NEW x, s.q # << >>, Head(s.q).off = 0, Head(s.q).len = 2,
           s.d.pos = 0
    PROVE  Drained(LatentRecv(s), x) = [q |-> Tail(s.q), d |-> Fresh, datagram |-> s.datagram]
<1> DEFINE f == Fill(s, 1)
           e == Decode(f, 1)
<1>1. /\ f \in Sockets /\ f.q = s.q /\ f.datagram = s.datagram
      /\ f.d.have /\ f.d.pos = 0
  BY FillSock
<1> HIDE DEF f
<1>2. /\ e \in Sockets /\ e.q = s.q /\ e.datagram = s.datagram
      /\ e.d.have /\ e.d.pos = 1
  <2>1. /\ Decode(f, 1) \in Sockets /\ Decode(f, 1).q = f.q
        /\ Decode(f, 1).datagram = f.datagram
        /\ Decode(f, 1).d.have = f.d.have /\ Decode(f, 1).d.pos = f.d.pos + 1
    BY <1>1, DecodeSock
  <2>2. f.d.pos + 1 = 1
    BY <1>1
  <2>3. e.d.have /\ e.d.pos = 1
    BY <1>1, <2>1, <2>2
  <2>4. QED
    BY <1>1, <2>1, <2>3
<1>3. LatentRecv(s) = e
  BY DEF LatentRecv, f
<1> HIDE DEF e
<1>4. QED
  BY <1>2, <1>3, DrainTakes

(* What a reader finds that is not ended and has a message. *)
LEMMA ReaderFinds ==
    ASSUME RecordsInv, NEW r \in Reader, r \in Node => at[r] # "ended", input[r] # << >>
    PROVE  /\ StateOf(r) \in Sockets /\ StateOf(r).q = input[r]
           /\ (StateOf(r).datagram <=> r = Mcast) /\ StateOf(r).d = Fresh
           /\ StateOf(r).d.pos = 0 /\ StateOf(r).d.bytes = 0
           /\ Head(input[r]).off = 0
           /\ r \in Node => Head(input[r]) \in Sent
           /\ r = Mcast => Head(input[r]) \in Datagrams
<1>1. Sent \subseteq Messages /\ Datagrams \subseteq Messages
  <2>1. ASSUME NEW kind \in Kinds, NEW x \in Item \cup {NoItem}
        PROVE  Record(kind, x) \in Messages
    BY DEF Record, Messages, Item, NoItem
  <2>2. ASSUME NEW x \in Item PROVE Datagram(x) \in Messages
    BY DEF Datagram, Messages, Item, Kinds
  <2>3. QED
    BY <2>1, <2>2 DEF Sent, Datagrams
<1>2. \A m \in Sent \cup Datagrams : m.off = 0
  BY DEF Sent, Datagrams, Record, Datagram
<1>3. r \in Node => input[r] \in Seq(Sent) /\ Head(input[r]) \in Sent
  BY DEF RecordsInv, SockInv
<1>4. r = Mcast => input[r] \in Seq(Datagrams) /\ Head(input[r]) \in Datagrams
  BY DEF RecordsInv, SockInv
<1>5. input[r] \in Seq(Messages)
  <2>1. \A S, T : S \subseteq T => Seq(S) \subseteq Seq(T)
    OBVIOUS
  <2>2. CASE r \in Node
    BY <1>1, <1>3, <2>1, <2>2
  <2>3. CASE r = Mcast
    BY <1>1, <1>4, <2>1, <2>3
  <2>4. QED
    BY <2>2, <2>3 DEF Reader
<1>6. dec[r] = Fresh /\ Fresh \in Decoders
  BY DEF RecordsInv, SockInv, Fresh, Decoders
<1>7. StateOf(r) \in Sockets
  BY <1>5, <1>6 DEF StateOf, Sockets
<1>8. StateOf(r).q = input[r] /\ (StateOf(r).datagram <=> r = Mcast) /\ StateOf(r).d = Fresh
  BY <1>6 DEF StateOf
<1>9. Fresh.pos = 0 /\ Fresh.bytes = 0
  BY DEF Fresh
<1>10. QED
  BY <1>2, <1>3, <1>4, <1>7, <1>8, <1>9 DEF Reader

(* ... and that of a datagram. *)
LEMMA McastTakes ==
    ASSUME RecordsInv, NEW x \in Item, input[Mcast] # << >>
    PROVE  /\ Clear(McastRecv(x)).q = Tail(input[Mcast]) /\ Clear(McastRecv(x)).d = Fresh
           /\ Clear(Drained(McastRecv(x), x)).q = Tail(input[Mcast])
           /\ Clear(Drained(McastRecv(x), x)).d = Fresh
<1> DEFINE s == StateOf(Mcast)
           f == Fill(s, 1)
           e == Decode(f, 1)
           n == IF IsChunk(x) THEN 1 ELSE 0
           g == Fill(e, n)
           m == Decode(g, 1)
<1>1. /\ s \in Sockets /\ s.q = input[Mcast] /\ s.datagram /\ s.d.pos = 0
      /\ Head(s.q).off = 0
  BY ReaderFinds DEF Reader, Node, Mcast, ShippingNode, ReceivingNode
<1> HIDE DEF s
<1>2. f \in Sockets /\ f.q = s.q /\ f.datagram /\ f.d.have /\ f.d.pos = 0
  BY <1>1, FillSock
<1> HIDE DEF f
<1>3. e \in Sockets /\ e.q = s.q /\ e.datagram /\ e.d.pos \in Nat
  <2>1. e \in Sockets /\ e.q = f.q /\ e.datagram = f.datagram /\ e.d.pos = f.d.pos + 1
    BY <1>2, DecodeSock
  <2>2. f.d.pos + 1 \in Nat
    BY <1>2
  <2>3. QED
    BY <1>2, <2>1, <2>2
<1> HIDE DEF e
<1>4. n \in Nat
  OBVIOUS
<1> HIDE DEF n
<1>5. g \in Sockets /\ g.q = s.q /\ g.datagram /\ g.d.have /\ g.d.pos \in Nat
  BY <1>1, <1>3, <1>4, FillSock
<1> HIDE DEF g
<1>6. m \in Sockets /\ m.q = s.q /\ m.datagram /\ m.d.have /\ m.d.pos \in Nat
  <2>1. /\ m \in Sockets /\ m.q = g.q /\ m.datagram = g.datagram
        /\ m.d.have = g.d.have /\ m.d.pos = g.d.pos + 1
    BY <1>5, DecodeSock
  <2>2. g.d.pos + 1 \in Nat
    BY <1>5
  <2>3. QED
    BY <1>5, <2>1, <2>2
<1>7. McastRecv(x) = m
  BY DEF McastRecv, s, f, e, n, g
<1> HIDE DEF m
<1> DEFINE t == [q |-> Tail(s.q), d |-> Fresh, datagram |-> m.datagram]
<1>8. Clear(m) = t /\ Drained(m, x) = t
  BY <1>1, <1>6, ClearSock, DrainTakes
<1>9. t \in Sockets /\ t.d = Fresh /\ t.q = Tail(s.q)
  <2>1. Tail(s.q) \in Seq(Messages) /\ Fresh \in Decoders /\ m.datagram \in BOOLEAN
    BY <1>1, <1>6 DEF Sockets, Fresh, Decoders
  <2>2. QED
    BY <2>1 DEF Sockets
<1> HIDE DEF t
<1>10. Clear(t) = t
  BY <1>9, ClearAgain
<1>11. QED
  BY <1>1, <1>7, <1>8, <1>9, <1>10

(* Of what has arrived nothing has been read. *)
LEMMA TakenFollows == RecordsInv => RecordsAreTaken
<1>1. \A m \in Sent \cup Datagrams : m.off = 0
  BY DEF Sent, Datagrams, Record, Datagram
<1>2. ASSUME SockInv, NEW r \in Reader, NEW i \in DOMAIN input[r]
      PROVE  input[r][i].off = 0
  <2>1. CASE r \in Node
    BY <1>1, <1>2, <2>1 DEF SockInv
  <2>2. CASE r = Mcast
    BY <1>1, <1>2, <2>2 DEF SockInv
  <2>3. QED
    BY <2>1, <2>2 DEF Reader
<1>3. QED
  BY <1>2 DEF RecordsInv, RecordsAreTaken, SockInv

(* A step in which one reader takes its message. *)
LEMMA TakesOne ==
    ASSUME RecordsInv, NEW r \in Reader, r \in Node => at[r] # "ended", input[r] # << >>,
           NEW s, s.q = Tail(input[r]), s.d = Fresh, Becomes(r, s), IsTaken(r),
           \A n \in Node : at'[n] # "ended" => at[n] # "ended"
    PROVE  SockInv'
<1>1. SockInv
  BY DEF RecordsInv
<1>2. /\ input' = [input EXCEPT ![r] = Tail(input[r])] /\ dec' = [dec EXCEPT ![r] = Fresh]
      /\ pending' = [pending EXCEPT ![r] = pending[r] - 1]
  BY DEF Becomes, IsTaken
<1>3. /\ r \in Node => Tail(input[r]) \in Seq(Sent) /\ Len(Tail(input[r])) = Len(input[r]) - 1
      /\ r = Mcast => Tail(input[r]) \in Seq(Datagrams) /\ Len(Tail(input[r])) = Len(input[r]) - 1
  BY <1>1 DEF SockInv
<1>4. pending[r] - 1 = Len(Tail(input[r])) /\ pending[r] - 1 \in Int
  BY <1>1, <1>3 DEF SockInv, Reader
<1>5. QED
  BY <1>1, <1>2, <1>3, <1>4 DEF SockInv, Reader

(* What a node sends is a message. *)
LEMMA SendTypes ==
    ASSUME OtherTypes, NEW n \in Node, NEW kind \in Kinds, NEW x \in Item \cup {NoItem},
           Send(n, Record(kind, x))
    PROVE  outgoing' \in [Node -> Seq(Sent)]
<1>1. Record(kind, x) \in Sent
  BY DEF Sent
<1>2. Remote(n) \in Node
  BY DEF Remote, Node
<1>3. Append(outgoing[Remote(n)], Record(kind, x)) \in Seq(Sent)
  BY <1>1, <1>2 DEF OtherTypes
<1>4. outgoing' = [outgoing EXCEPT ![Remote(n)] = Append(outgoing[Remote(n)], Record(kind, x))]
  BY DEF Send
<1>5. QED
  BY <1>2, <1>3, <1>4 DEF OtherTypes

(* A sequence without one of its elements. *)
LEMMA RemoveAtType ==
    ASSUME NEW S, NEW q \in Seq(S), NEW i \in DOMAIN q
    PROVE  RemoveAt(q, i) \in Seq(S)
<1>1. i \in 1 .. Len(q) /\ Len(q) \in Nat
  OBVIOUS
<1>2. SubSeq(q, 1, i - 1) \in Seq(S)
  BY <1>1
<1>3. SubSeq(q, i + 1, Len(q)) \in Seq(S)
  BY <1>1
<1>4. QED
  BY <1>2, <1>3 DEF RemoveAt

(* What waits to be announced is items. *)
LEMMA QueueTypes ==
    ASSUME OtherTypes, NEW n \in Node, NEW x \in Item, QueueNotice(n, x)
    PROVE  notices' \in [Node -> Seq(Item)]
<1>1. CASE ~IsUp(n)
  BY <1>1 DEF QueueNotice, OtherTypes
<1>2. CASE IsUp(n)
  <2>1. PICK k \in 0 .. Len(notices[n]) :
          notices' = [notices EXCEPT ![n] = Append(SubSeq(@, k + 1, Len(@)), x)]
    BY <1>2 DEF QueueNotice
  <2>2. notices[n] \in Seq(Item) /\ Len(notices[n]) \in Nat
    BY DEF OtherTypes
  <2>3. SubSeq(notices[n], k + 1, Len(notices[n])) \in Seq(Item)
    BY <2>2
  <2>4. QED
    BY <2>1, <2>3 DEF OtherTypes
<1>3. QED
  BY <1>1, <1>2

(* The item of a message or datagram that has come. *)
LEMMA ItemTypes ==
    ASSUME RecordsInv, NEW r \in Reader, r \in Node => at[r] # "ended", input[r] # << >>
    PROVE  /\ r \in Node => CurrentItem(r) \in Item \cup {NoItem}
           /\ r = Mcast => CurrentItem(r) \in Item
<1>1. \A m \in Sent : m.item \in Item \cup {NoItem}
  BY DEF Sent, Record
<1>2. \A m \in Datagrams : m.item \in Item
  BY DEF Datagrams, Datagram
<1>3. QED
  BY <1>1, <1>2, ReaderFinds DEF CurrentItem

(* What a node's channels take. *)
LEMMA NodeTakes ==
    ASSUME RecordsInv, NEW n \in Node, at[n] # "ended", input[n] # << >>
    PROVE  /\ Received(n).q = Tail(input[n]) /\ Received(n).d = Fresh
           /\ DiscardRest(Peek(StateOf(n))).q = Tail(input[n])
           /\ DiscardRest(Peek(StateOf(n))).d = Fresh
           /\ n \in Reader
<1> DEFINE s == StateOf(n)
           p == Peek(s)
<1>1. /\ s \in Sockets /\ s.q = input[n] /\ s.d.pos = 0 /\ s.d.bytes = 0
      /\ Head(s.q).off = 0 /\ n \in Reader
  BY ReaderFinds DEF Reader
<1> HIDE DEF s
<1>2. p \in Sockets /\ p.q = input[n] /\ p.d.have /\ p.d.pos = 0 /\ p.d.bytes = 0
  BY <1>1, PeekSock
<1>3. Received(n) = ChannelRecv(p)
  BY DEF Received, s
<1> HIDE DEF p
<1>4. Received(n).q = Tail(input[n]) /\ Received(n).d = Fresh
  <2>1. ChannelRecv(p) = [q |-> Tail(p.q), d |-> Fresh, datagram |-> p.datagram]
    BY <1>1, <1>2, ChannelTakes
  <2>2. QED
    BY <1>2, <1>3, <2>1
<1>5. /\ DiscardRest(p) \in Sockets /\ DiscardRest(p).q = Tail(input[n])
      /\ ~DiscardRest(p).d.have /\ DiscardRest(p).d.pos = 0 /\ DiscardRest(p).d.bytes = 0
  BY <1>1, <1>2, DiscardSock
<1>6. DiscardRest(p).d \in Decoders
  BY <1>5 DEF Sockets
<1>7. DiscardRest(p).d = Fresh
  BY <1>5, <1>6, FreshDecoder
<1>8. QED
  BY <1>1, <1>4, <1>5, <1>7 DEF p, s

(* A chunk that comes in a message is taken with its data. *)
LEMMA ItemTaken ==
    ASSUME RecordsInv, NEW x, x = CurrentItem(ReceivingNode), HasMessage(ReceivingNode, "content"),
           IsChunk(x)
    PROVE  /\ Drained(LatentRecv(Peek(StateOf(ReceivingNode))), x).q = Tail(input[ReceivingNode])
           /\ Drained(LatentRecv(Peek(StateOf(ReceivingNode))), x).d = Fresh
<1> DEFINE s == StateOf(ReceivingNode)
           p == Peek(s)
<1>1. ReceivingNode \in Node /\ ReceivingNode \in Reader
  BY DEF Node, Reader
<1>2. at[ReceivingNode] # "ended" /\ input[ReceivingNode] # << >>
  BY DEF HasMessage
<1>3. /\ s \in Sockets /\ s.q = input[ReceivingNode] /\ s.d.pos = 0
      /\ Head(s.q).off = 0 /\ Head(s.q) \in Sent
  BY <1>1, <1>2, ReaderFinds
<1>4. Head(s.q).len = 2
  <2>1. \A m \in Sent : m.kind = "content" /\ IsChunk(m.item) => m.len = 2
    BY DEF Sent, Record
  <2>2. Head(s.q).kind = "content" /\ Head(s.q).item = x
    BY <1>3 DEF HasMessage, CurrentItem
  <2>3. QED
    BY <1>3, <2>1, <2>2
<1> HIDE DEF s
<1>5. p \in Sockets /\ p.q = s.q /\ p.d.pos = 0
  BY <1>3, PeekSock
<1> HIDE DEF p
<1>6. Drained(LatentRecv(p), x) = [q |-> Tail(p.q), d |-> Fresh, datagram |-> p.datagram]
  BY <1>2, <1>3, <1>4, <1>5, LatentTakes
<1>7. Drained(LatentRecv(p), x).q = Tail(p.q) /\ Drained(LatentRecv(p), x).d = Fresh
  BY <1>6
<1>8. QED
  BY <1>3, <1>5, <1>7 DEF p, s

(* Something comes to a reader. *)
LEMMA OneComes ==
    ASSUME RecordsInv, NEW r \in Reader, NEW m, r \in Node => m \in Sent,
           r = Mcast => m \in Datagrams,
           input' = [input EXCEPT ![r] = Append(@, m)],
           pending' = [pending EXCEPT ![r] = @ + 1], dec' = dec, at' = at
    PROVE  SockInv'
<1>1. SockInv
  BY DEF RecordsInv
<1>2. /\ r \in Node => /\ Append(input[r], m) \in Seq(Sent)
                       /\ Len(Append(input[r], m)) = Len(input[r]) + 1
      /\ r = Mcast => /\ Append(input[r], m) \in Seq(Datagrams)
                      /\ Len(Append(input[r], m)) = Len(input[r]) + 1
  BY <1>1 DEF SockInv
<1>3. pending[r] + 1 \in Int
  BY <1>1 DEF SockInv
<1>4. QED
  BY <1>1, <1>2, <1>3 DEF SockInv, Reader

(* Every step keeps the types, ...                                         *)
LEMMA OtherTypesStep == RecordsInv /\ [RecordsNext]_recordVars => OtherTypes'
<1> SUFFICES ASSUME RecordsInv, [RecordsNext]_recordVars PROVE OtherTypes'
  OBVIOUS
<1>0. CASE UNCHANGED recordVars
  BY <1>0
  DEF RecordsInv, OtherTypes, SockInv, Places, MoveTo, Remote, Node,
      ShippingNode, ReceivingNode, CurrentItem, HasMessage, recordVars,
      sockVars, itemVars
<1>1. ASSUME NEW n \in Node, SendVersion(n) PROVE OtherTypes'
  <2>1. outgoing' \in [Node -> Seq(Sent)]
    BY <1>1, SendTypes DEF RecordsInv, SendVersion, Kinds
  <2>2. QED
    BY <1>1, <2>1 DEF RecordsInv, OtherTypes, SendVersion, itemVars, MoveTo, Places
<1>2. ASSUME NEW n \in Node, GetVersion(n) PROVE OtherTypes'
  BY <1>2, RecordsAssumption
  DEF RecordsInv, OtherTypes, SockInv, Places, MoveTo, Remote, Node,
      ShippingNode, ReceivingNode, CurrentItem, HasMessage, GetVersion,
      sockVars, itemVars
<1>3. ASSUME NEW n \in Node, ReachEof(n) PROVE OtherTypes'
  BY <1>3, RecordsAssumption
  DEF RecordsInv, OtherTypes, SockInv, Places, MoveTo, Remote, Node,
      ShippingNode, ReceivingNode, CurrentItem, HasMessage, ReachEof, sockVars,
      itemVars
<1>4. ASSUME NEW n \in Node, SendFails(n) PROVE OtherTypes'
  BY <1>4, RecordsAssumption
  DEF RecordsInv, OtherTypes, SockInv, Places, MoveTo, Remote, Node,
      ShippingNode, ReceivingNode, CurrentItem, HasMessage, SendFails,
      sockVars, itemVars
<1>5. ASSUME NEW n \in Node, DiscardUnknown(n) PROVE OtherTypes'
  BY <1>5, RecordsAssumption
  DEF RecordsInv, OtherTypes, SockInv, Places, MoveTo, Remote, Node,
      ShippingNode, ReceivingNode, CurrentItem, HasMessage, DiscardUnknown,
      sockVars, itemVars
<1>6. ASSUME NEW n \in Node, StartBacklog(n) PROVE OtherTypes'
  BY <1>6, RecordsAssumption
  DEF RecordsInv, OtherTypes, SockInv, Places, MoveTo, Remote, Node,
      ShippingNode, ReceivingNode, CurrentItem, HasMessage, StartBacklog,
      sockVars, itemVars
<1>7. ASSUME NEW n \in Node, IgnoreNotice(n) PROVE OtherTypes'
  BY <1>7, RecordsAssumption
  DEF RecordsInv, OtherTypes, SockInv, Places, MoveTo, Remote, Node,
      ShippingNode, ReceivingNode, CurrentItem, HasMessage, IgnoreNotice,
      sockVars, itemVars
<1>8. ASSUME NEW n \in Node, ReceiveNotice(n) PROVE OtherTypes'
  <2>1. CurrentItem(n) \in Item \cup {NoItem}
    BY <1>8, ItemTypes DEF ReceiveNotice, HasMessage, Reader
  <2>2. QED
    BY <1>8, <2>1 DEF RecordsInv, OtherTypes, ReceiveNotice, itemVars, MoveTo, Places
<1>9. ASSUME NEW n \in Node, ReceiveRequest(n) PROVE OtherTypes'
  <2>1. CurrentItem(n) \in Item \cup {NoItem}
    BY <1>9, ItemTypes DEF ReceiveRequest, HasMessage, Reader
  <2>2. QED
    BY <1>9, <2>1 DEF RecordsInv, OtherTypes, ReceiveRequest, itemVars, MoveTo, Places
<1>10. ASSUME NEW n \in Node, SendItem(n) PROVE OtherTypes'
  <2>1. at[n] \in Kinds /\ item[n] \in Item \cup {NoItem}
    BY <1>10 DEF RecordsInv, OtherTypes, SendItem, Kinds
  <2>2. outgoing' \in [Node -> Seq(Sent)]
    BY <1>10, <2>1, SendTypes DEF RecordsInv, SendItem
  <2>3. QED
    BY <1>10, <2>2 DEF RecordsInv, OtherTypes, SendItem, itemVars, MoveTo, Places
<1>11. ASSUME NEW n \in Node, Announce(n) PROVE OtherTypes'
  <2>1. Head(notices[n]) \in Item /\ Tail(notices[n]) \in Seq(Item)
    BY <1>11 DEF RecordsInv, OtherTypes, Announce, Announces
  <2>2. outgoing' \in [Node -> Seq(Sent)]
    BY <1>11, <2>1, SendTypes DEF RecordsInv, Announce, Kinds
  <2>3. notices' \in [Node -> Seq(Item)]
    BY <1>11, <2>1 DEF RecordsInv, OtherTypes, Announce
  <2>4. QED
    BY <1>11, <2>2, <2>3 DEF RecordsInv, OtherTypes, Announce
<1>12. ASSUME NEW n \in Node, SendStrange(n) PROVE OtherTypes'
  <2>1. outgoing' \in [Node -> Seq(Sent)]
    BY <1>12, SendTypes DEF RecordsInv, SendStrange, Kinds
  <2>2. QED
    BY <1>12, <2>1 DEF RecordsInv, OtherTypes, SendStrange, itemVars, MoveTo, Places
<1>13. ASSUME NEW n \in Node, Close(n) PROVE OtherTypes'
  BY <1>13, RecordsAssumption
  DEF RecordsInv, OtherTypes, SockInv, Places, MoveTo, Remote, Node,
      ShippingNode, ReceivingNode, CurrentItem, HasMessage, Close, sockVars,
      itemVars
<1>14. ASSUME SkipBacklog PROVE OtherTypes'
  BY <1>14, RecordsAssumption
  DEF RecordsInv, OtherTypes, SockInv, Places, MoveTo, Remote, Node,
      ShippingNode, ReceivingNode, CurrentItem, HasMessage, SkipBacklog,
      sockVars, itemVars
<1>15. ASSUME RequestBacklog PROVE OtherTypes'
  <2>1. outgoing' \in [Node -> Seq(Sent)]
    BY <1>15, SendTypes DEF RecordsInv, RequestBacklog, Node, Kinds
  <2>2. QED
    BY <1>15, <2>1 DEF RecordsInv, OtherTypes, RequestBacklog, itemVars, MoveTo, Places
<1>16. ASSUME ReceiveItem PROVE OtherTypes'
  BY <1>16, RecordsAssumption
  DEF RecordsInv, OtherTypes, SockInv, Places, MoveTo, Remote, Node,
      ShippingNode, ReceivingNode, CurrentItem, HasMessage, ReceiveItem,
      sockVars, itemVars
<1>17. ASSUME McastItem PROVE OtherTypes'
  BY <1>17, RecordsAssumption
  DEF RecordsInv, OtherTypes, SockInv, Places, MoveTo, Remote, Node,
      ShippingNode, ReceivingNode, CurrentItem, HasMessage, McastItem,
      sockVars, itemVars
<1>18. ASSUME AddProduct PROVE OtherTypes'
  BY <1>18, RecordsAssumption
  DEF RecordsInv, OtherTypes, SockInv, Places, MoveTo, Remote, Node,
      ShippingNode, ReceivingNode, CurrentItem, HasMessage, AddProduct,
      sockVars, itemVars
<1>19. ASSUME NotifySet PROVE OtherTypes'
  <2>1. shipped - NumItems \in Item /\ shipped' \in 0 .. 2 * NumItems + 1
    BY <1>19, RecordsAssumption DEF NotifySet, Item
  <2>2. notices' \in [Node -> Seq(Item)]
    BY <1>19, <2>1, QueueTypes DEF RecordsInv, NotifySet, Node
  <2>3. QED
    BY <1>19, <2>1, <2>2 DEF RecordsInv, OtherTypes, NotifySet, sockVars
<1>20. ASSUME McastDrop PROVE OtherTypes'
  BY <1>20, RecordsAssumption
  DEF RecordsInv, OtherTypes, SockInv, Places, MoveTo, Remote, Node,
      ShippingNode, ReceivingNode, CurrentItem, HasMessage, McastDrop,
      sockVars, itemVars
<1>21. ASSUME McastReceive PROVE OtherTypes'
  <2>1. CurrentItem(Mcast) \in Item
    BY <1>21, ItemTypes
    DEF McastReceive, Reader, Node, Mcast, ShippingNode, ReceivingNode
  <2>2. notices' \in [Node -> Seq(Item)]
    BY <1>21, <2>1, QueueTypes DEF RecordsInv, OtherTypes, McastReceive, Node
  <2>3. QED
    BY <1>21, <2>2 DEF RecordsInv, OtherTypes, McastReceive
<1>22. ASSUME NEW n \in Node, NEW i \in DOMAIN outgoing[n], Deliver(n, i) PROVE
    OtherTypes'
  <2>1. RemoveAt(outgoing[n], i) \in Seq(Sent)
    BY <1>22, RemoveAtType DEF RecordsInv, OtherTypes
  <2>2. QED
    BY <1>22, <2>1 DEF RecordsInv, OtherTypes, Deliver, itemVars
<1>23. ASSUME NEW n \in Node, NEW i \in DOMAIN outgoing[n], Expire(n, i) PROVE
    OtherTypes'
  <2>1. RemoveAt(outgoing[n], i) \in Seq(Sent)
    BY <1>23, RemoveAtType DEF RecordsInv, OtherTypes
  <2>2. QED
    BY <1>23, <2>1 DEF RecordsInv, OtherTypes, Expire, itemVars
<1>24. QED
  BY <1>0, <1>1, <1>2, <1>3, <1>4, <1>5, <1>6, <1>7, <1>8, <1>9, <1>10, <1>11,
     <1>12, <1>13, <1>14, <1>15, <1>16, <1>17, <1>18, <1>19, <1>20, <1>21,
     <1>22, <1>23
  DEF RecordsNext, ReceiverStep, NetStep

(* ... and leaves a socket and its decoder as the next message must find   *)
(* them.                                                                   *)
LEMMA SockInvStep == RecordsInv /\ [RecordsNext]_recordVars => SockInv'
<1> SUFFICES ASSUME RecordsInv, [RecordsNext]_recordVars PROVE SockInv'
  OBVIOUS
<1>0. CASE UNCHANGED recordVars
  BY <1>0
  DEF RecordsInv, SockInv, OtherTypes, MoveTo, Reader, recordVars, sockVars,
      itemVars
<1>1. ASSUME NEW n \in Node, SendVersion(n) PROVE SockInv'
  BY <1>1, RecordsAssumption
  DEF RecordsInv, SockInv, OtherTypes, MoveTo, Reader, SendVersion, Send,
      sockVars, itemVars
<1>2. ASSUME NEW n \in Node, GetVersion(n) PROVE SockInv'
  <2>1. at[n] # "ended" /\ input[n] # << >>
    BY <1>2 DEF GetVersion
  <2>2. CASE Head(input[n]).kind = "version"
    <3>1. Becomes(n, Received(n)) /\ IsTaken(n)
      BY <1>2, <2>2 DEF GetVersion, Received, IsTaken
    <3>2. \A k \in Node : at'[k] # "ended" => at[k] # "ended"
      BY <1>2, <2>1, <2>2 DEF RecordsInv, OtherTypes, GetVersion, MoveTo
    <3>3. QED
      BY <1>2, <2>1, <3>1, <3>2, NodeTakes, TakesOne
  <2>3. CASE Head(input[n]).kind # "version"
    <3>1. Peek(StateOf(n)).q = input[n] /\ n \in Reader
      BY <2>1, ReaderFinds, PeekSock DEF Reader
    <3>2. /\ input' = [input EXCEPT ![n] = input[n]] /\ pending' = pending
          /\ dec' = [dec EXCEPT ![n] = Peek(StateOf(n)).d] /\ at' = [at EXCEPT ![n] = "ended"]
      BY <1>2, <2>3, <3>1 DEF GetVersion, Becomes, MoveTo
    <3>3. QED
      BY <3>1, <3>2 DEF RecordsInv, SockInv, OtherTypes, Reader
  <2>4. QED
    BY <2>2, <2>3
<1>3. ASSUME NEW n \in Node, ReachEof(n) PROVE SockInv'
  BY <1>3, RecordsAssumption
  DEF RecordsInv, SockInv, OtherTypes, MoveTo, Reader, ReachEof, sockVars,
      itemVars
<1>4. ASSUME NEW n \in Node, SendFails(n) PROVE SockInv'
  BY <1>4, RecordsAssumption
  DEF RecordsInv, SockInv, OtherTypes, MoveTo, Reader, SendFails, sockVars,
      itemVars
<1>5. ASSUME NEW n \in Node, DiscardUnknown(n) PROVE SockInv'
  <2>1. at[n] # "ended" /\ input[n] # << >>
    BY <1>5 DEF DiscardUnknown, HasMessage
  <2>2. Becomes(n, DiscardRest(Peek(StateOf(n)))) /\ IsTaken(n)
    BY <1>5 DEF DiscardUnknown
  <2>3. \A k \in Node : at'[k] # "ended" => at[k] # "ended"
    BY <1>5, <2>1 DEF RecordsInv, OtherTypes, DiscardUnknown, MoveTo
  <2>4. QED
    BY <1>5, <2>1, <2>2, <2>3, NodeTakes, TakesOne
<1>6. ASSUME NEW n \in Node, StartBacklog(n) PROVE SockInv'
  <2>1. at[n] # "ended" /\ input[n] # << >>
    BY <1>6 DEF StartBacklog, HasMessage
  <2>2. Becomes(n, Received(n)) /\ IsTaken(n)
    BY <1>6 DEF StartBacklog
  <2>3. \A k \in Node : at'[k] # "ended" => at[k] # "ended"
    BY <1>6, <2>1 DEF RecordsInv, OtherTypes, StartBacklog, MoveTo
  <2>4. QED
    BY <1>6, <2>1, <2>2, <2>3, NodeTakes, TakesOne
<1>7. ASSUME NEW n \in Node, IgnoreNotice(n) PROVE SockInv'
  <2>1. at[n] # "ended" /\ input[n] # << >>
    BY <1>7 DEF IgnoreNotice, HasMessage
  <2>2. Becomes(n, Received(n)) /\ IsTaken(n)
    BY <1>7 DEF IgnoreNotice
  <2>3. \A k \in Node : at'[k] # "ended" => at[k] # "ended"
    BY <1>7, <2>1 DEF RecordsInv, OtherTypes, IgnoreNotice, MoveTo
  <2>4. QED
    BY <1>7, <2>1, <2>2, <2>3, NodeTakes, TakesOne
<1>8. ASSUME NEW n \in Node, ReceiveNotice(n) PROVE SockInv'
  <2>1. at[n] # "ended" /\ input[n] # << >>
    BY <1>8 DEF ReceiveNotice, HasMessage
  <2>2. Becomes(n, Received(n)) /\ IsTaken(n)
    BY <1>8 DEF ReceiveNotice
  <2>3. \A k \in Node : at'[k] # "ended" => at[k] # "ended"
    BY <1>8, <2>1 DEF RecordsInv, OtherTypes, ReceiveNotice, MoveTo
  <2>4. QED
    BY <1>8, <2>1, <2>2, <2>3, NodeTakes, TakesOne
<1>9. ASSUME NEW n \in Node, ReceiveRequest(n) PROVE SockInv'
  <2>1. at[n] # "ended" /\ input[n] # << >>
    BY <1>9 DEF ReceiveRequest, HasMessage
  <2>2. Becomes(n, Received(n)) /\ IsTaken(n)
    BY <1>9 DEF ReceiveRequest
  <2>3. \A k \in Node : at'[k] # "ended" => at[k] # "ended"
    BY <1>9, <2>1 DEF RecordsInv, OtherTypes, ReceiveRequest, MoveTo
  <2>4. QED
    BY <1>9, <2>1, <2>2, <2>3, NodeTakes, TakesOne
<1>10. ASSUME NEW n \in Node, SendItem(n) PROVE SockInv'
  BY <1>10, RecordsAssumption
  DEF RecordsInv, SockInv, OtherTypes, MoveTo, Reader, SendItem, Send,
      sockVars, itemVars
<1>11. ASSUME NEW n \in Node, Announce(n) PROVE SockInv'
  BY <1>11, RecordsAssumption
  DEF RecordsInv, SockInv, OtherTypes, MoveTo, Reader, Announce, Send,
      sockVars, itemVars
<1>12. ASSUME NEW n \in Node, SendStrange(n) PROVE SockInv'
  BY <1>12, RecordsAssumption
  DEF RecordsInv, SockInv, OtherTypes, MoveTo, Reader, SendStrange, Send,
      sockVars, itemVars
<1>13. ASSUME NEW n \in Node, Close(n) PROVE SockInv'
  BY <1>13, RecordsAssumption
  DEF RecordsInv, SockInv, OtherTypes, MoveTo, Reader, Close, sockVars,
      itemVars
<1>14. ASSUME SkipBacklog PROVE SockInv'
  BY <1>14, RecordsAssumption
  DEF RecordsInv, SockInv, OtherTypes, MoveTo, Reader, SkipBacklog, sockVars,
      itemVars
<1>15. ASSUME RequestBacklog PROVE SockInv'
  BY <1>15, RecordsAssumption
  DEF RecordsInv, SockInv, OtherTypes, MoveTo, Reader, RequestBacklog, Send,
      sockVars, itemVars
<1>16. ASSUME ReceiveItem PROVE SockInv'
  <2> DEFINE r == ReceivingNode
             x == CurrentItem(r)
             s == IF IsChunk(x) THEN Drained(LatentRecv(Peek(StateOf(r))), x)
                                ELSE Received(r)
  <2>1. r \in Node /\ at[r] # "ended" /\ input[r] # << >> /\ HasMessage(r, "content")
    BY <1>16 DEF ReceiveItem, HasMessage, Node
  <2>2. Becomes(r, s) /\ IsTaken(r)
    BY <1>16 DEF ReceiveItem, Received
  <2>3. s.q = Tail(input[r]) /\ s.d = Fresh /\ r \in Reader
    BY <2>1, NodeTakes, ItemTaken
  <2>4. at' = at
    BY <1>16 DEF ReceiveItem
  <2> HIDE DEF s, r
  <2>5. QED
    BY <2>1, <2>2, <2>3, <2>4, TakesOne
<1>17. ASSUME McastItem PROVE SockInv'
  <2>1. CASE UNCHANGED <<input, pending>>
    BY <1>17, <2>1 DEF RecordsInv, SockInv, McastItem
  <2>2. CASE /\ input' = [input EXCEPT ![Mcast] = Append(@, Datagram(shipped + 1))]
             /\ pending' = [pending EXCEPT ![Mcast] = @ + 1]
    <3>1. Datagram(shipped + 1) \in Datagrams
      <4>1. shipped + 1 \in Item
        BY <1>17, RecordsAssumption DEF RecordsInv, OtherTypes, McastItem, Item
      <4>2. QED
        BY <4>1 DEF Datagrams
    <3>2. Mcast \in Reader /\ Mcast \notin Node /\ dec' = dec /\ at' = at
      BY <1>17 DEF McastItem, Reader, Node, Mcast, ShippingNode, ReceivingNode
    <3>3. QED
      BY <2>2, <3>1, <3>2, OneComes
  <2>3. QED
    BY <1>17, <2>1, <2>2 DEF McastItem
<1>18. ASSUME AddProduct PROVE SockInv'
  BY <1>18, RecordsAssumption
  DEF RecordsInv, SockInv, OtherTypes, MoveTo, Reader, AddProduct, sockVars,
      itemVars
<1>19. ASSUME NotifySet PROVE SockInv'
  BY <1>19, RecordsAssumption
  DEF RecordsInv, SockInv, OtherTypes, MoveTo, Reader, NotifySet, sockVars,
      itemVars
<1>20. ASSUME McastDrop PROVE SockInv'
  <2>1. CurrentItem(Mcast) \in Item /\ Mcast \in Reader /\ Mcast \notin Node
    BY <1>20, ItemTypes
    DEF McastDrop, Reader, Node, Mcast, ShippingNode, ReceivingNode
  <2>2. /\ Becomes(Mcast, Clear(McastRecv(CurrentItem(Mcast)))) /\ IsTaken(Mcast)
        /\ input[Mcast] # << >> /\ at' = at
    BY <1>20 DEF McastDrop
  <2>3. QED
    BY <2>1, <2>2, McastTakes, TakesOne
<1>21. ASSUME McastReceive PROVE SockInv'
  <2> DEFINE x == CurrentItem(Mcast)
             m == McastRecv(x)
             s == Clear(IF IsChunk(x) THEN Drained(m, x) ELSE m)
  <2>1. x \in Item /\ Mcast \in Reader /\ Mcast \notin Node
    BY <1>21, ItemTypes
    DEF McastReceive, Reader, Node, Mcast, ShippingNode, ReceivingNode
  <2>2. Becomes(Mcast, s) /\ IsTaken(Mcast) /\ input[Mcast] # << >> /\ at' = at
    BY <1>21 DEF McastReceive
  <2>3. s.q = Tail(input[Mcast]) /\ s.d = Fresh
    BY <2>1, <2>2, McastTakes
  <2> HIDE DEF s
  <2>4. QED
    BY <2>1, <2>2, <2>3, TakesOne
<1>22. ASSUME NEW n \in Node, NEW i \in DOMAIN outgoing[n], Deliver(n, i) PROVE
    SockInv'
  <2>1. outgoing[n][i] \in Sent /\ n \in Reader /\ n # Mcast
    BY DEF RecordsInv, OtherTypes, Reader, Node, Mcast, ShippingNode, ReceivingNode
  <2>2. QED
    BY <1>22, <2>1, OneComes DEF Deliver
<1>23. ASSUME NEW n \in Node, NEW i \in DOMAIN outgoing[n], Expire(n, i) PROVE
    SockInv'
  BY <1>23, RecordsAssumption
  DEF RecordsInv, SockInv, OtherTypes, MoveTo, Reader, Expire, sockVars,
      itemVars
<1>24. QED
  BY <1>0, <1>1, <1>2, <1>3, <1>4, <1>5, <1>6, <1>7, <1>8, <1>9, <1>10, <1>11,
     <1>12, <1>13, <1>14, <1>15, <1>16, <1>17, <1>18, <1>19, <1>20, <1>21,
     <1>22, <1>23
  DEF RecordsNext, ReceiverStep, NetStep

(* The invariant holds at first, ... *)
LEMMA RecordsInitInv == RecordsInit => RecordsInv
<1> SUFFICES ASSUME RecordsInit PROVE RecordsInv
  OBVIOUS
<1>1. OtherTypes
  BY RecordsAssumption DEF RecordsInit, OtherTypes, Places, NoItem
<1>2. SockInv
  BY DEF RecordsInit, SockInv, Reader
<1>3. QED
  BY <1>1, <1>2 DEF RecordsInv

(* Every message is completely consumed: when a reader looks for the next, *)
(* nothing of the last is left in its socket or decoder, whichever of the  *)
(* store, the chunk's destructor and the channel has to take it            *)
(* (comms/mcast/McastReceiver.cpp:91).                                     *)
THEOREM MessagesAreConsumed == RecordsSpec => []RecordsAreTaken
<1>1. RecordsInv /\ [RecordsNext]_recordVars => RecordsInv'
  BY OtherTypesStep, SockInvStep DEF RecordsInv
<1>2. QED
  BY RecordsInitInv, <1>1, TakenFollows, PTL DEF RecordsSpec

=============================================================================
