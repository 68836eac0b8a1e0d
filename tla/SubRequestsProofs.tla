------------------------- MODULE SubRequestsProofs -------------------------
(***************************************************************************)
(* Proofs about SubRequests, for any peers and chunks.  The invariants the *)
(* runs check are not inductive by themselves: that an alternative has not *)
(* requested the chunk depends on each remote announcing it only once and  *)
(* on what reassignPending() is doing, and that two peers do not ask for   *)
(* the same chunk depends on the record the bookkeeper keeps of both.      *)
(***************************************************************************)
EXTENDS SubRequests, ListsProofs

(* Peers whose requests reassignPending() has not begun to give away. *)
Alive(p) == status[p] \in {"new", "accepted", "running", "inactive", "failed"}

(* The notice thread is about to ask the bookkeeper about the chunk. *)
Asking(p, c) == note[p].at = "checked" /\ note[p].chunk = c

(* stopped() owns its local state while it holds the mutex. *)
LockInv ==
    /\ \A p \in Peer : status[p] = "stopping" => mutex = p
    /\ (\A p \in Peer : status[p] # "stopping") => todo = {} /\ moving = NoMove
    /\ \A p \in Peer :
          note[p].at = "checked" /\ note[p].chunk \in Segment => mutex = p

(* A handler only runs, and a queue only holds something, in peer(). *)
ThreadInv ==
    \A p \in Peer :
        /\ note[p].at \in {"checked", "request"} =>
              /\ status[p] = "running"
              /\ note[p].chunk \in noticed[p]
        /\ data[p].at \in {"received", "saved"} =>
              status[p] = "running" /\ data[p].chunk \in Chunk
        /\ status[p] # "running" => requestQueue[p] = <<>> /\ onWire[p] = {}
        /\ status[p] = "running" => p \in Known
        /\ status[p] \in {"new", "accepted"} => p \notin Known

(* A peer is offered a chunk once: it then waits to ask the bookkeeper, is *)
(* an alternative, or is responsible for the chunk.                        *)
OfferInv ==
    \A c \in Chunk :
        /\ Alternatives(c) \subseteq Known
        /\ c \in DOMAIN altPeers => Distinct(altPeers[c])
        /\ \A p \in Peer :
            /\ p \in Alternatives(c) => c \notin Requested(p)
            /\ p \in Alternatives(c) \/ c \in Requested(p) =>
                  c \in noticed[p] /\ ~Asking(p, c)

(* A chunk has one live peer that is responsible for it, and the chunk is  *)
(* then in the map of alternatives.                                        *)
OwnerInv ==
    \A c \in Chunk, p \in Peer : Alive(p) /\ c \in Requested(p) =>
        /\ c \in DOMAIN altPeers
        /\ \A q \in Peer : Alive(q) /\ c \in Requested(q) => q = p

(* What reassignPending() still has to give away has no live owner. *)
TodoInv ==
    \A c \in todo :
        /\ c \in DOMAIN altPeers
        /\ \A p \in Peer : Alive(p) => c \notin Requested(p)
        /\ \A p \in Peer : status[p] = "stopping" => c \in Requested(p)

MoveInv ==
    moving.at # "none" =>
        /\ moving.chunk \in (Chunk \cap DOMAIN altPeers) \ todo
        /\ moving.peer \in Peer \cap Known
        /\ status[moving.peer] # "stopping"
        /\ moving.peer \notin Alternatives(moving.chunk)
        /\ moving.chunk \notin Requested(moving.peer)
        /\ moving.chunk \in noticed[moving.peer]
        /\ ~Asking(moving.peer, moving.chunk)
        /\ \A p \in Peer : Alive(p) => moving.chunk \notin Requested(p)

(* No chunk is under way twice on one connection. *)
OnceInv ==
    \A p \in Peer :
        /\ Distinct(requestQueue[p])
        /\ onWire[p] \cap Elems(requestQueue[p]) = {}
        /\ note[p].at = "request" =>
              note[p].chunk \notin onWire[p] \cup Elems(requestQueue[p])

(* The callbacks name the containing peer, and the rest. *)
IInv ==
    /\ ~Elision
    /\ TypeOK
    /\ LockInv
    /\ ThreadInv
    /\ OfferInv
    /\ OwnerInv
    /\ TodoInv
    /\ MoveInv
    /\ OnceInv
    /\ RequestsAreRecorded

-----------------------------------------------------------------------------
(* What each bookkeeper method does to the two relations the invariants    *)
(* are about: who has requested a chunk, and who is an alternative for it. *)
LEMMA BkAddEffect ==
  ASSUME BookkeeperTypeOK, NEW p \in Peer, BkAdd(p)
  PROVE  /\ BookkeeperTypeOK'
         /\ Known' = Known \cup {p}
         /\ altPeers' = altPeers
         /\ \A c \in Chunk : Alternatives(c)' = Alternatives(c)
         /\ \A q \in Peer : Requested(q)' = Requested(q)
BY DEF BookkeeperTypeOK, BkAdd, Known, Requested, Alternatives

(* shouldRequest() says yes: the peer is made responsible for the chunk,   *)
(* which gets an empty list of alternatives.                               *)
LEMMA ShouldRequestTrueEffect ==
  ASSUME BookkeeperTypeOK, NEW p \in Peer, NEW c \in Chunk,
         ShouldRequestTrue(p, c)
  PROVE  /\ BookkeeperTypeOK'
         /\ Known' = Known /\ p \in Known
         /\ c \notin DOMAIN altPeers
         /\ DOMAIN altPeers' = DOMAIN altPeers \cup {c}
         /\ altPeers'[c] = <<>>
         /\ \A d \in DOMAIN altPeers : altPeers'[d] = altPeers[d]
         /\ \A d \in Chunk : Alternatives(d)' = Alternatives(d)
         /\ Requested(p)' = Requested(p) \cup {c}
         /\ \A q \in Peer \ {p} : Requested(q)' = Requested(q)
<1>1. Elems(<<>>) = {}
  BY DEF Elems
<1>2. <<>> \in Seq(Peer)
  OBVIOUS
<1>3. p \in Known /\ c \notin DOMAIN altPeers
  BY DEF ShouldRequestTrue, ShouldRequestThrows
<1>4. BookkeeperTypeOK'
  BY <1>2, <1>3 DEF BookkeeperTypeOK, ShouldRequestTrue, Known
<1> QED
  BY <1>1, <1>3, <1>4 DEF BookkeeperTypeOK, ShouldRequestTrue, Known,
     Requested, Alternatives

(* shouldRequest() says no: the peer becomes the last alternative. *)
LEMMA ShouldRequestFalseEffect ==
  ASSUME BookkeeperTypeOK, NEW p \in Peer, NEW c \in Chunk,
         ShouldRequestFalse(p, c)
  PROVE  /\ BookkeeperTypeOK'
         /\ Known' = Known /\ c \notin Requested(p)
         /\ c \in DOMAIN altPeers
         /\ DOMAIN altPeers' = DOMAIN altPeers
         /\ altPeers'[c] = Append(altPeers[c], p)
         /\ \A d \in DOMAIN altPeers \ {c} : altPeers'[d] = altPeers[d]
         /\ Alternatives(c)' = Alternatives(c) \cup {p}
         /\ \A d \in Chunk \ {c} : Alternatives(d)' = Alternatives(d)
         /\ \A q \in Peer : Requested(q)' = Requested(q)
<1>1. altPeers[c] \in Seq(Peer) /\ c \in DOMAIN altPeers
  BY DEF BookkeeperTypeOK, ShouldRequestFalse
<1>2. Elems(Append(altPeers[c], p)) = Elems(altPeers[c]) \cup {p}
  BY <1>1, AppendElems
<1>3. Append(altPeers[c], p) \in Seq(Peer)
  BY <1>1, AppendElems
<1> QED
  BY <1>1, <1>2, <1>3 DEF BookkeeperTypeOK, ShouldRequestFalse,
     ShouldRequestThrows, Known, Requested, Alternatives

(* received(): the peer is no longer responsible, and the chunk has no     *)
(* alternatives any more.                                                  *)
LEMMA ReceivedTrueEffect ==
  ASSUME BookkeeperTypeOK, NEW p \in Peer, NEW c \in Chunk,
         ReceivedTrue(p, c)
  PROVE  /\ BookkeeperTypeOK'
         /\ Known' = Known /\ c \in Requested(p)
         /\ DOMAIN altPeers' = DOMAIN altPeers \ {c}
         /\ \A d \in DOMAIN altPeers' : altPeers'[d] = altPeers[d]
         /\ Alternatives(c)' = {}
         /\ \A d \in Chunk \ {c} : Alternatives(d)' = Alternatives(d)
         /\ Requested(p)' = Requested(p) \ {c}
         /\ \A q \in Peer \ {p} : Requested(q)' = Requested(q)
BY DEF BookkeeperTypeOK, ReceivedTrue, Known, Requested, Alternatives

(* popBestAlt() takes one peer off the alternatives and changes no         *)
(* responsibility.                                                         *)
LEMMA PopBestAltEffect ==
  ASSUME BookkeeperTypeOK, NEW c \in Chunk, HasAlt(c), PopBestAlt(c)
  PROVE  /\ BookkeeperTypeOK'
         /\ Known' = Known
         /\ BestAlt(c) \in Peer /\ BestAlt(c) \in Alternatives(c)
         /\ DOMAIN altPeers' = DOMAIN altPeers
         /\ \A d \in DOMAIN altPeers \ {c} : altPeers'[d] = altPeers[d]
         /\ Alternatives(c)' \subseteq Alternatives(c)
         /\ Distinct(altPeers[c]) =>
               Distinct(altPeers'[c]) /\ BestAlt(c) \notin Alternatives(c)'
         /\ \A d \in Chunk \ {c} : Alternatives(d)' = Alternatives(d)
         /\ \A q \in Peer : Requested(q)' = Requested(q)
<1>1. altPeers[c] \in Seq(Peer) /\ c \in DOMAIN altPeers /\ altPeers[c] # <<>>
  BY DEF BookkeeperTypeOK, HasAlt
<1> DEFINE s == altPeers[c]
<1>2. /\ Head(s) \in Peer /\ Tail(s) \in Seq(Peer)
      /\ Head(s) \in Elems(s)
      /\ Elems(Tail(s)) \subseteq Elems(s)
      /\ Distinct(s) => Distinct(Tail(s)) /\ Head(s) \notin Elems(Tail(s))
  BY <1>1, HeadTailElems
<1> QED
  BY <1>1, <1>2 DEF BookkeeperTypeOK, PopBestAlt, BestAlt, Known, Requested,
     Alternatives

(* requested() makes the peer responsible for the chunk. *)
LEMMA BkRequestedEffect ==
  ASSUME BookkeeperTypeOK, NEW p \in Peer, NEW c \in Chunk, BkRequested(p, c)
  PROVE  /\ BookkeeperTypeOK'
         /\ Known' = Known \cup {p}
         /\ altPeers' = altPeers
         /\ \A d \in Chunk : Alternatives(d)' = Alternatives(d)
         /\ Requested(p)' = Requested(p) \cup {c}
         /\ \A q \in Peer \ {p} : Requested(q)' = Requested(q)
BY DEF BookkeeperTypeOK, BkRequested, Known, Requested, Alternatives

(* erase() takes the peer off the books and out of every list. *)
LEMMA BkEraseEffect ==
  ASSUME BookkeeperTypeOK, NEW p \in Peer, BkErase(p)
  PROVE  /\ BookkeeperTypeOK'
         /\ Known' = Known \ {p}
         /\ DOMAIN altPeers' = DOMAIN altPeers
         /\ \A c \in DOMAIN altPeers :
               Distinct(altPeers[c]) => Distinct(altPeers'[c])
         /\ \A c \in Chunk : Alternatives(c)' \subseteq Alternatives(c) \ {p}
         /\ Requested(p)' = {}
         /\ \A q \in Peer \ {p} : Requested(q)' = Requested(q)
<1>1. \A c \in DOMAIN altPeers :
        /\ altPeers'[c] = Without(altPeers[c], p)
        /\ altPeers'[c] \in Seq(Peer)
        /\ Elems(altPeers'[c]) \subseteq Elems(altPeers[c]) \ {p}
        /\ Distinct(altPeers[c]) => Distinct(altPeers'[c])
  BY WithoutProperties DEF BookkeeperTypeOK, BkErase
<1> QED
  BY <1>1 DEF BookkeeperTypeOK, BkErase, Known, Requested, Alternatives

-----------------------------------------------------------------------------
(* Initial states *)
LEMMA InitIInv == Init /\ ~Elision => IInv
<1> SUFFICES ASSUME Init, ~Elision PROVE IInv
  OBVIOUS
<1>1. /\ Known = {} /\ DOMAIN altPeers = {}
      /\ \A p \in Peer : Requested(p) = {}
      /\ \A c \in Chunk : Alternatives(c) = {}
  BY DEF Init, BkInit, Known, Requested, Alternatives
<1>2. Elems(<<>>) = {} /\ Distinct(<<>>)
  BY DEF Elems, Distinct
<1>3. BookkeeperTypeOK
  BY <1>1 DEF Init, BkInit, BookkeeperTypeOK, Known
<1>4. TypeOK
  <2>1. Idle \in NoteThread /\ Idle \in DataThread
    BY DEF NoteThread, DataThread, Thread, Idle
  <2>2. NoMove \in Move
    BY DEF NoMove, Move
  <2>3. <<>> \in Seq(Chunk)
    OBVIOUS
  <2>4. mgrDone \in BOOLEAN
    BY DEF Init
  <2> QED
    BY <1>3, <2>1, <2>2, <2>3, <2>4 DEF Init, TypeOK, Status
<1>5. LockInv /\ ThreadInv /\ TodoInv /\ MoveInv
  BY <1>1 DEF Init, LockInv, ThreadInv, TodoInv, MoveInv, Idle, NoMove
<1>6. OfferInv /\ OwnerInv
  BY <1>1 DEF Init, OfferInv, OwnerInv
<1>7. OnceInv /\ RequestsAreRecorded
  BY <1>2 DEF Init, OnceInv, RequestsAreRecorded, InFlight, Idle, At
<1> QED
  BY <1>4, <1>5, <1>6, <1>7 DEF IInv

-----------------------------------------------------------------------------
(* Steps *)
LEMMA BkUnchanged ==
  ASSUME UNCHANGED bkVars
  PROVE  /\ Known' = Known /\ altPeers' = altPeers
         /\ \A c \in Chunk : Alternatives(c)' = Alternatives(c)
         /\ \A q \in Peer : Requested(q)' = Requested(q)
         /\ BookkeeperTypeOK => BookkeeperTypeOK'
BY DEF bkVars, Known, Requested, Alternatives, BookkeeperTypeOK

(* An empty list has no elements. *)
LEMMA EmptyList == Elems(<<>>) = {} /\ Distinct(<<>>)
BY DEF Elems, Distinct

(* The places of the notice and the data threads are of their type. *)
LEMMA ThreadStates ==
  /\ Idle.at = "idle" /\ Exited.at = "exited"
  /\ Idle \in NoteThread \cap DataThread
  /\ Exited \in NoteThread \cap DataThread
  /\ \A step, c : At(step, c).at = step /\ At(step, c).chunk = c
  /\ \A c \in Chunk : /\ At("checked", c) \in NoteThread
                        /\ At("request", c) \in NoteThread
                        /\ At("received", c) \in DataThread
                        /\ At("saved", c) \in DataThread
BY DEF Idle, Exited, At, NoteThread, DataThread, Thread

(* A step that only moves data threads along disturbs nothing the          *)
(* invariant relates to the bookkeeper.                                    *)
LEMMA FrameStep ==
  ASSUME IInv, TypeOK',
         UNCHANGED <<bkVars, status, note, netVars, mutex, todo, moving>>,
         \A p \in Peer : data'[p].at \in {"received", "saved"} =>
            status[p] = "running" /\ data'[p].chunk \in Chunk
  PROVE  IInv'
<1>1. /\ Known' = Known /\ altPeers' = altPeers
      /\ \A c \in Chunk : Alternatives(c)' = Alternatives(c)
      /\ \A q \in Peer : Requested(q)' = Requested(q)
  BY BkUnchanged
<1>2. LockInv' /\ ThreadInv'
  BY <1>1 DEF IInv, netVars, LockInv, ThreadInv
<1>3. OfferInv' /\ OwnerInv' /\ TodoInv' /\ MoveInv'
  BY <1>1 DEF IInv, netVars, OfferInv, OwnerInv, TodoInv, MoveInv, Alive, Asking
<1>4. OnceInv' /\ RequestsAreRecorded'
  BY <1>1 DEF IInv, netVars, OnceInv, RequestsAreRecorded, InFlight
<1> QED
  BY <1>2, <1>3, <1>4 DEF IInv

(* SubP2pMgr::hereIs() keeps the invariant. *)
LEMMA HereIsP2pStep ==
  ASSUME IInv, NEW p \in Peer, HereIsP2p(p)
  PROVE  IInv'
<1>1. data[p].chunk \in Chunk /\ status[p] = "running" /\ TypeOK /\ ThreadInv
  BY DEF IInv, ThreadInv, HereIsP2p
<1>2. data' \in [Peer -> DataThread] /\ except' \subseteq Peer
  BY <1>1, ThreadStates DEF TypeOK, HereIsP2p, Decline
<1>3. TypeOK'
  BY <1>1, <1>2, BkUnchanged DEF TypeOK, HereIsP2p, netVars, mgrVars
<1>4. \A q \in Peer : data'[q].at \in {"received", "saved"} =>
         status[q] = "running" /\ data'[q].chunk \in Chunk
  <2>1. \A q \in Peer \ {p} : data'[q] = data[q]
    BY <1>1 DEF TypeOK, HereIsP2p, Decline
  <2>2. data'[p] \in {Idle, Exited, At("saved", data[p].chunk)}
    BY <1>1 DEF TypeOK, HereIsP2p, Decline
  <2> QED
    BY <1>1, <2>1, <2>2, ThreadStates DEF ThreadInv
<1> QED
  BY <1>3, <1>4, FrameStep DEF HereIsP2p, netVars, mgrVars

(* PeerSet::notify(), after a chunk was received, keeps the invariant. *)
LEMMA NotifyOthersStep ==
  ASSUME IInv, NEW p \in Peer, NotifyOthers(p)
  PROVE  IInv'
<1>1. TypeOK /\ ThreadInv
  BY DEF IInv
<1>2. data' \in [Peer -> DataThread] /\ except' \subseteq Peer
  BY <1>1, ThreadStates DEF TypeOK, NotifyOthers
<1>3. TypeOK'
  BY <1>1, <1>2, BkUnchanged DEF TypeOK, NotifyOthers, netVars, mgrVars
<1>4. \A q \in Peer : data'[q].at \in {"received", "saved"} =>
         status[q] = "running" /\ data'[q].chunk \in Chunk
  BY <1>1, ThreadStates DEF TypeOK, ThreadInv, NotifyOthers
<1> QED
  BY <1>3, <1>4, FrameStep DEF NotifyOthers, netVars, mgrVars

(* So do the multicast's chunks, and the flags that end peers and the      *)
(* manager.                                                                *)
LEMMA FlagStep ==
  ASSUME IInv,
         \/ \E c \in Chunk : Multicast(c)
         \/ \E p \in Peer : Halt(p) \/ ConnectionFails(p)
         \/ HaltMgr
  PROVE  IInv'
<1>1. TypeOK /\ ThreadInv
  BY DEF IInv
<1>2. exists' \subseteq Chunk /\ done' \subseteq Peer /\ except' \subseteq Peer
  BY <1>1 DEF TypeOK, Multicast, Halt, ConnectionFails, HaltMgr, threadVars
<1>3. mgrDone' \in BOOLEAN
  BY <1>1 DEF TypeOK, Multicast, Halt, ConnectionFails, HaltMgr, mgrVars
<1>4. UNCHANGED <<bkVars, slot, status, note, data, netVars, mutex, todo, moving>>
  BY DEF Multicast, Halt, ConnectionFails, HaltMgr, threadVars, mgrVars
<1>5. TypeOK'
  BY <1>1, <1>2, <1>3, <1>4, BkUnchanged DEF TypeOK, netVars
<1>6. \A q \in Peer : data'[q].at \in {"received", "saved"} =>
         status[q] = "running" /\ data'[q].chunk \in Chunk
  BY <1>1, <1>4 DEF ThreadInv
<1> QED
  BY <1>4, <1>5, <1>6, FrameStep

(* A peer is accepted, or its entry is reaped. *)
LEMMA StatusStep ==
  ASSUME IInv, NEW p \in Peer, Accept(p) \/ Reap(p)
  PROVE  IInv'
<1>1. /\ TypeOK /\ LockInv /\ ThreadInv /\ OfferInv /\ OwnerInv
      /\ TodoInv /\ MoveInv /\ OnceInv /\ RequestsAreRecorded
  BY DEF IInv
<1>2. /\ Known' = Known /\ altPeers' = altPeers
      /\ \A d \in Chunk : Alternatives(d)' = Alternatives(d)
      /\ \A q \in Peer : Requested(q)' = Requested(q)
      /\ BookkeeperTypeOK'
  BY <1>1, BkUnchanged DEF TypeOK, Accept, Reap
<1>3. UNCHANGED <<note, data, netVars, mutex, todo, moving>>
  BY DEF Accept, Reap, mgrVars
<1>4. /\ status' \in [Peer -> Status]
      /\ \A q \in Peer : \/ status'[q] = status[q]
                         \/ status[q] = "new" /\ status'[q] = "accepted"
                         \/ status[q] = "ended" /\ status'[q] = "reaped"
  BY <1>1 DEF TypeOK, Accept, Reap, Status
<1>5. \A q \in Peer : /\ Alive(q)' = Alive(q)
                      /\ (status'[q] = "running") = (status[q] = "running")
                      /\ (status'[q] = "stopping") = (status[q] = "stopping")
  BY <1>4 DEF Alive
<1>6. TypeOK'
  <2>1. slot' \in Peer \cup {NoPeer}
    BY <1>1 DEF TypeOK, Accept, Reap
  <2> QED
    BY <1>1, <1>2, <1>3, <1>4, <2>1 DEF TypeOK, Accept, Reap, netVars, mgrVars
<1>7. LockInv' /\ ThreadInv'
  BY <1>1, <1>2, <1>3, <1>4, <1>5 DEF LockInv, ThreadInv, netVars
<1>8. OfferInv' /\ OwnerInv' /\ TodoInv'
  BY <1>1, <1>2, <1>3, <1>5 DEF OfferInv, OwnerInv, TodoInv, Asking, netVars
<1>9. MoveInv'
  BY <1>1, <1>2, <1>3, <1>5 DEF MoveInv, Asking, netVars
<1>10. OnceInv' /\ RequestsAreRecorded'
  BY <1>1, <1>2, <1>3 DEF OnceInv, RequestsAreRecorded, InFlight, netVars
<1> QED
  BY <1>6, <1>7, <1>8, <1>9, <1>10 DEF IInv

(* A peer is added: it has no requests and is nobody's alternative. *)
LEMMA AddPeerStep ==
  ASSUME IInv, NEW p \in Peer, AddPeer(p)
  PROVE  IInv'
<1>1. /\ TypeOK /\ LockInv /\ ThreadInv /\ OfferInv /\ OwnerInv
      /\ TodoInv /\ MoveInv /\ OnceInv /\ RequestsAreRecorded
  BY DEF IInv
<1>2. /\ BookkeeperTypeOK' /\ Known' = Known \cup {p} /\ altPeers' = altPeers
      /\ \A d \in Chunk : Alternatives(d)' = Alternatives(d)
      /\ \A q \in Peer : Requested(q)' = Requested(q)
  BY <1>1, BkAddEffect DEF TypeOK, AddPeer
<1>3. TypeOK'
  BY <1>1, <1>2 DEF TypeOK, Status, AddPeer, netVars, mgrVars
<1>4. LockInv' /\ ThreadInv'
  BY <1>1, <1>2 DEF TypeOK, LockInv, ThreadInv, AddPeer, netVars, mgrVars
<1>5. OfferInv' /\ OwnerInv' /\ TodoInv'
  BY <1>1, <1>2 DEF TypeOK, OfferInv, OwnerInv, TodoInv, Alive, Asking, AddPeer,
     netVars, mgrVars
<1>6. MoveInv'
  BY <1>1, <1>2 DEF TypeOK, MoveInv, Alive, Asking, AddPeer, netVars, mgrVars
<1>7. OnceInv' /\ RequestsAreRecorded'
  BY <1>1, <1>2 DEF OnceInv, RequestsAreRecorded, InFlight, AddPeer, netVars,
     mgrVars
<1> QED
  BY <1>3, <1>4, <1>5, <1>6, <1>7 DEF IInv

(* A notice: the remote had not announced the chunk before. *)
LEMMA AvailableStep ==
  ASSUME IInv, NEW p \in Peer, NEW c \in Chunk, Available(p, c)
  PROVE  IInv'
<1>1. /\ TypeOK /\ LockInv /\ ThreadInv /\ OfferInv /\ OwnerInv
      /\ TodoInv /\ MoveInv /\ OnceInv /\ RequestsAreRecorded
  BY DEF IInv
<1>2. /\ Known' = Known /\ altPeers' = altPeers
      /\ \A d \in Chunk : Alternatives(d)' = Alternatives(d)
      /\ \A q \in Peer : Requested(q)' = Requested(q)
      /\ BookkeeperTypeOK'
  BY <1>1, BkUnchanged DEF TypeOK, Available
<1>3. \A q \in Peer : \/ note'[q] = note[q]
                      \/ q = p /\ note'[q].at = "checked" /\ note'[q].chunk = c
  BY <1>1, ThreadStates DEF TypeOK, Available
<1>4. /\ \A q \in Peer : noticed[q] \subseteq noticed'[q]
      /\ c \notin noticed[p] /\ c \in noticed'[p]
  BY <1>1 DEF TypeOK, Available
<1>5. UNCHANGED <<status, data, requestQueue, onWire, todo, moving>>
  BY DEF Available
<1>6. TypeOK'
  <2>1. note' \in [Peer -> NoteThread] /\ mutex' \in Peer \cup {NoPeer}
    BY <1>1, ThreadStates DEF TypeOK, Available
  <2>2. noticed' \in [Peer -> SUBSET Chunk]
    BY <1>1 DEF TypeOK, Available
  <2> QED
    BY <1>1, <1>2, <2>1, <2>2 DEF TypeOK, Available
<1>7. LockInv' /\ ThreadInv'
  <2>1. LockInv'
    <3>1. \/ mutex' = mutex /\ (note' = note \/ c \notin Segment)
          \/ mutex = NoPeer /\ mutex' = p
      BY DEF Available
    <3>2. \A q \in Peer : mutex = NoPeer => status[q] # "stopping" /\
             ~(note[q].at = "checked" /\ note[q].chunk \in Segment)
      BY <1>1, NoneAssumption DEF LockInv
    <3> QED
      BY <1>1, <1>3, <1>5, <3>1, <3>2 DEF LockInv
  <2>2. ThreadInv'
    BY <1>1, <1>2, <1>3, <1>4, <1>5 DEF ThreadInv, Available
  <2> QED
    BY <2>1, <2>2
<1>8. OfferInv' /\ OwnerInv' /\ TodoInv'
  <2>1. \A q \in Peer, d \in Chunk : Asking(q, d)' => Asking(q, d) \/ (q = p /\ d = c)
    BY <1>3 DEF Asking
  <2> QED
    BY <1>1, <1>2, <1>4, <1>5, <2>1 DEF OfferInv, OwnerInv, TodoInv, Alive
<1>9. MoveInv'
  <2>1. \A q \in Peer, d \in Chunk : Asking(q, d)' => Asking(q, d) \/ (q = p /\ d = c)
    BY <1>3 DEF Asking
  <2> QED
    BY <1>1, <1>2, <1>4, <1>5, <2>1 DEF MoveInv, Alive
<1>10. OnceInv' /\ RequestsAreRecorded'
  <2>1. \A q \in Peer : note'[q].at = "request" => note'[q] = note[q]
    BY <1>3
  <2> QED
    BY <1>1, <1>2, <1>5, <2>1 DEF OnceInv, RequestsAreRecorded, InFlight
<1> QED
  BY <1>6, <1>7, <1>8, <1>9, <1>10 DEF IInv

(* A request is sent: it moves from the notice thread to the wire. *)
LEMMA SendRequestStep ==
  ASSUME IInv, NEW p \in Peer, SendRequest(p)
  PROVE  IInv'
<1>1. /\ TypeOK /\ LockInv /\ ThreadInv /\ OfferInv /\ OwnerInv
      /\ TodoInv /\ MoveInv /\ OnceInv /\ RequestsAreRecorded
  BY DEF IInv
<1>2. /\ Known' = Known /\ altPeers' = altPeers
      /\ \A d \in Chunk : Alternatives(d)' = Alternatives(d)
      /\ \A q \in Peer : Requested(q)' = Requested(q)
      /\ BookkeeperTypeOK'
  BY <1>1, BkUnchanged DEF TypeOK, SendRequest
<1>3. /\ note[p].chunk \in Chunk /\ note'[p].at = "idle"
      /\ \A q \in Peer \ {p} : note'[q] = note[q] /\ onWire'[q] = onWire[q]
      /\ onWire'[p] = onWire[p] \cup {note[p].chunk}
  BY <1>1, ThreadStates DEF TypeOK, ThreadInv, SendRequest
<1>4. UNCHANGED <<status, data, requestQueue, noticed, mutex, todo, moving>>
  BY DEF SendRequest, mgrVars
<1>5. TypeOK'
  BY <1>1, <1>2, <1>3, ThreadStates DEF TypeOK, SendRequest, mgrVars
<1>6. LockInv' /\ ThreadInv'
  BY <1>1, <1>2, <1>3, <1>4 DEF LockInv, ThreadInv, SendRequest
<1>7. OfferInv' /\ OwnerInv' /\ TodoInv' /\ MoveInv'
  <2>1. \A q \in Peer, d \in Chunk : Asking(q, d)' => Asking(q, d)
    BY <1>3 DEF Asking
  <2> QED
    BY <1>1, <1>2, <1>4, <2>1 DEF OfferInv, OwnerInv, TodoInv, MoveInv, Alive
<1>8. OnceInv'
  BY <1>1, <1>3, <1>4 DEF OnceInv, SendRequest
<1>9. RequestsAreRecorded'
  <2>1. \A q \in Peer : InFlight(q)' \subseteq InFlight(q)
    BY <1>3, <1>4 DEF InFlight, SendRequest
  <2> QED
    BY <1>1, <1>2, <1>4, <2>1 DEF RequestsAreRecorded
<1> QED
  BY <1>5, <1>6, <1>7, <1>8, <1>9 DEF IInv

(* A queued request is sent, or dropped because the peer is done. *)
LEMMA RunRequesterStep ==
  ASSUME IInv, NEW p \in Peer, RunRequester(p)
  PROVE  IInv'
<1>1. /\ TypeOK /\ LockInv /\ ThreadInv /\ OfferInv /\ OwnerInv
      /\ TodoInv /\ MoveInv /\ OnceInv /\ RequestsAreRecorded
  BY DEF IInv
<1>2. /\ Known' = Known /\ altPeers' = altPeers
      /\ \A d \in Chunk : Alternatives(d)' = Alternatives(d)
      /\ \A q \in Peer : Requested(q)' = Requested(q)
      /\ BookkeeperTypeOK'
  BY <1>1, BkUnchanged DEF TypeOK, RunRequester
<1>3. /\ Head(requestQueue[p]) \in Elems(requestQueue[p]) \cap Chunk
      /\ Elems(Tail(requestQueue[p])) \subseteq Elems(requestQueue[p])
      /\ Distinct(Tail(requestQueue[p]))
      /\ Head(requestQueue[p]) \notin Elems(Tail(requestQueue[p]))
      /\ Tail(requestQueue[p]) \in Seq(Chunk)
  BY <1>1, HeadTailElems DEF TypeOK, OnceInv, RunRequester
<1>4. UNCHANGED <<status, note, data, noticed, mutex, todo, moving>>
  BY DEF RunRequester, threadVars, mgrVars
<1>5. TypeOK'
  BY <1>1, <1>2, <1>3 DEF TypeOK, RunRequester, threadVars, mgrVars
<1>6. LockInv' /\ ThreadInv'
  BY <1>1, <1>2, <1>4 DEF TypeOK, LockInv, ThreadInv, RunRequester
<1>7. OfferInv' /\ OwnerInv' /\ TodoInv' /\ MoveInv'
  BY <1>1, <1>2, <1>4 DEF OfferInv, OwnerInv, TodoInv, MoveInv, Alive, Asking
<1>8. OnceInv'
  BY <1>1, <1>3, <1>4 DEF TypeOK, OnceInv, RunRequester
<1>9. RequestsAreRecorded'
  <2>1. \A q \in Peer : InFlight(q)' \subseteq InFlight(q)
    BY <1>1, <1>3, <1>4 DEF TypeOK, InFlight, RunRequester
  <2> QED
    BY <1>1, <1>2, <1>4, <2>1 DEF RequestsAreRecorded
<1> QED
  BY <1>5, <1>6, <1>7, <1>8, <1>9 DEF IInv

(* peer() returns or throws: nothing it asked for is under way any more. *)
LEMMA ReturnStep ==
  ASSUME IInv, NEW p \in Peer, Return(p)
  PROVE  IInv'
<1>1. /\ TypeOK /\ LockInv /\ ThreadInv /\ OfferInv /\ OwnerInv
      /\ TodoInv /\ MoveInv /\ OnceInv /\ RequestsAreRecorded
  BY DEF IInv
<1>2. /\ Known' = Known /\ altPeers' = altPeers
      /\ \A d \in Chunk : Alternatives(d)' = Alternatives(d)
      /\ \A q \in Peer : Requested(q)' = Requested(q)
      /\ BookkeeperTypeOK'
  BY <1>1, BkUnchanged DEF TypeOK, Return
<1>3. UNCHANGED <<note, data, noticed, mutex, todo, moving>>
  BY DEF Return, mgrVars
<1>4. /\ status[p] = "running" /\ status'[p] \in {"inactive", "failed"}
      /\ requestQueue'[p] = <<>> /\ onWire'[p] = {}
      /\ note[p].at \notin {"checked", "request"}
      /\ data[p].at \notin {"received", "saved"}
      /\ \A q \in Peer \ {p} : /\ status'[q] = status[q]
                               /\ requestQueue'[q] = requestQueue[q]
                               /\ onWire'[q] = onWire[q]
  BY <1>1 DEF TypeOK, Return, Quiet
<1>5. \A q \in Peer : /\ Alive(q)' = Alive(q)
                      /\ (status'[q] = "stopping") = (status[q] = "stopping")
  BY <1>4 DEF Alive
<1>6. TypeOK'
  <2>1. /\ status' \in [Peer -> Status] /\ requestQueue' \in [Peer -> Seq(Chunk)]
        /\ onWire' \in [Peer -> SUBSET Chunk]
    BY <1>1 DEF TypeOK, Status, Return
  <2> QED
    BY <1>1, <1>2, <2>1 DEF TypeOK, Return, mgrVars
<1>7. LockInv' /\ ThreadInv'
  BY <1>1, <1>2, <1>3, <1>4, <1>5 DEF LockInv, ThreadInv
<1>8. OfferInv' /\ OwnerInv' /\ TodoInv' /\ MoveInv'
  BY <1>1, <1>2, <1>3, <1>5 DEF OfferInv, OwnerInv, TodoInv, MoveInv, Asking
<1>9. OnceInv' /\ RequestsAreRecorded'
  BY <1>1, <1>2, <1>3, <1>4, EmptyList DEF OnceInv, RequestsAreRecorded, InFlight
<1> QED
  BY <1>6, <1>7, <1>8, <1>9 DEF IInv

(* The bookkeeper is asked: by then the peer is neither responsible for    *)
(* the chunk nor an alternative, so shouldRequest() does not throw, and a  *)
(* chunk that is not in the map has no live owner.                         *)
LEMMA AskBookkeeperStep ==
  ASSUME IInv, NEW p \in Peer, AskBookkeeper(p)
  PROVE  IInv'
<1>1. /\ TypeOK /\ LockInv /\ ThreadInv /\ OfferInv /\ OwnerInv
      /\ TodoInv /\ MoveInv /\ OnceInv /\ RequestsAreRecorded
  BY DEF IInv
<1>0. PICK c \in Chunk : c = note[p].chunk
  BY <1>1 DEF TypeOK, ThreadInv, AskBookkeeper
<1>2. /\ c \in noticed[p] /\ p \in Known /\ status[p] = "running"
      /\ Asking(p, c) /\ Self(p) = p
  BY <1>0, <1>1 DEF TypeOK, ThreadInv, Asking, AskBookkeeper, Self, IInv
<1>3. p \notin Alternatives(c) /\ c \notin Requested(p)
  BY <1>1, <1>2 DEF OfferInv
<1>4. /\ UNCHANGED <<slot, status, data, netVars, todo, moving>>
      /\ \A q \in Peer : Alive(q)' = Alive(q)
  BY DEF AskBookkeeper, Alive
<1>5. LockInv'
  <2>1. \A q \in Peer : q # p => note'[q] = note[q]
    BY <1>1 DEF TypeOK, AskBookkeeper
  <2>2. note'[p].at # "checked"
    BY <1>1, ThreadStates DEF TypeOK, AskBookkeeper
  <2>3. mutex' = mutex \/ (c \in Segment /\ mutex = p /\ mutex' = NoPeer)
    BY <1>0, <1>1 DEF LockInv, AskBookkeeper
  <2>4. mutex = p => status[p] # "stopping"
    BY <1>2
  <2> QED
    BY <1>1, <1>4, <2>1, <2>2, <2>3, <2>4 DEF LockInv
<1>6. /\ note' \in [Peer -> NoteThread] /\ mutex' \in Peer \cup {NoPeer}
      /\ except' \subseteq Peer
  BY <1>0, <1>1, <1>2, ThreadStates DEF TypeOK, AskBookkeeper
<1>7. CASE ShouldRequestTrue(p, c) /\ note' = [note EXCEPT ![p] = At("request", c)]
  <2>1. /\ BookkeeperTypeOK' /\ Known' = Known
        /\ c \notin DOMAIN altPeers
        /\ DOMAIN altPeers' = DOMAIN altPeers \cup {c} /\ altPeers'[c] = <<>>
        /\ \A d \in DOMAIN altPeers : altPeers'[d] = altPeers[d]
        /\ \A d \in Chunk : Alternatives(d)' = Alternatives(d)
        /\ Requested(p)' = Requested(p) \cup {c}
        /\ \A q \in Peer \ {p} : Requested(q)' = Requested(q)
    BY <1>1, <1>2, <1>7, ShouldRequestTrueEffect DEF TypeOK
  <2>2. /\ note'[p].at = "request" /\ note'[p].chunk = c
        /\ \A q \in Peer \ {p} : note'[q] = note[q]
    BY <1>1, <1>7, ThreadStates DEF TypeOK
  <2>3. \A q \in Peer, d \in Chunk : Asking(q, d)' => Asking(q, d) /\ q # p
    BY <2>2 DEF Asking
  <2>4. TypeOK'
    BY <1>1, <1>6, <2>1 DEF TypeOK, AskBookkeeper, netVars
  <2>5. ThreadInv'
    BY <1>1, <1>2, <1>4, <2>1, <2>2 DEF ThreadInv, netVars
  <2>6. OfferInv'
    BY <1>1, <1>2, <1>3, <1>4, <2>1, <2>3, EmptyList DEF OfferInv, netVars
  <2>7. OwnerInv' /\ TodoInv'
    BY <1>1, <1>4, <2>1 DEF OwnerInv, TodoInv
  <2>8. MoveInv'
    BY <1>1, <1>4, <2>1, <2>3 DEF MoveInv, netVars
  <2>9. moving.at # "none" => moving.chunk # c
    BY <1>1, <2>1 DEF MoveInv
  <2>10. c \notin InFlight(p)
    BY <1>1, <1>3, <2>9 DEF RequestsAreRecorded
  <2>11. OnceInv'
    BY <1>1, <1>4, <2>2, <2>10 DEF OnceInv, InFlight, netVars
  <2>12. RequestsAreRecorded'
    <3>1. InFlight(p)' \subseteq InFlight(p) \cup {c}
      BY <1>4, <2>2 DEF InFlight, netVars
    <3>2. \A q \in Peer \ {p} : InFlight(q)' = InFlight(q)
      BY <1>4, <2>2 DEF InFlight, netVars
    <3> QED
      BY <1>1, <1>4, <2>1, <3>1, <3>2 DEF RequestsAreRecorded
  <2> QED
    BY <1>5, <2>4, <2>5, <2>6, <2>7, <2>8, <2>11, <2>12 DEF IInv
<1>8. CASE ShouldRequestFalse(p, c) /\ note' = [note EXCEPT ![p] = Idle]
  <2>1. /\ BookkeeperTypeOK' /\ Known' = Known
        /\ c \in DOMAIN altPeers /\ DOMAIN altPeers' = DOMAIN altPeers
        /\ altPeers'[c] = Append(altPeers[c], p)
        /\ \A d \in DOMAIN altPeers \ {c} : altPeers'[d] = altPeers[d]
        /\ Alternatives(c)' = Alternatives(c) \cup {p}
        /\ \A d \in Chunk \ {c} : Alternatives(d)' = Alternatives(d)
        /\ \A q \in Peer : Requested(q)' = Requested(q)
    BY <1>1, <1>2, <1>8, ShouldRequestFalseEffect DEF TypeOK
  <2>2. /\ note'[p].at = "idle"
        /\ \A q \in Peer \ {p} : note'[q] = note[q]
    BY <1>1, <1>8, ThreadStates DEF TypeOK
  <2>3. \A q \in Peer, d \in Chunk : Asking(q, d)' => Asking(q, d) /\ q # p
    BY <2>2 DEF Asking
  <2>4. TypeOK'
    BY <1>1, <1>6, <2>1 DEF TypeOK, AskBookkeeper, netVars
  <2>5. ThreadInv'
    BY <1>1, <1>2, <1>4, <2>1, <2>2 DEF ThreadInv, netVars
  <2>6. Distinct(altPeers'[c])
    <3>1. altPeers[c] \in Seq(Peer) /\ p \notin Elems(altPeers[c])
      BY <1>1, <1>3, <2>1 DEF TypeOK, BookkeeperTypeOK, Alternatives
    <3>2. Distinct(altPeers[c])
      BY <1>1, <1>2, <2>1 DEF OfferInv
    <3> QED
      BY <2>1, <3>1, <3>2, AppendElems
  <2>7. OfferInv'
    <3>1. ~Asking(p, c)' /\ noticed' = noticed
      BY <1>4, <2>2 DEF Asking, netVars
    <3>2. \A d \in Chunk, q \in Peer :
             q \in Alternatives(d)' => q \in Alternatives(d) \/ (q = p /\ d = c)
      BY <2>1
    <3>3. \A d \in Chunk : /\ Alternatives(d)' \subseteq Known'
                           /\ d \in DOMAIN altPeers' => Distinct(altPeers'[d])
      BY <1>1, <1>2, <2>1, <2>6 DEF OfferInv
    <3>4. \A d \in Chunk, q \in Peer :
             q \in Alternatives(d)' => d \notin Requested(q)'
      BY <1>1, <1>3, <2>1, <3>2 DEF OfferInv
    <3>5. \A d \in Chunk, q \in Peer :
             q \in Alternatives(d)' \/ d \in Requested(q)' =>
                d \in noticed'[q] /\ ~Asking(q, d)'
      BY <1>1, <1>2, <2>1, <2>3, <3>1, <3>2 DEF OfferInv
    <3> QED
      BY <3>3, <3>4, <3>5 DEF OfferInv
  <2>8. OwnerInv' /\ TodoInv'
    BY <1>1, <1>4, <2>1 DEF OwnerInv, TodoInv
  <2>9. MoveInv'
    <3>1. moving.at # "none" => ~(moving.peer = p /\ moving.chunk = c)
      BY <1>1, <1>2 DEF MoveInv
    <3>2. moving' = moving /\ todo' = todo /\ status' = status /\ noticed' = noticed
      BY <1>4 DEF netVars
    <3>3. moving.at # "none" =>
             moving.peer \notin Alternatives(moving.chunk)'
      BY <1>1, <2>1, <3>1, <3>2 DEF MoveInv
    <3> QED
      BY <1>1, <1>4, <2>1, <2>3, <3>2, <3>3 DEF MoveInv
  <2>10. OnceInv'
    BY <1>1, <1>4, <2>2 DEF OnceInv, netVars
  <2>11. RequestsAreRecorded'
    <3>1. \A q \in Peer : InFlight(q)' \subseteq InFlight(q)
      BY <1>4, <2>2 DEF InFlight, netVars
    <3> QED
      BY <1>1, <1>4, <2>1, <3>1 DEF RequestsAreRecorded
  <2> QED
    BY <1>5, <2>4, <2>5, <2>7, <2>8, <2>9, <2>10, <2>11 DEF IInv
<1> QED
  <2>1. ~ShouldRequestThrows(p, c)
    BY <1>2, <1>3 DEF ShouldRequestThrows
  <2> QED
    BY <1>0, <1>2, <1>7, <1>8, <2>1 DEF AskBookkeeper

(* A chunk arrives: the bookkeeper forgets it, or it had not been asked    *)
(* for and only the thread's state changes.                                *)
LEMMA ReceiveStep ==
  ASSUME IInv, NEW p \in Peer, NEW c \in Chunk, Receive(p, c)
  PROVE  IInv'
<1>1. /\ TypeOK /\ LockInv /\ ThreadInv /\ OfferInv /\ OwnerInv
      /\ TodoInv /\ MoveInv /\ OnceInv /\ RequestsAreRecorded
  BY DEF IInv
<1>2. Self(p) = p /\ p \in Known /\ status[p] = "running"
  BY <1>1 DEF Self, IInv, ThreadInv, Receive
<1>3. /\ UNCHANGED <<status, note, requestQueue, noticed, mutex, todo, moving>>
      /\ \A q \in Peer : Alive(q)' = Alive(q)
      /\ \A q \in Peer, d \in Chunk : Asking(q, d)' = Asking(q, d)
  BY DEF Receive, Alive, Asking, mgrVars
<1>4. /\ data' \in [Peer -> DataThread] /\ except' \subseteq Peer
      /\ onWire' \in [Peer -> SUBSET Chunk]
  BY <1>1, ThreadStates DEF TypeOK, Receive, Decline
<1>5. /\ c \in onWire[p] /\ onWire'[p] = onWire[p] \ {c}
      /\ \A q \in Peer \ {p} : onWire'[q] = onWire[q]
  BY <1>1 DEF TypeOK, Receive
<1>6. /\ \A q \in Peer \ {p} : data'[q] = data[q]
      /\ data'[p] \in {Idle, Exited, At("received", c)}
  BY <1>1 DEF TypeOK, Receive, Decline
<1>7. LockInv' /\ OnceInv'
  BY <1>1, <1>3, <1>5 DEF LockInv, OnceInv
<1>8. c \notin InFlight(p)' /\ \A q \in Peer : InFlight(q)' \subseteq InFlight(q)
  BY <1>1, <1>3, <1>5 DEF OnceInv, InFlight
<1>9. CASE ReceivedTrue(p, c)
  <2>1. /\ BookkeeperTypeOK' /\ Known' = Known /\ c \in Requested(p)
        /\ DOMAIN altPeers' = DOMAIN altPeers \ {c}
        /\ \A d \in DOMAIN altPeers' : altPeers'[d] = altPeers[d]
        /\ Alternatives(c)' = {}
        /\ \A d \in Chunk \ {c} : Alternatives(d)' = Alternatives(d)
        /\ Requested(p)' = Requested(p) \ {c}
        /\ \A q \in Peer \ {p} : Requested(q)' = Requested(q)
    BY <1>1, <1>9, ReceivedTrueEffect DEF TypeOK
  <2>2. Alive(p)
    BY <1>2 DEF Alive
  <2>3. TypeOK'
    BY <1>1, <1>4, <2>1 DEF TypeOK, Receive, mgrVars
  <2>4. ThreadInv'
    BY <1>1, <1>2, <1>3, <1>5, <1>6, <2>1, ThreadStates DEF ThreadInv
  <2>5. OfferInv'
    BY <1>1, <1>3, <2>1 DEF OfferInv
  <2>6. OwnerInv'
    BY <1>1, <1>3, <2>1, <2>2 DEF OwnerInv
  <2>7. TodoInv' /\ MoveInv'
    BY <1>1, <1>3, <2>1, <2>2 DEF TodoInv, MoveInv
  <2>8. RequestsAreRecorded'
    BY <1>1, <1>3, <1>8, <2>1 DEF RequestsAreRecorded
  <2> QED
    BY <1>7, <2>3, <2>4, <2>5, <2>6, <2>7, <2>8, IInv DEF IInv
<1>10. CASE UNCHANGED bkVars
  <2>1. /\ Known' = Known /\ altPeers' = altPeers
        /\ \A d \in Chunk : Alternatives(d)' = Alternatives(d)
        /\ \A q \in Peer : Requested(q)' = Requested(q)
        /\ BookkeeperTypeOK'
    BY <1>1, <1>10, BkUnchanged DEF TypeOK
  <2>2. TypeOK'
    BY <1>1, <1>4, <2>1 DEF TypeOK, Receive, mgrVars
  <2>3. ThreadInv'
    BY <1>1, <1>2, <1>3, <1>5, <1>6, <2>1, ThreadStates DEF ThreadInv
  <2>4. OfferInv' /\ OwnerInv' /\ TodoInv' /\ MoveInv'
    BY <1>1, <1>3, <2>1 DEF OfferInv, OwnerInv, TodoInv, MoveInv
  <2>5. RequestsAreRecorded'
    BY <1>1, <1>3, <1>8, <2>1 DEF RequestsAreRecorded
  <2> QED
    BY <1>7, <2>2, <2>3, <2>4, <2>5 DEF IInv
<1> QED
  BY <1>2, <1>9, <1>10 DEF Receive

(* stopped() takes the mutex: the chunks it will reassign have lost their  *)
(* only live owner.                                                        *)
LEMMA StoppedStep ==
  ASSUME IInv, NEW p \in Peer, Stopped(p)
  PROVE  IInv'
<1>1. /\ TypeOK /\ LockInv /\ ThreadInv /\ OfferInv /\ OwnerInv
      /\ TodoInv /\ MoveInv /\ OnceInv /\ RequestsAreRecorded
  BY DEF IInv
<1>2. /\ Known' = Known /\ altPeers' = altPeers
      /\ \A d \in Chunk : Alternatives(d)' = Alternatives(d)
      /\ \A q \in Peer : Requested(q)' = Requested(q)
      /\ BookkeeperTypeOK'
  BY <1>1, BkUnchanged DEF TypeOK, Stopped
<1>3. UNCHANGED <<note, data, netVars, moving>>
  BY DEF Stopped
<1>4. /\ \A q \in Peer : status[q] # "stopping"
      /\ todo = {} /\ moving.at = "none"
  BY <1>1, NoneAssumption DEF TypeOK, LockInv, NoMove, Stopped
<1>5. /\ status[p] = "inactive"
      /\ \A q \in Peer \ {p} : status'[q] = status[q]
      /\ \/ status'[p] = "ended" /\ mutex' = NoPeer /\ todo' = {}
         \/ status'[p] = "stopping" /\ mutex' = p /\ todo' = Requested(p)
  BY <1>1, <1>4 DEF TypeOK, Stopped
<1>6. Alive(p) /\ ~Alive(p)' /\ \A q \in Peer : Alive(q)' => Alive(q)
  BY <1>5 DEF Alive
<1>7. Requested(p) \subseteq Chunk
  BY <1>1 DEF TypeOK, BookkeeperTypeOK, Requested, Known
<1>8. TypeOK'
  <2>1. /\ status' \in [Peer -> Status] /\ mutex' \in Peer \cup {NoPeer}
        /\ todo' \subseteq Chunk
    BY <1>1, <1>7 DEF TypeOK, Status, Stopped
  <2> QED
    BY <1>1, <1>2, <2>1 DEF TypeOK, Stopped, netVars
<1>9. LockInv' /\ ThreadInv'
  <2>1. \A q \in Peer : ~(note[q].at = "checked" /\ note[q].chunk \in Segment)
    BY <1>1, NoneAssumption DEF LockInv, Stopped
  <2> QED
    BY <1>1, <1>2, <1>3, <1>4, <1>5, <2>1 DEF LockInv, ThreadInv, netVars
<1>10. OfferInv' /\ OwnerInv'
  BY <1>1, <1>2, <1>3, <1>6 DEF OfferInv, OwnerInv, Asking, netVars
<1>11. TodoInv'
  <2>1. \A d \in Requested(p) : /\ d \in DOMAIN altPeers
                                /\ \A q \in Peer : Alive(q)' => d \notin Requested(q)
    BY <1>1, <1>6, <1>7 DEF OwnerInv
  <2>2. \A q \in Peer : status'[q] = "stopping" => q = p
    BY <1>4, <1>5
  <2> QED
    BY <1>2, <1>5, <2>1, <2>2 DEF TodoInv
<1>12. MoveInv'
  BY <1>3, <1>4 DEF MoveInv
<1>13. OnceInv' /\ RequestsAreRecorded'
  BY <1>1, <1>2, <1>3 DEF OnceInv, RequestsAreRecorded, InFlight, netVars
<1> QED
  BY <1>8, <1>9, <1>10, <1>11, <1>12, <1>13 DEF IInv

(* An alternative is taken off its list for the chunk to be reassigned. *)
LEMMA PopAlternativeStep ==
  ASSUME IInv, NEW p \in Peer, NEW c \in Chunk, PopAlternative(p, c)
  PROVE  IInv'
<1>1. /\ TypeOK /\ LockInv /\ ThreadInv /\ OfferInv /\ OwnerInv
      /\ TodoInv /\ MoveInv /\ OnceInv /\ RequestsAreRecorded
  BY DEF IInv
<1>2. /\ UNCHANGED <<status, note, data, netVars, mutex>>
      /\ \A q \in Peer : Alive(q)' = Alive(q)
      /\ \A q \in Peer, d \in Chunk : Asking(q, d)' = Asking(q, d)
  BY DEF PopAlternative, threadVars, Alive, Asking
<1>3. /\ status[p] = "stopping" /\ c \in todo /\ todo' = todo \ {c}
      /\ moving.at = "none"
      /\ \A q \in Peer : status[q] = "stopping" => q = p
  BY <1>1, NoneAssumption DEF LockInv, PopAlternative, NoMove
<1>4. /\ c \in DOMAIN altPeers /\ c \in Requested(p)
      /\ \A q \in Peer : Alive(q) => c \notin Requested(q)
  BY <1>1, <1>3 DEF TodoInv
<1>5. LockInv' /\ OnceInv'
  BY <1>1, <1>2, <1>3 DEF LockInv, OnceInv, netVars
<1>6. CASE HasAlt(c)
  <2>1. PICK b \in Peer : b = BestAlt(c)
    BY <1>1, <1>6, PopBestAltEffect DEF TypeOK, PopAlternative
  <2>2. /\ BookkeeperTypeOK' /\ Known' = Known /\ b \in Alternatives(c)
        /\ DOMAIN altPeers' = DOMAIN altPeers
        /\ \A d \in DOMAIN altPeers \ {c} : altPeers'[d] = altPeers[d]
        /\ Alternatives(c)' \subseteq Alternatives(c)
        /\ Distinct(altPeers[c]) => Distinct(altPeers'[c]) /\ b \notin Alternatives(c)'
        /\ \A d \in Chunk \ {c} : Alternatives(d)' = Alternatives(d)
        /\ \A q \in Peer : Requested(q)' = Requested(q)
    BY <1>1, <1>6, <2>1, PopBestAltEffect DEF TypeOK, PopAlternative
  <2>3. moving' = [at |-> "popped", chunk |-> c, peer |-> b]
    BY <1>6, <2>1 DEF PopAlternative
  <2>4. /\ b \in Known /\ c \notin Requested(b) /\ c \in noticed[b]
        /\ ~Asking(b, c) /\ b # p /\ Distinct(altPeers[c])
    BY <1>1, <1>4, <2>2 DEF OfferInv
  <2>5. TypeOK'
    <3>1. moving' \in Move
      BY <2>3 DEF Move
    <3> QED
      BY <1>1, <1>2, <1>3, <2>2, <3>1 DEF TypeOK, PopAlternative, threadVars, netVars
  <2>6. ThreadInv' /\ OwnerInv'
    BY <1>1, <1>2, <2>2 DEF ThreadInv, OwnerInv, netVars
  <2>7. OfferInv'
    BY <1>1, <1>2, <2>2, <2>4 DEF OfferInv, netVars
  <2>8. TodoInv'
    BY <1>1, <1>2, <1>3, <2>2 DEF TodoInv
  <2>9. MoveInv'
    <3>1. moving'.at = "popped" /\ moving'.chunk = c /\ moving'.peer = b
      BY <2>3
    <3>2. status[b] # "stopping"
      BY <1>3, <2>4
    <3> QED
      BY <1>2, <1>3, <1>4, <2>2, <2>4, <3>1, <3>2 DEF MoveInv, netVars
  <2>10. RequestsAreRecorded'
    <3>1. \A q \in Peer : InFlight(q)' = InFlight(q)
      BY <1>2 DEF InFlight, netVars
    <3> QED
      BY <1>1, <1>3, <2>2, <3>1 DEF RequestsAreRecorded
  <2> QED
    BY <1>5, <2>5, <2>6, <2>7, <2>8, <2>9, <2>10 DEF IInv
<1>7. CASE ~HasAlt(c)
  <2>1. UNCHANGED <<bkVars, moving>>
    BY <1>7 DEF PopAlternative
  <2>2. /\ Known' = Known /\ altPeers' = altPeers
        /\ \A d \in Chunk : Alternatives(d)' = Alternatives(d)
        /\ \A q \in Peer : Requested(q)' = Requested(q)
        /\ BookkeeperTypeOK'
    BY <1>1, <2>1, BkUnchanged DEF TypeOK
  <2>3. TypeOK'
    BY <1>1, <1>2, <1>3, <2>1, <2>2 DEF TypeOK, PopAlternative, threadVars, netVars
  <2>4. ThreadInv' /\ OfferInv' /\ OwnerInv'
    BY <1>1, <1>2, <2>2 DEF ThreadInv, OfferInv, OwnerInv, netVars
  <2>5. TodoInv' /\ MoveInv'
    BY <1>1, <1>2, <1>3, <2>1, <2>2 DEF TodoInv, MoveInv
  <2>6. RequestsAreRecorded'
    BY <1>1, <1>2, <2>1, <2>2 DEF RequestsAreRecorded, InFlight, netVars
  <2> QED
    BY <1>5, <2>3, <2>4, <2>5, <2>6 DEF IInv
<1> QED
  BY <1>6, <1>7

(* The request is queued: it was not under way on that connection.  Or the *)
(* alternative is done and stopped() is abandoned.                         *)
LEMMA QueueRequestStep ==
  ASSUME IInv, NEW p \in Peer, QueueRequest(p)
  PROVE  IInv'
<1>1. /\ TypeOK /\ LockInv /\ ThreadInv /\ OfferInv /\ OwnerInv
      /\ TodoInv /\ MoveInv /\ OnceInv /\ RequestsAreRecorded
  BY DEF IInv
<1>2. /\ Known' = Known /\ altPeers' = altPeers
      /\ \A d \in Chunk : Alternatives(d)' = Alternatives(d)
      /\ \A q \in Peer : Requested(q)' = Requested(q)
      /\ BookkeeperTypeOK'
  BY <1>1, BkUnchanged DEF TypeOK, QueueRequest
<1>3. PICK q \in Peer, c \in Chunk : q = moving.peer /\ c = moving.chunk
  BY <1>1 DEF MoveInv, QueueRequest
<1>4. /\ UNCHANGED <<note, data, onWire, noticed>>
      /\ status[p] = "stopping" /\ mutex = p /\ p # NoPeer
      /\ \A r \in Peer : status[r] = "stopping" => r = p
      /\ \A r \in Peer, d \in Chunk : Asking(r, d)' = Asking(r, d)
  BY <1>1, NoneAssumption DEF LockInv, QueueRequest, Asking
<1>5. CASE q \in done
  <2>1. /\ status' = [status EXCEPT ![p] = "ended"] /\ mutex' = NoPeer
        /\ todo' = {} /\ moving' = NoMove /\ requestQueue' = requestQueue
    BY <1>3, <1>5 DEF QueueRequest
  <2>2. /\ status' \in [Peer -> Status]
        /\ status'[p] = "ended" /\ \A r \in Peer \ {p} : status'[r] = status[r]
    BY <1>1, <2>1 DEF TypeOK, Status
  <2>3. NoMove \in Move /\ NoMove.at = "none"
    BY DEF NoMove, Move
  <2>4. \A r \in Peer : Alive(r)' = Alive(r)
    BY <1>4, <2>2 DEF Alive
  <2>5. TypeOK'
    BY <1>1, <1>2, <2>1, <2>2, <2>3 DEF TypeOK, QueueRequest
  <2>6. LockInv' /\ ThreadInv'
    <3>1. \A r \in Peer : ~(note[r].at = "checked" /\ note[r].chunk \in Segment)
      BY <1>1, <1>4 DEF LockInv, ThreadInv
    <3> QED
      BY <1>1, <1>2, <1>4, <2>1, <2>2, <3>1 DEF LockInv, ThreadInv
  <2>7. OfferInv' /\ OwnerInv' /\ TodoInv' /\ MoveInv'
    BY <1>1, <1>2, <1>4, <2>1, <2>3, <2>4 DEF OfferInv, OwnerInv, TodoInv, MoveInv
  <2>8. OnceInv' /\ RequestsAreRecorded'
    <3>1. moving.at # "queued"
      BY DEF QueueRequest
    <3> QED
      BY <1>1, <1>2, <1>4, <2>1, <3>1 DEF OnceInv, RequestsAreRecorded, InFlight
  <2> QED
    BY <2>5, <2>6, <2>7, <2>8 DEF IInv
<1>6. CASE q \notin done
  <2>1. /\ UNCHANGED <<status, mutex, todo>>
        /\ requestQueue' = [requestQueue EXCEPT ![q] =
                 IF status[q] = "running" THEN Append(@, c) ELSE @]
        /\ moving' = [moving EXCEPT !.at = "queued"]
    BY <1>3, <1>6 DEF QueueRequest
  <2>2. /\ moving'.at = "queued" /\ moving'.chunk = c /\ moving'.peer = q
        /\ moving' \in Move
    BY <1>1, <1>3, <2>1 DEF TypeOK, Move
  <2>3. /\ c \notin Requested(q) /\ moving.at = "popped"
        /\ c \in DOMAIN altPeers /\ q \in Known /\ c \notin todo
    BY <1>1, <1>3 DEF MoveInv, QueueRequest
  <2>4. c \notin InFlight(q)
    BY <1>1, <2>3 DEF RequestsAreRecorded
  <2>5. requestQueue[q] \in Seq(Chunk)
    BY <1>1 DEF TypeOK
  <2>6. /\ Append(requestQueue[q], c) \in Seq(Chunk)
        /\ Elems(Append(requestQueue[q], c)) = Elems(requestQueue[q]) \cup {c}
        /\ c \notin Elems(requestQueue[q]) => Distinct(Append(requestQueue[q], c))
    BY <1>1, <2>5, AppendElems DEF OnceInv
  <2>7. /\ \A r \in Peer \ {q} : requestQueue'[r] = requestQueue[r]
        /\ \/ requestQueue'[q] = requestQueue[q]
           \/ /\ requestQueue'[q] = Append(requestQueue[q], c)
              /\ status[q] = "running"
        /\ requestQueue' \in [Peer -> Seq(Chunk)]
    BY <1>1, <2>1, <2>6 DEF TypeOK
  <2>8. TypeOK'
    BY <1>1, <1>2, <2>1, <2>2, <2>7 DEF TypeOK, QueueRequest
  <2>9. LockInv' /\ ThreadInv'
    BY <1>1, <1>2, <1>4, <2>1, <2>7 DEF LockInv, ThreadInv
  <2>10. OfferInv' /\ OwnerInv' /\ TodoInv'
    BY <1>1, <1>2, <1>4, <2>1 DEF OfferInv, OwnerInv, TodoInv, Alive
  <2>11. MoveInv'
    <3>1. /\ status[q] # "stopping" /\ q \notin Alternatives(c)
          /\ c \in noticed[q] /\ ~Asking(q, c)
          /\ \A r \in Peer : Alive(r) => c \notin Requested(r)
      BY <1>1, <1>3, <2>3 DEF MoveInv
    <3> QED
      BY <1>2, <1>4, <2>1, <2>2, <2>3, <3>1 DEF MoveInv, Alive
  <2>12. OnceInv'
    <3>1. /\ c \notin onWire[q] /\ c \notin Elems(requestQueue[q])
          /\ note[q].at = "request" => note[q].chunk # c
      BY <2>4 DEF InFlight
    <3>2. /\ Distinct(requestQueue'[q])
          /\ Elems(requestQueue'[q]) \subseteq Elems(requestQueue[q]) \cup {c}
      BY <1>1, <2>6, <2>7, <3>1 DEF OnceInv
    <3> QED
      BY <1>1, <1>4, <2>7, <3>1, <3>2 DEF OnceInv
  <2>13. RequestsAreRecorded'
    <3>1. /\ InFlight(q)' \subseteq InFlight(q) \cup {c}
          /\ \A r \in Peer \ {q} : InFlight(r)' = InFlight(r)
      BY <1>4, <2>6, <2>7 DEF InFlight
    <3> QED
      BY <1>1, <1>2, <2>2, <2>3, <3>1 DEF RequestsAreRecorded
  <2> QED
    BY <2>8, <2>9, <2>10, <2>11, <2>12, <2>13 DEF IInv
<1> QED
  BY <1>5, <1>6

(* The alternative becomes the chunk's only live owner. *)
LEMMA RecordRequestStep ==
  ASSUME IInv, NEW p \in Peer, RecordRequest(p)
  PROVE  IInv'
<1>1. /\ TypeOK /\ LockInv /\ ThreadInv /\ OfferInv /\ OwnerInv
      /\ TodoInv /\ MoveInv /\ OnceInv /\ RequestsAreRecorded
  BY DEF IInv
<1>2. PICK q \in Peer, c \in Chunk : q = moving.peer /\ c = moving.chunk
  BY <1>1 DEF MoveInv, RecordRequest
<1>3. /\ BookkeeperTypeOK' /\ Known' = Known \cup {q} /\ altPeers' = altPeers
      /\ \A d \in Chunk : Alternatives(d)' = Alternatives(d)
      /\ Requested(q)' = Requested(q) \cup {c}
      /\ \A r \in Peer \ {q} : Requested(r)' = Requested(r)
  BY <1>1, <1>2, BkRequestedEffect DEF TypeOK, RecordRequest
<1>4. /\ UNCHANGED <<status, note, data, netVars, mutex, todo>> /\ moving' = NoMove
      /\ \A r \in Peer : Alive(r)' = Alive(r)
      /\ \A r \in Peer, d \in Chunk : Asking(r, d)' = Asking(r, d)
  BY DEF RecordRequest, threadVars, Alive, Asking
<1>5. /\ c \in DOMAIN altPeers /\ c \notin todo /\ q \in Known
      /\ q \notin Alternatives(c) /\ c \in noticed[q] /\ ~Asking(q, c)
      /\ \A r \in Peer : Alive(r) => c \notin Requested(r)
      /\ status[q] # "stopping"
  BY <1>1, <1>2 DEF MoveInv, RecordRequest
<1>6. NoMove \in Move /\ NoMove.at = "none"
  BY DEF NoMove, Move
<1>7. TypeOK'
  BY <1>1, <1>3, <1>4, <1>6 DEF TypeOK, RecordRequest, threadVars, netVars
<1>8. LockInv' /\ ThreadInv'
  BY <1>1, <1>3, <1>4, <1>5 DEF LockInv, ThreadInv, netVars
<1>9. OfferInv'
  BY <1>1, <1>3, <1>4, <1>5 DEF OfferInv, netVars
<1>10. OwnerInv' /\ TodoInv'
  BY <1>1, <1>3, <1>4, <1>5 DEF OwnerInv, TodoInv
<1>11. MoveInv'
  BY <1>4, <1>6 DEF MoveInv
<1>12. OnceInv'
  BY <1>1, <1>4 DEF OnceInv, netVars
<1>13. RequestsAreRecorded'
  <2>1. \A r \in Peer : InFlight(r)' = InFlight(r)
    BY <1>4 DEF InFlight, netVars
  <2> QED
    BY <1>1, <1>2, <1>3, <2>1 DEF RequestsAreRecorded
<1> QED
  BY <1>7, <1>8, <1>9, <1>10, <1>11, <1>12, <1>13 DEF IInv

(* stopped() ends: the peer has nothing under way that a record is needed  *)
(* for, and is struck from every list.                                     *)
LEMMA ErasePeerStep ==
  ASSUME IInv, NEW p \in Peer, ErasePeer(p)
  PROVE  IInv'
<1>1. /\ TypeOK /\ LockInv /\ ThreadInv /\ OfferInv /\ OwnerInv
      /\ TodoInv /\ MoveInv /\ OnceInv /\ RequestsAreRecorded
  BY DEF IInv
<1>2. /\ BookkeeperTypeOK' /\ Known' = Known \ {p}
      /\ DOMAIN altPeers' = DOMAIN altPeers
      /\ \A d \in DOMAIN altPeers : Distinct(altPeers[d]) => Distinct(altPeers'[d])
      /\ \A d \in Chunk : Alternatives(d)' \subseteq Alternatives(d) \ {p}
      /\ Requested(p)' = {}
      /\ \A q \in Peer \ {p} : Requested(q)' = Requested(q)
  BY <1>1, BkEraseEffect DEF TypeOK, ErasePeer
<1>3. /\ UNCHANGED <<note, data, netVars, todo, moving>> /\ todo = {}
      /\ moving = NoMove /\ moving.at = "none" /\ mutex' = NoPeer
      /\ \A q \in Peer, d \in Chunk : Asking(q, d)' = Asking(q, d)
  BY DEF ErasePeer, Asking, NoMove
<1>4. /\ status[p] = "stopping" /\ status'[p] = "ended"
      /\ \A q \in Peer \ {p} : status'[q] = status[q] /\ status[q] # "stopping"
      /\ status' \in [Peer -> Status]
  BY <1>1, NoneAssumption DEF TypeOK, Status, LockInv, ErasePeer
<1>5. \A q \in Peer : Alive(q)' = Alive(q)
  BY <1>4 DEF Alive
<1>6. TypeOK'
  BY <1>1, <1>2, <1>3, <1>4 DEF TypeOK, ErasePeer, netVars
<1>7. LockInv'
  <2>1. \A q \in Peer : ~(note[q].at = "checked" /\ note[q].chunk \in Segment)
    BY <1>1, <1>4 DEF LockInv, ThreadInv
  <2> QED
    BY <1>3, <1>4, <2>1 DEF LockInv
<1>8. ThreadInv'
  BY <1>1, <1>2, <1>3, <1>4 DEF ThreadInv, netVars
<1>9. OfferInv'
  BY <1>1, <1>2, <1>3 DEF OfferInv, netVars
<1>10. OwnerInv' /\ TodoInv' /\ MoveInv'
  BY <1>1, <1>2, <1>3, <1>5 DEF OwnerInv, TodoInv, MoveInv
<1>11. OnceInv'
  BY <1>1, <1>3 DEF OnceInv, netVars
<1>12. RequestsAreRecorded'
  <2>1. InFlight(p) = {}
    BY <1>1, <1>4, EmptyList DEF ThreadInv, InFlight
  <2>2. \A q \in Peer : InFlight(q)' = InFlight(q)
    BY <1>3 DEF InFlight, netVars
  <2> QED
    BY <1>1, <1>2, <1>3, <2>1, <2>2 DEF RequestsAreRecorded
<1> QED
  BY <1>6, <1>7, <1>8, <1>9, <1>10, <1>11, <1>12 DEF IInv

-----------------------------------------------------------------------------
(* The inductive invariant holds of every step, and hence always. *)
LEMMA NextIInv == IInv /\ [Next]_vars => IInv'
<1> SUFFICES ASSUME IInv, [Next]_vars PROVE IInv'
  OBVIOUS
<1>1. CASE UNCHANGED vars
  <2>1. /\ TypeOK'
        /\ UNCHANGED <<bkVars, status, note, netVars, mutex, todo, moving>>
    BY <1>1, BkUnchanged DEF IInv, TypeOK, vars, threadVars, netVars, mgrVars
  <2>2. \A p \in Peer : data'[p].at \in {"received", "saved"} =>
           status[p] = "running" /\ data'[p].chunk \in Chunk
    BY <1>1 DEF IInv, ThreadInv, vars, threadVars
  <2> QED
    BY <2>1, <2>2, FrameStep
<1>2. CASE Environment
  BY <1>2, StatusStep, AddPeerStep, FlagStep, AvailableStep, ReceiveStep
     DEF Environment
<1>3. CASE \E p \in Peer : ThreadStep(p)
  BY <1>3, AskBookkeeperStep, SendRequestStep, RunRequesterStep, HereIsP2pStep,
     NotifyOthersStep, ReturnStep, StoppedStep, PopAlternativeStep,
     QueueRequestStep, RecordRequestStep, ErasePeerStep, StatusStep
     DEF ThreadStep
<1> QED
  BY <1>1, <1>2, <1>3 DEF Next

(* What the inductive invariant says about the properties the runs check. *)
LEMMA IInvImplies ==
  ASSUME IInv
  PROVE  /\ TypeOK
         /\ RequesterIsNoAlternative
         /\ NoDuplicateRequest
         /\ AlternativesAreKnown
         /\ RequestsAreRecorded
<1>1. RequesterIsNoAlternative
  BY DEF IInv, OfferInv, RequesterIsNoAlternative
<1>2. NoDuplicateRequest
  <2> SUFFICES ASSUME NEW p \in Peer, NEW q \in Peer, p # q,
                      NEW c \in InFlight(p) \cap InFlight(q)
               PROVE  FALSE
    BY DEF NoDuplicateRequest
  <2>1. c \in Chunk
    BY DEF IInv, TypeOK, InFlight, Elems
  <2>2. Alive(p) /\ Alive(q)
    BY EmptyList DEF IInv, ThreadInv, InFlight, Alive
  <2>3. \A r \in {p, q} : c \in Requested(r) \/ (moving.at = "queued" /\
           moving.chunk = c /\ moving.peer = r)
    BY DEF IInv, RequestsAreRecorded
  <2>4. CASE c \in Requested(p) /\ c \in Requested(q)
    BY <2>1, <2>2, <2>4 DEF IInv, OwnerInv
  <2>5. CASE moving.at = "queued" /\ moving.chunk = c
    BY <2>2, <2>3, <2>5 DEF IInv, MoveInv
  <2> QED
    BY <2>3, <2>4, <2>5
<1>3. AlternativesAreKnown
  BY DEF IInv, OfferInv, ThreadInv, MoveInv, AlternativesAreKnown
<1> QED
  BY <1>1, <1>2, <1>3 DEF IInv

(* The inductive invariant holds in every state, if callbacks name their   *)
(* own peer.                                                               *)
LEMMA Invariance == Spec /\ ~Elision => []IInv
BY InitIInv, NextIInv, PTL DEF Spec

(* Every variable keeps its type. *)
THEOREM TypeCorrect == Spec /\ ~Elision => []TypeOK
BY Invariance, IInvImplies, PTL

(* The bookkeeper's invariant (the comment at Bookkeeper.cpp:181-185)      *)
(* holds whatever the threads of any number of peers do: no list of        *)
(* alternatives names a peer that has already requested the chunk.         *)
THEOREM BookkeeperInvariant == Spec /\ ~Elision => []RequesterIsNoAlternative
BY Invariance, IInvImplies, PTL

(* No chunk is ever requested from two remotes at a time, whether it is    *)
(* requested upon a notice or reassigned from a stopped peer.              *)
THEOREM OneRequestPerChunk == Spec /\ ~Elision => []NoDuplicateRequest
BY Invariance, IInvImplies, PTL

(* Only peers that have been added and not erased are alternatives or are  *)
(* being given a stopped peer's requests.                                  *)
THEOREM ErasedPeersStayErased == Spec /\ ~Elision => []AlternativesAreKnown
BY Invariance, IInvImplies, PTL

(* received() knows of every request whose answer can arrive, except for   *)
(* the one that reassignPending() has yet to record.                       *)
THEOREM AnswersAreExpected == Spec /\ ~Elision => []RequestsAreRecorded
BY Invariance, IInvImplies, PTL

=============================================================================
