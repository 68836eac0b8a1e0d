------------------------------- MODULE Backlog -------------------------------
(***************************************************************************)
(* Backlogger of comms/p2p/Backlogger.cpp with the iterator over the store *)
(* (ProdStore::ChunkInfoIterator): a peer that has just connected is told  *)
(* of the chunks in the store, from the first it lacks up to the first     *)
(* that it is told of in the ordinary way.  Products come and go while the *)
(* iterator is at work; a dereference of it is one step.                   *)
(*                                                                         *)
(* The class is modelled as its test drives it.  PeerSet calls             *)
(* doNotNotifyOf() on an object other than the one it runs                 *)
(* (comms/p2p/PeerSet.cpp:337 and 378), so there no backlog ever starts.   *)
(***************************************************************************)
EXTENDS ProdMap, Sequences

CONSTANT Newcomer  \* the remote peers that want a backlog

VARIABLES
    startWith,  \* first chunk that the newcomer lacks
    stopAt,     \* earliest chunk that need not be announced
    bpc,        \* where the backlogger is: waiting, next, notify, done
    pos,        \* of the iterator: product-index and chunk-index
    found,      \* the chunk that the iterator is at
    prevIndex,  \* static prevProdIndex, shared by all: <<>> or the last index
    noticed,    \* chunks and products that the newcomer was told of
    since       \* chunks that have been in the store since the backlog began

backlogVars == <<startWith, stopAt, bpc, pos, found, prevIndex, noticed, since>>

(* An identifier made from product-information is invalid for chunk 0; one *)
(* made from a received chunk is valid.                                    *)
AnyChunkId ==
    UNION {{[prod |-> p, chunk |-> c, valid |-> v] : c \in Chunks(p), v \in BOOLEAN} : p \in Prod}
Spot(p, c) == <<p, c>>
Stored == UNION {{Spot(p, c) : c \in {d \in Chunks(p) : HaveChunk(p, d)}} : p \in DOMAIN prods}

ChunkIsEarlier(a, b) ==
    IsEarlierThan(a.prod, b.prod) \/ (a.prod = b.prod /\ a.chunk < b.chunk)

BacklogTypeOK ==
    /\ MapTypeOK
    /\ startWith \in [Newcomer -> AnyChunkId]
    /\ stopAt \in [Newcomer -> AnyChunkId \cup {NoChunkId}]
    /\ found \in [Newcomer -> AnyChunkId \cup {NoChunkId}]
    /\ bpc \in [Newcomer -> {"waiting", "next", "notify", "done"}]
    /\ pos \in [Newcomer -> (0 .. IndexCount - 1) \X Nat]
    /\ prevIndex = <<>> \/ prevIndex \in Seq(0 .. IndexCount - 1)

BacklogInit ==
    /\ MapInit
    /\ startWith \in [Newcomer -> {id \in AnyChunkId : id.chunk # 0 /\ id.valid}]
    /\ stopAt = [b \in Newcomer |-> NoChunkId] /\ found = [b \in Newcomer |-> NoChunkId]
    /\ bpc = [b \in Newcomer |-> "waiting"]
    /\ pos = [b \in Newcomer |-> <<0, 0>>]
    /\ prevIndex = <<>>
    /\ noticed = [b \in Newcomer |-> {}]
    /\ since = [b \in Newcomer |-> {}]

-----------------------------------------------------------------------------
(* The store changes: ship() adds whole products, receive() their parts. *)
StoreChange(A) ==
    /\ A
    /\ since' = [b \in Newcomer |-> since[b] \cap Stored']
    /\ UNCHANGED <<startWith, stopAt, bpc, pos, found, prevIndex, noticed>>

Ship(p) == ~Known(p) /\ StoreChange(MapAddProduct(p))
ReceiveInfo(p) == ~HaveProdInfo(p) /\ StoreChange(MapAddInfo(p))
ReceiveChunk(p, c) == ~HaveChunk(p, c) /\ StoreChange(MapAddChunk(p, c))
Delete(p) == Known(p) /\ StoreChange(MapErase(p))

-----------------------------------------------------------------------------
(* The newcomer is told of a chunk in the ordinary way; once the backlog   *)
(* has ended, that makes no difference.                                    *)
DoNotNotifyOf(b, id) ==
    /\ bpc[b] # "done"
    /\ ChunkIsEarlier(id, stopAt[b]) \/ (~stopAt[b].valid /\ id.valid)
    /\ stopAt[b] # id
    /\ stopAt' = [stopAt EXCEPT ![b] = id]
    /\ UNCHANGED <<prodMapVars, startWith, bpc, pos, found, prevIndex, noticed, since>>

(* Mutant: if the product to start with is gone, the iterator starts with the last one. *)
StartsLate(id) ==
    IF Known(id.prod) /\ ~IsEarlierThan(id.prod, earliest) THEN <<id.prod, id.chunk>> ELSE <<latest, 0>>

(* Where the iterator starts. *)
StartOf(id) ==
    IF Known(id.prod) /\ ~IsEarlierThan(id.prod, earliest) THEN <<id.prod, id.chunk>> ELSE <<earliest, 0>>

BeginBacklog(b) ==
    /\ bpc[b] = "waiting" /\ stopAt[b].valid
    /\ pos' = [pos EXCEPT ![b] = StartOf(startWith[b])]
    /\ since' = [since EXCEPT ![b] = Stored]
    /\ bpc' = [bpc EXCEPT ![b] = "next"]
    /\ UNCHANGED <<prodMapVars, startWith, stopAt, found, prevIndex, noticed>>

ChunksFrom(i, c) == IF Known(i) THEN {d \in Chunks(i) : d >= c /\ HaveChunk(i, d)} ELSE {}

(* The first position, from <<i, c>> on, of a chunk in the store, or one   *)
(* after the last product.                                                 *)
Position(i, c, n) == IF n = 0 THEN <<i, c>> ELSE <<(i + n) % IndexCount, 0>>
Stops(at) == ~NotAfter(at[1], latest) \/ ChunksFrom(at[1], at[2]) # {}
Advance(i, c) ==
    LET n == Min({k \in 0 .. IndexCount : Stops(Position(i, c, k))})
        at == Position(i, c, n)
    IN  <<at[1], IF NotAfter(at[1], latest) THEN Min(ChunksFrom(at[1], at[2])) ELSE 0>>

(* *iter: to the next chunk.  A product that was not the last one to be    *)
(* announced by any backlogger is announced.                               *)
NextChunk(b) ==
    /\ bpc[b] = "next"
    /\ LET at == Advance(pos[b][1], pos[b][2])
           id == IF NotAfter(at[1], latest) THEN ChunkId(at[1], at[2]) ELSE NoChunkId
           tell == prevIndex # <<id.prod>> /\ HaveProdInfo(id.prod)
       IN  /\ pos' = [pos EXCEPT ![b] = at]
           /\ found' = [found EXCEPT ![b] = id]
           /\ prevIndex' = <<id.prod>>
           /\ noticed' = IF tell THEN [noticed EXCEPT ![b] = @ \cup {<<id.prod>>}] ELSE noticed
    /\ bpc' = [bpc EXCEPT ![b] = "notify"]
    /\ UNCHANGED <<prodMapVars, startWith, stopAt, since>>

(* ++iter follows; the iterator stays where it is once it is past the end. *)
NotifyChunk(b) ==
    /\ bpc[b] = "notify"
    /\ IF ChunkIsEarlier(found[b], stopAt[b])
       THEN /\ noticed' = [noticed EXCEPT ![b] = @ \cup {Spot(found[b].prod, found[b].chunk)}]
            /\ pos' = IF NotAfter(pos[b][1], latest) THEN [pos EXCEPT ![b][2] = @ + 1] ELSE pos
            /\ bpc' = [bpc EXCEPT ![b] = "next"]
       ELSE /\ bpc' = [bpc EXCEPT ![b] = "done"]
            /\ UNCHANGED <<noticed, pos>>
    /\ UNCHANGED <<prodMapVars, startWith, stopAt, found, prevIndex, since>>

BacklogStep(b) == BeginBacklog(b) \/ NextChunk(b) \/ NotifyChunk(b)

BacklogNext ==
    \/ \E p \in Prod : Ship(p) \/ ReceiveInfo(p) \/ Delete(p)
    \/ \E p \in Prod : \E c \in Chunks(p) : ReceiveChunk(p, c)
    \/ \E b \in Newcomer : BacklogStep(b)
    \/ \E b \in Newcomer, id \in AnyChunkId : (id.chunk # 0 => id.valid) /\ DoNotNotifyOf(b, id)

BacklogSpec == BacklogInit /\ [][BacklogNext]_<<prodMapVars, backlogVars>>

(* The products are in less than half of the circle of indexes, as 0 is.   *)
Window ==
    {lo \in 0 .. IndexCount - 1 :
        \A p \in Prod \cup {0} : (p - lo) % IndexCount < (IndexCount - 1) \div 2}

-----------------------------------------------------------------------------
(* A backlog that has ended (comms/p2p/Backlogger.cpp:157) has announced   *)
(* every chunk that was in the store all the time, from the product that   *)
(* it was to start with up to the one to stop at, also across the end of   *)
(* the product-indexes and when the first product is deleted meanwhile.    *)
BacklogIsComplete ==
    \A b \in Newcomer : bpc[b] = "done" =>
        \A x \in since[b] :
            /\ IsEarlierThan(startWith[b].prod, x[1])
            /\ x[1] = startWith[b].prod => x[2] >= startWith[b].chunk
            /\ Before(x[1], stopAt[b].prod)
            => x \in noticed[b]

-----------------------------------------------------------------------------
(* The following do not hold. *)

(* At the end of the store the iterator returns an empty identifier, which *)
(* is earlier than most: the loop announces it for ever.                   *)
BacklogEnds == []<>(\A b \in Newcomer : bpc[b] \in {"waiting", "done"})

(* The last index announced is static, so a backlog omits the information  *)
(* on a product that another backlog has just announced.                   *)
BacklogHasInfo ==
    \A b \in Newcomer : bpc[b] = "done" =>
        \A x \in since[b] : x \in noticed[b] /\ HaveProdInfo(x[1]) => <<x[1]>> \in noticed[b]

(* The first chunk of a product does not count as a missing chunk, so a    *)
(* node that lacks it asks for no backlog (prod/Chunk_old.cpp:79).         *)
MissingIsAskedFor == (\E p \in incomplete : Missing(p) # {}) => EarliestMissingChunk.valid

=============================================================================
