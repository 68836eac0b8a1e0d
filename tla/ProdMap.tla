------------------------------- MODULE ProdMap -------------------------------
(***************************************************************************)
(* ProdMap of prod/ProdStore.cpp with the products it holds: the store of  *)
(* the earlier implementation, without its threads.  Every operation is    *)
(* called with the map's mutex held and is one step.  An entry is a        *)
(* PartialProduct (`prod/Product.cpp`) that fills up, or a product that    *)
(* was complete from the start.                                            *)
(*                                                                         *)
(* PartialProduct::add() compares the chunk's information with the         *)
(* product's by an operator!= that ChunkInfo lacks: both operands convert  *)
(* to `true`, so nothing is compared, and the models do not either.        *)
(***************************************************************************)
EXTENDS Integers, FiniteSets, FiniteSetsExt, Functions

CONSTANTS
    Prod,       \* indexes of the products
    ProdSize,   \* the number of bytes of each
    CanonSize,  \* number of bytes of a canonical chunk
    IndexCount  \* number of product-indexes: 2^64 in the program

ASSUME ProdMapAssumption ==
    /\ CanonSize \in Nat \ {0} /\ IndexCount \in Nat \ {0}
    /\ Prod \subseteq 0 .. IndexCount - 1 /\ ProdSize \in [Prod -> Nat]

VARIABLES
    prods,       \* the entries, by product-index
    incomplete,  \* indexes of the incomplete products
    earliest,    \* indexes of the first and the last product
    latest

prodMapVars == <<prods, incomplete, earliest, latest>>

-----------------------------------------------------------------------------
(* Product-indexes are circular.  Note that an index is earlier than itself. *)
IsEarlierThan(i, j) == (j - i) % IndexCount <= (IndexCount - 1) \div 2
NotAfter(i, j) == (j - i) % IndexCount < (IndexCount - 1) \div 2
Before(i, j) == NotAfter(i, j) /\ i # j

NumChunks(p) == (ProdSize[p] + CanonSize - 1) \div CanonSize
Chunks(p) == 0 .. NumChunks(p) - 1
Offset(c) == c * CanonSize
ChunkSize(p, c) == IF Offset(c) + CanonSize <= ProdSize[p] THEN CanonSize ELSE ProdSize[p] - Offset(c)

(* What chunk c of product p fills of the product's data. *)
Bytes(p, c) == Offset(c) .. Offset(c) + ChunkSize(p, c) - 1

(* The name of a product comes with its information, not with its chunks. *)
Entry(p) ==
    [name : BOOLEAN, chunkVec : SUBSET Chunks(p), numChunks : 0 .. NumChunks(p), complete : BOOLEAN,
     data : SUBSET (0 .. ProdSize[p] - 1)]

NewEntry == [name |-> FALSE, chunkVec |-> {}, numChunks |-> 0, complete |-> FALSE, data |-> {}]
WholeEntry(p) ==
    [name |-> TRUE, chunkVec |-> {}, numChunks |-> NumChunks(p), complete |-> TRUE,
     data |-> 0 .. ProdSize[p] - 1]

EntryIsComplete(e) == e.complete /\ e.name

(* The vector of chunks is cleared with the last chunk. *)
WithChunk(e, p, c) ==
    LET n == e.numChunks + 1
        done == n = NumChunks(p)
    IN  [e EXCEPT !.numChunks = n, !.complete = done,
                  !.chunkVec = IF done THEN {} ELSE @ \cup {c},
                  !.data = @ \cup Bytes(p, c)]

AddToProduct(e, p, c) == IF e.complete \/ c \in e.chunkVec THEN e ELSE WithChunk(e, p, c)
SetInfo(e) == [e EXCEPT !.name = TRUE]

-----------------------------------------------------------------------------
(* Look-ups. *)
Known(p) == p \in DOMAIN prods
HaveProdInfo(p) == Known(p) /\ prods[p].name
HaveChunk(p, c) == Known(p) /\ c \in Chunks(p) /\ (prods[p].complete \/ c \in prods[p].chunkVec)

(* A chunk identifier made from product-information is valid unless it is  *)
(* that of the first chunk (`prodInfo && chunkIndex`).                     *)
NoChunkId == [prod |-> 0, chunk |-> 0, valid |-> FALSE]
ChunkId(p, c) == [prod |-> p, chunk |-> c, valid |-> c # 0]

FirstIncomplete == CHOOSE p \in incomplete : \A q \in incomplete : ~Before(q, p)
Missing(p) == IF prods[p].complete THEN {} ELSE Chunks(p) \ prods[p].chunkVec
EarliestMissingChunk ==
    IF incomplete = {} \/ Missing(FirstIncomplete) = {} THEN NoChunkId
    ELSE ChunkId(FirstIncomplete, Min(Missing(FirstIncomplete)))

-----------------------------------------------------------------------------
(* Changes. *)
MapInit ==
    /\ prods = <<>> /\ incomplete = {}
    /\ earliest = 0 /\ latest = 0

(* The map is never empty here: its new entry is in it already. *)
UpdateEndIndexes(p) ==
    /\ earliest' = IF IsEarlierThan(p, earliest) THEN p ELSE earliest
    /\ latest' = IF IsEarlierThan(latest, p) THEN p ELSE latest

(* std::map::emplace(). *)
With(map, key, value) ==
    [k \in DOMAIN map \cup {key} |-> IF k = key THEN value ELSE map[k]]

Emplace(p, e) ==
    /\ prods' = With(prods, p, e)
    /\ incomplete' = incomplete \cup {p}
    /\ UpdateEndIndexes(p)

(* Mutant: a product that has all its chunks leaves the list, with or      *)
(* without a name.                                                         *)
LeavesUnnamed(p, e) ==
    /\ prods' = [prods EXCEPT ![p] = e]
    /\ incomplete' = IF e.complete THEN incomplete \ {p} ELSE incomplete
    /\ UNCHANGED <<earliest, latest>>

Replace(p, e) ==
    /\ prods' = [prods EXCEPT ![p] = e]
    /\ incomplete' = IF EntryIsComplete(e) THEN incomplete \ {p} ELSE incomplete
    /\ UNCHANGED <<earliest, latest>>

MapAddInfo(p) == IF Known(p) THEN Replace(p, SetInfo(prods[p])) ELSE Emplace(p, SetInfo(NewEntry))
MapAddChunk(p, c) ==
    IF Known(p) THEN Replace(p, AddToProduct(prods[p], p, c))
    ELSE Emplace(p, AddToProduct(NewEntry, p, c))

MapAddProduct(p) ==
    /\ IF Known(p) THEN UNCHANGED <<prods, earliest, latest>>
       ELSE prods' = With(prods, p, WholeEntry(p)) /\ UpdateEndIndexes(p)
    /\ incomplete' = incomplete \ {p}

MapErase(p) ==
    /\ prods' = Restrict(prods, DOMAIN prods \ {p})
    /\ incomplete' = incomplete \ {p}
    /\ UNCHANGED <<earliest, latest>>

-----------------------------------------------------------------------------
MapTypeOK ==
    /\ DOMAIN prods \subseteq Prod /\ \A p \in DOMAIN prods : prods[p] \in Entry(p)
    /\ incomplete \subseteq DOMAIN prods
    /\ earliest \in Prod \cup {0} /\ latest \in Prod \cup {0}

(* The products from which the earliest missing chunk is chosen            *)
(* (prod/ProdStore.cpp:114) are exactly those that are not complete.       *)
IncompleteIsListed == incomplete = {p \in DOMAIN prods : ~EntryIsComplete(prods[p])}

(* A product that is taken for complete (prod/Product.cpp:657) has every   *)
(* byte, in whatever order its chunks of two sizes came.                   *)
FullIsWhole == \A p \in DOMAIN prods : prods[p].complete => prods[p].data = 0 .. ProdSize[p] - 1

(* The store is sound (prod/ProdStore.cpp, ProdMap): its list of           *)
(* incomplete products is right and its complete ones are whole.           *)
StoreInv == IncompleteIsListed /\ FullIsWhole

(* Does not hold: `earliest` is compared with its initial value 0 and is   *)
(* not updated when the product it names is erased.                        *)
EarliestIsEarliest == prods # <<>> => earliest \in DOMAIN prods

=============================================================================
