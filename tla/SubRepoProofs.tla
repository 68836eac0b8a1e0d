--------------------------- MODULE SubRepoProofs ---------------------------
(***************************************************************************)
(* Proofs about SubRepo, for any products, segments and threads.  That a   *)
(* queued product is finished is a matter of counting: a segment that was  *)
(* claimed is counted at most once, and not before it has been read, so    *)
(* the count can only reach the number of segments when all are claimed    *)
(* and none is being read.                                                 *)
(***************************************************************************)
EXTENDS SubRepo, ListsProofs

Writing(t) == saver[t].at \in {"reading", "read"}

(* The claimed segments of a product that have not been counted yet. *)
Uncounted(p) == {n \in haveSegs[p] : \E t \in Thread :
                    Writing(t) /\ saver[t].chunk = <<p, n>>}

(* A thread outside save() has no chunk; one inside has one of a product   *)
(* that has a file, and every file is open.                                *)
ThreadInv ==
    /\ prodFiles = Elems(openFiles)
    /\ \A t \in Thread : saver[t] # Idle =>
          saver[t].chunk \in Chunk /\ ProdOf(t) \in prodFiles

(* A segment that is being read has been claimed, by that thread only. *)
ClaimInv ==
    /\ \A p \in Product : haveSegs[p] \subseteq Segment(p)
    /\ \A t \in Thread : Writing(t) => NumberOf(t) \in haveSegs[ProdOf(t)]
    /\ \A t, u \in Thread :
          Writing(t) /\ Writing(u) /\ saver[t].chunk = saver[u].chunk => t = u

(* A claimed segment is counted at most once, and only after the read. *)
CountInv ==
    \A p \in Product :
        segCount[p] + Cardinality(Uncounted(p)) =< Cardinality(haveSegs[p])

(* finish() is called for complete products. *)
QueueInv ==
    \A p \in Product :
        \/ Queued(p)
        \/ \E t \in Thread : saver[t].at = "complete" /\ ProdOf(t) = p
        => IsComplete(p)

IInv == TypeOK /\ ThreadInv /\ ClaimInv /\ CountInv /\ QueueInv /\ CompleteIsNoticed

-----------------------------------------------------------------------------
(* A chunk's product is one, and its number that of its information or of  *)
(* one of its segments.                                                    *)
LEMMA ChunkParts ==
  ASSUME NEW c \in Chunk
  PROVE  /\ c[1] \in Product /\ c[2] \in 0..NumSegs[c[1]]
         /\ c = <<c[1], c[2]>>
         /\ c[2] # 0 => c[2] \in Segment(c[1])
         /\ c # NoChunk
<1>1. PICK p \in Product : \E n \in 0..NumSegs[p] : c = <<p, n>>
  BY DEF Chunk
<1>2. PICK n \in 0..NumSegs[p] : c = <<p, n>>
  BY <1>1
<1>3. NumSegs[p] \in Nat
  BY NumSegsAssumption
<1>4. n # 0 => n \in 1..NumSegs[p]
  BY <1>3
<1> QED BY <1>2, <1>4, NoChunkAssumption DEF Segment

(* What the bounds on the claimed segments are worth: all sets are finite. *)
LEMMA ClaimedFinite ==
  ASSUME TypeOK, ClaimInv, NEW p \in Product
  PROVE  /\ IsFiniteSet(haveSegs[p]) /\ Cardinality(haveSegs[p]) \in Nat
         /\ Cardinality(haveSegs[p]) =< NumSegs[p]
         /\ Cardinality(haveSegs[p]) = NumSegs[p] => haveSegs[p] = Segment(p)
         /\ IsFiniteSet(Uncounted(p)) /\ Cardinality(Uncounted(p)) \in Nat
<1>1. NumSegs[p] \in Nat
  BY NumSegsAssumption
<1>2. IsFiniteSet(Segment(p)) /\ Cardinality(Segment(p)) = NumSegs[p]
  BY <1>1, FS_Interval DEF Segment
<1>3. haveSegs[p] \in SUBSET Segment(p)
  BY DEF ClaimInv
<1>4. /\ IsFiniteSet(haveSegs[p])
      /\ Cardinality(haveSegs[p]) =< NumSegs[p]
      /\ Cardinality(haveSegs[p]) = NumSegs[p] => haveSegs[p] = Segment(p)
  BY <1>2, <1>3, FS_Subset
<1>5. Uncounted(p) \in SUBSET haveSegs[p]
  BY DEF Uncounted
<1>6. IsFiniteSet(Uncounted(p))
  BY <1>4, <1>5, FS_Subset
<1> QED BY <1>4, <1>6, FS_CardinalityType

(* A product that is complete has no uncounted segment left. *)
LEMMA CompleteIsCounted ==
  ASSUME IInv, NEW p \in Product, IsComplete(p)
  PROVE  /\ haveSegs[p] = Segment(p) /\ Uncounted(p) = {}
         /\ \A t \in Thread : Writing(t) => ProdOf(t) # p
<1>1. TypeOK /\ ClaimInv
  BY DEF IInv
<1>2. /\ segCount[p] = NumSegs[p] /\ NumSegs[p] \in Nat
      /\ segCount[p] + Cardinality(Uncounted(p)) =< Cardinality(haveSegs[p])
  BY NumSegsAssumption DEF IsComplete, IInv, CountInv
<1>3. Cardinality(haveSegs[p]) = NumSegs[p] /\ Cardinality(Uncounted(p)) = 0
  BY <1>1, <1>2, ClaimedFinite
<1>4. haveSegs[p] = Segment(p) /\ Uncounted(p) = {}
  BY <1>1, <1>3, ClaimedFinite, FS_EmptySet
<1>5. ASSUME NEW t \in Thread, Writing(t) PROVE ProdOf(t) # p
  <2>1. saver[t].chunk \in Chunk
    BY <1>5 DEF IInv, ThreadInv, Writing, Idle, At
  <2>2. saver[t].chunk = <<ProdOf(t), NumberOf(t)>>
    BY <2>1, ChunkParts DEF ProdOf, NumberOf
  <2>3. NumberOf(t) \in haveSegs[ProdOf(t)]
    BY <1>1, <1>5 DEF ClaimInv
  <2> QED BY <1>4, <1>5, <2>2, <2>3 DEF Uncounted
<1> QED BY <1>4, <1>5

(* find() moves a file to the end of the list, which keeps its files. *)
LEMMA TouchedElems ==
  ASSUME NEW seq \in Seq(Product), NEW p \in Elems(seq)
  PROVE  Touched(seq, p) \in Seq(Product) /\ Elems(Touched(seq, p)) = Elems(seq)
<1>1. p \in Product
  BY DEF Elems
<1>2. Without(seq, p) \in Seq(Product) /\ Elems(Without(seq, p)) = Elems(seq) \ {p}
  BY WithoutProperties, WithoutKeeps
<1>3. /\ Append(Without(seq, p), p) \in Seq(Product)
      /\ Elems(Append(Without(seq, p), p)) = Elems(Without(seq, p)) \cup {p}
  BY <1>1, <1>2, AppendElems
<1> QED BY <1>2, <1>3 DEF Touched

(* The files and threads of the initial state satisfy the invariant. *)
LEMMA InitIInv == Init => IInv
<1> SUFFICES ASSUME Init PROVE IInv
  OBVIOUS
<1> USE DEF Init
<1>1. Elems(<<>>) = {} /\ <<>> \in Seq(Product)
  BY DEF Elems
<1>2. TypeOK
  BY <1>1 DEF TypeOK, SaverPlace, Idle, At
<1>3. ThreadInv
  BY <1>1 DEF ThreadInv
<1>4. \A t \in Thread : saver[t].at = "idle"
  BY DEF Idle, At
<1>5. ClaimInv
  BY <1>4 DEF ClaimInv, Writing
<1>6. CountInv
  <2> SUFFICES ASSUME NEW p \in Product
               PROVE  segCount[p] + Cardinality(Uncounted(p)) =< Cardinality(haveSegs[p])
    BY DEF CountInv
  <2>1. Uncounted(p) = {} /\ haveSegs[p] = {} /\ segCount[p] = 0
    BY <1>4 DEF Uncounted, Writing
  <2> QED BY <2>1, FS_EmptySet
<1>7. QueueInv
  BY <1>1, <1>4 DEF QueueInv, Queued
<1>8. \A p \in Product : ~ IsComplete(p)
  BY DEF IsComplete
<1>9. CompleteIsNoticed
  BY <1>8 DEF CompleteIsNoticed
<1> QED BY <1>2, <1>3, <1>5, <1>6, <1>7, <1>9 DEF IInv

-----------------------------------------------------------------------------
(* A thread's place and chunk, from its type. *)
LEMMA SaverParts ==
  ASSUME TypeOK, ThreadInv, NEW t \in Thread
  PROVE  /\ saver[t].at \in SaverPlace
         /\ saver[t].chunk \in Chunk \cup {NoChunk}
         /\ saver[t] = At(saver[t].at, saver[t].chunk)
         /\ saver[t].at # "idle" =>
               /\ saver[t].chunk \in Chunk /\ ProdOf(t) \in prodFiles
               /\ ProdOf(t) \in Product /\ NumberOf(t) \in 0..NumSegs[ProdOf(t)]
               /\ saver[t].chunk = <<ProdOf(t), NumberOf(t)>>
               /\ NumberOf(t) # 0 => NumberOf(t) \in Segment(ProdOf(t))
<1>1. saver[t] \in [at : SaverPlace, chunk : Chunk \cup {NoChunk}]
  BY DEF TypeOK
<1>2. saver[t].at # "idle" => saver[t] # Idle
  BY DEF Idle, At
<1>3. saver[t].at # "idle" => saver[t].chunk \in Chunk /\ ProdOf(t) \in prodFiles
  BY <1>2 DEF ThreadInv
<1>4. saver[t] = At(saver[t].at, saver[t].chunk)
  BY <1>1 DEF At
<1> QED BY <1>1, <1>3, <1>4, ChunkParts DEF ProdOf, NumberOf

(* As long as no segment is claimed or counted, and nobody starts to       *)
(* write, the claims and the counts stay in order.                         *)
LEMMA FewerWriters ==
  ASSUME TypeOK, ClaimInv, CountInv, UNCHANGED <<haveSegs, segCount>>,
         \A u \in Thread : Writing(u)' => Writing(u) /\ saver'[u].chunk = saver[u].chunk
  PROVE  ClaimInv' /\ CountInv'
<1>1. ClaimInv'
  <2>1. \A p \in Product : haveSegs'[p] \subseteq Segment(p)
    BY DEF ClaimInv
  <2>2. \A u \in Thread : Writing(u)' => NumberOf(u)' \in haveSegs'[ProdOf(u)']
    BY DEF ClaimInv, NumberOf, ProdOf
  <2>3. \A t, u \in Thread :
           Writing(t)' /\ Writing(u)' /\ saver'[t].chunk = saver'[u].chunk => t = u
    BY DEF ClaimInv
  <2> QED BY <2>1, <2>2, <2>3 DEF ClaimInv
<1>2. CountInv'
  <2> SUFFICES ASSUME NEW p \in Product
               PROVE  segCount'[p] + Cardinality(Uncounted(p)') =< Cardinality(haveSegs'[p])
    BY DEF CountInv
  <2>1. Uncounted(p)' \in SUBSET Uncounted(p)
    BY DEF Uncounted
  <2>2. /\ IsFiniteSet(Uncounted(p)) /\ Cardinality(Uncounted(p)) \in Nat
        /\ Cardinality(haveSegs[p]) \in Nat /\ segCount[p] \in Nat
    BY ClaimedFinite DEF TypeOK
  <2>3. IsFiniteSet(Uncounted(p)') /\ Cardinality(Uncounted(p)') =< Cardinality(Uncounted(p))
    BY <2>1, <2>2, FS_Subset
  <2>4. Cardinality(Uncounted(p)') \in Nat
    BY <2>3, FS_CardinalityType
  <2>5. segCount[p] + Cardinality(Uncounted(p)) =< Cardinality(haveSegs[p])
    BY DEF CountInv
  <2> QED BY <2>2, <2>3, <2>4, <2>5
<1> QED BY <1>1, <1>2

(* Threads that stay with their chunk, or leave save(), keep ThreadInv. *)
LEMMA SameChunks ==
  ASSUME ThreadInv, UNCHANGED mapVars,
         \A u \in Thread : saver'[u] # Idle =>
            saver[u] # Idle /\ saver'[u].chunk = saver[u].chunk
  PROVE  ThreadInv'
BY DEF ThreadInv, mapVars, ProdOf

(* A step that changes no file and no queue, and at most tells threads at  *)
(* "complete" or "saved" that they are no longer there when their product  *)
(* is not complete, or is queued, keeps the books of complete products.    *)
LEMMA SameProducts ==
  ASSUME QueueInv, CompleteIsNoticed,
         UNCHANGED <<segCount, pathIsName, completeProds, returned>>,
         \A u \in Thread : saver'[u].at = "complete" =>
            \/ IsComplete(saver'[u].chunk[1])
            \/ saver[u].at = "complete" /\ saver'[u].chunk = saver[u].chunk,
         \A u \in Thread : saver[u].at \in {"saved", "complete"} =>
            \/ saver'[u].at \in {"saved", "complete"} /\ saver'[u].chunk = saver[u].chunk
            \/ ~IsComplete(saver[u].chunk[1])
  PROVE  QueueInv' /\ CompleteIsNoticed'
<1>1. \A p \in Product : IsComplete(p)' = IsComplete(p) /\ Queued(p)' = Queued(p)
  BY DEF IsComplete, Queued
<1>2. QueueInv'
  BY <1>1 DEF QueueInv, ProdOf
<1>3. CompleteIsNoticed'
  <2> SUFFICES ASSUME NEW p \in Product, IsComplete(p), ~Queued(p)
               PROVE  \E u \in Thread : saver'[u].at \in {"saved", "complete"}
                                        /\ saver'[u].chunk[1] = p
    BY <1>1 DEF CompleteIsNoticed, ProdOf
  <2>1. PICK u \in Thread : saver[u].at \in {"saved", "complete"} /\ saver[u].chunk[1] = p
    BY DEF CompleteIsNoticed, ProdOf
  <2> QED BY <2>1
<1> QED BY <1>2, <1>3

(* getProdFile() *)
LEMMA GetProdFileStep ==
  ASSUME IInv, NEW t \in Thread, NEW c \in Chunk, GetProdFile(t, c)
  PROVE  IInv'
<1> DEFINE p == c[1]
<1>0. TypeOK /\ ThreadInv /\ ClaimInv /\ CountInv /\ QueueInv /\ CompleteIsNoticed
  BY DEF IInv
<1>1. p \in Product
  BY ChunkParts
<1>2. /\ saver[t] = Idle /\ saver' = [saver EXCEPT ![t] = At("found", c)]
      /\ UNCHANGED <<haveSegs, segCount, pathIsName, written, completeProds, returned>>
  BY DEF GetProdFile, fileVars, queueVars
<1>3. /\ saver'[t] = At("found", c) /\ saver'[t].at = "found" /\ saver'[t].chunk = c
      /\ \A u \in Thread : u # t => saver'[u] = saver[u]
      /\ saver[t].at = "idle"
  BY <1>0, <1>2 DEF TypeOK, At, Idle
<1>4. /\ openFiles' \in Seq(Product) /\ Elems(openFiles') = Elems(openFiles) \cup {p}
      /\ prodFiles' = prodFiles \cup {p}
  <2>1. CASE p \in prodFiles
    <3>1. p \in Elems(openFiles) /\ openFiles \in Seq(Product)
      BY <1>0, <2>1 DEF ThreadInv, TypeOK
    <3>2. openFiles' = Touched(openFiles, p) /\ prodFiles' = prodFiles
      BY <2>1, <3>1 DEF GetProdFile, Reopened
    <3> QED BY <2>1, <3>1, <3>2, TouchedElems
  <2>2. CASE p \notin prodFiles
    <3>1. openFiles' = Append(openFiles, p) /\ prodFiles' = prodFiles \cup {p}
      BY <2>2 DEF GetProdFile
    <3> QED BY <1>0, <1>1, <3>1, AppendElems DEF TypeOK
  <2> QED BY <2>1, <2>2
<1>5. TypeOK'
  <2>1. saver' \in [Thread -> [at : SaverPlace, chunk : Chunk \cup {NoChunk}]]
    BY <1>0, <1>2 DEF TypeOK, At, SaverPlace
  <2>2. prodFiles' \subseteq Product
    BY <1>0, <1>1, <1>4 DEF TypeOK
  <2> HIDE DEF p
  <2> QED BY <1>0, <1>2, <1>4, <2>1, <2>2 DEF TypeOK
<1>6. ThreadInv'
  BY <1>0, <1>3, <1>4 DEF ThreadInv, ProdOf
<1>7. ClaimInv' /\ CountInv'
  <2>1. \A u \in Thread : Writing(u)' => Writing(u) /\ saver'[u].chunk = saver[u].chunk
    BY <1>3 DEF Writing
  <2> QED BY <1>0, <1>2, <2>1, FewerWriters
<1>8. QueueInv' /\ CompleteIsNoticed'
  BY <1>0, <1>2, <1>3, SameProducts
<1> QED BY <1>5, <1>6, <1>7, <1>8 DEF IInv

(* A thread that leaves save() or goes on with its chunk has a place and a *)
(* chunk of the right type, and the others stay as they are.               *)
LEMMA MovedSaver ==
  ASSUME TypeOK, ThreadInv, NEW t \in Thread, saver[t].at # "idle",
         NEW v, v = Idle \/ \E place \in SaverPlace \ {"idle"} : v = [saver[t] EXCEPT !.at = place],
         saver' = [saver EXCEPT ![t] = v]
  PROVE  /\ saver' \in [Thread -> [at : SaverPlace, chunk : Chunk \cup {NoChunk}]]
         /\ saver'[t] = v /\ \A u \in Thread : u # t => saver'[u] = saver[u]
         /\ v # Idle => v.chunk = saver[t].chunk /\ v.at # "idle"
         /\ \A u \in Thread : saver'[u] # Idle =>
               saver[u] # Idle /\ saver'[u].chunk = saver[u].chunk
<1>1. saver[t] \in [at : SaverPlace, chunk : Chunk \cup {NoChunk}]
  BY DEF TypeOK
<1>2. Idle \in [at : SaverPlace, chunk : Chunk \cup {NoChunk}]
  BY DEF Idle, At, SaverPlace
<1>3. v # Idle => /\ v \in [at : SaverPlace, chunk : Chunk \cup {NoChunk}]
                  /\ v.chunk = saver[t].chunk /\ v.at # "idle"
  BY <1>1
<1>4. saver[t] # Idle
  BY DEF Idle, At
<1>5. saver'[t] = v /\ \A u \in Thread : u # t => saver'[u] = saver[u]
  BY DEF TypeOK
<1>6. saver' \in [Thread -> [at : SaverPlace, chunk : Chunk \cup {NoChunk}]]
  BY <1>2, <1>3 DEF TypeOK
<1> QED BY <1>3, <1>4, <1>5, <1>6

(* RcvProdFile::save(rootFd, prodInfo) *)
LEMMA SaveProdInfoStep ==
  ASSUME IInv, NEW t \in Thread, SaveProdInfo(t)
  PROVE  IInv'
<1> DEFINE p == ProdOf(t)
           v == saver'[t]
<1>0. TypeOK /\ ThreadInv /\ ClaimInv /\ CountInv /\ QueueInv /\ CompleteIsNoticed
  BY DEF IInv
<1>1. /\ saver[t].at = "found" /\ p \in Product
      /\ UNCHANGED <<prodFiles, openFiles, haveSegs, segCount, written,
                     completeProds, returned>>
  BY <1>0, SaverParts DEF SaveProdInfo, mapVars, queueVars
<1>2. /\ saver' = [saver EXCEPT ![t] = v]
      /\ \/ v = [saver[t] EXCEPT !.at = "saved"] /\ pathIsName' = pathIsName \cup {p}
         \/ v = Idle /\ pathIsName' = pathIsName
  BY <1>0 DEF SaveProdInfo, TypeOK
<1>3. /\ saver' \in [Thread -> [at : SaverPlace, chunk : Chunk \cup {NoChunk}]]
      /\ \A u \in Thread : u # t => saver'[u] = saver[u]
      /\ v # Idle => v.chunk = saver[t].chunk /\ v.at # "idle"
      /\ \A u \in Thread : saver'[u] # Idle =>
            saver[u] # Idle /\ saver'[u].chunk = saver[u].chunk
  <2> HIDE DEF v
  <2> QED BY <1>0, <1>1, <1>2, MovedSaver DEF SaverPlace
<1>4. v.at \in {"saved", "idle"}
  BY <1>0, <1>2 DEF TypeOK, Idle, At
<1>5. TypeOK'
  <2> HIDE DEF v, p
  <2> QED BY <1>0, <1>1, <1>2, <1>3 DEF TypeOK
<1>6. ThreadInv'
  BY <1>0, <1>1, <1>3, SameChunks DEF mapVars
<1>7. ClaimInv' /\ CountInv'
  <2>1. \A u \in Thread : Writing(u)' => Writing(u) /\ saver'[u].chunk = saver[u].chunk
    BY <1>3, <1>4 DEF Writing
  <2> QED BY <1>0, <1>1, <2>1, FewerWriters
<1>8. \A q \in Product : /\ Queued(q)' = Queued(q)
                         /\ IsComplete(q) => IsComplete(q)'
                         /\ q # p => IsComplete(q)' = IsComplete(q)
  BY <1>1, <1>2 DEF IsComplete, Queued
<1>9. QueueInv'
  <2>1. \A u \in Thread : saver'[u].at = "complete" => saver[u] = saver'[u]
    BY <1>3, <1>4
  <2> QED BY <1>0, <1>8, <2>1 DEF QueueInv, ProdOf
<1>10. CompleteIsNoticed'
  <2> SUFFICES ASSUME NEW q \in Product, IsComplete(q)', ~Queued(q)
               PROVE  \E u \in Thread : saver'[u].at \in {"saved", "complete"}
                                        /\ saver'[u].chunk[1] = q
    BY <1>8 DEF CompleteIsNoticed, ProdOf
  <2>1. CASE IsComplete(q)
    <3>1. PICK u \in Thread : saver[u].at \in {"saved", "complete"} /\ saver[u].chunk[1] = q
      BY <1>0, <2>1 DEF CompleteIsNoticed, ProdOf
    <3> QED BY <1>1, <1>3, <3>1
  <2>2. CASE ~IsComplete(q)
    <3>1. q = p /\ pathIsName' # pathIsName
      BY <1>1, <1>8, <2>2 DEF IsComplete
    <3>2. v = [saver[t] EXCEPT !.at = "saved"]
      BY <1>2, <3>1
    <3>3. v.at = "saved" /\ v.chunk = saver[t].chunk
      BY <1>0, <3>2 DEF TypeOK
    <3> QED BY <3>1, <3>3 DEF ProdOf
  <2> QED BY <2>1, <2>2
<1> QED BY <1>5, <1>6, <1>7, <1>9, <1>10 DEF IInv

(* RcvProdFile::save(seg): a new segment is claimed. *)
LEMMA ClaimSegmentStep ==
  ASSUME IInv, NEW t \in Thread, ClaimSegment(t)
  PROVE  IInv'
<1> DEFINE p == ProdOf(t)
           n == NumberOf(t)
           v == saver'[t]
<1>0. TypeOK /\ ThreadInv /\ ClaimInv /\ CountInv /\ QueueInv /\ CompleteIsNoticed
  BY DEF IInv
<1>1. /\ saver[t].at = "found" /\ n # 0
      /\ p \in Product /\ n \in Segment(p) /\ saver[t].chunk = <<p, n>>
      /\ UNCHANGED <<prodFiles, openFiles, segCount, pathIsName, written,
                     completeProds, returned>>
  BY <1>0, SaverParts DEF ClaimSegment, mapVars, queueVars
<1>2. /\ saver' = [saver EXCEPT ![t] = v]
      /\ IF n \in haveSegs[p]
         THEN v = Idle /\ haveSegs' = haveSegs
         ELSE /\ v = [saver[t] EXCEPT !.at = "reading"]
              /\ haveSegs' = [haveSegs EXCEPT ![p] = @ \cup {n}]
  BY <1>0 DEF ClaimSegment, TypeOK
<1>3. /\ saver' \in [Thread -> [at : SaverPlace, chunk : Chunk \cup {NoChunk}]]
      /\ \A u \in Thread : u # t => saver'[u] = saver[u]
      /\ v # Idle => v.chunk = saver[t].chunk /\ v.at # "idle"
      /\ \A u \in Thread : saver'[u] # Idle =>
            saver[u] # Idle /\ saver'[u].chunk = saver[u].chunk
  <2> HIDE DEF v
  <2> QED BY <1>0, <1>1, <1>2, MovedSaver DEF SaverPlace
<1>4. v.at \in {"reading", "idle"}
  BY <1>0, <1>2 DEF TypeOK, Idle, At
<1>5. TypeOK'
  <2>1. n \in Nat
    BY <1>1, NumSegsAssumption DEF Segment
  <2>2. haveSegs' \in [Product -> SUBSET Nat]
    <3>1. haveSegs \in [Product -> SUBSET Nat]
      BY <1>0 DEF TypeOK
    <3>2. \/ haveSegs' = haveSegs
          \/ haveSegs' = [haveSegs EXCEPT ![p] = @ \cup {n}]
      BY <1>2
    <3>3. haveSegs[p] \cup {n} \in SUBSET Nat
      BY <1>1, <2>1, <3>1
    <3> HIDE DEF p, n
    <3> QED BY <3>1, <3>2, <3>3
  <2> HIDE DEF v, p, n
  <2> QED BY <1>0, <1>1, <1>3, <2>2 DEF TypeOK
<1>6. ThreadInv'
  BY <1>0, <1>1, <1>3, SameChunks DEF mapVars
<1>7. QueueInv' /\ CompleteIsNoticed'
  <2>1. \A u \in Thread : saver'[u].at = "complete" =>
           saver[u].at = "complete" /\ saver'[u].chunk = saver[u].chunk
    BY <1>3, <1>4
  <2>2. \A u \in Thread : saver[u].at \in {"saved", "complete"} =>
           saver'[u].at \in {"saved", "complete"} /\ saver'[u].chunk = saver[u].chunk
    BY <1>1, <1>3
  <2> HIDE DEF v, p, n
  <2> QED BY <1>0, <1>1, <2>1, <2>2, SameProducts
<1>8. CASE n \in haveSegs[p]
  <2>1. v = Idle /\ haveSegs' = haveSegs /\ v.at = "idle"
    BY <1>2, <1>8 DEF Idle, At
  <2>2. \A u \in Thread : Writing(u)' => Writing(u) /\ saver'[u].chunk = saver[u].chunk
    BY <1>3, <2>1 DEF Writing
  <2>3. ClaimInv' /\ CountInv'
    BY <1>0, <1>1, <2>1, <2>2, FewerWriters
  <2> QED BY <1>5, <1>6, <1>7, <2>3 DEF IInv
<1>9. CASE n \notin haveSegs[p]
  <2>1. /\ v.at = "reading" /\ v.chunk = <<p, n>>
        /\ haveSegs' = [haveSegs EXCEPT ![p] = @ \cup {n}]
    BY <1>0, <1>1, <1>2, <1>9 DEF TypeOK
  <2>2. /\ haveSegs'[p] = haveSegs[p] \cup {n}
        /\ \A q \in Product : q # p => haveSegs'[q] = haveSegs[q]
    BY <1>0, <1>1, <2>1 DEF TypeOK
  <2>3. Writing(t)' /\ \A u \in Thread : u # t => Writing(u)' = Writing(u)
    BY <1>3, <2>1 DEF Writing
  <2>4. \A u \in Thread : Writing(u) =>
           /\ NumberOf(u) \in haveSegs[ProdOf(u)]
           /\ saver[u].chunk = <<ProdOf(u), NumberOf(u)>>
           /\ ProdOf(u) \in Product
    BY <1>0, SaverParts DEF ClaimInv, Writing
  <2>5. \A u \in Thread : Writing(u) => saver[u].chunk # <<p, n>>
    BY <1>9, <2>4
  <2>6. ClaimInv'
    <3>1. \A q \in Product : haveSegs'[q] \subseteq Segment(q)
      BY <1>0, <1>1, <2>2 DEF ClaimInv
    <3>2. \A u \in Thread : Writing(u)' => NumberOf(u)' \in haveSegs'[ProdOf(u)']
      <4> SUFFICES ASSUME NEW u \in Thread, Writing(u)'
                   PROVE  NumberOf(u)' \in haveSegs'[ProdOf(u)']
        OBVIOUS
      <4>1. CASE u = t
        BY <2>1, <2>2, <4>1 DEF NumberOf, ProdOf
      <4>2. CASE u # t
        <5>1. NumberOf(u)' = NumberOf(u) /\ ProdOf(u)' = ProdOf(u)
          BY <1>3, <4>2 DEF NumberOf, ProdOf
        <5>2. Writing(u)
          BY <2>3, <4>2
        <5>3. NumberOf(u) \in haveSegs[ProdOf(u)] /\ ProdOf(u) \in Product
          BY <2>4, <5>2
        <5> HIDE DEF p, n
        <5> QED BY <2>2, <5>1, <5>3
      <4> QED BY <4>1, <4>2
    <3>3. \A u, w \in Thread :
             Writing(u)' /\ Writing(w)' /\ saver'[u].chunk = saver'[w].chunk => u = w
      <4> HIDE DEF p, n
      <4> QED BY <1>0, <1>3, <2>1, <2>3, <2>5 DEF ClaimInv
    <3> QED BY <3>1, <3>2, <3>3 DEF ClaimInv
  <2>7. CountInv'
    <3> SUFFICES ASSUME NEW q \in Product
                 PROVE  segCount'[q] + Cardinality(Uncounted(q)')
                           =< Cardinality(haveSegs'[q])
      BY DEF CountInv
    <3>1. /\ segCount'[q] = segCount[q] /\ segCount[q] \in Nat
          /\ segCount[q] + Cardinality(Uncounted(q)) =< Cardinality(haveSegs[q])
      BY <1>0, <1>1 DEF CountInv, TypeOK
    <3>2. /\ IsFiniteSet(haveSegs[q]) /\ Cardinality(haveSegs[q]) \in Nat
          /\ IsFiniteSet(Uncounted(q)) /\ Cardinality(Uncounted(q)) \in Nat
      BY <1>0, ClaimedFinite
    <3>3. CASE q = p
      <4>1. Uncounted(q)' = Uncounted(q) \cup {n}
        <5>1. \A k \in haveSegs'[q] : k = n \/ k \in haveSegs[q]
          BY <2>2, <3>3
        <5>2. \A k \in haveSegs[q] : k # n
          BY <1>9, <3>3
        <5>3. \A k \in haveSegs[q] :
                 (\E u \in Thread : Writing(u)' /\ saver'[u].chunk = <<q, k>>)
                 = (\E u \in Thread : Writing(u) /\ saver[u].chunk = <<q, k>>)
          <6>1. ~Writing(t)
            BY <1>1 DEF Writing
          <6>2. \A k \in haveSegs[q] : saver'[t].chunk # <<q, k>>
            BY <2>1, <3>3, <5>2
          <6> HIDE DEF p, n
          <6> QED BY <1>3, <2>3, <6>1, <6>2
        <5>4. \E u \in Thread : Writing(u)' /\ saver'[u].chunk = <<q, n>>
          BY <2>1, <2>3, <3>3
        <5>5. n \in haveSegs'[q] /\ haveSegs[q] \subseteq haveSegs'[q]
          BY <2>2, <3>3
        <5> HIDE DEF p, n
        <5> QED BY <5>1, <5>3, <5>4, <5>5 DEF Uncounted
      <4>2. n \notin Uncounted(q)
        BY <1>9, <3>3 DEF Uncounted
      <4>3. Cardinality(Uncounted(q)') = Cardinality(Uncounted(q)) + 1
        BY <3>2, <4>1, <4>2, FS_AddElement
      <4>4. Cardinality(haveSegs'[q]) = Cardinality(haveSegs[q]) + 1
        BY <1>9, <2>2, <3>2, <3>3, FS_AddElement
      <4> QED BY <3>1, <3>2, <4>3, <4>4
    <3>4. CASE q # p
      <4>1. haveSegs'[q] = haveSegs[q]
        BY <2>2, <3>4
      <4>2. \A k : saver'[t].chunk # <<q, k>> /\ saver[t].chunk # <<q, k>>
        BY <1>1, <2>1, <3>4
      <4>3. Uncounted(q)' = Uncounted(q)
        BY <1>3, <2>3, <4>1, <4>2 DEF Uncounted
      <4> QED BY <3>1, <4>1, <4>3
    <3> QED BY <3>3, <3>4
  <2> QED BY <1>5, <1>6, <1>7, <2>6, <2>7 DEF IInv
<1> QED BY <1>8, <1>9

(* seg.getData() returns or throws. *)
LEMMA ReadStep ==
  ASSUME IInv, NEW t \in Thread, ReadSegment(t) \/ ReadThrows(t)
  PROVE  IInv'
<1> DEFINE v == saver'[t]
<1>0. TypeOK /\ ThreadInv /\ ClaimInv /\ CountInv /\ QueueInv /\ CompleteIsNoticed
  BY DEF IInv
<1>1. /\ saver[t].at = "reading" /\ ProdOf(t) \in Product /\ NumberOf(t) \in Nat
      /\ UNCHANGED <<prodFiles, openFiles, haveSegs, segCount, pathIsName,
                     completeProds, returned>>
  <2>1. saver[t].at = "reading"
    BY DEF ReadSegment, ReadThrows
  <2>2. ProdOf(t) \in Product /\ NumberOf(t) \in Nat
    BY <1>0, <2>1, SaverParts, NumSegsAssumption
  <2> QED BY <2>1, <2>2 DEF ReadSegment, ReadThrows, mapVars, queueVars, fileVars
<1>2. /\ saver' = [saver EXCEPT ![t] = v]
      /\ v = [saver[t] EXCEPT !.at = "read"] \/ v = Idle
  BY <1>0 DEF ReadSegment, ReadThrows, TypeOK
<1>3. /\ saver' \in [Thread -> [at : SaverPlace, chunk : Chunk \cup {NoChunk}]]
      /\ \A u \in Thread : u # t => saver'[u] = saver[u]
      /\ v # Idle => v.chunk = saver[t].chunk /\ v.at # "idle"
      /\ \A u \in Thread : saver'[u] # Idle =>
            saver[u] # Idle /\ saver'[u].chunk = saver[u].chunk
  <2> HIDE DEF v
  <2> QED BY <1>0, <1>1, <1>2, MovedSaver DEF SaverPlace
<1>4. v.at \in {"read", "idle"} /\ (v.at = "read" => v # Idle)
  BY <1>0, <1>2 DEF TypeOK, Idle, At
<1>5. TypeOK'
  <2>1. written' \in [Product -> SUBSET Nat]
    <3> DEFINE p == ProdOf(t)
               n == NumberOf(t)
    <3>1. written \in [Product -> SUBSET Nat]
      BY <1>0 DEF TypeOK
    <3>2. \/ written' = written
          \/ written' = [written EXCEPT ![p] = @ \cup {n}]
      BY DEF ReadSegment, ReadThrows, fileVars
    <3>3. written[p] \cup {n} \in SUBSET Nat
      BY <1>1, <3>1
    <3> HIDE DEF p, n
    <3> QED BY <3>1, <3>2, <3>3
  <2> HIDE DEF v
  <2> QED BY <1>0, <1>1, <1>3, <2>1 DEF TypeOK
<1>6. ThreadInv'
  BY <1>0, <1>1, <1>3, SameChunks DEF mapVars
<1>7. ClaimInv' /\ CountInv'
  <2>1. \A u \in Thread : Writing(u)' => Writing(u) /\ saver'[u].chunk = saver[u].chunk
    BY <1>1, <1>3, <1>4 DEF Writing
  <2> QED BY <1>0, <1>1, <2>1, FewerWriters
<1>8. QueueInv' /\ CompleteIsNoticed'
  <2>1. \A u \in Thread : saver'[u].at = "complete" =>
           saver[u].at = "complete" /\ saver'[u].chunk = saver[u].chunk
    BY <1>3, <1>4
  <2>2. \A u \in Thread : saver[u].at \in {"saved", "complete"} =>
           saver'[u].at \in {"saved", "complete"} /\ saver'[u].chunk = saver[u].chunk
    BY <1>1, <1>3
  <2> HIDE DEF v
  <2> QED BY <1>0, <1>1, <2>1, <2>2, SameProducts
<1> QED BY <1>5, <1>6, <1>7, <1>8 DEF IInv

(* The segment is counted: it was claimed and not counted before. *)
LEMMA CountSegmentStep ==
  ASSUME IInv, NEW t \in Thread, CountSegment(t)
  PROVE  IInv'
<1> DEFINE p == ProdOf(t)
           n == NumberOf(t)
           v == saver'[t]
<1>0. TypeOK /\ ThreadInv /\ ClaimInv /\ CountInv /\ QueueInv /\ CompleteIsNoticed
  BY DEF IInv
<1>1. /\ saver[t].at = "read" /\ Writing(t)
      /\ p \in Product /\ saver[t].chunk = <<p, n>> /\ n \in haveSegs[p]
      /\ segCount' = [segCount EXCEPT ![p] = @ + 1]
      /\ UNCHANGED <<prodFiles, openFiles, haveSegs, pathIsName, written,
                     completeProds, returned>>
  <2>1. saver[t].at = "read" /\ Writing(t)
    BY DEF CountSegment, Writing
  <2>2. p \in Product /\ saver[t].chunk = <<p, n>>
    BY <1>0, <2>1, SaverParts
  <2>3. n \in haveSegs[p]
    BY <1>0, <2>1 DEF ClaimInv
  <2> QED BY <2>1, <2>2, <2>3 DEF CountSegment, mapVars, queueVars
<1>2. saver' = [saver EXCEPT ![t] = v] /\ v = [saver[t] EXCEPT !.at = "saved"]
  BY <1>0 DEF CountSegment, TypeOK
<1>3. /\ saver' \in [Thread -> [at : SaverPlace, chunk : Chunk \cup {NoChunk}]]
      /\ \A u \in Thread : u # t => saver'[u] = saver[u]
      /\ v # Idle => v.chunk = saver[t].chunk /\ v.at # "idle"
      /\ \A u \in Thread : saver'[u] # Idle =>
            saver[u] # Idle /\ saver'[u].chunk = saver[u].chunk
  <2> HIDE DEF v
  <2> QED BY <1>0, <1>1, <1>2, MovedSaver DEF SaverPlace
<1>4. v.at = "saved" /\ v.chunk = <<p, n>>
  BY <1>0, <1>1, <1>2 DEF TypeOK
<1>5. /\ segCount'[p] = segCount[p] + 1
      /\ \A q \in Product : segCount[q] \in Nat /\ (q # p => segCount'[q] = segCount[q])
  BY <1>0, <1>1 DEF TypeOK
<1>6. TypeOK'
  <2>1. segCount' \in [Product -> Nat]
    <3>1. segCount \in [Product -> Nat] /\ segCount[p] + 1 \in Nat
      BY <1>0, <1>1, <1>5 DEF TypeOK
    <3> HIDE DEF p
    <3> QED BY <1>1, <3>1
  <2> HIDE DEF v, p, n
  <2> QED BY <1>0, <1>1, <1>3, <2>1 DEF TypeOK
<1>7. ThreadInv'
  BY <1>0, <1>1, <1>3, SameChunks DEF mapVars
<1>8. \A u \in Thread : Writing(u)' => /\ Writing(u) /\ u # t
                                       /\ saver'[u].chunk = saver[u].chunk
  BY <1>3, <1>4 DEF Writing
<1>9. ClaimInv'
  <2>1. \A q \in Product : haveSegs'[q] \subseteq Segment(q)
    BY <1>0, <1>1 DEF ClaimInv
  <2>2. \A u \in Thread : Writing(u)' => NumberOf(u)' \in haveSegs'[ProdOf(u)']
    BY <1>0, <1>1, <1>8 DEF ClaimInv, NumberOf, ProdOf
  <2>3. \A u, w \in Thread :
           Writing(u)' /\ Writing(w)' /\ saver'[u].chunk = saver'[w].chunk => u = w
    BY <1>0, <1>8 DEF ClaimInv
  <2> QED BY <2>1, <2>2, <2>3 DEF ClaimInv
<1>10. ASSUME NEW q \in Product
       PROVE  /\ segCount'[q] + Cardinality(Uncounted(q)') =< Cardinality(haveSegs[q])
              /\ segCount'[q] =< Cardinality(haveSegs[q])
  <2>1. /\ segCount[q] \in Nat
        /\ segCount[q] + Cardinality(Uncounted(q)) =< Cardinality(haveSegs[q])
        /\ IsFiniteSet(Uncounted(q)) /\ Cardinality(Uncounted(q)) \in Nat
        /\ Cardinality(haveSegs[q]) \in Nat
    BY <1>0, ClaimedFinite DEF CountInv, TypeOK
  <2>2. Uncounted(q)' \in SUBSET Uncounted(q)
    BY <1>1, <1>8 DEF Uncounted
  <2>3. IsFiniteSet(Uncounted(q)') /\ Cardinality(Uncounted(q)') =< Cardinality(Uncounted(q))
    BY <2>1, <2>2, FS_Subset
  <2>4. Cardinality(Uncounted(q)') \in Nat
    BY <2>3, FS_CardinalityType
  <2>5. CASE q = p
    <3>1. n \in Uncounted(q)
      BY <1>1, <2>5 DEF Uncounted
    <3>2. n \notin Uncounted(q)'
      <4>1. \A u \in Thread : Writing(u)' => saver'[u].chunk # <<p, n>>
        BY <1>0, <1>1, <1>8 DEF ClaimInv
      <4> QED BY <2>5, <4>1 DEF Uncounted
    <3>3. Cardinality(Uncounted(q)') # Cardinality(Uncounted(q))
      BY <2>1, <2>2, <3>1, <3>2, FS_Subset
    <3>4. Cardinality(Uncounted(q)') + 1 =< Cardinality(Uncounted(q))
      BY <2>1, <2>3, <2>4, <3>3
    <3>5. segCount'[q] = segCount[q] + 1
      BY <1>5, <2>5
    <3> QED BY <2>1, <2>4, <3>4, <3>5
  <2>6. CASE q # p
    <3>1. segCount'[q] = segCount[q]
      BY <1>5, <2>6
    <3> QED BY <2>1, <2>3, <2>4, <3>1
  <2> QED BY <2>5, <2>6
<1>11. CountInv'
  BY <1>1, <1>10 DEF CountInv
<1>12. \A q \in Product : Queued(q)' = Queued(q)
  BY <1>1 DEF Queued
<1>13. \A q \in Product : IsComplete(q) => q # p
  <2>1. ASSUME IsComplete(p) PROVE FALSE
    <3>1. Cardinality(haveSegs[p]) =< NumSegs[p] /\ Cardinality(haveSegs[p]) \in Nat
      BY <1>0, <1>1, ClaimedFinite
    <3>2. segCount'[p] =< Cardinality(haveSegs[p]) /\ segCount'[p] = segCount[p] + 1
      BY <1>1, <1>5, <1>10
    <3>3. segCount[p] = NumSegs[p] /\ NumSegs[p] \in Nat
      BY <1>1, <2>1, NumSegsAssumption DEF IsComplete
    <3> QED BY <3>1, <3>2, <3>3
  <2> QED BY <2>1
<1>14. \A q \in Product : q # p => IsComplete(q)' = IsComplete(q)
  BY <1>1, <1>5 DEF IsComplete
<1>15. QueueInv'
  <2>1. \A u \in Thread : saver'[u].at = "complete" => saver[u] = saver'[u]
    BY <1>3, <1>4
  <2>2. \A q \in Product : IsComplete(q) => IsComplete(q)'
    BY <1>13, <1>14
  <2> QED BY <1>0, <1>12, <2>1, <2>2 DEF QueueInv, ProdOf
<1>16. CompleteIsNoticed'
  <2> SUFFICES ASSUME NEW q \in Product, IsComplete(q)', ~Queued(q)
               PROVE  \E u \in Thread : saver'[u].at \in {"saved", "complete"}
                                        /\ saver'[u].chunk[1] = q
    BY <1>12 DEF CompleteIsNoticed, ProdOf
  <2>1. CASE q = p
    BY <1>4, <2>1
  <2>2. CASE q # p
    <3>1. PICK u \in Thread : saver[u].at \in {"saved", "complete"} /\ saver[u].chunk[1] = q
      BY <1>0, <1>14, <2>2 DEF CompleteIsNoticed, ProdOf
    <3> QED BY <1>1, <1>3, <3>1
  <2> QED BY <2>1, <2>2
<1> QED BY <1>6, <1>7, <1>9, <1>11, <1>15, <1>16 DEF IInv

(* isComplete() is asked after the item was saved. *)
LEMMA TestCompleteStep ==
  ASSUME IInv, NEW t \in Thread, TestComplete(t)
  PROVE  IInv'
<1> DEFINE v == saver'[t]
<1>0. TypeOK /\ ThreadInv /\ ClaimInv /\ CountInv /\ QueueInv /\ CompleteIsNoticed
  BY DEF IInv
<1>1. /\ saver[t].at = "saved"
      /\ UNCHANGED <<prodFiles, openFiles, haveSegs, segCount, pathIsName, written,
                     completeProds, returned>>
  BY DEF TestComplete, mapVars, queueVars, fileVars
<1>2. /\ saver' = [saver EXCEPT ![t] = v]
      /\ v = IF IsComplete(ProdOf(t)) THEN [saver[t] EXCEPT !.at = "complete"] ELSE Idle
  <2>1. saver' = [saver EXCEPT ![t] =
            IF IsComplete(ProdOf(t)) THEN At("complete", saver[t].chunk) ELSE Idle]
    BY DEF TestComplete
  <2>2. At("complete", saver[t].chunk) = [saver[t] EXCEPT !.at = "complete"]
    BY <1>0 DEF TypeOK, At
  <2> QED BY <1>0, <2>1, <2>2 DEF TypeOK
<1>3. /\ saver' \in [Thread -> [at : SaverPlace, chunk : Chunk \cup {NoChunk}]]
      /\ \A u \in Thread : u # t => saver'[u] = saver[u]
      /\ v # Idle => v.chunk = saver[t].chunk /\ v.at # "idle"
      /\ \A u \in Thread : saver'[u] # Idle =>
            saver[u] # Idle /\ saver'[u].chunk = saver[u].chunk
  <2> HIDE DEF v
  <2> QED BY <1>0, <1>1, <1>2, MovedSaver DEF SaverPlace
<1>4. /\ IsComplete(ProdOf(t)) => v.at = "complete" /\ v.chunk = saver[t].chunk
      /\ ~IsComplete(ProdOf(t)) => v.at = "idle"
      /\ v.at \in {"complete", "idle"}
  BY <1>0, <1>2 DEF TypeOK, Idle, At
<1>5. TypeOK'
  <2> HIDE DEF v
  <2> QED BY <1>0, <1>1, <1>3 DEF TypeOK
<1>6. ThreadInv'
  BY <1>0, <1>1, <1>3, SameChunks DEF mapVars
<1>7. ClaimInv' /\ CountInv'
  <2>1. \A u \in Thread : Writing(u)' => Writing(u) /\ saver'[u].chunk = saver[u].chunk
    BY <1>3, <1>4 DEF Writing
  <2> QED BY <1>0, <1>1, <2>1, FewerWriters
<1>8. QueueInv' /\ CompleteIsNoticed'
  <2>1. \A u \in Thread : saver'[u].at = "complete" =>
           \/ IsComplete(saver'[u].chunk[1])
           \/ saver[u].at = "complete" /\ saver'[u].chunk = saver[u].chunk
    BY <1>3, <1>4 DEF ProdOf
  <2>2. \A u \in Thread : saver[u].at \in {"saved", "complete"} =>
           \/ saver'[u].at \in {"saved", "complete"} /\ saver'[u].chunk = saver[u].chunk
           \/ ~IsComplete(saver[u].chunk[1])
    BY <1>3, <1>4 DEF ProdOf
  <2> HIDE DEF v
  <2> QED BY <1>0, <1>1, <2>1, <2>2, SameProducts
<1> QED BY <1>5, <1>6, <1>7, <1>8 DEF IInv

(* finish() *)
LEMMA FinishStep ==
  ASSUME IInv, NEW t \in Thread, Finish(t)
  PROVE  IInv'
<1> DEFINE p == ProdOf(t)
           v == Idle
<1>0. TypeOK /\ ThreadInv /\ ClaimInv /\ CountInv /\ QueueInv /\ CompleteIsNoticed
  BY DEF IInv
<1>1. /\ saver[t].at = "complete" /\ p \in Product
      /\ completeProds' = Append(completeProds, p)
      /\ UNCHANGED <<prodFiles, openFiles, haveSegs, segCount, pathIsName, written, returned>>
  BY <1>0, SaverParts DEF Finish, mapVars, fileVars
<1>2. saver' = [saver EXCEPT ![t] = v]
  BY DEF Finish
<1>3. /\ saver' \in [Thread -> [at : SaverPlace, chunk : Chunk \cup {NoChunk}]]
      /\ \A u \in Thread : u # t => saver'[u] = saver[u]
      /\ \A u \in Thread : saver'[u] # Idle =>
            saver[u] # Idle /\ saver'[u].chunk = saver[u].chunk
  <2>1. v = Idle
    OBVIOUS
  <2> HIDE DEF v
  <2> QED BY <1>0, <1>1, <1>2, <2>1, MovedSaver
<1>4. completeProds' \in Seq(Product) /\ Elems(completeProds') = Elems(completeProds) \cup {p}
  BY <1>0, <1>1, AppendElems DEF TypeOK
<1>5. TypeOK'
  <2> HIDE DEF v, p
  <2> QED BY <1>0, <1>1, <1>3, <1>4 DEF TypeOK
<1>6. ThreadInv'
  BY <1>0, <1>1, <1>3, SameChunks DEF mapVars
<1>7. saver'[t] = Idle /\ saver'[t].at = "idle"
  BY <1>0, <1>2 DEF TypeOK, Idle, At
<1>8. ClaimInv' /\ CountInv'
  <2>1. \A u \in Thread : Writing(u)' => Writing(u) /\ saver'[u].chunk = saver[u].chunk
    BY <1>3, <1>7 DEF Writing
  <2> QED BY <1>0, <1>1, <2>1, FewerWriters
<1>9. \A q \in Product : /\ IsComplete(q)' = IsComplete(q)
                         /\ Queued(q)' = (Queued(q) \/ q = p)
  BY <1>1, <1>4 DEF IsComplete, Queued
<1>10. QueueInv'
  <2>1. \A u \in Thread : saver'[u].at = "complete" => saver[u] = saver'[u]
    BY <1>3, <1>7
  <2>2. IsComplete(p)
    BY <1>0, <1>1 DEF QueueInv
  <2> HIDE DEF p
  <2> QED BY <1>0, <1>9, <2>1, <2>2 DEF QueueInv, ProdOf
<1>11. CompleteIsNoticed'
  <2> SUFFICES ASSUME NEW q \in Product, IsComplete(q), ~Queued(q), q # p
               PROVE  \E u \in Thread : saver'[u].at \in {"saved", "complete"}
                                        /\ saver'[u].chunk[1] = q
    BY <1>9 DEF CompleteIsNoticed, ProdOf
  <2>1. PICK u \in Thread : saver[u].at \in {"saved", "complete"} /\ saver[u].chunk[1] = q
    BY <1>0 DEF CompleteIsNoticed, ProdOf
  <2>2. u # t
    BY <2>1 DEF ProdOf
  <2> QED BY <1>3, <2>1, <2>2
<1> QED BY <1>5, <1>6, <1>8, <1>10, <1>11 DEF IInv

(* getNextProd() *)
LEMMA GetNextProdStep ==
  ASSUME IInv, GetNextProd
  PROVE  IInv'
<1>0. TypeOK /\ ThreadInv /\ ClaimInv /\ CountInv /\ QueueInv /\ CompleteIsNoticed
  BY DEF IInv
<1>1. /\ completeProds # <<>> /\ completeProds' = Tail(completeProds)
      /\ returned' = [returned EXCEPT ![Head(completeProds)] = @ + 1]
      /\ UNCHANGED <<prodFiles, openFiles, haveSegs, segCount, pathIsName, written, saver>>
  BY DEF GetNextProd, mapVars, fileVars
<1>2. /\ Head(completeProds) \in Product /\ completeProds' \in Seq(Product)
      /\ Elems(completeProds) = {Head(completeProds)} \cup Elems(completeProds')
  BY <1>0, <1>1, HeadTailElems DEF TypeOK
<1>3. /\ returned' \in [Product -> Nat]
      /\ returned'[Head(completeProds)] > 0
      /\ \A q \in Product : q # Head(completeProds) => returned'[q] = returned[q]
  BY <1>0, <1>1, <1>2 DEF TypeOK
<1>4. TypeOK'
  BY <1>0, <1>1, <1>2, <1>3 DEF TypeOK
<1>5. ThreadInv'
  BY <1>0, <1>1, SameChunks DEF mapVars
<1>6. ClaimInv' /\ CountInv'
  BY <1>0, <1>1, FewerWriters DEF Writing
<1>7. \A q \in Product : Queued(q)' = Queued(q) /\ IsComplete(q)' = IsComplete(q)
  BY <1>1, <1>2, <1>3 DEF Queued, IsComplete
<1>8. QueueInv' /\ CompleteIsNoticed'
  BY <1>0, <1>1, <1>7 DEF QueueInv, CompleteIsNoticed, ProdOf
<1> QED BY <1>4, <1>5, <1>6, <1>8 DEF IInv

(* getProdInfo(), getMemSeg() and exists() *)
LEMMA LookUpStep ==
  ASSUME IInv, NEW p \in Product, LookUp(p)
  PROVE  IInv'
<1>0. TypeOK /\ ThreadInv /\ ClaimInv /\ CountInv /\ QueueInv /\ CompleteIsNoticed
  BY DEF IInv
<1>1. /\ p \in Elems(openFiles) /\ openFiles \in Seq(Product)
      /\ UNCHANGED <<prodFiles, haveSegs, segCount, pathIsName, written,
                     completeProds, returned, saver>>
  BY <1>0 DEF LookUp, fileVars, queueVars, ThreadInv, TypeOK
<1>2. openFiles' = Touched(openFiles, p)
  BY <1>1 DEF LookUp, Reopened
<1>3. openFiles' \in Seq(Product) /\ Elems(openFiles') = Elems(openFiles)
  BY <1>1, <1>2, TouchedElems
<1>4. TypeOK'
  BY <1>0, <1>1, <1>3 DEF TypeOK
<1>5. ThreadInv'
  BY <1>0, <1>1, <1>3 DEF ThreadInv, ProdOf
<1>6. ClaimInv' /\ CountInv'
  BY <1>0, <1>1, FewerWriters DEF Writing
<1>7. QueueInv' /\ CompleteIsNoticed'
  BY <1>0, <1>1, SameProducts
<1> QED BY <1>4, <1>5, <1>6, <1>7 DEF IInv

-----------------------------------------------------------------------------
(* The invariant holds in every state: one step per action. *)
LEMMA Invariance == Spec => []IInv
<1>1. ASSUME IInv, [Next]_vars PROVE IInv'
  <2>1. ASSUME NEW t \in Thread, SaverStep(t) PROVE IInv'
    BY <1>1, <2>1, SaveProdInfoStep, ClaimSegmentStep, ReadStep, CountSegmentStep,
       TestCompleteStep, FinishStep DEF SaverStep
  <2>2. ASSUME NEW t \in Thread, NEW c \in Chunk, GetProdFile(t, c) PROVE IInv'
    BY <1>1, <2>2, GetProdFileStep
  <2>3. CASE UNCHANGED vars
    <3>1. UNCHANGED <<prodFiles, openFiles, haveSegs, segCount, pathIsName, written,
                      saver, completeProds, returned>>
      BY <2>3 DEF vars, fileVars, mapVars, queueVars
    <3>2. TypeOK' /\ ThreadInv' /\ ClaimInv'
      BY <1>1, <3>1 DEF IInv, TypeOK, ThreadInv, ClaimInv, Writing, ProdOf, NumberOf
    <3>3. CountInv'
      BY <1>1, <3>1 DEF IInv, CountInv, Uncounted, Writing
    <3>4. QueueInv' /\ CompleteIsNoticed'
      BY <1>1, <3>1 DEF IInv, QueueInv, CompleteIsNoticed, Queued, IsComplete, ProdOf
    <3> QED BY <3>2, <3>3, <3>4 DEF IInv
  <2> QED BY <1>1, <2>1, <2>2, <2>3, GetNextProdStep, LookUpStep DEF Next
<1> QED BY <1>1, InitIInv, PTL DEF Spec

(* Every variable keeps its type. *)
THEOREM TypeCorrect == Spec => []TypeOK
<1>1. IInv => TypeOK
  BY DEF IInv
<1> QED BY <1>1, Invariance, PTL

(* However any number of threads interleave, a product that has been       *)
(* queued by finish() has its name and all its segments, and nobody writes *)
(* to its file.                                                            *)
THEOREM QueuedProductsAreFinished == Spec => []QueuedIsFinished
<1>1. IInv => QueuedIsFinished
  <2> SUFFICES ASSUME IInv, NEW p \in Product, Queued(p)
               PROVE  /\ p \in pathIsName /\ haveSegs[p] = Segment(p)
                      /\ \A t \in Thread :
                            saver[t].at \in {"reading", "read"} => ProdOf(t) # p
    BY DEF QueuedIsFinished
  <2>1. IsComplete(p)
    BY DEF IInv, QueueInv
  <2> QED BY <2>1, CompleteIsCounted DEF IsComplete, Writing
<1> QED BY <1>1, Invariance, PTL

(* However any number of threads interleave, one of those that save the    *)
(* last chunks of a product finds it complete.                             *)
THEOREM NoCompleteProductIsMissed == Spec => []CompleteIsNoticed
<1>1. IInv => CompleteIsNoticed
  BY DEF IInv
<1> QED BY <1>1, Invariance, PTL

(* save() never writes to a product-file that has been closed. *)
THEOREM FilesStayOpen == Spec => []SavedFileIsOpen
<1>1. IInv => SavedFileIsOpen
  <2> SUFFICES ASSUME IInv, NEW t \in Thread, saver[t].at \in {"found", "reading"}
               PROVE  ProdOf(t) \in Elems(openFiles)
    BY DEF SavedFileIsOpen
  <2>1. saver[t] # Idle
    BY DEF Idle, At
  <2> QED BY <2>1 DEF IInv, ThreadInv
<1> QED BY <1>1, Invariance, PTL

=============================================================================
