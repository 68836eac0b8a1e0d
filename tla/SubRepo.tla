------------------------------- MODULE SubRepo -------------------------------
(***************************************************************************)
(* The subscriber's repository, SubRepo (main/repository/Repository.cpp)   *)
(* and its product-files, RcvProdFile (main/repository/ProdFile.cpp).      *)
(* Several threads save chunks in it at the same time: the multicast       *)
(* receiver, and the receiving thread of every peer.  A thread takes the   *)
(* repository's mutex to find the file and again to queue a complete       *)
(* product, the file's mutex to claim a segment, to count it and to ask    *)
(* whether the product is complete, and holds neither while it reads the   *)
(* segment's data from its socket.                                         *)
(*                                                                         *)
(* A chunk is <<product, 0>>, product-information, or <<product, n>>, its  *)
(* n-th data-segment.  prodFiles is only used as a set; openFiles is in    *)
(* the order of last use, see Lru.                                         *)
(***************************************************************************)
EXTENDS Lists, Integers

CONSTANTS
    Product,      \* product-indexes
    NumSegs,      \* RcvProdFile::Impl::numSegs of each product
    Thread,       \* threads that save chunks
    MaxOpenFiles, \* Repository::Impl::maxOpenFiles
    NoChunk

ASSUME NumSegsAssumption == NumSegs \in [Product -> Nat]
ASSUME MaxOpenFilesAssumption == MaxOpenFiles \in Nat \ {0}

Segment(p) == 1..NumSegs[p]
Chunk == UNION {{<<p, n>> : n \in 0..NumSegs[p]} : p \in Product}

ASSUME NoChunkAssumption == NoChunk \notin Chunk

VARIABLES
    prodFiles,     \* SubRepo::Impl::prodFiles
    openFiles,     \* SubRepo::Impl::openFiles
    haveSegs,      \* each file's segments that have been claimed
    segCount,      \* each file's number of saved segments
    pathIsName,    \* files that have the product's name: its information is saved
    written,       \* each file's segments whose data was read to its end
    saver,         \* what each thread does in save(), and for which chunk
    completeProds, \* queue of completed products
    returned       \* number of times getNextProd() has returned each product

fileVars == <<haveSegs, segCount, pathIsName, written>>
mapVars == <<prodFiles, openFiles>>
queueVars == <<completeProds, returned>>
vars == <<fileVars, mapVars, queueVars, saver>>

-----------------------------------------------------------------------------
(* "found": getProdFile() has returned; "reading": the segment is claimed; *)
(* "read": the read has returned; "saved": the item was saved; "complete": *)
(* isComplete() was true.                                                  *)
SaverPlace == {"idle", "found", "reading", "read", "saved", "complete"}
At(place, chunk) == [at |-> place, chunk |-> chunk]
Idle == At("idle", NoChunk)

TypeOK ==
    /\ prodFiles \subseteq Product
    /\ openFiles \in Seq(Product)
    /\ haveSegs \in [Product -> SUBSET Nat]
    /\ segCount \in [Product -> Nat]
    /\ pathIsName \subseteq Product
    /\ written \in [Product -> SUBSET Nat]
    /\ saver \in [Thread -> [at : SaverPlace, chunk : Chunk \cup {NoChunk}]]
    /\ completeProds \in Seq(Product)
    /\ returned \in [Product -> Nat]

Init ==
    /\ prodFiles = {}
    /\ openFiles = <<>>
    /\ haveSegs = [p \in Product |-> {}]
    /\ segCount = [p \in Product |-> 0]
    /\ pathIsName = {}
    /\ written = [p \in Product |-> {}]
    /\ saver = [t \in Thread |-> Idle]
    /\ completeProds = <<>>
    /\ returned = [p \in Product |-> 0]

(* The product and the number of the chunk a thread is saving. *)
ProdOf(t) == saver[t].chunk[1]
NumberOf(t) == saver[t].chunk[2]

(* isComplete(): the product has its name, and all segments are counted. *)
IsComplete(p) == p \in pathIsName /\ segCount[p] = NumSegs[p]

(* exists(prodIndex): getProdInfo() of a file never tests false. *)
InfoExists(p) == p \in prodFiles

(* LinkedProdMap::find() *)
Touched(seq, p) == Append(Without(seq, p), p)

(* ensureRoom(): the least recently used files are closed. *)
Room(seq) ==
    LET excess == Len(seq) - (MaxOpenFiles - 1)
    IN  IF excess > 0 THEN SubSeq(seq, excess + 1, Len(seq)) ELSE seq

(* getProdFile(prodIndex), of a product that has a file. *)
Reopened(p) ==
    IF p \in Elems(openFiles) THEN Touched(openFiles, p)
    ELSE Append(Room(openFiles), p)

-----------------------------------------------------------------------------
(* Mutant of GetProdFile: room is made for a new file, as for a known one. *)
MakesRoomForNew(t, c) ==
    /\ saver[t] = Idle
    /\ saver' = [saver EXCEPT ![t] = At("found", c)]
    /\ prodFiles' = prodFiles \cup {c[1]}
    /\ openFiles' = Reopened(c[1])
    /\ UNCHANGED <<fileVars, queueVars>>

(* save(): getProdFile(prodIndex, prodSize) finds the file or creates it.  *)
GetProdFile(t, c) ==
    LET p == c[1] IN
    /\ saver[t] = Idle
    /\ saver' = [saver EXCEPT ![t] = At("found", c)]
    /\ \/ p \in prodFiles /\ openFiles' = Reopened(p) /\ UNCHANGED prodFiles
       \/ /\ p \notin prodFiles
          /\ prodFiles' = prodFiles \cup {p}
          /\ openFiles' = Append(openFiles, p)
    /\ UNCHANGED <<fileVars, queueVars>>

(* RcvProdFile::save(rootFd, prodInfo).  It throws if the file cannot be   *)
(* renamed.                                                                *)
SaveProdInfo(t) ==
    LET p == ProdOf(t) IN
    /\ saver[t].at = "found" /\ NumberOf(t) = 0
    /\ \/ /\ p \notin pathIsName
          /\ pathIsName' = pathIsName \cup {p}
          /\ saver' = [saver EXCEPT ![t].at = "saved"]
       \/ /\ saver' = [saver EXCEPT ![t] = Idle]  \* exists already, or throws
          /\ UNCHANGED pathIsName
    /\ UNCHANGED <<mapVars, queueVars, haveSegs, segCount, written>>

(* Mutant of ClaimSegment: a duplicate is not noticed. *)
ClaimsAgain(t) ==
    /\ saver[t].at = "found" /\ NumberOf(t) # 0
    /\ haveSegs' = [haveSegs EXCEPT ![ProdOf(t)] = @ \cup {NumberOf(t)}]
    /\ saver' = [saver EXCEPT ![t].at = "reading"]
    /\ UNCHANGED <<mapVars, queueVars, pathIsName, segCount, written>>

(* RcvProdFile::save(seg): the segment is claimed if nobody has it, ... *)
ClaimSegment(t) ==
    LET p == ProdOf(t)
        n == NumberOf(t)
    IN
    /\ saver[t].at = "found" /\ n # 0
    /\ IF n \in haveSegs[p]
       THEN saver' = [saver EXCEPT ![t] = Idle] /\ UNCHANGED haveSegs
       ELSE /\ haveSegs' = [haveSegs EXCEPT ![p] = @ \cup {n}]
            /\ saver' = [saver EXCEPT ![t].at = "reading"]
    /\ UNCHANGED <<mapVars, queueVars, pathIsName, segCount, written>>

(* ... seg.getData() reads it into the mapped file: to its end, or until   *)
(* the connection is closed or the multicast socket halted, which          *)
(* getData() does not report, ...                                          *)
ReadSegment(t) ==
    LET p == ProdOf(t)
        n == NumberOf(t)
    IN
    /\ saver[t].at = "reading"
    /\ \/ written' = [written EXCEPT ![p] = @ \cup {n}]
       \/ UNCHANGED written
    /\ saver' = [saver EXCEPT ![t].at = "read"]
    /\ UNCHANGED <<mapVars, queueVars, haveSegs, pathIsName, segCount>>

(* ... or it throws, which ends the thread's connection, ... *)
ReadThrows(t) ==
    /\ saver[t].at = "reading"
    /\ saver' = [saver EXCEPT ![t] = Idle]
    /\ UNCHANGED <<mapVars, queueVars, fileVars>>

(* Mutant of TestComplete: only product-information completes a product. *)
TestsInfoOnly(t) ==
    /\ saver[t].at = "saved"
    /\ saver' = [saver EXCEPT ![t] =
            IF NumberOf(t) = 0 /\ IsComplete(ProdOf(t))
            THEN At("complete", saver[t].chunk) ELSE Idle]
    /\ UNCHANGED <<mapVars, queueVars, fileVars>>

(* ... and it is counted. *)
CountSegment(t) ==
    /\ saver[t].at = "read"
    /\ segCount' = [segCount EXCEPT ![ProdOf(t)] = @ + 1]
    /\ saver' = [saver EXCEPT ![t].at = "saved"]
    /\ UNCHANGED <<mapVars, queueVars, haveSegs, pathIsName, written>>

(* save(): isComplete(), after the item was saved. *)
TestComplete(t) ==
    /\ saver[t].at = "saved"
    /\ saver' = [saver EXCEPT ![t] =
            IF IsComplete(ProdOf(t)) THEN At("complete", saver[t].chunk) ELSE Idle]
    /\ UNCHANGED <<mapVars, queueVars, fileVars>>

(* Mutant of Finish: the product is not queued while others are. *)
QueuesIfEmpty(t) ==
    /\ saver[t].at = "complete"
    /\ completeProds' = IF completeProds = <<>> THEN <<ProdOf(t)>> ELSE completeProds
    /\ saver' = [saver EXCEPT ![t] = Idle]
    /\ UNCHANGED <<mapVars, fileVars, returned>>

(* finish() *)
Finish(t) ==
    /\ saver[t].at = "complete"
    /\ completeProds' = Append(completeProds, ProdOf(t))
    /\ saver' = [saver EXCEPT ![t] = Idle]
    /\ UNCHANGED <<mapVars, fileVars, returned>>

(* getNextProd() *)
GetNextProd ==
    /\ completeProds # <<>>
    /\ completeProds' = Tail(completeProds)
    /\ returned' = [returned EXCEPT ![Head(completeProds)] = @ + 1]
    /\ UNCHANGED <<mapVars, fileVars, saver>>

(* getProdInfo(), getMemSeg() and both exists() only look a file up. *)
LookUp(p) ==
    /\ p \in prodFiles
    /\ openFiles' = Reopened(p)
    /\ UNCHANGED <<prodFiles, fileVars, queueVars, saver>>

-----------------------------------------------------------------------------
SaverStep(t) ==
    \/ SaveProdInfo(t) \/ ClaimSegment(t) \/ ReadSegment(t) \/ ReadThrows(t)
    \/ CountSegment(t) \/ TestComplete(t) \/ Finish(t)

Next ==
    \/ \E t \in Thread : SaverStep(t) \/ \E c \in Chunk : GetProdFile(t, c)
    \/ GetNextProd
    \/ \E p \in Product : LookUp(p)

Spec == Init /\ [][Next]_vars

(***************************************************************************)
(* The steps of save() that wait for nothing but a mutex are taken, and    *)
(* the application keeps asking for the next product.  Nothing is assumed  *)
(* of what arrives, or that a read returns.                                *)
(***************************************************************************)
FairSpec ==
    /\ Spec
    /\ \A t \in Thread : WF_vars(TestComplete(t) \/ Finish(t))
    /\ WF_vars(GetNextProd)

-----------------------------------------------------------------------------
Queued(p) == p \in Elems(completeProds) \/ returned[p] > 0

(* A product is only queued once no thread is writing to its file any      *)
(* more, and none will: save() counts a segment after its data was read,   *)
(* and counts no segment twice.                                            *)
QueuedIsFinished ==
    \A p \in Product : Queued(p) =>
        /\ p \in pathIsName /\ haveSegs[p] = Segment(p)
        /\ \A t \in Thread : saver[t].at \in {"reading", "read"} => ProdOf(t) # p

(* However the last chunks of a product interleave, one of the threads     *)
(* that saved them finds the product complete: a complete product is       *)
(* queued, or a thread is about to see to it.                              *)
CompleteIsNoticed ==
    \A p \in Product : IsComplete(p) =>
        \/ Queued(p)
        \/ \E t \in Thread : saver[t].at \in {"saved", "complete"} /\ ProdOf(t) = p

(* RcvProdFile::save() asserts that the file is open, and reads into its   *)
(* mapping without holding a mutex: no file is closed between              *)
(* getProdFile() and the end of the read.                                  *)
SavedFileIsOpen ==
    \A t \in Thread : saver[t].at \in {"found", "reading"} =>
        ProdOf(t) \in Elems(openFiles)

(* "If the resulting product becomes complete, then it will be eventually  *)
(* returned by `getNextProd()`" (Repository.cpp, save()).                  *)
CompleteIsReturned == \A p \in Product : IsComplete(p) ~> returned[p] > 0

-----------------------------------------------------------------------------
(* Statements of the repository that the program does not live up to.      *)

(* getNextProd() returns "the next, completed data-product": its file has  *)
(* the data of every segment.                                              *)
ReturnedIsComplete ==
    \A p \in Product : returned[p] > 0 => written[p] = Segment(p)

(* It is the NEXT one: a product is returned once. *)
ReturnedOnce == \A p \in Product : returned[p] =< 1

(* exists(prodIndex) "Indicates if product-information exists": it has     *)
(* been saved, or is about to be.                                          *)
ExistingInfoIsSaved ==
    \A p \in Product : InfoExists(p) =>
        p \in pathIsName \/ \E t \in Thread : saver[t] = At("found", <<p, 0>>)

(* A segment that exists(segId) reports, and that save() refuses because   *)
(* it "is already in the product-file" (ProdFile.cpp, save()), is there,   *)
(* or is at least being read.                                              *)
ExistingSegmentIsThere ==
    \A p \in Product : \A n \in haveSegs[p] :
        \/ n \in written[p]
        \/ \E t \in Thread : saver[t] = At("reading", <<p, n>>)

(* maxOpenFiles is the "Maximum number of files to have open               *)
(* simultaneously".                                                        *)
OpenFilesAreBounded == Len(openFiles) =< MaxOpenFiles

=============================================================================
