------------------------------ MODULE Segments -------------------------------
(***************************************************************************)
(* The arithmetic of product-files (main/repository/ProdFile.cpp): how the *)
(* publisher's sender (main/node/Node.cpp) cuts a file into segments, and  *)
(* how a subscriber puts them together, each with the segment-size of its  *)
(* own repository.  ProdSize is unsigned and wraps around.                 *)
(***************************************************************************)
EXTENDS Integers, FiniteSets

CONSTANTS
    ProdSizeLimit, \* 2^32: a ProdSize is less
    SegSizeLimit,  \* 2^16: a SegSize is less
    FileSizes,     \* sizes of files
    SegSizes       \* sizes of canonical segments

ASSUME SegmentsAssumption ==
    /\ ProdSizeLimit \in Nat \ {0} /\ SegSizeLimit \in 1..ProdSizeLimit
    /\ FileSizes \subseteq Nat /\ SegSizes \subseteq 0..(SegSizeLimit - 1)

VARIABLES
    fileSize,   \* size of the publisher's file
    pubSegSize, \* size of a canonical segment, at the publisher
    subSegSize, \* and at the subscriber
    offset,     \* offset of runSender()
    sending,    \* what runSender() does
    segs,       \* segments that were sent, and can be received at any time
    saving,     \* what the subscriber does
    pathIsName, \* whether it has the product-information
    haveSegs,   \* RcvProdFile::Impl::haveSegs, indexes of segments
    segCount,   \* RcvProdFile::Impl::segCount
    bytes       \* how often each byte of the subscriber's file was written

pubVars == <<fileSize, pubSegSize, offset, sending, segs>>
subVars == <<subSegSize, saving, pathIsName, haveSegs, segCount, bytes>>
segVars == <<pubVars, subVars>>

Status == {"new", "running", "done", "failed", "undefined"}

SegInit ==
    /\ fileSize \in FileSizes /\ pubSegSize \in SegSizes /\ subSegSize \in SegSizes
    /\ offset = 0 /\ sending = "new" /\ segs = {}
    /\ saving = "new" /\ pathIsName = FALSE /\ haveSegs = {} /\ segCount = 0
    /\ bytes = [b \in 0..(ProdSizeLimit - 1) |-> 0]

-----------------------------------------------------------------------------
(* getFileSize(): an off_t becomes a ProdSize. *)
ProdSize == fileSize % ProdSizeLimit

Wrapped(n) == n % ProdSizeLimit

(* The constructor of ProdFile::Impl, which throws if CannotCut. *)
CannotCut(segSize) == ProdSize # 0 /\ segSize = 0
NumSegs(segSize) ==
    IF segSize = 0 THEN 0 ELSE Wrapped(ProdSize + segSize - 1) \div segSize
LastSegSize(segSize) ==
    CASE segSize = 0 -> 0
      [] segSize # 0 /\ ProdSize % segSize # 0 -> ProdSize % segSize
      [] OTHER -> segSize

SegIndex(off, segSize) == off \div segSize
SegLen(off, segSize) ==
    IF SegIndex(off, segSize) + 1 < NumSegs(segSize) THEN segSize ELSE LastSegSize(segSize)

(* vet(): the order of its tests works for a segment-size of zero. *)
Vetted(off, segSize) == IF off >= ProdSize THEN FALSE ELSE off % segSize = 0

GetSegSize(off, segSize) ==
    IF Wrapped(off + segSize) > ProdSize THEN (ProdSize - off) % SegSizeLimit ELSE segSize

-----------------------------------------------------------------------------
(* The publisher: SndProdFile is constructed, and its information sent.    *)
OpenSnd ==
    /\ sending = "new"
    /\ sending' = IF CannotCut(pubSegSize) THEN "failed" ELSE "running"
    /\ UNCHANGED <<fileSize, pubSegSize, offset, segs, subVars>>

(* One turn of the loop of runSender(): getMemSeg() of the offset. *)
SendSeg ==
    /\ sending = "running" /\ offset < ProdSize
    /\ IF Vetted(offset, pubSegSize)
       THEN /\ segs' = segs \cup {[offset |-> offset, size |-> GetSegSize(offset, pubSegSize)]}
            /\ offset' = Wrapped(offset + pubSegSize)
            /\ UNCHANGED sending
       ELSE sending' = "failed" /\ UNCHANGED <<segs, offset>>
    /\ UNCHANGED <<fileSize, pubSegSize, subVars>>

EndOfSegs ==
    /\ sending = "running" /\ offset >= ProdSize
    /\ sending' = "done"
    /\ UNCHANGED <<fileSize, pubSegSize, offset, segs, subVars>>

-----------------------------------------------------------------------------
(* isComplete() *)
RcvIsComplete == saving \in {"running", "done"} /\ pathIsName /\ segCount = NumSegs(subSegSize)

(* The subscriber: RcvProdFile is constructed, by the first chunk. *)
OpenRcv ==
    /\ saving = "new" /\ sending \in {"running", "done"}
    /\ saving' = IF CannotCut(subSegSize) THEN "failed" ELSE "running"
    /\ UNCHANGED <<pubVars, subSegSize, pathIsName, haveSegs, segCount, bytes>>

SaveInfo ==
    /\ saving = "running" /\ ~pathIsName /\ pathIsName' = TRUE
    /\ UNCHANGED <<pubVars, subSegSize, saving, haveSegs, segCount, bytes>>

(* Mutant of SaveSeg: the size of the segment is not tested. *)
SavesAnySize(seg) ==
    LET i == SegIndex(seg.offset, subSegSize) IN
    /\ saving = "running" /\ Vetted(seg.offset, subSegSize) /\ i < NumSegs(subSegSize)
    /\ i \notin haveSegs
    /\ haveSegs' = haveSegs \cup {i} /\ segCount' = segCount + 1
    /\ bytes' = [b \in DOMAIN bytes |->
            IF b \in seg.offset..(seg.offset + seg.size - 1) THEN bytes[b] + 1 ELSE bytes[b]]
    /\ UNCHANGED <<pubVars, subSegSize, saving, pathIsName>>

(* save(seg) throws if the offset or the size is not what it expects.      *)
(* haveSegs[] of an index that does not exist is undefined.                *)
SaveSeg(seg) ==
    LET i == SegIndex(seg.offset, subSegSize) IN
    /\ saving = "running"
    /\ IF ~Vetted(seg.offset, subSegSize) \/ seg.size # SegLen(seg.offset, subSegSize)
       THEN saving' = "failed" /\ UNCHANGED <<haveSegs, segCount, bytes>>
       ELSE IF i >= NumSegs(subSegSize)
       THEN saving' = "undefined" /\ UNCHANGED <<haveSegs, segCount, bytes>>
       ELSE /\ i \notin haveSegs
            /\ haveSegs' = haveSegs \cup {i} /\ segCount' = segCount + 1
            /\ bytes' = [b \in DOMAIN bytes |->
                    IF b \in seg.offset..(seg.offset + seg.size - 1) THEN bytes[b] + 1
                    ELSE bytes[b]]
            /\ UNCHANGED saving
    /\ UNCHANGED <<pubVars, subSegSize, pathIsName>>

(* The product is complete, and queued. *)
FinishRcv ==
    /\ saving = "running" /\ RcvIsComplete /\ saving' = "done"
    /\ UNCHANGED <<pubVars, subSegSize, pathIsName, haveSegs, segCount, bytes>>

SegStep ==
    \/ OpenSnd \/ SendSeg \/ EndOfSegs
    \/ OpenRcv \/ SaveInfo \/ FinishRcv \/ \E seg \in segs : SaveSeg(seg)

SegSpec == SegInit /\ [][SegStep]_segVars

-----------------------------------------------------------------------------
(* No sum of an offset and a segment-size wraps around. *)
Fits == \A segSize \in {pubSegSize, subSegSize} : ProdSize + segSize - 1 < ProdSizeLimit

(* A product that a subscriber takes to be complete has every byte, once,  *)
(* and no other byte was written, whatever the sizes of segments at the    *)
(* two ends.                                                               *)
CompleteIsWhole ==
    Fits /\ RcvIsComplete =>
        \A b \in DOMAIN bytes : bytes[b] = (IF b < ProdSize THEN 1 ELSE 0)

(* The size that the publisher gives a segment is the one that the         *)
(* subscriber expects, though they compute it differently.                 *)
SentIsAccepted ==
    Fits /\ pubSegSize = subSegSize => saving \notin {"failed", "undefined"}

(* The formulas of both ends of ProdFile.cpp agree with each other, and    *)
(* with the bytes of the file.                                             *)
SegmentsInv == CompleteIsWhole /\ SentIsAccepted

(* Every product of a size up to the limit is sent to its end and becomes  *)
(* complete: both ends count the same segments, of an empty product none.  *)
ProductArrives ==
    (Fits /\ pubSegSize = subSegSize /\ sending = "running")
        ~> (sending = "done" /\ saving = "done")

(* Statements that do not hold. *)

(* "Size of a file in bytes" (getFileSize(), ProdFile.cpp): the product is *)
(* the whole file.                                                         *)
FileIsProduct == ProdSize = fileSize

(* The loop of runSender() comes to an end, for every size. *)
SenderEnds == (sending = "running") ~> (sending # "running")

=============================================================================
