------------------------------- MODULE PubRepo -------------------------------
(***************************************************************************)
(* The publisher's repository, PubRepo (main/repository/Repository.cpp)    *)
(* and its product-files, SndProdFile (main/repository/ProdFile.cpp), with *)
(* the threads that use it: the publisher's sender (main/node/Node.cpp),   *)
(* which waits for the watcher, gives the new file a product-index and     *)
(* sends its segments, and the peers that answer requests.  All use        *)
(* pointers into the file's mapping after getMemSeg() has released the     *)
(* mutex.                                                                  *)
(*                                                                         *)
(* prodQueue is left out: it is pushed to and never read.                  *)
(***************************************************************************)
EXTENDS Watcher

CONSTANTS
    IndexMax,      \* 2^32 - 1, the largest product-index
    Size,          \* number of segments of each file, once it is closed
    Reader,        \* threads of the peers
    MaxOpenFiles,  \* Repository::Impl::maxOpenFiles
    NoFile

ASSUME PubRepoAssumption ==
    /\ IndexMax \in Nat \ {0}
    /\ Size \in [File -> Nat]
    /\ MaxOpenFiles \in Nat \ {0}
    /\ NoFile \notin File

Index == 1..IndexMax

VARIABLES
    prodIndex,  \* PubRepo::Impl::prodIndex, 0 before the first product
    prodFiles,  \* the file of each product-index, NoFile if it has none
    prodSize,   \* each product-file's number of segments
    openFiles,  \* indexes of open product-files, least recently used first
    mapped,     \* product-files that are open and mapped
    sender,     \* where the sender's thread is
    sending,    \* number of the segment it sends next, from 1
    reader,     \* the index whose mapping each peer's thread reads, or 0
    sent        \* for each file, the products whose segments are all sent

repoVars == <<prodIndex, prodFiles, prodSize, openFiles, mapped>>
threadVars == <<sender, sending, reader, sent>>
vars == <<wVars, repoVars, threadVars>>

(* "top": before getNextProd(); "getting": in Watcher::getEvent();         *)
(* "opened": the SndProdFile exists; "loop": before getMemSeg(); "using":  *)
(* multicasting the segment it returned.                                   *)
SenderAt == {"top", "getting", "opened", "loop", "using", "failed"}

TypeOK ==
    /\ WatcherTypeOK
    /\ prodIndex \in 0..IndexMax
    /\ prodFiles \in [Index -> File \cup {NoFile}]
    /\ prodSize \in [Index -> Nat]
    /\ openFiles \in Seq(Index) /\ Distinct(openFiles)
    /\ mapped \subseteq Index
    /\ sender \in [at : SenderAt, file : File \cup {NoFile}, size : Nat]
    /\ sending \in Nat
    /\ reader \in [Reader -> 0..IndexMax]
    /\ sent \in [File -> SUBSET Index]

Init ==
    /\ WatcherInit
    /\ prodIndex = 0
    /\ prodFiles = [i \in Index |-> NoFile] /\ prodSize = [i \in Index |-> 0]
    /\ openFiles = <<>> /\ mapped = {}
    /\ sender = [at |-> "top", file |-> NoFile, size |-> 0] /\ sending = 1
    /\ reader = [r \in Reader |-> 0]
    /\ sent = [f \in File |-> {}]

(* ProdIndex::operator++: zero is invalid. *)
NextIndex == IF prodIndex = IndexMax THEN 1 ELSE prodIndex + 1

(* ensureRoom(): the files it closes, from the head of the list. *)
Excess == Len(openFiles) - (MaxOpenFiles - 1)
Evicted == IF Excess > 0 THEN Elems(SubSeq(openFiles, 1, Excess)) ELSE {}
Room == IF Excess > 0 THEN SubSeq(openFiles, Excess + 1, Len(openFiles)) ELSE openFiles

-----------------------------------------------------------------------------
(* getProdFile(prodIndex) of a product that exists: it is open, or is      *)
(* opened, which fails if its file is gone.                                *)
CanOpen(i) == i \in Elems(openFiles) \/ Exists(prodFiles[i])

GetProdFile(i) ==
    /\ IF i \in Elems(openFiles)
       THEN openFiles' = Append(Without(openFiles, i), i) /\ UNCHANGED mapped
       ELSE openFiles' = Append(Room, i) /\ mapped' = (mapped \cup {i}) \ Evicted
    /\ UNCHANGED <<prodIndex, prodFiles, prodSize>>

SenderFails == sender' = [sender EXCEPT !.at = "failed"]

(* getNextProd(): the index is taken first, ... *)
GetNextProd ==
    /\ sender.at = "top"
    /\ CallGetEvent
    /\ prodIndex' = NextIndex
    /\ sender' = [sender EXCEPT !.at = "getting"]
    /\ UNCHANGED <<prodFiles, prodSize, openFiles, mapped, sending, reader, sent>>

(* ... then the watcher names a file, which the SndProdFile opens and maps *)
(* with the size it has, ...                                               *)
OpenProdFile(f) ==
    /\ sender.at = "getting"
    /\ ReturnEvent(f)
    /\ IF ~Exists(f) THEN SenderFails
       ELSE \E size \in 0..Size[f] :
              /\ file[f] # "open" => size = Size[f]
              /\ sender' = [at |-> "opened", file |-> f, size |-> size]
    /\ UNCHANGED <<repoVars, sending, reader, sent>>

(* The watcher throws, or its constructor has thrown. *)
GetEventFails ==
    /\ sender.at \in {"top", "getting"} /\ watcher = "failed"
    /\ SenderFails
    /\ UNCHANGED <<wVars, repoVars, sending, reader, sent>>

(* Mutant of AddProdFile: an older product of the same index is replaced. *)
Replaces ==
    /\ sender.at = "opened"
    /\ prodFiles' = [prodFiles EXCEPT ![prodIndex] = sender.file]
    /\ prodSize' = [prodSize EXCEPT ![prodIndex] = sender.size]
    /\ openFiles' = Append(Without(Room, prodIndex), prodIndex)
    /\ mapped' = (mapped \ Evicted) \cup {prodIndex}
    /\ sender' = [sender EXCEPT !.at = "loop"] /\ sending' = 1
    /\ UNCHANGED <<wVars, prodIndex, reader, sent>>

(* ... and addProdFile() enters it.  add() throws if the index is in use.  *)
AddProdFile ==
    /\ sender.at = "opened"
    /\ IF prodFiles[prodIndex] # NoFile
       THEN SenderFails /\ UNCHANGED <<repoVars, sending>>
       ELSE /\ prodFiles' = [prodFiles EXCEPT ![prodIndex] = sender.file]
            /\ prodSize' = [prodSize EXCEPT ![prodIndex] = sender.size]
            /\ openFiles' = Append(Room, prodIndex)
            /\ mapped' = (mapped \ Evicted) \cup {prodIndex}
            /\ sender' = [sender EXCEPT !.at = "loop"] /\ sending' = 1
            /\ UNCHANGED prodIndex
    /\ UNCHANGED <<wVars, reader, sent>>

(* runSender(): getMemSeg() of the next segment, ... *)
GetMemSeg ==
    /\ sender.at = "loop" /\ sending =< prodSize[prodIndex]
    /\ IF CanOpen(prodIndex)
       THEN GetProdFile(prodIndex) /\ sender' = [sender EXCEPT !.at = "using"]
       ELSE SenderFails /\ UNCHANGED repoVars
    /\ UNCHANGED <<wVars, sending, reader, sent>>

(* Mutant of SendSegment: the offset is not advanced. *)
SendsAgain ==
    /\ sender.at = "using"
    /\ sender' = [sender EXCEPT !.at = "loop"] /\ sending' = sending
    /\ UNCHANGED <<wVars, repoVars, reader, sent>>

(* ... send(memSeg), which reads the mapping, ... *)
SendSegment ==
    /\ sender.at = "using"
    /\ sender' = [sender EXCEPT !.at = "loop"] /\ sending' = sending + 1
    /\ UNCHANGED <<wVars, repoVars, reader, sent>>

(* ... until offset =< prodSize. *)
EndOfProduct ==
    /\ sender.at = "loop" /\ sending > prodSize[prodIndex]
    /\ sent' = [sent EXCEPT ![sender.file] = @ \cup {prodIndex}]
    /\ sender' = [at |-> "top", file |-> NoFile, size |-> 0] /\ sending' = 1
    /\ UNCHANGED <<wVars, repoVars, reader>>

SenderStep ==
    \/ GetNextProd \/ GetEventFails \/ AddProdFile \/ GetMemSeg \/ SendSegment
    \/ EndOfProduct \/ \E f \in File : OpenProdFile(f)

-----------------------------------------------------------------------------
(* A peer answers a request: getProdInfo() only opens the file, while      *)
(* getMemSeg() returns a pointer, which the peer then writes to its        *)
(* socket.  If the file cannot be opened, the peer's connection ends.      *)
PeerGets(r, i) ==
    /\ reader[r] = 0 /\ prodFiles[i] # NoFile /\ CanOpen(i)
    /\ GetProdFile(i)
    /\ reader' \in {reader, [reader EXCEPT ![r] = i]}
    /\ UNCHANGED <<wVars, sender, sending, sent>>

PeerSent(r) ==
    /\ reader[r] # 0
    /\ reader' = [reader EXCEPT ![r] = 0]
    /\ UNCHANGED <<wVars, repoVars, sender, sending, sent>>

Next ==
    \/ (UserStep \/ WatcherStep) /\ UNCHANGED <<repoVars, threadVars>>
    \/ SenderStep
    \/ \E r \in Reader : PeerSent(r) \/ \E i \in Index : PeerGets(r, i)

(* The watcher's and the sender's thread run; nothing is assumed of users  *)
(* and of peers.                                                           *)
Spec == Init /\ [][Next]_vars
FairSpec ==
    /\ Spec
    /\ WF_vars(WatcherStep /\ UNCHANGED <<repoVars, threadVars>>)
    /\ WF_vars(SenderStep)

-----------------------------------------------------------------------------
InQueue(path, kind) ==
    \E queue \in {events, buffer} : At(Parent[path], path, kind) \in Elems(queue)
ToVisit(path) == \E i \in DOMAIN todo : todo[i].path = path /\ todo[i].add

(* The directory and those above it: they are in every set of directories  *)
(* that has it and the parents of its members.                             *)
HasParents(S) == \A d \in S \ {Root} : Parent[d] \in S
Up(d) == {a \in Dir : \A S \in SUBSET Dir : d \in S /\ HasParents(S) => a \in S}
Above(d) == Up(d) \ {Root}

Lost == \E queue \in {events, buffer} : \E event \in Elems(queue) : event.kind \in Fatal

(* Whatever the order in which users make directories and files, and the   *)
(* watcher adds watches, lists directories and reads events: a file that   *)
(* was closed or linked after the watcher's construction is published, or  *)
(* is queued, or an event or a directory that has still to be processed    *)
(* will lead to it.  Otherwise an event was lost, and the watcher throws.  *)
NoFileIsMissed ==
    watcher # "failed" /\ ~Lost =>
        \A f \in File : file[f] \in {"closed", "link"} =>
            \/ sender.file = f \/ \E i \in Index : prodFiles[i] = f
            \/ f \in Elems(regFiles) \/ sender.at = "failed"
            \/ InQueue(f, IF IsLink(f) THEN "create" ELSE "close_write")
            \/ ToVisit(f)
            \/ \E d \in Above(Parent[f]) : InQueue(d, "isdir") \/ ToVisit(d)

(* The list of open files is the truth: no file-descriptor is leaked when  *)
(* room is made, and with the file in the sender's hands at most one more  *)
(* than the maximum is open.                                               *)
OpenFilesAreListed ==
    /\ mapped = Elems(openFiles)
    /\ Cardinality(mapped) =< MaxOpenFiles
    /\ \A i \in mapped : prodFiles[i] # NoFile

(* A product-index names one product for as long as the publisher runs,    *)
(* although it wraps around: subscribers key their files by it.            *)
IndexIsPermanent ==
    [][\A i \in Index : prodFiles[i] # NoFile =>
            prodFiles'[i] = prodFiles[i] /\ prodSize'[i] = prodSize[i]]_vars

(* A closed or linked file that is not removed is sent to its last         *)
(* segment, or the publisher's sender fails.                               *)
FileIsSent ==
    []<>(sender.at = "failed" \/ \A f \in File : file[f] \in {"closed", "link"} => sent[f] # {})

-----------------------------------------------------------------------------
(* Statements of the repository that the program does not live up to.      *)

(* "Returns the in-memory data-segment": the mapping of a segment in use   *)
(* exists.  ensureRoom() unmaps it under another thread.                   *)
SegmentInUseIsMapped ==
    /\ \A r \in Reader : reader[r] # 0 => reader[r] \in mapped
    /\ sender.at = "using" => prodIndex \in mapped

(* "Watch for - File renaming" (Watcher.cpp, watch()): a file that was     *)
(* renamed to its pathname is published, like one that was closed.         *)
RenamedFileIsSent ==
    \A f \in File : file[f] = "moved" ~> (sent[f] # {} \/ sender.at = "failed")

(* "`pathname` is link or closed regular file": a product that is sent is  *)
(* the whole file.  A new directory is listed while files are written.     *)
SentIsWhole ==
    \A f \in File : \A i \in sent[f] : file[f] # "open" => prodSize[i] = Size[f]

(* "Watch for - Directory deletion": the watcher survives it.  The kernel  *)
(* sends IN_IGNORED next, for a descriptor that was just forgotten.        *)
DeletionIsSurvived ==
    [][watcher' = "failed" /\ watcher # "failed" /\ buffer # <<>> =>
            Head(buffer).kind # "ignored"]_vars

=============================================================================
