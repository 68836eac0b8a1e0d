------------------------------ MODULE Receiving ------------------------------
(***************************************************************************)
(* The earlier implementation's receiver and store: comms/Receiving.cpp,   *)
(* ProdStore::Impl of prod/ProdStore.cpp, misc/FixedDelayQueue.h, and what *)
(* comms/p2p/Peer.cpp asks of them.  The multicast thread and one thread   *)
(* per remote peer call accept(), which holds the receiver's mutex; the    *)
(* store's deletion thread does not take that mutex, and push() of the     *)
(* delay-queue takes none: `std::unique_lock<std::mutex>(mutex);` declares *)
(* a variable.  Races on the queue's memory itself are not modelled.       *)
(*                                                                         *)
(* A pointer to an entry that is gone is used as if the entry were still   *)
(* there; EntryInUseExists below says when that happens.                   *)
(***************************************************************************)
EXTENDS ProdMap, Sequences

CONSTANTS
    Remote,     \* the remote peers, each with a receiving thread
    Offered,    \* bound of the model: the chunks that remotes announce and ask for
    Residence,  \* minimum time that a product stays in the store
    MaxTime,    \* bound of the model: the clock stops here
    MaxQueued   \* bound of the model: length of the queue of deletions

Mcast == "mcast"
Thread == Remote \cup {Mcast}

(* What can be received: the information on a product, or a chunk of it. *)
INFO == -1
Item == UNION {{p} \X ({INFO} \cup Chunks(p)) : p \in Prod}

ASSUME ReceivingAssumption ==
    Offered \subseteq Item /\ Residence \in Nat \ {0} /\ MaxTime \in Nat /\ MaxQueued \in Nat \ {0}

VARIABLES
    rpc,        \* where a thread is: see ThreadPlace
    requested,  \* requestedProdInfos and requestedChunks
    asked,      \* requests of each remote that it has not answered
    latched,    \* the store has an exception
    delayQ,     \* products to be deleted, and when
    deleter,    \* where the deletion thread is
    clock,
    born,       \* time at which the first thing of a product came
    handed,     \* how often a product has been processed
    told,       \* items that remote peers were told of
    gone,       \* products that have been deleted
    life        \* of the store: up, canceling, down

storeVars == <<requested, asked, latched>>
queueVars == <<delayQ, deleter>>
ghostVars == <<born, handed, told, gone>>
recvVars == <<prodMapVars, rpc, storeVars, queueVars, clock, ghostVars, life>>

Idle == <<"idle">>
ThreadPlace ==
    {Idle, <<"ended">>}
    \cup {"checked", "sending"} \X Item
    \cup {"added", "process"} \X Item \X BOOLEAN \X BOOLEAN  \* status: new, complete

DeleterPlace ==
    {<<"look">>, <<"empty">>, <<"asleep">>, <<"ended">>} \cup {"timed"} \X Nat \cup {"popped"} \X Prod

ReceivingTypeOK ==
    /\ MapTypeOK
    /\ rpc \in [Thread -> ThreadPlace]
    /\ requested \subseteq Item /\ asked \in [Remote -> SUBSET Item]
    /\ latched \in BOOLEAN
    /\ delayQ \in Seq(Prod \X Nat) /\ deleter \in DeleterPlace
    /\ clock \in 0 .. MaxTime
    /\ DOMAIN born \subseteq Prod /\ handed \in [Prod -> Nat] /\ told \subseteq Item
    /\ gone \subseteq Prod
    /\ life \in {"up", "canceling", "down"}

ReceivingInit ==
    /\ MapInit
    /\ rpc = [t \in Thread |-> Idle]
    /\ requested = {} /\ asked = [r \in Remote |-> {}] /\ latched = FALSE
    /\ delayQ = <<>> /\ deleter = <<"look">>
    /\ clock = 0
    /\ born = <<>> /\ handed = [p \in Prod |-> 0] /\ told = {} /\ gone = {}
    /\ life = "up"

HasItem(x) == IF x[2] = INFO THEN HaveProdInfo(x[1]) ELSE HaveChunk(x[1], x[2])
Goto(t, place) == rpc' = [rpc EXCEPT ![t] = place]
MutexFree == \A t \in Thread : rpc[t][1] # "added"

-----------------------------------------------------------------------------
(* accept(): the item enters the map.  A chunk that is shorter than it     *)
(* should be makes the store throw, now and ever after; an exception ends  *)
(* the thread.                                                             *)
Ready(t) == life = "up" /\ rpc[t] = Idle /\ MutexFree

AcceptThrows(t) ==
    /\ Ready(t) /\ latched
    /\ Goto(t, <<"ended">>)
    /\ UNCHANGED <<prodMapVars, storeVars, queueVars, clock, ghostVars, life>>

ReceiveShort(t) ==
    /\ Ready(t) /\ ~latched
    /\ \E x \in Item : x[2] # INFO /\ ~HasItem(x)
    /\ latched' = TRUE
    /\ Goto(t, <<"ended">>)
    /\ UNCHANGED <<prodMapVars, requested, asked, queueVars, clock, ghostVars, life>>

Accept(t, x) ==
    /\ Ready(t) /\ ~latched
    /\ IF t = Mcast THEN UNCHANGED asked
       ELSE x \in asked[t] /\ asked' = [asked EXCEPT ![t] = @ \ {x}]
    /\ Len(delayQ) < MaxQueued
    /\ IF x[2] = INFO THEN MapAddInfo(x[1]) ELSE MapAddChunk(x[1], x[2])
    /\ Goto(t, <<"added", x, ~HasItem(x), Known(x[1]) /\ EntryIsComplete(prods'[x[1]])>>)
    /\ born' = IF x[1] \in DOMAIN born THEN born ELSE With(born, x[1], clock)
    /\ UNCHANGED <<requested, latched, queueVars, clock, handed, told, gone, life>>

(* The rest of ProdStore::add() and accept(), still with the receiver's    *)
(* mutex.  push() takes no mutex, so its notification finds the deletion   *)
(* thread wherever it is.                                                  *)
PushDelete(p) ==
    /\ delayQ' = Append(delayQ, <<p, clock + Residence>>)
    /\ deleter' = IF deleter = <<"asleep">> THEN <<"look">> ELSE deleter

AddReturns(t) ==
    /\ rpc[t][1] = "added"
    /\ LET x == rpc[t][2]
           isNew == rpc[t][3]
       IN  /\ IF isNew THEN PushDelete(x[1]) ELSE UNCHANGED queueVars
           /\ requested' = requested \ {x}
           /\ Goto(t, <<"process", x, isNew, rpc[t][4]>>)
    /\ UNCHANGED <<prodMapVars, asked, latched, clock, ghostVars, life>>

(* Mutant: whatever finds the product complete has it processed. *)
ProcessesAgain(t) == rpc[t][4]

ShouldProcess(t) == rpc[t][3] /\ rpc[t][4]

ShouldNotify(t) == rpc[t][3]

Process(t) ==
    /\ rpc[t][1] = "process"
    /\ LET x == rpc[t][2]
       IN  /\ handed' = IF ShouldProcess(t) THEN [handed EXCEPT ![x[1]] = @ + 1] ELSE handed
           /\ told' = IF ShouldNotify(t) THEN told \cup {x} ELSE told
    /\ Goto(t, Idle)
    /\ UNCHANGED <<prodMapVars, storeVars, queueVars, clock, born, gone, life>>

-----------------------------------------------------------------------------
(* A remote announces an item.  shouldRequest() looks into the store and,  *)
(* later, with the mutex, at the requests.                                 *)
CheckStore(r, x) ==
    /\ Ready(r) /\ ~latched
    /\ ~HasItem(x)
    /\ Goto(r, <<"checked", x>>)
    /\ UNCHANGED <<prodMapVars, storeVars, queueVars, clock, ghostVars, life>>

RequestItem(r) ==
    /\ rpc[r][1] = "checked" /\ MutexFree
    /\ LET x == rpc[r][2]
       IN  IF x \in requested THEN UNCHANGED <<requested, asked>>
           ELSE requested' = requested \cup {x} /\ asked' = [asked EXCEPT ![r] = @ \cup {x}]
    /\ Goto(r, Idle)
    /\ UNCHANGED <<prodMapVars, latched, queueVars, clock, ghostVars, life>>

(* A remote asks for an item: get() returns a pointer to its data. *)
GetItem(r, x) ==
    /\ Ready(r) /\ ~latched
    /\ HasItem(x)
    /\ Goto(r, <<"sending", x>>)
    /\ UNCHANGED <<prodMapVars, storeVars, queueVars, clock, ghostVars, life>>

SendItem(r) ==
    /\ rpc[r][1] = "sending"
    /\ Goto(r, Idle)
    /\ UNCHANGED <<prodMapVars, storeVars, queueVars, clock, ghostVars, life>>

(* The connection ends; another takes its place. *)
RemoteLeaves(r) ==
    /\ rpc[r] \in {Idle, <<"ended">>} /\ life = "up"
    /\ rpc[r] # Idle \/ asked[r] # {}
    /\ asked' = [asked EXCEPT ![r] = {}]
    /\ Goto(r, Idle)
    /\ UNCHANGED <<prodMapVars, requested, latched, queueVars, clock, ghostVars, life>>

-----------------------------------------------------------------------------
(* The deletion thread: pop() of the queue, then erase() of the map. *)
LookForOld ==
    /\ deleter = <<"look">>
    /\ deleter' = IF delayQ = <<>> THEN <<"empty">> ELSE <<"timed", Head(delayQ)[2]>>
    /\ UNCHANGED <<prodMapVars, rpc, storeVars, delayQ, clock, ghostVars, life>>

FallAsleep ==
    /\ deleter = <<"empty">>
    /\ deleter' = <<"asleep">>
    /\ UNCHANGED <<prodMapVars, rpc, storeVars, delayQ, clock, ghostVars, life>>

(* Mutant: the wait ends a unit of time early. *)
EndsEarly(when) == when <= clock + 1

IsDue(when) == when <= clock

PopOld ==
    /\ deleter[1] = "timed" /\ IsDue(deleter[2])
    /\ deleter' = <<"popped", Head(delayQ)[1]>>
    /\ delayQ' = Tail(delayQ)
    /\ UNCHANGED <<prodMapVars, rpc, storeVars, clock, ghostVars, life>>

EraseOld ==
    /\ deleter[1] = "popped"
    /\ MapErase(deleter[2])
    /\ gone' = gone \cup {deleter[2]}
    /\ deleter' = <<"look">>
    /\ UNCHANGED <<rpc, storeVars, delayQ, clock, born, handed, told, life>>

(* The destructor cancels the deletion thread, which can be cancelled      *)
(* while it waits, and joins it.  persist() then always throws, because    *)
(* writeTempFile() is not implemented, and nothing is saved.               *)
Destroy ==
    /\ life = "up" /\ \A t \in Thread : rpc[t] \in {Idle, <<"ended">>}
    /\ life' = "canceling"
    /\ UNCHANGED <<prodMapVars, rpc, storeVars, queueVars, clock, ghostVars>>

CanBeCanceled == deleter[1] \in {"asleep", "timed"}

DeleterIsCanceled ==
    /\ life = "canceling" /\ CanBeCanceled
    /\ deleter' = <<"ended">>
    /\ life' = "down"
    /\ UNCHANGED <<prodMapVars, rpc, storeVars, delayQ, clock, ghostVars>>

Tick ==
    /\ clock < MaxTime
    /\ clock' = clock + 1
    /\ UNCHANGED <<prodMapVars, rpc, storeVars, queueVars, ghostVars, life>>

DeleterStep == LookForOld \/ FallAsleep \/ PopOld \/ EraseOld \/ DeleterIsCanceled

ReceivingNext ==
    \/ \E t \in Thread : AcceptThrows(t) \/ ReceiveShort(t) \/ AddReturns(t) \/ Process(t)
    \/ \E t \in Thread, x \in Item : Accept(t, x)
    \/ \E r \in Remote : RequestItem(r) \/ SendItem(r) \/ RemoteLeaves(r)
    \/ \E r \in Remote, x \in Offered : CheckStore(r, x) \/ GetItem(r, x)
    \/ DeleterStep \/ Destroy \/ Tick

ReceivingSpec == ReceivingInit /\ [][ReceivingNext]_recvVars

-----------------------------------------------------------------------------
InHand(p) == \E t \in Thread : rpc[t][1] \in {"added", "process"} /\ rpc[t][2][1] = p

(* A product is processed (comms/Receiving.cpp:121, 141) when its          *)
(* information and all its chunks are there, and once, whichever of the    *)
(* threads brings what was missing and however often things come twice.    *)
CompleteIsProcessedOnce ==
    \A p \in DOMAIN prods \ gone :
        ~InHand(p) => handed[p] = IF EntryIsComplete(prods[p]) THEN 1 ELSE 0

(* Whatever is in the store has been announced to the remote peers         *)
(* (comms/Receiving.cpp:231, comms/p2p/PeerSet.cpp:870): who could not     *)
(* receive it can ask for it.                                              *)
StoredIsAnnounced ==
    \A x \in Item : HasItem(x) /\ ~InHand(x[1]) /\ x[1] \notin gone => x \in told

(* A product stays in the store for the minimum residence-time, although   *)
(* everything new about it is queued for its deletion.                     *)
ResidesLongEnough ==
    [][\A p \in DOMAIN prods \ gone : p \notin DOMAIN prods' => clock >= born[p] + Residence]_recvVars

(* The destructor (prod/ProdStore.cpp:595) ends wherever the deletion      *)
(* thread is, also between finding the queue empty and waiting.            *)
DestroyEnds == []<>(life # "canceling")

-----------------------------------------------------------------------------
(* The following do not hold. *)

(* ProdStore::add() uses a pointer to an entry after the map's mutex has   *)
(* been released; the deletion thread needs no other.                      *)
EntryInUseExists == \A t \in Thread : rpc[t][1] = "added" => Known(rpc[t][2][1])

(* The data of a chunk that is being sent belongs to its product. *)
ChunkBeingSentExists == \A r \in Remote : rpc[r][1] = "sending" => HasItem(rpc[r][2])

(* A product that comes back is deleted with what is left in the queue of  *)
(* its first life.                                                         *)
ReturnedResidesLongEnough ==
    [][\A p \in DOMAIN prods : p \notin DOMAIN prods' =>
            \A i \in DOMAIN delayQ : delayQ[i][1] # p]_recvVars

(* A product of no bytes never becomes complete: that is found out when a  *)
(* chunk is added.                                                         *)
EmptyIsProcessed == \A p \in DOMAIN prods : HaveProdInfo(p) /\ ProdSize[p] = 0 /\ ~InHand(p) => handed[p] > 0

(* An item is asked of one remote at a time: shouldRequest() may have      *)
(* looked into the store before the item came and was struck off.          *)
RequestedOnce == \A r, q \in Remote : r # q => asked[r] \cap asked[q] = {}

(* What was asked of a remote that left is asked of another when it is     *)
(* announced again: nothing takes it out of `requested`.                   *)
RequestedIsAsked == \A x \in requested : HasItem(x) \/ \E r \in Remote : x \in asked[r]

(* A notification that comes between the look at the queue and the wait is *)
(* lost: the product stays until another comes.                            *)
OldIsDeleted == []<>(life # "up" \/ delayQ = <<>> \/ Head(delayQ)[2] > clock)

=============================================================================
