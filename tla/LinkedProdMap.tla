---------------------------- MODULE LinkedProdMap ----------------------------
(***************************************************************************)
(* Repository::Impl::LinkedProdMap (main/repository/Repository.cpp): a     *)
(* hash table of product-files whose entries also form a doubly-linked     *)
(* list, by product-index instead of by address.  The product-files        *)
(* themselves are left out; index None is the invalid one, which ends the  *)
(* list.                                                                   *)
(***************************************************************************)
EXTENDS Lists

CONSTANTS Index, None

ASSUME NoneAssumption == None \notin Index

VARIABLE files

Entry == [prev : Index \cup {None}, next : Index \cup {None}]

TypeOK ==
    /\ DOMAIN files.entries \subseteq Index
    /\ files.entries \in [DOMAIN files.entries -> Entry]
    /\ files.head \in Index \cup {None}
    /\ files.tail \in Index \cup {None}

EmptyMap == [entries |-> <<>>, head |-> None, tail |-> None]

Init == files = EmptyMap

-----------------------------------------------------------------------------
(* Mutant of Added: the new entry is the head. *)
AddsAtHead(m, i) ==
    [entries |-> [j \in DOMAIN m.entries \cup {i} |->
                    IF j = i THEN [prev |-> None, next |-> m.head]
                    ELSE [next |-> m.entries[j].next,
                          prev |-> IF j = m.head THEN i ELSE m.entries[j].prev]],
     head |-> i,
     tail |-> IF m.head # None THEN m.tail ELSE i]

(* add(): the new entry is the tail. *)
Added(m, i) ==
    [entries |-> [j \in DOMAIN m.entries \cup {i} |->
                    IF j = i THEN [prev |-> m.tail, next |-> None]
                    ELSE [prev |-> m.entries[j].prev,
                          next |-> IF j = m.tail THEN i ELSE m.entries[j].next]],
     head |-> IF m.tail # None THEN m.head ELSE i,
     tail |-> i]

(* Mutant of Removed: the tail is not moved back. *)
KeepsTail(m, i) ==
    LET e == m.entries[i] IN
    [entries |-> [j \in DOMAIN m.entries \ {i} |->
                    [prev |-> IF j = e.next THEN e.prev ELSE m.entries[j].prev,
                     next |-> IF j = e.prev THEN e.next ELSE m.entries[j].next]],
     head |-> IF e.prev # None THEN m.head ELSE e.next,
     tail |-> m.tail]

(* remove(): the neighbours of the entry become each other's. *)
Removed(m, i) ==
    LET e == m.entries[i] IN
    [entries |-> [j \in DOMAIN m.entries \ {i} |->
                    [prev |-> IF j = e.next THEN e.prev ELSE m.entries[j].prev,
                     next |-> IF j = e.prev THEN e.next ELSE m.entries[j].next]],
     head |-> IF e.prev # None THEN m.head ELSE e.next,
     tail |-> IF e.next # None THEN m.tail ELSE e.prev]

(* find(): removed, and added again at the tail. *)
Found(m, i) == IF i \in DOMAIN m.entries THEN Added(Removed(m, i), i) ELSE m

Add(i) ==
    /\ i # None                                \* or INVALID_ARGUMENT is thrown
    /\ i \notin DOMAIN files.entries           \* or LOGIC_ERROR is
    /\ files' = Added(files, i)

Remove(i) ==
    /\ i \in DOMAIN files.entries              \* or INVALID_ARGUMENT is thrown
    /\ files' = Removed(files, i)

Find(i) ==
    /\ i \in DOMAIN files.entries              \* or nothing changes
    /\ files' = Found(files, i)

(* A turn of the loop in ensureRoom(), which closes the file as well. *)
EvictHead ==
    /\ files.head # None
    /\ files' = Removed(Found(files, files.head), files.head)

Next ==
    \/ EvictHead
    \/ \E i \in Index \cup {None} : Add(i) \/ Remove(i) \/ Find(i)

Spec == Init /\ [][Next]_files

-----------------------------------------------------------------------------
(* The links agree with each other: neighbours point at each other, and    *)
(* only the head has no predecessor and only the tail no successor.  Every *)
(* operator[] in add() and remove() relies on it: an index without an      *)
(* entry would silently create one that has no file.                       *)
WellLinked ==
    LET m == files IN
    /\ \A i \in DOMAIN m.entries :
          /\ m.entries[i].next # None =>
                /\ m.entries[i].next \in DOMAIN m.entries
                /\ m.entries[m.entries[i].next].prev = i
          /\ m.entries[i].prev # None =>
                /\ m.entries[i].prev \in DOMAIN m.entries
                /\ m.entries[m.entries[i].prev].next = i
          /\ (m.entries[i].prev = None) = (i = m.head)
          /\ (m.entries[i].next = None) = (i = m.tail)
    /\ m.head # None => m.head \in DOMAIN m.entries
    /\ m.tail # None => m.tail \in DOMAIN m.entries
    /\ DOMAIN m.entries # {} => m.head # None /\ m.tail # None

(* The indexes met when following the links from the head. *)
Order(m) ==
    LET met[k \in 1..Cardinality(DOMAIN m.entries)] ==
            IF k = 1 THEN m.head ELSE m.entries[met[k - 1]].next
    IN  met

(* The table is the list of its entries in the order of their last use: no *)
(* entry is ever lost from the list, so ensureRoom() always has a file to  *)
(* close, and the one it closes is the least recently used.                *)
Abstract == INSTANCE Lru WITH list <- Order(files)
ImplementsLru == Abstract!Spec

=============================================================================
