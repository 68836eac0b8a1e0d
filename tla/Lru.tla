-------------------------------- MODULE Lru --------------------------------
(***************************************************************************)
(* What Repository::Impl::LinkedProdMap promises (main/repository/         *)
(* Repository.cpp): product-indexes in the order in which they were last   *)
(* used, the least recent one first.                                       *)
(***************************************************************************)
EXTENDS Lists

CONSTANT Index
VARIABLE list

Init == list = <<>>

Add(i) == i \notin Elems(list) /\ list' = Append(list, i)

Remove(i) == i \in Elems(list) /\ list' = Without(list, i)

Find(i) == i \in Elems(list) /\ list' = Append(Without(list, i), i)

EvictHead == list # <<>> /\ list' = Tail(list)

Next == EvictHead \/ \E i \in Index : Add(i) \/ Remove(i) \/ Find(i)

Spec == Init /\ [][Next]_list

=============================================================================
