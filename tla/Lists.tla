------------------------------- MODULE Lists -------------------------------
(* What the program's std::list operations do, on sequences. *)
EXTENDS Naturals, FiniteSets, Sequences

Elems(seq) == {seq[i] : i \in DOMAIN seq}

(* No element occurs twice. *)
Distinct(seq) == \A i, j \in DOMAIN seq : seq[i] = seq[j] => i = j

(***************************************************************************)
(* What std::list::remove(x) leaves of a list: its other elements, in      *)
(* order.  Place(i) is the new position of the element kept from i.        *)
(***************************************************************************)
Place(keep, i) == Cardinality({k \in keep : k =< i})

Source(keep, j) == CHOOSE i \in keep : Place(keep, i) = j

Without(seq, x) ==
    LET keep == {i \in DOMAIN seq : seq[i] # x}
    IN  [j \in 1..Cardinality(keep) |-> seq[Source(keep, j)]]

=============================================================================
