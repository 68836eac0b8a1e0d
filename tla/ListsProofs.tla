---------------------------- MODULE ListsProofs ----------------------------
(* Facts about the list operations, for the proofs that use them. *)
EXTENDS Lists, Integers, FiniteSetTheorems, FunctionTheorems, SequenceTheorems, TLAPS

(* The kept positions are numbered 1, 2, ... without a gap: numbering them *)
(* in order is an injection between finite sets of the same size.          *)
LEMMA PlaceIsSurjection ==
  ASSUME NEW n \in Nat, NEW keep, keep \subseteq 1..n,
         NEW j \in 1..Cardinality(keep)
  PROVE  /\ Cardinality(keep) \in Nat
         /\ \E i \in keep : Place(keep, i) = j
<1> DEFINE Upto(i) == {k \in keep : k =< i}
           N == Cardinality(keep)
           f == [i \in keep |-> Place(keep, i)]
<1>a. keep \in SUBSET (1..n)
  OBVIOUS
<1>b. IsFiniteSet(1..n)
  BY FS_Interval
<1>c. IsFiniteSet(keep)
  BY <1>a, <1>b, FS_Subset
<1>1. IsFiniteSet(keep) /\ N \in Nat
  BY <1>c, FS_CardinalityType
<1>d. \A i \in keep : Upto(i) \in SUBSET keep
  OBVIOUS
<1>2. \A i \in keep : /\ IsFiniteSet(Upto(i))
                      /\ Place(keep, i) \in Nat
                      /\ Place(keep, i) =< N
  <2> SUFFICES ASSUME NEW i \in keep
               PROVE  /\ IsFiniteSet(Upto(i))
                      /\ Cardinality(Upto(i)) \in Nat
                      /\ Cardinality(Upto(i)) =< N
    BY DEF Place
  <2>1. IsFiniteSet(Upto(i)) /\ Cardinality(Upto(i)) =< N
    BY <1>1, <1>d, FS_Subset
  <2> QED BY <2>1, FS_CardinalityType
<1>3. \A i \in keep : Place(keep, i) # 0
  <2> SUFFICES ASSUME NEW i \in keep PROVE Cardinality(Upto(i)) # 0
    BY DEF Place
  <2>1. i =< i
    OBVIOUS
  <2>2. Upto(i) # {}
    BY <2>1
  <2> QED BY <2>2, <1>2, FS_EmptySet
<1>4. ASSUME NEW i \in keep, NEW m \in keep, i < m
      PROVE  Place(keep, i) # Place(keep, m)
  <2>1. \A k \in keep : k \in Nat
    OBVIOUS
  <2>2. Upto(i) \in SUBSET Upto(m)
    <3>1. \A k \in keep : k =< i => k =< m
      BY <1>4, <2>1
    <3> QED BY <3>1
  <2>3. m \in Upto(m) /\ m \notin Upto(i)
    BY <1>4, <2>1
  <2>4. Cardinality(Upto(i)) # Cardinality(Upto(m))
    <3> HIDE DEF Upto
    <3> QED BY <2>2, <2>3, <1>2, FS_Subset
  <2> QED BY <2>4 DEF Place
<1>5. f \in Injection(keep, 1..N)
  <2>1. \A i \in keep : Place(keep, i) \in 1..N
    <3> SUFFICES ASSUME NEW i \in keep PROVE Place(keep, i) \in 1..N
      OBVIOUS
    <3>1. Place(keep, i) \in Nat /\ Place(keep, i) =< N /\ Place(keep, i) # 0
      BY <1>2, <1>3
    <3> QED BY <3>1, <1>1
  <2>4. f \in [keep -> 1..N]
    BY <2>1
  <2>2. \A i, m \in keep : i = m \/ i < m \/ m < i
    OBVIOUS
  <2>3. \A i, m \in keep : f[i] = f[m] => i = m
    BY <1>4, <2>2
  <2> HIDE DEF f
  <2> QED BY <2>4, <2>3 DEF Injection, IsInjective
<1>6. Cardinality(1..N) = N /\ IsFiniteSet(1..N)
  BY <1>1, FS_Interval
<1>7. f \in Surjection(keep, 1..N)
  <2> HIDE DEF f
  <2> QED BY <1>1, <1>5, <1>6, FS_Injection
<1>8. \E i \in keep : f[i] = j
  <2> HIDE DEF f
  <2> QED BY <1>7 DEF Surjection
<1> QED BY <1>1, <1>8

(* Removal yields a list of the other elements, and keeps a list that has  *)
(* no duplicates that way.                                                 *)
LEMMA WithoutProperties ==
  ASSUME NEW S, NEW seq \in Seq(S), NEW x
  PROVE  /\ Without(seq, x) \in Seq(S)
         /\ Elems(Without(seq, x)) \subseteq Elems(seq) \ {x}
         /\ Distinct(seq) => Distinct(Without(seq, x))
<1> DEFINE keep == {i \in DOMAIN seq : seq[i] # x}
           N == Cardinality(keep)
           new == Without(seq, x)
<1>1. keep \subseteq 1..Len(seq) /\ Len(seq) \in Nat /\ DOMAIN seq = 1..Len(seq)
  OBVIOUS
<1>2. N \in Nat
  <2>1. IsFiniteSet(1..Len(seq))
    BY <1>1, FS_Interval
  <2>2. keep \in SUBSET (1..Len(seq))
    BY <1>1
  <2>3. IsFiniteSet(keep)
    <3> HIDE DEF keep
    <3> QED BY <2>1, <2>2, FS_Subset
  <2> QED BY <2>3, FS_CardinalityType
<1>3. \A j \in 1..N : Source(keep, j) \in keep /\ Place(keep, Source(keep, j)) = j
  <2> HIDE DEF keep
  <2> SUFFICES ASSUME NEW j \in 1..N
               PROVE  Source(keep, j) \in keep /\ Place(keep, Source(keep, j)) = j
    OBVIOUS
  <2>1. \E i \in keep : Place(keep, i) = j
    BY <1>1, PlaceIsSurjection
  <2> QED BY <2>1 DEF Source
<1>4. new = [j \in 1..N |-> seq[Source(keep, j)]]
  BY DEF Without
<1>5. \A j \in 1..N : seq[Source(keep, j)] \in S /\ seq[Source(keep, j)] # x
  BY <1>1, <1>3
<1>6. new \in Seq(S) /\ DOMAIN new = 1..N
  <2> HIDE DEF new, keep
  <2> QED BY <1>2, <1>4, <1>5
<1>7. Elems(new) \subseteq Elems(seq) \ {x}
  <2>1. \A j \in 1..N : new[j] = seq[Source(keep, j)] /\ Source(keep, j) \in DOMAIN seq
    BY <1>3, <1>4
  <2> HIDE DEF new, keep
  <2> QED BY <2>1, <1>5, <1>6 DEF Elems
<1>8. Distinct(seq) => Distinct(new)
  <2> SUFFICES ASSUME Distinct(seq), NEW i \in 1..N, NEW j \in 1..N, new[i] = new[j]
               PROVE  i = j
    BY <1>6 DEF Distinct
  <2>1. Source(keep, i) \in DOMAIN seq /\ Source(keep, j) \in DOMAIN seq
    BY <1>3
  <2>2. seq[Source(keep, i)] = seq[Source(keep, j)]
    BY <1>4
  <2>3. Source(keep, i) = Source(keep, j)
    BY <2>1, <2>2 DEF Distinct
  <2> HIDE DEF keep
  <2> QED BY <2>3, <1>3
<1> QED BY <1>6, <1>7, <1>8

(* Removal keeps every other element: a list as long as the kept positions *)
(* are many can only take them all.                                        *)
LEMMA WithoutKeeps ==
  ASSUME NEW S, NEW seq \in Seq(S), NEW x
  PROVE  Elems(Without(seq, x)) = Elems(seq) \ {x}
<1> DEFINE keep == {i \in DOMAIN seq : seq[i] # x}
           N == Cardinality(keep)
           src == [j \in 1..N |-> Source(keep, j)]
<1>1. keep \in SUBSET (1..Len(seq)) /\ Len(seq) \in Nat /\ DOMAIN seq = 1..Len(seq)
  OBVIOUS
<1>2. IsFiniteSet(keep) /\ N \in Nat
  <2> HIDE DEF keep
  <2>1. IsFiniteSet(1..Len(seq))
    BY <1>1, FS_Interval
  <2>2. IsFiniteSet(keep)
    BY <1>1, <2>1, FS_Subset
  <2> QED BY <2>2, FS_CardinalityType
<1>3. \A j \in 1..N : Source(keep, j) \in keep /\ Place(keep, Source(keep, j)) = j
  <2> HIDE DEF keep
  <2> SUFFICES ASSUME NEW j \in 1..N
               PROVE  Source(keep, j) \in keep /\ Place(keep, Source(keep, j)) = j
    OBVIOUS
  <2>1. \E i \in keep : Place(keep, i) = j
    BY <1>1, PlaceIsSurjection
  <2> QED BY <2>1 DEF Source
<1>4. src \in Surjection(1..N, keep)
  <2> HIDE DEF keep
  <2>1. src \in [1..N -> keep] /\ \A j \in 1..N : src[j] = Source(keep, j)
    BY <1>3
  <2>2. src \in Injection(1..N, keep)
    <3> HIDE DEF src
    <3> QED BY <1>3, <2>1 DEF Injection, IsInjective
  <2>3. Cardinality(1..N) = N /\ IsFiniteSet(1..N)
    BY <1>2, FS_Interval
  <2> HIDE DEF src
  <2> QED BY <1>2, <2>2, <2>3, FS_Injection
<1>5. \A i \in keep : \E j \in 1..N : i = Source(keep, j)
  <2>1. \A j \in 1..N : src[j] = Source(keep, j)
    OBVIOUS
  <2> HIDE DEF keep, src
  <2> QED BY <1>4, <2>1 DEF Surjection
<1>6. /\ DOMAIN Without(seq, x) = 1..N
      /\ \A j \in 1..N : Without(seq, x)[j] = seq[Source(keep, j)]
  BY DEF Without
<1>7. Elems(seq) \ {x} \subseteq Elems(Without(seq, x))
  <2> SUFFICES ASSUME NEW i \in DOMAIN seq, seq[i] # x
               PROVE  \E j \in 1..N : Without(seq, x)[j] = seq[i]
    BY <1>6 DEF Elems
  <2>1. i \in keep
    OBVIOUS
  <2> HIDE DEF keep
  <2> QED BY <1>5, <1>6, <2>1
<1> QED BY <1>7, WithoutProperties

(* push_back() *)
LEMMA AppendElems ==
  ASSUME NEW S, NEW seq \in Seq(S), NEW x \in S
  PROVE  /\ Append(seq, x) \in Seq(S)
         /\ Elems(Append(seq, x)) = Elems(seq) \cup {x}
         /\ Distinct(seq) /\ x \notin Elems(seq) => Distinct(Append(seq, x))
<1>1. /\ Append(seq, x) \in Seq(S)
      /\ DOMAIN seq = 1..Len(seq)
      /\ DOMAIN Append(seq, x) = 1..(Len(seq) + 1)
      /\ \A i \in 1..Len(seq) : Append(seq, x)[i] = seq[i]
      /\ Append(seq, x)[Len(seq) + 1] = x
      /\ Len(seq) \in Nat
  OBVIOUS
<1>2. 1..(Len(seq) + 1) = (1..Len(seq)) \cup {Len(seq) + 1}
  BY <1>1
<1>3. Elems(Append(seq, x)) = Elems(seq) \cup {x}
  BY <1>1, <1>2 DEF Elems
<1>4. Distinct(seq) /\ x \notin Elems(seq) => Distinct(Append(seq, x))
  BY <1>1, <1>2 DEF Elems, Distinct
<1> QED BY <1>1, <1>3, <1>4

(* front() and pop_front() *)
LEMMA HeadTailElems ==
  ASSUME NEW S, NEW seq \in Seq(S), seq # <<>>
  PROVE  /\ Head(seq) \in S /\ Tail(seq) \in Seq(S)
         /\ Head(seq) \in Elems(seq)
         /\ Elems(seq) = {Head(seq)} \cup Elems(Tail(seq))
         /\ Distinct(seq) => Distinct(Tail(seq)) /\ Head(seq) \notin Elems(Tail(seq))
<1>1. /\ Head(seq) = seq[1] /\ Head(seq) \in S /\ Tail(seq) \in Seq(S)
      /\ DOMAIN seq = 1..Len(seq) /\ Len(seq) \in Nat /\ Len(seq) > 0
      /\ DOMAIN Tail(seq) = 1..(Len(seq) - 1)
      /\ \A i \in 1..(Len(seq) - 1) : Tail(seq)[i] = seq[i + 1]
  OBVIOUS
<1>2. \A i \in 1..(Len(seq) - 1) : i + 1 \in 1..Len(seq) /\ i + 1 # 1
  BY <1>1
<1>4. 1 \in 1..Len(seq)
  BY <1>1
<1>5. \A i \in 1..Len(seq) : i = 1 \/ (i - 1 \in 1..(Len(seq) - 1) /\ (i - 1) + 1 = i)
  BY <1>1
<1>6. Elems(seq) = {Head(seq)} \cup Elems(Tail(seq))
  <2>1. Elems(Tail(seq)) \subseteq Elems(seq) /\ Head(seq) \in Elems(seq)
    BY <1>1, <1>2, <1>4 DEF Elems
  <2>2. ASSUME NEW i \in 1..Len(seq), i # 1
        PROVE  seq[i] \in Elems(Tail(seq))
    <3>1. i - 1 \in DOMAIN Tail(seq) /\ Tail(seq)[i - 1] = seq[i]
      BY <1>1, <1>5, <2>2
    <3> QED BY <3>1 DEF Elems
  <2>3. Elems(seq) \subseteq {Head(seq)} \cup Elems(Tail(seq))
    BY <1>1, <2>2 DEF Elems
  <2> QED BY <2>1, <2>3
<1>7. Distinct(seq) => Distinct(Tail(seq)) /\ Head(seq) \notin Elems(Tail(seq))
  BY <1>1, <1>2, <1>4 DEF Elems, Distinct
<1> QED BY <1>1, <1>4, <1>6, <1>7 DEF Elems

(* The elements of a list are of the type of the list. *)
LEMMA ElemsInSet ==
  ASSUME NEW S, NEW seq \in Seq(S)
  PROVE  Elems(seq) \subseteq S
BY DEF Elems

(* A list without repetitions has as many elements as places. *)
LEMMA DistinctCardinality ==
  ASSUME NEW S, NEW seq \in Seq(S), Distinct(seq)
  PROVE  /\ IsFiniteSet(Elems(seq))
         /\ Cardinality(Elems(seq)) = Len(seq)
<1>1. Len(seq) \in Nat /\ DOMAIN seq = 1..Len(seq)
  OBVIOUS
<1>2. seq \in Bijection(1..Len(seq), Elems(seq))
  <2>1. seq \in [1..Len(seq) -> Elems(seq)]
    BY <1>1 DEF Elems
  <2>2. seq \in Injection(1..Len(seq), Elems(seq))
    BY <1>1, <2>1, Fun_IsInj DEF Distinct
  <2>3. seq \in Surjection(1..Len(seq), Elems(seq))
    <3>1. \A t \in Elems(seq) : \E s \in 1..Len(seq) : seq[s] = t
      BY <1>1 DEF Elems
    <3>2. QED
      BY <2>1, <3>1, Fun_IsSurj
  <2>4. QED
    BY <2>2, <2>3 DEF Bijection
<1>3. IsFiniteSet(1..Len(seq)) /\ Cardinality(1..Len(seq)) = Len(seq)
  BY <1>1, FS_Interval
<1>4. ExistsBijection(1..Len(seq), Elems(seq))
  BY <1>2 DEF ExistsBijection
<1>5. QED
  BY <1>3, <1>4, FS_Bijection

-----------------------------------------------------------------------------
(* Two lists, one after the other. *)
LEMMA ConcatElems ==
  ASSUME NEW S, NEW s \in Seq(S), NEW t \in Seq(S)
  PROVE  /\ s \o t \in Seq(S) /\ Len(s \o t) = Len(s) + Len(t)
         /\ Elems(s \o t) = Elems(s) \cup Elems(t)
<1>1. /\ s \o t \in Seq(S) /\ Len(s \o t) = Len(s) + Len(t)
      /\ \A i \in 1 .. Len(s) + Len(t) :
            (s \o t)[i] = IF i <= Len(s) THEN s[i] ELSE t[i - Len(s)]
  BY ConcatProperties
<1>2. /\ DOMAIN (s \o t) = 1 .. Len(s) + Len(t) /\ Len(s) \in Nat /\ Len(t) \in Nat
      /\ DOMAIN s = 1 .. Len(s) /\ DOMAIN t = 1 .. Len(t)
  BY <1>1
<1>3. Elems(s \o t) \subseteq Elems(s) \cup Elems(t)
  <2> SUFFICES ASSUME NEW i \in 1 .. Len(s) + Len(t)
               PROVE  (s \o t)[i] \in Elems(s) \cup Elems(t)
    BY <1>2 DEF Elems
  <2>1. CASE i <= Len(s)
    BY <1>1, <1>2, <2>1 DEF Elems
  <2>2. CASE i > Len(s)
    <3>1. i - Len(s) \in DOMAIN t /\ (s \o t)[i] = t[i - Len(s)]
      BY <1>1, <1>2, <2>2
    <3>2. QED
      BY <3>1 DEF Elems
  <2>3. QED
    BY <1>2, <2>1, <2>2
<1>4. Elems(s) \subseteq Elems(s \o t)
  <2> SUFFICES ASSUME NEW i \in DOMAIN s PROVE s[i] \in Elems(s \o t)
    BY DEF Elems
  <2>1. i \in DOMAIN (s \o t) /\ (s \o t)[i] = s[i]
    BY <1>1, <1>2
  <2>2. QED
    BY <2>1 DEF Elems
<1>5. Elems(t) \subseteq Elems(s \o t)
  <2> SUFFICES ASSUME NEW i \in DOMAIN t PROVE t[i] \in Elems(s \o t)
    BY DEF Elems
  <2>1. i + Len(s) \in DOMAIN (s \o t) /\ (s \o t)[i + Len(s)] = t[i]
    BY <1>1, <1>2
  <2>2. QED
    BY <2>1 DEF Elems
<1>6. QED
  BY <1>1, <1>3, <1>4, <1>5

(* Lists of one and two elements. *)
LEMMA ShortLists ==
  ASSUME NEW S, NEW x \in S, NEW y \in S
  PROVE  /\ <<x>> \in Seq(S) /\ Elems(<<x>>) = {x} /\ Len(<<x>>) = 1
         /\ <<x, y>> \in Seq(S) /\ Elems(<<x, y>>) = {x, y} /\ Len(<<x, y>>) = 2
<1>1. <<x>> \in Seq(S) /\ Elems(<<x>>) = {x} /\ Len(<<x>>) = 1
  BY DEF Elems
<1>2. <<x, y>> \in Seq(S) /\ Len(<<x, y>>) = 2
  OBVIOUS
<1>3. Elems(<<x, y>>) = {x, y}
  <2>1. DOMAIN <<x, y>> = {1, 2} /\ <<x, y>>[1] = x /\ <<x, y>>[2] = y
    OBVIOUS
  <2>2. QED
    BY <2>1 DEF Elems
<1>4. QED
  BY <1>1, <1>2, <1>3

(* The beginning of a list. *)
LEMMA PrefixElems ==
  ASSUME NEW S, NEW s \in Seq(S), NEW n \in 0 .. Len(s)
  PROVE  /\ SubSeq(s, 1, n) \in Seq(S) /\ Len(SubSeq(s, 1, n)) = n
         /\ Elems(SubSeq(s, 1, n)) \subseteq Elems(s)
<1>1. /\ Len(s) \in Nat /\ DOMAIN s = 1 .. Len(s) /\ \A i \in 1 .. n : s[i] \in S
  OBVIOUS
<1>2. /\ SubSeq(s, 1, n) \in Seq(S) /\ Len(SubSeq(s, 1, n)) = n
      /\ \A i \in 1 .. n : SubSeq(s, 1, n)[i] = s[i]
  BY <1>1
<1>3. QED
  BY <1>1, <1>2 DEF Elems

(* Two lists without repetitions that have nothing in common. *)
LEMMA ConcatDistinct ==
  ASSUME NEW S, NEW s \in Seq(S), NEW t \in Seq(S), Distinct(s), Distinct(t),
         Elems(s) \cap Elems(t) = {}
  PROVE  Distinct(s \o t)
<1>1. /\ Len(s \o t) = Len(s) + Len(t)
      /\ \A i \in 1 .. Len(s) + Len(t) :
            (s \o t)[i] = IF i <= Len(s) THEN s[i] ELSE t[i - Len(s)]
  BY ConcatProperties
<1>2. /\ DOMAIN (s \o t) = 1 .. Len(s) + Len(t) /\ Len(s) \in Nat /\ Len(t) \in Nat
      /\ DOMAIN s = 1 .. Len(s) /\ DOMAIN t = 1 .. Len(t)
  BY <1>1, ConcatProperties
<1> DEFINE m == Len(s)
           n == Len(t)
           st == s \o t
<1> SUFFICES ASSUME NEW i \in 1 .. m + n, NEW j \in 1 .. m + n, st[i] = st[j]
             PROVE  i = j
  BY <1>2 DEF Distinct
<1> HIDE DEF m, n, st
<1>3. /\ m \in Nat /\ n \in Nat /\ DOMAIN s = 1..m /\ DOMAIN t = 1..n
      /\ \A k \in 1 .. m + n : st[k] = IF k <= m THEN s[k] ELSE t[k - m]
  BY <1>1, <1>2 DEF m, n, st
<1>4. \A k \in 1..m, l \in 1..n : s[k] # t[l]
  BY <1>3 DEF Elems
<1>5. CASE i <= m /\ j <= m
  BY <1>3, <1>5 DEF Distinct
<1>6. CASE i > m /\ j > m
  <2>1. i - m \in DOMAIN t /\ j - m \in DOMAIN t /\ t[i - m] = t[j - m]
    BY <1>3, <1>6
  <2>2. i - m = j - m
    BY <2>1 DEF Distinct
  <2>3. QED
    BY <1>3, <2>2
<1>7. CASE i <= m /\ j > m
  <2>1. i \in 1..m /\ j - m \in 1..n /\ s[i] = t[j - m]
    BY <1>3, <1>7
  <2>2. QED
    BY <1>4, <2>1
<1>8. CASE i > m /\ j <= m
  <2>1. j \in 1..m /\ i - m \in 1..n /\ s[j] = t[i - m]
    BY <1>3, <1>8
  <2>2. QED
    BY <1>4, <2>1
<1>9. QED
  BY <1>3, <1>5, <1>6, <1>7, <1>8

(* A list from its end to its beginning. *)
LEMMA Reversed ==
  ASSUME NEW S, NEW s \in Seq(S), NEW r, r = [i \in 1..Len(s) |-> s[Len(s) - i + 1]]
  PROVE  r \in Seq(S) /\ Elems(r) = Elems(s) /\ (Distinct(s) => Distinct(r))
<1> DEFINE n == Len(s)
<1>1. n \in Nat /\ DOMAIN s = 1..n /\ \A i \in 1..n : s[i] \in S
  OBVIOUS
<1>2. DOMAIN r = 1..n /\ \A i \in 1..n : r[i] = s[n - i + 1]
  OBVIOUS
<1>3. r \in Seq(S)
  BY <1>1
<1> HIDE DEF n
<1>4. \A i \in 1..n : n - i + 1 \in 1..n /\ n - (n - i + 1) + 1 = i
  BY <1>1
<1>5. Elems(r) = Elems(s)
  <2>1. \A i \in 1..n : s[i] = r[n - i + 1]
    BY <1>2, <1>4
  <2>2. Elems(s) \subseteq Elems(r)
    <3> SUFFICES ASSUME NEW i \in 1..n PROVE s[i] \in Elems(r)
      BY <1>1 DEF Elems
    <3>1. n - i + 1 \in DOMAIN r /\ s[i] = r[n - i + 1]
      BY <1>2, <1>4, <2>1
    <3>2. QED
      BY <3>1 DEF Elems
  <2>3. Elems(r) \subseteq Elems(s)
    <3> SUFFICES ASSUME NEW i \in 1..n PROVE r[i] \in Elems(s)
      BY <1>2 DEF Elems
    <3>1. n - i + 1 \in DOMAIN s /\ r[i] = s[n - i + 1]
      BY <1>1, <1>2, <1>4
    <3>2. QED
      BY <3>1 DEF Elems
  <2>4. QED
    BY <2>2, <2>3
<1>6. Distinct(s) => Distinct(r)
  <2> SUFFICES ASSUME Distinct(s), NEW i \in 1..n, NEW j \in 1..n, r[i] = r[j] PROVE i = j
    BY <1>2 DEF Distinct
  <2>1. n - i + 1 = n - j + 1
    <3>1. /\ n - i + 1 \in DOMAIN s /\ n - j + 1 \in DOMAIN s
          /\ s[n - i + 1] = s[n - j + 1]
      BY <1>1, <1>2, <1>4
    <3>2. QED
      BY <3>1 DEF Distinct
  <2>2. QED
    BY <1>1, <2>1
<1>7. QED
  BY <1>3, <1>5, <1>6

(* The end of a list. *)
LEMMA SuffixAt ==
  ASSUME NEW S, NEW s \in Seq(S), NEW m \in 0 .. Len(s)
  PROVE  LET t == SubSeq(s, m + 1, Len(s)) IN
         /\ t \in Seq(S) /\ Len(t) = Len(s) - m
         /\ \A i \in 1 .. (Len(s) - m) : t[i] = s[m + i]
<1> DEFINE n == Len(s)
           t == SubSeq(s, m + 1, n)
<1>1. n \in Nat /\ DOMAIN s = 1..n /\ \A i \in 1..n : s[i] \in S
  OBVIOUS
<1> HIDE DEF n
<1>2. m + 1 \in Int /\ n \in Int /\ m \in 0..n /\ \A i \in (m + 1) .. n : s[i] \in S
  BY <1>1 DEF n
<1>3. /\ t \in Seq(S) /\ Len(t) = IF m + 1 <= n THEN n - (m + 1) + 1 ELSE 0
      /\ \A i \in 1 .. n - (m + 1) + 1 : t[i] = s[m + 1 + i - 1]
  BY <1>2, SubSeqProperties
<1> HIDE DEF t
<1>4. Len(t) = n - m
  <2>1. (IF m + 1 <= n THEN n - (m + 1) + 1 ELSE 0) = n - m
    BY <1>2
  <2>2. QED
    BY <1>3, <2>1
<1>5. \A i \in 1 .. (n - m) : t[i] = s[m + i]
  <2>1. n - (m + 1) + 1 = n - m /\ \A i \in 1 .. (n - m) : m + 1 + i - 1 = m + i
    BY <1>2
  <2>2. QED
    BY <1>3, <2>1
<1>6. QED
  BY <1>3, <1>4, <1>5 DEF n, t

(* What is where in two lists, one after the other. *)
LEMMA ConcatAt ==
  ASSUME NEW S, NEW s \in Seq(S), NEW t \in Seq(S)
  PROVE  /\ s \o t \in Seq(S) /\ Len(s \o t) = Len(s) + Len(t)
         /\ \A i \in 1..Len(s) : (s \o t)[i] = s[i]
         /\ \A i \in 1..Len(t) : (s \o t)[Len(s) + i] = t[i]
<1> DEFINE m == Len(s)
           n == Len(t)
           st == s \o t
<1>1. /\ st \in Seq(S) /\ Len(st) = m + n /\ m \in Nat /\ n \in Nat
      /\ \A i \in 1 .. m + n : st[i] = IF i <= m THEN s[i] ELSE t[i - m]
  BY ConcatProperties
<1> HIDE DEF m, n, st
<1>2. \A i \in 1..m : i \in 1 .. m + n /\ i <= m
  BY <1>1
<1>3. \A i \in 1..n : m + i \in 1 .. m + n /\ ~(m + i <= m) /\ m + i - m = i
  BY <1>1
<1>4. QED
  BY <1>1, <1>2, <1>3 DEF m, n, st

=============================================================================
