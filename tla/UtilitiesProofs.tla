--------------------------- MODULE UtilitiesProofs ---------------------------
(***************************************************************************)
(* Proofs about the parts that the rest is built on: the table of open     *)
(* files (LinkedProdMap), the pool of servers (ServerPool), thread objects *)
(* (Threads), jobs (Executor) and the classes on which threads meet        *)
(* (Rendezvous).  The five share nothing but this module.                  *)
(***************************************************************************)
EXTENDS LinkedProdMap, ServerPool, Threads, Executor, Rendezvous, ListsProofs, SequenceTheorems

(***************************************************************************)
(* LinkedProdMap, for any set of indexes.  That the links are well formed  *)
(* is proved from a stronger statement: the table represents some sequence *)
(* of distinct indexes.  What each operation does to that sequence is what *)
(* module Lru says it does, which makes the relation a simulation of Lru   *)
(* by LinkedProdMap.                                                       *)
(***************************************************************************)
(* The table m represents the sequence s. *)
Represents(m, s) ==
    /\ s \in Seq(Index)
    /\ Distinct(s)
    /\ m.entries = [i \in Elems(s) |-> m.entries[i]]
    /\ m.head = IF s = <<>> THEN None ELSE s[1]
    /\ m.tail = IF s = <<>> THEN None ELSE s[Len(s)]
    /\ \A k \in 1..Len(s) :
          m.entries[s[k]] = [prev |-> IF k = 1 THEN None ELSE s[k - 1],
                             next |-> IF k = Len(s) THEN None ELSE s[k + 1]]

(* s without its n-th element. *)
DropAt(s, n) ==
    [k \in 1..(Len(s) - 1) |-> IF k < n THEN s[k] ELSE s[k + 1]]

(* What a step of Lru, or none, makes of the list s. *)
LruStep(s, t) ==
    \/ t = s
    \/ s # <<>> /\ t = Tail(s)
    \/ \E i \in Index :
          \/ i \notin Elems(s) /\ t = Append(s, i)
          \/ i \in Elems(s) /\ t = Without(s, i)
          \/ i \in Elems(s) /\ t = Append(Without(s, i), i)

-----------------------------------------------------------------------------
(* Dropping the place where an index is leaves the others, in order. *)
LEMMA DropAtProperties ==
  ASSUME NEW s \in Seq(Index), Distinct(s), NEW n \in 1..Len(s)
  PROVE  /\ DropAt(s, n) \in Seq(Index)
         /\ Len(DropAt(s, n)) = Len(s) - 1
         /\ Distinct(DropAt(s, n))
         /\ Elems(DropAt(s, n)) = Elems(s) \ {s[n]}
<1> DEFINE t == DropAt(s, n)
<1>1. Len(s) \in Nat /\ Len(s) - 1 \in Nat /\ DOMAIN s = 1..Len(s)
  OBVIOUS
<1>2. \A k \in 1..(Len(s) - 1) : k \in 1..Len(s) /\ k + 1 \in 1..Len(s)
  BY <1>1
<1>3. /\ DOMAIN t = 1..(Len(s) - 1)
      /\ \A k \in 1..(Len(s) - 1) : t[k] = IF k < n THEN s[k] ELSE s[k + 1]
  BY DEF DropAt
<1>4. t \in Seq(Index) /\ Len(t) = Len(s) - 1
  <2>1. \A k \in 1..(Len(s) - 1) : t[k] \in Index
    BY <1>1, <1>2, <1>3
  <2> DEFINE N == Len(s) - 1
  <2>2. t = [k \in 1..N |-> IF k < n THEN s[k] ELSE s[k + 1]]
    BY DEF DropAt
  <2>3. \A k \in 1..N : (IF k < n THEN s[k] ELSE s[k + 1]) \in Index
    BY <1>1, <1>2
  <2>4. N \in Nat
    BY <1>1
  <2> HIDE DEF t, N
  <2>5. t \in Seq(Index) /\ Len(t) = N
    BY <2>2, <2>3, <2>4
  <2> QED BY <2>5 DEF N
<1> HIDE DEF t
<1>5. Distinct(t)
  <2> SUFFICES ASSUME NEW j \in 1..(Len(s) - 1), NEW k \in 1..(Len(s) - 1),
                      t[j] = t[k]
               PROVE  j = k
    BY <1>3 DEF Distinct
  <2>1. \A a, b \in 1..Len(s) : s[a] = s[b] => a = b
    BY <1>1 DEF Distinct
  <2> QED BY <1>1, <1>2, <1>3, <2>1
<1>6. Elems(t) \subseteq Elems(s) \ {s[n]}
  <2> SUFFICES ASSUME NEW k \in 1..(Len(s) - 1)
               PROVE  t[k] \in Elems(s) \ {s[n]}
    BY <1>3 DEF Elems
  <2>1. PICK j \in 1..Len(s) : t[k] = s[j] /\ j # n
    BY <1>1, <1>2, <1>3
  <2> QED BY <1>1, <2>1 DEF Elems, Distinct
<1>7. Elems(s) \ {s[n]} \subseteq Elems(t)
  <2> SUFFICES ASSUME NEW k \in 1..Len(s), s[k] # s[n]
               PROVE  s[k] \in Elems(t)
    BY <1>1 DEF Elems
  <2>1. CASE k < n
    <3>1. k \in 1..(Len(s) - 1) /\ t[k] = s[k]
      BY <1>1, <1>3, <2>1
    <3> QED BY <3>1, <1>3 DEF Elems
  <2>2. CASE ~(k < n)
    <3>1. k - 1 \in 1..(Len(s) - 1) /\ t[k - 1] = s[k]
      BY <1>1, <1>3, <2>2
    <3> QED BY <3>1, <1>3 DEF Elems
  <2> QED BY <2>1, <2>2
<1> QED BY <1>4, <1>5, <1>6, <1>7 DEF t

(* Adding an entry at the tail. *)
LEMMA AddedRepresents ==
  ASSUME NEW m, NEW s, Represents(m, s), NEW i \in Index, i \notin Elems(s)
  PROVE  Represents(Added(m, i), Append(s, i))
<1> DEFINE a == Added(m, i)
           t == Append(s, i)
<1>1. /\ s \in Seq(Index) /\ Distinct(s) /\ DOMAIN m.entries = Elems(s)
      /\ Len(s) \in Nat /\ DOMAIN s = 1..Len(s)
  BY DEF Represents
<1>2. t \in Seq(Index) /\ Elems(t) = Elems(s) \cup {i} /\ Distinct(t)
  BY <1>1, AppendElems
<1>3. /\ Len(t) = Len(s) + 1 /\ t[Len(s) + 1] = i /\ t # <<>>
      /\ \A k \in 1..Len(s) : t[k] = s[k]
  BY <1>1
<1>4. a.entries = [j \in Elems(t) |-> a.entries[j]]
  BY <1>1, <1>2 DEF Added
<1>5. (s = <<>>) = (m.tail = None)
  <2>1. s # <<>> => Len(s) \in 1..Len(s) /\ s[Len(s)] \in Index
    BY <1>1
  <2> QED BY <2>1, NoneAssumption DEF Represents
<1>6. a.head = t[1]
  <2>1. s = <<>> => t[1] = i
    BY <1>1
  <2>2. s # <<>> => 1 \in 1..Len(s)
    BY <1>1
  <2>3. s # <<>> => m.head = s[1]
    BY DEF Represents
  <2> QED BY <1>3, <1>5, <2>1, <2>2, <2>3 DEF Added
<1>7. a.tail = t[Len(t)]
  BY <1>3 DEF Added
<1>8. ASSUME NEW k \in 1..Len(t)
      PROVE  a.entries[t[k]] = [prev |-> IF k = 1 THEN None ELSE t[k - 1],
                                next |-> IF k = Len(t) THEN None ELSE t[k + 1]]
  <2>1. CASE k = Len(s) + 1
    <3>1. a.entries[i] = [prev |-> m.tail, next |-> None]
      BY DEF Added
    <3>2. m.tail = IF k = 1 THEN None ELSE t[k - 1]
      <4>1. CASE s = <<>>
        BY <1>1, <2>1, <4>1 DEF Represents
      <4>2. CASE s # <<>>
        <5>1. k # 1 /\ k - 1 = Len(s) /\ Len(s) \in 1..Len(s)
          BY <1>1, <2>1, <4>2
        <5> QED BY <4>2, <5>1, <1>3 DEF Represents
      <4> QED BY <4>1, <4>2
    <3> QED BY <1>3, <2>1, <3>1, <3>2
  <2>2. CASE k \in 1..Len(s)
    <3>1. t[k] = s[k] /\ s[k] \in Elems(s) /\ s[k] # i /\ k # Len(t)
      BY <1>1, <1>3, <2>2 DEF Elems
    <3>2. m.entries[s[k]] = [prev |-> IF k = 1 THEN None ELSE s[k - 1],
                             next |-> IF k = Len(s) THEN None ELSE s[k + 1]]
      BY <2>2 DEF Represents
    <3>3. a.entries[s[k]] =
             [prev |-> m.entries[s[k]].prev,
              next |-> IF s[k] = m.tail THEN i ELSE m.entries[s[k]].next]
      BY <1>1, <3>1 DEF Added
    <3>4. (s[k] = m.tail) = (k = Len(s))
      <4>1. s # <<>> /\ Len(s) \in 1..Len(s) /\ m.tail = s[Len(s)]
        <5>1. Len(s) \in Nat /\ Len(<<>>) = 0 /\ Len(s) >= 1
          BY <1>1, <2>2
        <5>2. s # <<>> /\ Len(s) \in 1..Len(s)
          BY <5>1
        <5>3. m.tail = IF s = <<>> THEN None ELSE s[Len(s)]
          BY DEF Represents
        <5> QED BY <5>2, <5>3
      <4>2. \A b, c \in 1..Len(s) : s[b] = s[c] => b = c
        BY <1>1 DEF Distinct
      <4>3. s[k] = s[Len(s)] => k = Len(s)
        BY <2>2, <4>1, <4>2
      <4> QED BY <4>1, <4>3
    <3>5. k # 1 => k - 1 \in 1..Len(s) /\ t[k - 1] = s[k - 1]
      BY <1>1, <1>3, <2>2
    <3>6. k # Len(s) => t[k + 1] = s[k + 1]
      <4>0. \A n \in Nat : \A j \in 1..n : j # n => j + 1 \in 1..n
        OBVIOUS
      <4>1. k # Len(s) => k + 1 \in 1..Len(s)
        BY <1>1, <2>2, <4>0
      <4> HIDE DEF t
      <4> QED BY <4>1, <1>3
    <3>7. k = Len(s) => t[k + 1] = i
      BY <1>3
    <3> HIDE DEF a, t
    <3> QED BY <3>1, <3>2, <3>3, <3>4, <3>5, <3>6, <3>7
  <2>3. k = Len(s) + 1 \/ k \in 1..Len(s)
    BY <1>1, <1>3
  <2> QED BY <2>1, <2>2, <2>3
<1> HIDE DEF a, t
<1>9. Represents(a, t)
  BY <1>2, <1>3, <1>4, <1>6, <1>7, <1>8 DEF Represents
<1> QED BY <1>9 DEF a, t

(* Removing the n-th entry. *)
LEMMA RemovedRepresents ==
  ASSUME NEW m, NEW s, Represents(m, s), NEW n \in 1..Len(s)
  PROVE  Represents(Removed(m, s[n]), DropAt(s, n))
<1> DEFINE r == Removed(m, s[n])
           t == DropAt(s, n)
           N == Len(s)
           e == m.entries[s[n]]
<1>1. /\ s \in Seq(Index) /\ Distinct(s) /\ DOMAIN m.entries = Elems(s)
      /\ N \in Nat /\ DOMAIN s = 1..N
  BY DEF Represents
<1>2. /\ t \in Seq(Index) /\ Len(t) = N - 1
      /\ Distinct(t) /\ Elems(t) = Elems(s) \ {s[n]}
  BY <1>1, DropAtProperties
<1>3. \A k \in 1..(N - 1) : t[k] = IF k < n THEN s[k] ELSE s[k + 1]
  BY DEF DropAt
<1>4. \A j, k \in 1..N : s[j] = s[k] => j = k
  BY <1>1 DEF Distinct
<1>5. \A k \in 1..N : s[k] \in Index /\ s[k] # None /\ s[k] \in Elems(s)
  BY <1>1, NoneAssumption DEF Elems
<1>6. \A k \in 1..N :
         /\ m.entries[s[k]].prev = IF k = 1 THEN None ELSE s[k - 1]
         /\ m.entries[s[k]].next = IF k = N THEN None ELSE s[k + 1]
  <2> SUFFICES ASSUME NEW k \in 1..N
               PROVE  /\ m.entries[s[k]].prev = IF k = 1 THEN None ELSE s[k - 1]
                      /\ m.entries[s[k]].next = IF k = N THEN None ELSE s[k + 1]
    OBVIOUS
  <2>1. m.entries[s[k]] = [prev |-> IF k = 1 THEN None ELSE s[k - 1],
                           next |-> IF k = N THEN None ELSE s[k + 1]]
    BY DEF Represents
  <2> HIDE DEF N
  <2> QED BY <2>1
<1>7. /\ m.head = s[1] /\ m.tail = s[N] /\ N \in 1..N /\ 1 \in 1..N
      /\ s # <<>>
  <2>1. s # <<>>
    <3>1. Len(<<>>) = 0
      OBVIOUS
    <3> QED BY <1>1, <3>1
  <2>2. m.head = s[1] /\ m.tail = s[N]
    BY <2>1 DEF Represents
  <2>3. N \in 1..N /\ 1 \in 1..N
    BY <1>1
  <2> QED BY <2>1, <2>2, <2>3
<1>8. /\ r.entries = [j \in Elems(s) \ {s[n]} |->
            [prev |-> IF j = e.next THEN e.prev ELSE m.entries[j].prev,
             next |-> IF j = e.prev THEN e.next ELSE m.entries[j].next]]
      /\ r.head = IF e.prev # None THEN m.head ELSE e.next
      /\ r.tail = IF e.next # None THEN m.tail ELSE e.prev
  BY <1>1 DEF Removed
<1>9. /\ e.prev = IF n = 1 THEN None ELSE s[n - 1]
      /\ e.next = IF n = N THEN None ELSE s[n + 1]
  BY <1>6
<1>10. \A k \in Nat : k \in 1..N => (k = 1 \/ k - 1 \in 1..N) /\ (k = N \/ k + 1 \in 1..N)
  <2>1. \A b \in Nat : \A k \in 1..b :
           (k = 1 \/ k - 1 \in 1..b) /\ (k = b \/ k + 1 \in 1..b)
    OBVIOUS
  <2> HIDE DEF N
  <2> QED BY <1>1, <2>1
<1> HIDE DEF r, t, N, e
<1>11. t = <<>> <=> N = 1
  BY <1>1, <1>2, <1>7
<1>12. r.head = IF t = <<>> THEN None ELSE t[1]
  <2>1. CASE n = 1
    <3>1. r.head = e.next
      BY <1>8, <1>9, <2>1
    <3>2. CASE N = 1
      BY <1>9, <1>11, <2>1, <3>1, <3>2
    <3>3. CASE N # 1
      <4>1. 1 \in 1..(N - 1) /\ ~(1 < n)
        BY <1>1, <1>7, <2>1, <3>3
      <4>2. t[1] = s[1 + 1]
        BY <4>1, <1>3
      <4> QED BY <1>9, <1>11, <2>1, <3>1, <3>3, <4>2
    <3> QED BY <3>2, <3>3
  <2>2. CASE n # 1
    <3>1. n \in 1..N /\ n \in Nat
      BY <1>1 DEF N
    <3>2. n - 1 \in 1..N /\ N # 1 /\ 1 \in 1..(N - 1) /\ 1 < n
      BY <1>1, <2>2, <3>1
    <3>3. e.prev # None
      BY <1>5, <1>9, <2>2, <3>2
    <3>4. t[1] = s[1]
      BY <1>3, <3>2
    <3> QED BY <1>7, <1>8, <1>11, <3>2, <3>3, <3>4
  <2> QED BY <2>1, <2>2
<1>13. r.tail = IF t = <<>> THEN None ELSE t[Len(t)]
  <2>0. n \in 1..N /\ n \in Nat
    BY <1>1 DEF N
  <2>1. CASE n = N
    <3>1. r.tail = e.prev
      BY <1>8, <1>9, <2>1
    <3>2. CASE N = 1
      BY <1>9, <1>11, <2>1, <3>1, <3>2
    <3>3. CASE N # 1
      <4>1. N - 1 \in 1..(N - 1) /\ N - 1 < n
        BY <1>1, <1>7, <2>1, <3>3
      <4>2. t[N - 1] = s[N - 1]
        BY <4>1, <1>3
      <4> QED BY <1>2, <1>9, <1>11, <2>1, <3>1, <3>3, <4>2
    <3> QED BY <3>2, <3>3
  <2>2. CASE n # N
    <3>2. n + 1 \in 1..N /\ N # 1 /\ N - 1 \in 1..(N - 1) /\ ~(N - 1 < n)
          /\ (N - 1) + 1 = N
      BY <1>1, <2>2, <2>0
    <3>3. e.next # None
      BY <1>5, <1>9, <2>2, <3>2
    <3>4. t[N - 1] = s[N]
      BY <1>3, <3>2
    <3> QED BY <1>2, <1>7, <1>8, <1>11, <3>2, <3>3, <3>4
  <2> QED BY <2>1, <2>2
<1>14. ASSUME NEW k \in 1..(N - 1)
       PROVE  r.entries[t[k]] = [prev |-> IF k = 1 THEN None ELSE t[k - 1],
                                 next |-> IF k = N - 1 THEN None ELSE t[k + 1]]
  <2>0. n \in 1..N /\ n \in Nat /\ k \in Nat /\ k \in 1..N /\ k + 1 \in 1..N
    BY <1>1 DEF N
  <2> DEFINE j == IF k < n THEN k ELSE k + 1
             x == s[j]
  <2>1. j \in 1..N /\ j # n /\ t[k] = x /\ j \in Nat
    BY <1>3, <2>0
  <2>2. x \in Elems(s) \ {s[n]}
    BY <1>4, <1>5, <2>0, <2>1
  <2>3. r.entries[x] =
            [prev |-> IF x = e.next THEN e.prev ELSE m.entries[x].prev,
             next |-> IF x = e.prev THEN e.next ELSE m.entries[x].next]
    BY <1>8, <2>2
  <2>4. (x = e.next) <=> (j = n + 1)
    <3>1. j = n + 1 => n # N
      BY <1>1, <2>0, <2>1
    <3>2. n # N => n + 1 \in 1..N
      BY <1>10, <2>0
    <3>3. n = N => x # e.next
      BY <1>5, <1>9, <2>1
    <3> HIDE DEF j
    <3> QED BY <1>4, <1>9, <2>1, <3>1, <3>2, <3>3
  <2>5. (x = e.prev) <=> (j = n - 1)
    <3>1. j = n - 1 => n # 1
      BY <2>0, <2>1
    <3>2. n # 1 => n - 1 \in 1..N
      BY <1>10, <2>0
    <3>3. n = 1 => x # e.prev
      BY <1>5, <1>9, <2>1
    <3> HIDE DEF j
    <3> QED BY <1>4, <1>9, <2>1, <3>1, <3>2, <3>3
  <2>6. /\ m.entries[x].prev = IF j = 1 THEN None ELSE s[j - 1]
        /\ m.entries[x].next = IF j = N THEN None ELSE s[j + 1]
    BY <1>6, <2>1
  <2>7. r.entries[x].prev = IF k = 1 THEN None ELSE t[k - 1]
    <3>1. r.entries[x].prev = IF j = n + 1 THEN e.prev ELSE m.entries[x].prev
      BY <2>3, <2>4
    <3>2. k # 1 => k - 1 \in 1..(N - 1)
      BY <1>1, <2>0
    <3>3. CASE k < n
      <4>1. j = k /\ j # n + 1
        BY <3>3, <2>0
      <4>2. k # 1 => t[k - 1] = s[k - 1]
        BY <1>3, <2>0, <3>2, <3>3
      <4> QED BY <2>6, <3>1, <4>1, <4>2
    <3>4. CASE k = n
      <4>1. j = n + 1
        BY <3>4, <2>0
      <4>2. k # 1 => t[k - 1] = s[n - 1]
        BY <1>3, <2>0, <3>2, <3>4
      <4> QED BY <1>9, <3>1, <3>4, <4>1, <4>2
    <3>5. CASE k > n
      <4>1. j = k + 1 /\ j # n + 1 /\ j # 1 /\ k # 1 /\ j - 1 = k
        BY <3>5, <2>0
      <4>2. t[k - 1] = s[k]
        <5>1. ~(k - 1 < n) /\ (k - 1) + 1 = k /\ k - 1 \in 1..(N - 1)
          BY <2>0, <3>2, <3>5, <4>1
        <5> QED BY <1>3, <5>1
      <4> QED BY <2>6, <3>1, <4>1, <4>2
    <3> QED BY <2>0, <3>3, <3>4, <3>5
  <2>8. r.entries[x].next = IF k = N - 1 THEN None ELSE t[k + 1]
    <3>1. r.entries[x].next = IF j = n - 1 THEN e.next ELSE m.entries[x].next
      BY <2>3, <2>5
    <3>2. k # N - 1 => k + 1 \in 1..(N - 1)
      BY <1>1, <2>0
    <3>3. CASE k + 1 < n
      <4>1. j = k /\ j # n - 1 /\ k # N - 1 /\ j # N
        BY <3>3, <2>0, <1>1
      <4>2. t[k + 1] = s[k + 1]
        BY <1>3, <3>2, <3>3, <4>1
      <4> QED BY <2>6, <3>1, <4>1, <4>2
    <3>4. CASE k + 1 = n
      <4>1. j = k /\ j = n - 1 /\ (k = N - 1 <=> n = N)
        BY <3>4, <2>0, <1>1
      <4>2. k # N - 1 => t[k + 1] = s[n + 1]
        BY <1>3, <2>0, <3>2, <3>4
      <4> QED BY <1>9, <3>1, <4>1, <4>2
    <3>5. CASE k >= n
      <4>1. j = k + 1 /\ j # n - 1 /\ (k = N - 1 <=> j = N)
        BY <3>5, <2>0, <1>1
      <4>2. k # N - 1 => t[k + 1] = s[j + 1]
        <5>1. ~(k + 1 < n)
          BY <2>0, <3>5
        <5> QED BY <1>3, <3>2, <4>1, <5>1
      <4> QED BY <2>6, <3>1, <4>1, <4>2
    <3> QED BY <2>0, <3>3, <3>4, <3>5
  <2> HIDE DEF j, x
  <2> QED BY <2>1, <2>3, <2>7, <2>8
<1>15. r.entries = [i \in Elems(t) |-> r.entries[i]]
  BY <1>2, <1>8
<1>16. Represents(r, t)
  BY <1>2, <1>12, <1>13, <1>14, <1>15 DEF Represents
<1> QED BY <1>16 DEF r, t

(* In a list without duplicates, Lru's removal of an index drops the one   *)
(* place where it is.                                                      *)
LEMMA WithoutIsDropAt ==
  ASSUME NEW s \in Seq(Index), Distinct(s), NEW n \in 1..Len(s)
  PROVE  Without(s, s[n]) = DropAt(s, n)
<1> DEFINE N == Len(s)
           keep == {i \in DOMAIN s : s[i] # s[n]}
<1>1. N \in Nat /\ DOMAIN s = 1..N /\ n \in Nat /\ N - 1 \in Nat
  OBVIOUS
<1>2. keep = (1..N) \ {n}
  BY <1>1 DEF Distinct
<1> HIDE DEF N, keep
<1>3. Cardinality(keep) = N - 1
  <2>1. IsFiniteSet(1..N) /\ Cardinality(1..N) = N
    BY <1>1, FS_Interval
  <2>2. n \in 1..N
    BY DEF N
  <2> QED BY <1>2, <2>1, <2>2, FS_RemoveElement
<1>4. ASSUME NEW i \in keep
      PROVE  Place(keep, i) = IF i < n THEN i ELSE i - 1
  <2>0. i \in Nat /\ i >= 1 /\ i =< N /\ i # n /\ n \in 1..N
    BY <1>1, <1>2 DEF N
  <2>1. CASE i < n
    <3>1. {k \in keep : k =< i} = 1..i
      BY <1>1, <1>2, <2>0, <2>1
    <3>2. Cardinality(1..i) = i
      BY <2>0, FS_Interval
    <3> QED BY <2>1, <3>1, <3>2 DEF Place
  <2>2. CASE ~(i < n)
    <3>1. {k \in keep : k =< i} = (1..i) \ {n}
      BY <1>1, <1>2, <2>0, <2>2
    <3>2. IsFiniteSet(1..i) /\ Cardinality(1..i) = i
      BY <2>0, FS_Interval
    <3>3. n \in 1..i
      BY <1>1, <2>0, <2>2
    <3>4. Cardinality((1..i) \ {n}) = i - 1
      BY <3>2, <3>3, FS_RemoveElement
    <3> QED BY <2>2, <3>1, <3>4 DEF Place
  <2> QED BY <2>1, <2>2
<1>5. ASSUME NEW j \in 1..(N - 1)
      PROVE  Source(keep, j) = IF j < n THEN j ELSE j + 1
  <2> DEFINE i == IF j < n THEN j ELSE j + 1
  <2>0. j \in Nat /\ i \in Nat
    OBVIOUS
  <2>1. i \in keep
    BY <1>1, <1>2
  <2>2. Place(keep, i) = j
    BY <1>1, <1>4, <2>0, <2>1
  <2>3. \A k \in keep : Place(keep, k) = j => k = i
    <3> SUFFICES ASSUME NEW k \in keep, Place(keep, k) = j PROVE k = i
      OBVIOUS
    <3>1. k \in Nat /\ k # n
      BY <1>2
    <3> QED BY <1>1, <1>4, <2>0, <3>1
  <2> HIDE DEF i
  <2>4. Source(keep, j) = i
    BY <2>1, <2>2, <2>3 DEF Source
  <2> QED BY <2>4 DEF i
<1>6. Without(s, s[n]) = [j \in 1..(N - 1) |-> s[Source(keep, j)]]
  <2>1. Without(s, s[n]) = [j \in 1..Cardinality(keep) |-> s[Source(keep, j)]]
    BY DEF Without, keep
  <2> QED BY <1>3, <2>1
<1>7. \A j \in 1..(N - 1) : s[Source(keep, j)] = IF j < n THEN s[j] ELSE s[j + 1]
  BY <1>5
<1> QED BY <1>6, <1>7 DEF DropAt, N

(* find() of an entry that exists. *)
LEMMA FoundRepresents ==
  ASSUME NEW m, NEW s, Represents(m, s), NEW n \in 1..Len(s)
  PROVE  Represents(Found(m, s[n]), Append(DropAt(s, n), s[n]))
<1>1. /\ s \in Seq(Index) /\ Distinct(s) /\ s[n] \in Index
      /\ s[n] \in DOMAIN m.entries
  BY DEF Represents, Elems
<1>2. Represents(Removed(m, s[n]), DropAt(s, n))
  BY RemovedRepresents
<1>3. s[n] \notin Elems(DropAt(s, n))
  BY <1>1, DropAtProperties
<1>4. Represents(Added(Removed(m, s[n]), s[n]), Append(DropAt(s, n), s[n]))
  BY <1>1, <1>2, <1>3, AddedRepresents
<1> QED BY <1>1, <1>4 DEF Found

(* A turn of ensureRoom(): the head is found, hence moved to the tail, and *)
(* removed from there.                                                     *)
LEMMA EvictedRepresents ==
  ASSUME NEW m, NEW s, Represents(m, s), s # <<>>
  PROVE  /\ m.head = s[1]
         /\ Represents(Removed(Found(m, s[1]), s[1]), Tail(s))
<1> DEFINE d == DropAt(s, 1)
           u == Append(d, s[1])
<1>1. /\ s \in Seq(Index) /\ Distinct(s) /\ m.head = s[1]
      /\ Len(s) \in Nat /\ 1 \in 1..Len(s) /\ s[1] \in Index
  BY DEF Represents
<1>2. d \in Seq(Index) /\ Len(d) = Len(s) - 1
  BY <1>1, DropAtProperties
<1>3. Represents(Found(m, s[1]), u)
  BY <1>1, FoundRepresents
<1> HIDE DEF d
<1>4. /\ Len(u) = Len(s) /\ Len(u) \in 1..Len(u) /\ u[Len(u)] = s[1]
      /\ \A k \in 1..(Len(s) - 1) : u[k] = d[k]
  BY <1>1, <1>2
<1> HIDE DEF u
<1>5. Represents(Removed(Found(m, s[1]), s[1]), DropAt(u, Len(u)))
  BY <1>3, <1>4, RemovedRepresents
<1>6. \A k \in 1..(Len(s) - 1) : k < Len(s) /\ ~(k < 1)
  BY <1>1
<1>7. DropAt(u, Len(u)) = [k \in 1..(Len(s) - 1) |-> s[k + 1]]
  <2>1. DropAt(u, Len(u)) = [k \in 1..(Len(s) - 1) |-> u[k]]
    BY <1>4, <1>6 DEF DropAt
  <2>2. \A k \in 1..(Len(s) - 1) : d[k] = s[k + 1]
    BY <1>6 DEF DropAt, d
  <2> QED BY <1>4, <2>1, <2>2
<1>8. Tail(s) = [k \in 1..(Len(s) - 1) |-> s[k + 1]]
  <2>1. /\ Tail(s) \in Seq(Index) /\ Len(Tail(s)) = Len(s) - 1
        /\ DOMAIN Tail(s) = 1..(Len(s) - 1)
        /\ \A k \in 1..(Len(s) - 1) : Tail(s)[k] = s[k + 1]
    BY <1>1
  <2>2. d \in Seq(Index) /\ Len(d) = Len(Tail(s))
    BY <1>2, <2>1
  <2>3. d = [k \in 1..(Len(s) - 1) |-> s[k + 1]]
    BY <1>6 DEF DropAt, d
  <2>4. \A k \in 1..Len(d) : d[k] = Tail(s)[k]
    BY <1>2, <2>1, <2>3
  <2>5. d = Tail(s)
    BY <2>1, <2>2, <2>4, SeqEqual
  <2> QED BY <2>3, <2>5
<1> QED BY <1>1, <1>5, <1>7, <1>8

(* What Represents says of the links: each entry's neighbours are those of *)
(* its place in the sequence.                                              *)
LEMMA RepresentsWellLinked ==
  ASSUME NEW s, Represents(files, s)
  PROVE  TypeOK /\ WellLinked
<1> DEFINE N == Len(s)
           E == files.entries
<1>1. /\ s \in Seq(Index) /\ DOMAIN E = Elems(s) /\ N \in Nat
      /\ DOMAIN s = 1..N
  BY DEF Represents
<1>2. \A j, k \in 1..N : s[j] = s[k] => j = k
  BY <1>1 DEF Represents, Distinct
<1>3. \A k \in 1..N : s[k] \in Index /\ s[k] # None /\ s[k] \in DOMAIN E
  BY <1>1, NoneAssumption DEF Elems
<1>4. \A k \in 1..N : E[s[k]] = [prev |-> IF k = 1 THEN None ELSE s[k - 1],
                                 next |-> IF k = N THEN None ELSE s[k + 1]]
  BY DEF Represents
<1>4a. \A k \in 1..N :
          /\ E[s[k]].prev = IF k = 1 THEN None ELSE s[k - 1]
          /\ E[s[k]].next = IF k = N THEN None ELSE s[k + 1]
  <2> SUFFICES ASSUME NEW k \in 1..N
               PROVE  /\ E[s[k]].prev = IF k = 1 THEN None ELSE s[k - 1]
                      /\ E[s[k]].next = IF k = N THEN None ELSE s[k + 1]
    OBVIOUS
  <2>1. E[s[k]] = [prev |-> IF k = 1 THEN None ELSE s[k - 1],
                   next |-> IF k = N THEN None ELSE s[k + 1]]
    BY <1>4
  <2> HIDE DEF E, N
  <2> QED BY <2>1
<1>5. \A k \in 1..N : (k # 1 => k - 1 \in 1..N) /\ (k # N => k + 1 \in 1..N)
  <2>1. \A b \in Nat : \A k \in 1..b :
           (k # 1 => k - 1 \in 1..b) /\ (k # b => k + 1 \in 1..b)
    OBVIOUS
  <2> HIDE DEF N
  <2> QED BY <1>1, <2>1
<1>6. \A i \in DOMAIN E : \E k \in 1..N : i = s[k]
  BY <1>1 DEF Elems
<1>7. /\ N # 0 => /\ files.head = s[1] /\ files.tail = s[N]
                 /\ 1 \in 1..N /\ N \in 1..N
      /\ N = 0 => files.head = None /\ files.tail = None /\ DOMAIN E = {}
  <2>1. N = 0 <=> s = <<>>
    BY <1>1
  <2>2. N = 0 => DOMAIN E = {}
    BY <1>1 DEF Elems
  <2>3. N # 0 => 1 \in 1..N /\ N \in 1..N
    BY <1>1
  <2> QED BY <2>1, <2>2, <2>3 DEF Represents
<1>8. files.entries = [i \in DOMAIN E |-> E[i]]
  BY <1>1 DEF Represents
<1> HIDE DEF N, E
<1>9. ASSUME NEW i \in DOMAIN E
      PROVE  /\ E[i] \in Entry /\ i \in Index
             /\ E[i].next # None => E[i].next \in DOMAIN E /\ E[E[i].next].prev = i
             /\ E[i].prev # None => E[i].prev \in DOMAIN E /\ E[E[i].prev].next = i
             /\ (E[i].prev = None) <=> (i = files.head)
             /\ (E[i].next = None) <=> (i = files.tail)
  <2>1. PICK k \in 1..N : i = s[k]
    BY <1>6
  <2>2. /\ E[i].prev = IF k = 1 THEN None ELSE s[k - 1]
        /\ E[i].next = IF k = N THEN None ELSE s[k + 1]
        /\ E[i] = [prev |-> IF k = 1 THEN None ELSE s[k - 1],
                   next |-> IF k = N THEN None ELSE s[k + 1]]
    BY <1>4, <2>1
  <2>3. N # 0
    BY <1>1, <2>1
  <2>4. E[i] \in Entry /\ i \in Index
    BY <1>3, <1>5, <2>1, <2>2 DEF Entry
  <2>5. k \in Nat /\ (k # 1 => k - 1 \in 1..N /\ k - 1 # N /\ (k - 1) + 1 = k)
        /\ (k # N => k + 1 \in 1..N /\ k + 1 # 1 /\ (k + 1) - 1 = k)
    BY <1>1, <1>5
  <2>6. E[i].next # None => E[i].next \in DOMAIN E /\ E[E[i].next].prev = i
    <3>1. CASE k = N
      BY <2>2, <3>1
    <3>2. CASE k # N
      <4>0. k + 1 \in 1..N /\ k + 1 # 1
        BY <2>5, <3>2
      <4>1. E[s[k + 1]].prev = s[(k + 1) - 1]
        BY <1>4a, <4>0
      <4> QED BY <1>3, <2>1, <2>2, <2>5, <3>2, <4>1
    <3> QED BY <3>1, <3>2
  <2>7. E[i].prev # None => E[i].prev \in DOMAIN E /\ E[E[i].prev].next = i
    <3>1. CASE k = 1
      BY <2>2, <3>1
    <3>2. CASE k # 1
      <4>0. k - 1 \in 1..N /\ k - 1 # N
        BY <2>5, <3>2
      <4>1. E[s[k - 1]].next = s[(k - 1) + 1]
        BY <1>4a, <4>0
      <4> QED BY <1>3, <2>1, <2>2, <2>5, <3>2, <4>1
    <3> QED BY <3>1, <3>2
  <2>8. (E[i].prev = None) <=> (i = files.head)
    BY <1>2, <1>3, <1>7, <2>1, <2>2, <2>3, <2>5
  <2>9. (E[i].next = None) <=> (i = files.tail)
    BY <1>2, <1>3, <1>7, <2>1, <2>2, <2>3, <2>5
  <2> QED BY <2>4, <2>6, <2>7, <2>8, <2>9
<1>10. /\ files.head \in Index \cup {None} /\ files.tail \in Index \cup {None}
       /\ files.head # None => files.head \in DOMAIN E
       /\ files.tail # None => files.tail \in DOMAIN E
       /\ DOMAIN E # {} => files.head # None /\ files.tail # None
  BY <1>3, <1>7
<1>11. TypeOK
  <2>1. DOMAIN E \subseteq Index
    BY <1>9
  <2>2. E \in [DOMAIN E -> Entry]
    BY <1>8, <1>9 DEF E
  <2> QED BY <1>10, <2>1, <2>2 DEF TypeOK, E
<1>12. WellLinked
  BY <1>9, <1>10 DEF WellLinked, E
<1> QED BY <1>11, <1>12

-----------------------------------------------------------------------------
(* Every step of LinkedProdMap is, on the sequence it represents, the step *)
(* of Lru of the same name, or none: the hash table with its links         *)
(* simulates the list in order of last use, whatever the indexes.          *)
THEOREM SimulatesLru ==
  ASSUME NEW s, Represents(files, s), [Next]_files
  PROVE  \E t : Represents(files', t) /\ LruStep(s, t)
<1>1. /\ s \in Seq(Index) /\ Distinct(s) /\ DOMAIN s = 1..Len(s)
      /\ DOMAIN files.entries = Elems(s) /\ None \notin Elems(s)
  <2>1. \A k \in DOMAIN s : s[k] \in Index
    BY DEF Represents
  <2> QED BY <2>1, NoneAssumption DEF Represents, Elems
<1>2. CASE EvictHead
  <2>1. s # <<>>
    BY <1>2 DEF EvictHead, Represents
  <2>2. Represents(files', Tail(s))
    BY <1>2, <2>1, EvictedRepresents DEF EvictHead
  <2> QED BY <2>1, <2>2 DEF LruStep
<1>3. ASSUME NEW i \in Index \cup {None}, Add(i)
      PROVE  \E t : Represents(files', t) /\ LruStep(s, t)
  <2>1. i \in Index /\ i \notin Elems(s) /\ files' = Added(files, i)
    BY <1>1, <1>3 DEF Add
  <2>2. Represents(files', Append(s, i))
    BY <2>1, AddedRepresents
  <2> QED BY <2>1, <2>2 DEF LruStep
<1>4. ASSUME NEW i \in Index \cup {None}, Remove(i)
      PROVE  \E t : Represents(files', t) /\ LruStep(s, t)
  <2>1. i \in Elems(s) /\ i \in Index /\ files' = Removed(files, i)
    BY <1>1, <1>4 DEF Remove
  <2>2. PICK n \in 1..Len(s) : i = s[n]
    BY <1>1, <2>1 DEF Elems
  <2>3. Represents(files', DropAt(s, n))
    BY <2>1, <2>2, RemovedRepresents
  <2>4. DropAt(s, n) = Without(s, i)
    BY <1>1, <2>2, WithoutIsDropAt
  <2> QED BY <2>1, <2>3, <2>4 DEF LruStep
<1>5. ASSUME NEW i \in Index \cup {None}, Find(i)
      PROVE  \E t : Represents(files', t) /\ LruStep(s, t)
  <2>1. i \in Elems(s) /\ i \in Index /\ files' = Found(files, i)
    BY <1>1, <1>5 DEF Find
  <2>2. PICK n \in 1..Len(s) : i = s[n]
    BY <1>1, <2>1 DEF Elems
  <2>3. Represents(files', Append(DropAt(s, n), i))
    BY <2>1, <2>2, FoundRepresents
  <2>4. DropAt(s, n) = Without(s, i)
    BY <1>1, <2>2, WithoutIsDropAt
  <2> QED BY <2>1, <2>3, <2>4 DEF LruStep
<1>6. CASE UNCHANGED files
  BY <1>6 DEF LruStep
<1> QED BY <1>2, <1>3, <1>4, <1>5, <1>6 DEF Next

(* Some sequence is represented. *)
Representable == \E s : Represents(files, s)

(* The empty table represents the empty list. *)
LEMMA InitRepresentable == Init => Representable
<1> SUFFICES ASSUME Init PROVE Represents(files, <<>>)
  BY DEF Representable
<1>1. files.entries = <<>> /\ files.head = None /\ files.tail = None
  BY DEF Init, EmptyMap
<1>2. Elems(<<>>) = {} /\ Distinct(<<>>) /\ <<>> \in Seq(Index) /\ Len(<<>>) = 0
  BY DEF Elems, Distinct
<1>3. <<>> = [i \in {} |-> files.entries[i]]
  OBVIOUS
<1>4. 1..0 = {}
  OBVIOUS
<1> QED BY <1>1, <1>2, <1>3, <1>4 DEF Represents

(* The table of product-files always represents a list. *)
LEMMA AlwaysRepresentable == Spec => []Representable
<1>1. Representable /\ [Next]_files => Representable'
  <2> SUFFICES ASSUME Representable, [Next]_files PROVE Representable'
    OBVIOUS
  <2>1. PICK s : Represents(files, s)
    BY DEF Representable
  <2>2. PICK t : Represents(files', t)
    BY <2>1, SimulatesLru
  <2> QED BY <2>2 DEF Representable, Represents
<1> QED BY <1>1, InitRepresentable, PTL DEF Spec

(* The links of the table of product-files are well formed, so no          *)
(* operator[] of add() or remove() ever creates an entry without a file.   *)
THEOREM LinksAreWellFormed == Spec => [](TypeOK /\ WellLinked)
<1>1. Representable => TypeOK /\ WellLinked
  BY RepresentsWellLinked DEF Representable
<1> QED BY <1>1, AlwaysRepresentable, PTL

-----------------------------------------------------------------------------
(***************************************************************************)
(* ServerPool, for any set of servers and any period.                      *)
(***************************************************************************)
(* An address is in one place only: in the pool, or in the connector's     *)
(* hand, or the remote of a peer.                                          *)
PlaceInv ==
    /\ Pooled \cap active = {} /\ srvrAddr \notin Pooled \cup active
    /\ srvrAddr # NoServer <=> connector \in {"connect", "add"}
    /\ starter = "empty?" => connector = "none"

(* An address in the pool is revealed when it has rested for the period. *)
RestInv ==
    /\ \A i \in DOMAIN servers : rested[servers[i].addr] + servers[i].wait >= Period
    /\ RetryRests

PoolIInv == PoolTypeOK /\ PlaceInv /\ RestInv /\ NoServerIsLost

(* An element's address and the time that is left. *)
LEMMA ElementTypes ==
    ASSUME PoolTypeOK, NEW i \in DOMAIN servers
    PROVE  servers[i] \in Elements /\ servers[i].addr \in Address /\ servers[i].wait \in 0 .. Period
<1>1. servers[i] \in Elements
  BY DEF PoolTypeOK
<1>2. QED
  BY <1>1 DEF Elements

(* No address that is in use is that of nobody. *)
LEMMA NobodyIsPooled ==
    PoolTypeOK => NoServer \notin Pooled \cup active
BY ElementTypes, PoolAssumption DEF Pooled, PoolTypeOK, Address

(* What push() does: the address is new in the pool, and rests. *)
LEMMA Pushed ==
    ASSUME PoolTypeOK, RestInv, NEW a \in Address, a \notin Pooled, PushDelayed(a)
    PROVE  /\ servers' \in Seq(Elements)
           /\ Distinct([i \in DOMAIN servers |-> servers[i].addr])'
           /\ rested' \in [Address -> 0 .. Period] /\ deadline' \in 0 .. (Period + 1)
           /\ Pooled' = Pooled \cup {a}
           /\ \A i \in DOMAIN servers' : rested'[servers'[i].addr] + servers'[i].wait >= Period
           /\ \A b \in Address \ {a} : rested'[b] = rested[b]
<1> DEFINE e == [addr |-> a, wait |-> Period]
           n == Len(servers)
<1>1. Period \in Nat /\ Period \in 0 .. Period /\ 0 \in 0 .. Period
  BY PoolAssumption
<1>2. e \in Elements /\ e.addr = a /\ e.wait = Period
  BY <1>1 DEF Elements
<1>3. servers \in Seq(Elements) /\ n \in Nat /\ DOMAIN servers = 1 .. n
  BY DEF PoolTypeOK
<1>4. servers' = Append(servers, e)
  BY DEF PushDelayed
<1> HIDE DEF e, n
<1>5. /\ servers' \in Seq(Elements) /\ DOMAIN servers' = 1 .. n + 1
      /\ servers'[n + 1] = e /\ \A i \in 1 .. n : servers'[i] = servers[i]
  BY <1>2, <1>3, <1>4 DEF n
<1>6. \A i \in 1 .. n : servers[i].addr \in Pooled /\ servers[i].addr \in Address
  BY <1>3, ElementTypes DEF Pooled
<1>7. Distinct([i \in DOMAIN servers |-> servers[i].addr])'
  <2>1. \A i, j \in 1 .. n : servers[i].addr = servers[j].addr => i = j
    BY <1>3 DEF PoolTypeOK, Distinct
  <2>2. \A i, j \in 1 .. n + 1 : servers'[i].addr = servers'[j].addr => i = j
    BY <1>2, <1>3, <1>5, <1>6, <2>1
  <2>3. QED
    BY <1>5, <2>2 DEF Distinct
<1>8. rested' = [rested EXCEPT ![a] = 0]
  BY DEF PushDelayed
<1>9. rested' \in [Address -> 0 .. Period]
  BY <1>1, <1>8 DEF PoolTypeOK
<1>10. deadline' \in 0 .. (Period + 1)
  BY <1>1 DEF PushDelayed, PoolTypeOK
<1>11. Pooled' = Pooled \cup {a}
  <2>1. Pooled' = {servers'[i].addr : i \in 1 .. n + 1}
    BY <1>5 DEF Pooled
  <2>2. Pooled = {servers[i].addr : i \in 1 .. n}
    BY <1>3 DEF Pooled
  <2>3. \A i \in 1 .. n + 1 : i \in 1 .. n \/ i = n + 1
    BY <1>3
  <2>4. n + 1 \in 1 .. n + 1 /\ 1 .. n \subseteq 1 .. n + 1
    BY <1>3
  <2>5. QED
    BY <1>2, <1>5, <2>1, <2>2, <2>3, <2>4
<1>12. \A b \in Address \ {a} : rested'[b] = rested[b]
  BY <1>8 DEF PoolTypeOK
<1>13. ASSUME NEW i \in 1 .. n + 1
       PROVE  rested'[servers'[i].addr] + servers'[i].wait >= Period
  <2>1. CASE i = n + 1
    BY <1>1, <1>2, <1>5, <1>8, <2>1 DEF PoolTypeOK
  <2>2. CASE i \in 1 .. n
    <3>1. servers[i].addr \in Address \ {a}
      BY <1>6, <2>2
    <3>2. rested[servers[i].addr] + servers[i].wait >= Period
      BY <1>3, <2>2 DEF RestInv
    <3>3. QED
      BY <1>5, <1>12, <2>2, <3>1, <3>2
  <2>3. QED
    BY <1>3, <2>1, <2>2
<1>14. QED
  BY <1>5, <1>7, <1>9, <1>10, <1>11, <1>12, <1>13

(* What pop() takes leaves the pool. *)
LEMMA Popped ==
    ASSUME PoolTypeOK, RestInv, servers # << >>, servers' = Tail(servers), rested' = rested
    PROVE  /\ servers' \in Seq(Elements)
           /\ Distinct([i \in DOMAIN servers |-> servers[i].addr])'
           /\ Head(servers) \in Elements /\ Head(servers).addr \in Address
           /\ Head(servers).addr \in Pooled
           /\ Pooled' = Pooled \ {Head(servers).addr}
           /\ \A i \in DOMAIN servers' : rested'[servers'[i].addr] + servers'[i].wait >= Period
           /\ Head(servers).wait = 0 => rested[Head(servers).addr] = Period
<1> DEFINE n == Len(servers)
<1>1. servers \in Seq(Elements) /\ n \in Nat \ {0} /\ DOMAIN servers = 1 .. n
  BY DEF PoolTypeOK
<1>2. /\ servers' \in Seq(Elements) /\ DOMAIN servers' = 1 .. n - 1
      /\ \A i \in 1 .. n - 1 : servers'[i] = servers[i + 1]
      /\ Head(servers) = servers[1]
  BY <1>1
<1> HIDE DEF n
<1>3. \A i, j \in 1 .. n : servers[i].addr = servers[j].addr => i = j
  BY <1>1 DEF PoolTypeOK, Distinct
<1>4. \A i \in 1 .. n - 1 : i + 1 \in 1 .. n /\ i + 1 # 1
  BY <1>1
<1>5. Distinct([i \in DOMAIN servers |-> servers[i].addr])'
  <2>1. ASSUME NEW i \in 1 .. n - 1, NEW j \in 1 .. n - 1, servers'[i].addr = servers'[j].addr
        PROVE  i = j
    <3>1. servers[i + 1].addr = servers[j + 1].addr
      BY <1>2, <2>1
    <3>2. i + 1 = j + 1
      BY <1>3, <1>4, <3>1
    <3>3. QED
      BY <1>1, <3>2
  <2>2. QED
    BY <1>2, <2>1 DEF Distinct
<1>6. 1 \in 1 .. n
  BY <1>1
<1>7. Head(servers) \in Elements /\ Head(servers).addr \in Address /\ Head(servers).addr \in Pooled
  BY <1>1, <1>2, <1>6, ElementTypes DEF Pooled
<1>8. Pooled' = Pooled \ {Head(servers).addr}
  <2>1. Pooled' = {servers'[i].addr : i \in 1 .. n - 1}
    BY <1>2 DEF Pooled
  <2>2. Pooled = {servers[i].addr : i \in 1 .. n}
    BY <1>1 DEF Pooled
  <2>3. \A i \in 1 .. n : i = 1 \/ (i - 1 \in 1 .. n - 1 /\ (i - 1) + 1 = i)
    BY <1>1
  <2>4. ASSUME NEW a \in Pooled' PROVE a \in Pooled /\ a # Head(servers).addr
    <3>1. PICK i \in 1 .. n - 1 : a = servers'[i].addr
      BY <2>1, <2>4
    <3>2. a = servers[i + 1].addr /\ i + 1 \in 1 .. n /\ i + 1 # 1
      BY <1>2, <1>4, <3>1
    <3>3. QED
      BY <1>2, <1>3, <1>6, <2>2, <3>2
  <2>5. ASSUME NEW a \in Pooled, a # Head(servers).addr PROVE a \in Pooled'
    <3>1. PICK i \in 1 .. n : a = servers[i].addr
      BY <2>2
    <3>2. i - 1 \in 1 .. n - 1 /\ (i - 1) + 1 = i
      BY <1>2, <2>3, <2>5, <3>1
    <3>3. a = servers'[i - 1].addr
      BY <1>2, <3>1, <3>2
    <3>4. QED
      BY <2>1, <3>2, <3>3
  <2>6. QED
    BY <2>4, <2>5
<1>9. \A i \in 1 .. n - 1 : rested'[servers'[i].addr] + servers'[i].wait >= Period
  BY <1>1, <1>2, <1>4 DEF RestInv
<1>10. Head(servers).wait = 0 => rested[Head(servers).addr] = Period
  <2>1. rested[Head(servers).addr] + Head(servers).wait >= Period
    BY <1>1, <1>2, <1>6 DEF RestInv
  <2>2. rested[Head(servers).addr] \in 0 .. Period
    BY <1>7 DEF PoolTypeOK
  <2>3. QED
    BY <2>1, <2>2, PoolAssumption
<1>11. QED
  BY <1>2, <1>5, <1>7, <1>8, <1>9, <1>10

(* As time passes, what is left until an address is revealed gets less by  *)
(* as much as its rest gets longer.                                        *)
LEMMA Ticked ==
    ASSUME PoolTypeOK, RestInv, PoolTick
    PROVE  /\ servers' \in Seq(Elements)
           /\ Distinct([i \in DOMAIN servers |-> servers[i].addr])'
           /\ Pooled' = Pooled
           /\ rested' \in [Address -> 0 .. Period] /\ deadline' \in 0 .. (Period + 1)
           /\ RestInv'
<1> DEFINE less(k) == IF k = 0 THEN 0 ELSE k - 1
           n == Len(servers)
<1>1. servers \in Seq(Elements) /\ n \in Nat /\ DOMAIN servers = 1 .. n /\ Period \in Nat
  BY PoolAssumption DEF PoolTypeOK
<1>2. servers' = [i \in DOMAIN servers |-> [servers[i] EXCEPT !.wait = less(@)]]
  BY DEF PoolTick
<1>3. \A k \in 0 .. Period : less(k) \in 0 .. Period
  BY <1>1
<1>4. \A i \in 1 .. n : servers[i] \in Elements /\ servers[i].wait \in 0 .. Period
  BY <1>1, ElementTypes
<1> HIDE DEF n
<1>5. ASSUME NEW i \in 1 .. n
      PROVE  /\ servers'[i] \in Elements /\ servers'[i].addr = servers[i].addr
             /\ servers'[i].wait = less(servers[i].wait)
  <2> DEFINE w == less(servers[i].wait)
  <2>1. w \in 0 .. Period
    BY <1>3, <1>4
  <2>2. servers'[i] = [servers[i] EXCEPT !.wait = w]
    BY <1>1, <1>2
  <2> HIDE DEF w
  <2>3. servers'[i] \in Elements /\ servers'[i].addr = servers[i].addr /\ servers'[i].wait = w
    BY <1>4, <2>1, <2>2 DEF Elements
  <2>4. QED
    BY <2>3 DEF w
<1>6. servers' \in Seq(Elements) /\ DOMAIN servers' = 1 .. n
  <2>1. DOMAIN servers' = 1 .. n /\ servers' \in [1 .. n -> Elements]
    BY <1>1, <1>2, <1>5
  <2>2. QED
    BY <1>1, <2>1
<1>7. Distinct([i \in DOMAIN servers |-> servers[i].addr])'
  <2>1. \A i, j \in 1 .. n : servers[i].addr = servers[j].addr => i = j
    BY <1>1 DEF PoolTypeOK, Distinct
  <2>2. QED
    BY <1>5, <1>6, <2>1 DEF Distinct
<1>8. Pooled' = Pooled
  <2>1. Pooled' = {servers'[i].addr : i \in 1 .. n} /\ Pooled = {servers[i].addr : i \in 1 .. n}
    BY <1>1, <1>6 DEF Pooled
  <2>2. QED
    BY <1>5, <2>1
<1>9. rested' = [a \in Address |-> IF rested[a] = Period THEN Period ELSE rested[a] + 1]
  BY DEF PoolTick
<1>10. /\ rested' \in [Address -> 0 .. Period]
       /\ \A a \in Address : \/ rested[a] = Period /\ rested'[a] = Period
                             \/ rested'[a] = rested[a] + 1
  <2>1. \A a \in Address : rested[a] \in 0 .. Period
    BY DEF PoolTypeOK
  <2>2. \A a \in Address : (IF rested[a] = Period THEN Period ELSE rested[a] + 1) \in 0 .. Period
    BY <1>1, <2>1
  <2>3. QED
    BY <1>9, <2>2
<1>11. deadline' \in 0 .. (Period + 1)
  BY <1>1 DEF PoolTick, PoolTypeOK
<1>12. ASSUME NEW i \in 1 .. n
       PROVE  rested'[servers'[i].addr] + servers'[i].wait >= Period
  <2> DEFINE a == servers[i].addr
             w == servers[i].wait
  <2>1. a \in Address /\ w \in 0 .. Period /\ rested[a] \in 0 .. Period /\ rested[a] + w >= Period
    BY <1>1, ElementTypes DEF PoolTypeOK, RestInv
  <2>2. (rested[a] = Period /\ rested'[a] = Period) \/ rested'[a] = rested[a] + 1
    BY <1>10, <2>1
  <2>3. servers'[i].addr = a /\ servers'[i].wait = less(w)
    BY <1>5
  <2> HIDE DEF a, w
  <2>4. rested'[a] + less(w) >= Period
    BY <1>1, <2>1, <2>2
  <2>5. QED
    BY <2>3, <2>4
<1>13. RetryRests'
  <2>1. srvrAddr' = srvrAddr /\ (srvrAddr # NoServer => srvrAddr \in Address)
    BY DEF PoolTick, PoolTypeOK
  <2>2. QED
    BY <1>1, <1>10, <2>1 DEF RestInv, RetryRests, PoolTypeOK
<1>14. QED
  BY <1>6, <1>7, <1>8, <1>10, <1>11, <1>12, <1>13 DEF RestInv

(* Every step keeps the types; no address is in the pool twice.            *)
LEMMA PoolTypeOKStep == PoolIInv /\ [PoolNext]_serverVars => PoolTypeOK'
<1> SUFFICES ASSUME PoolIInv, [PoolNext]_serverVars PROVE PoolTypeOK'
  OBVIOUS
<1>0. CASE UNCHANGED serverVars
  BY <1>0 DEF PoolIInv, PoolTypeOK, PlaceInv, Address, serverVars
<1>1. ASSUME StartConnector PROVE PoolTypeOK'
  BY <1>1, PoolAssumption
  DEF PoolIInv, PoolTypeOK, PlaceInv, Address, StartConnector
<1>2. ASSUME StartImprover PROVE PoolTypeOK'
  BY <1>2, PoolAssumption
  DEF PoolIInv, PoolTypeOK, PlaceInv, Address, StartImprover
<1>3. ASSUME PoolWaitToConnect PROVE PoolTypeOK'
  BY <1>3, PoolAssumption
  DEF PoolIInv, PoolTypeOK, PlaceInv, Address, PoolWaitToConnect
<1>4. ASSUME PopRevealed PROVE PoolTypeOK'
  <2>1. /\ servers' \in Seq(Elements) /\ Distinct([i \in DOMAIN servers |-> servers[i].addr])'
        /\ Head(servers).addr \in Address /\ Head(servers).addr \in Pooled
        /\ Pooled' = Pooled \ {Head(servers).addr}
        /\ \A i \in DOMAIN servers' : rested'[servers'[i].addr] + servers'[i].wait >= Period
        /\ rested[Head(servers).addr] = Period
    BY <1>4, Popped DEF PoolIInv, PopRevealed
  <2>2. QED
    BY <1>4, <2>1, PoolAssumption DEF PoolIInv, PoolTypeOK, Address, PopRevealed
<1>5. ASSUME PopWaits PROVE PoolTypeOK'
  <2>1. servers # << >> => Head(servers).wait \in 0 .. Period
    <3>1. ASSUME servers # << >> PROVE 1 \in DOMAIN servers /\ Head(servers) = servers[1]
      BY <3>1 DEF PoolIInv, PoolTypeOK
    <3>2. QED
      BY <3>1, ElementTypes DEF PoolIInv
  <2>2. deadline' \in 0 .. (Period + 1)
    BY <1>5, <2>1, PoolAssumption DEF PopWaits
  <2>3. QED
    BY <1>5, <2>2 DEF PoolIInv, PoolTypeOK, PopWaits
<1>6. ASSUME PopWakes PROVE PoolTypeOK'
  BY <1>6, PoolAssumption DEF PoolIInv, PoolTypeOK, PlaceInv, Address, PopWakes
<1>7. ASSUME ConnectPeer PROVE PoolTypeOK'
  BY <1>7, PoolAssumption
  DEF PoolIInv, PoolTypeOK, PlaceInv, Address, ConnectPeer
<1>8. ASSUME ConnectRefused PROVE PoolTypeOK'
  <2>1. srvrAddr \in Address /\ srvrAddr \notin Pooled
    BY <1>8, PoolAssumption
    DEF PoolIInv, PoolTypeOK, PlaceInv, ConnectRefused, Address
  <2>2. /\ servers' \in Seq(Elements) /\ Distinct([i \in DOMAIN servers |-> servers[i].addr])'
        /\ rested' \in [Address -> 0 .. Period] /\ deadline' \in 0 .. (Period + 1)
        /\ Pooled' = Pooled \cup {srvrAddr}
        /\ \A i \in DOMAIN servers' : rested'[servers'[i].addr] + servers'[i].wait >= Period
        /\ \A b \in Address \ {srvrAddr} : rested'[b] = rested[b]
    BY <1>8, <2>1, Pushed DEF PoolIInv, ConnectRefused
  <2>3. QED
    BY <1>8, <2>1, <2>2, PoolAssumption DEF PoolIInv, PoolTypeOK, Address, ConnectRefused
<1>9. ASSUME PeerAdded PROVE PoolTypeOK'
  BY <1>9, PoolAssumption
  DEF PoolIInv, PoolTypeOK, PlaceInv, Address, PeerAdded
<1>10. ASSUME PeerRejected PROVE PoolTypeOK'
  <2>1. srvrAddr \in Address /\ srvrAddr \notin Pooled
    BY <1>10, PoolAssumption
    DEF PoolIInv, PoolTypeOK, PlaceInv, PeerRejected, Address
  <2>2. /\ servers' \in Seq(Elements) /\ Distinct([i \in DOMAIN servers |-> servers[i].addr])'
        /\ rested' \in [Address -> 0 .. Period] /\ deadline' \in 0 .. (Period + 1)
        /\ Pooled' = Pooled \cup {srvrAddr}
        /\ \A i \in DOMAIN servers' : rested'[servers'[i].addr] + servers'[i].wait >= Period
        /\ \A b \in Address \ {srvrAddr} : rested'[b] = rested[b]
    BY <1>10, <2>1, Pushed DEF PoolIInv, PeerRejected
  <2>3. QED
    BY <1>10, <2>1, <2>2, PoolAssumption DEF PoolIInv, PoolTypeOK, Address, PeerRejected
<1>11. ASSUME PoolTick PROVE PoolTypeOK'
  <2>1. /\ servers' \in Seq(Elements) /\ Distinct([i \in DOMAIN servers |-> servers[i].addr])'
        /\ Pooled' = Pooled /\ RestInv'
        /\ rested' \in [Address -> 0 .. Period] /\ deadline' \in 0 .. (Period + 1)
    BY <1>11, Ticked DEF PoolIInv
  <2>2. QED
    BY <1>11, <2>1 DEF PoolIInv, PoolTypeOK, Address, PoolTick
<1>12. ASSUME ConnectFatal PROVE PoolTypeOK'
  BY <1>12, PoolAssumption
  DEF PoolIInv, PoolTypeOK, PlaceInv, Address, ConnectFatal
<1>13. ASSUME CancelConnector PROVE PoolTypeOK'
  BY <1>13, PoolAssumption
  DEF PoolIInv, PoolTypeOK, PlaceInv, Address, CancelConnector
<1>14. ASSUME NEW a \in Stranger, StrangerAdded(a) PROVE PoolTypeOK'
  BY <1>14, PoolAssumption
  DEF PoolIInv, PoolTypeOK, PlaceInv, Address, StrangerAdded
<1>15. ASSUME NEW a \in Stranger, StrangerRejected(a) PROVE PoolTypeOK'
  <2>1. a \in Address /\ a \notin Pooled
    BY <1>15, PoolAssumption
    DEF PoolIInv, PoolTypeOK, PlaceInv, StrangerRejected, Address
  <2>2. /\ servers' \in Seq(Elements) /\ Distinct([i \in DOMAIN servers |-> servers[i].addr])'
        /\ rested' \in [Address -> 0 .. Period] /\ deadline' \in 0 .. (Period + 1)
        /\ Pooled' = Pooled \cup {a}
        /\ \A i \in DOMAIN servers' : rested'[servers'[i].addr] + servers'[i].wait >= Period
        /\ \A b \in Address \ {a} : rested'[b] = rested[b]
    BY <1>15, <2>1, Pushed DEF PoolIInv, StrangerRejected
  <2>3. QED
    BY <1>15, <2>1, <2>2, PoolAssumption DEF PoolIInv, PoolTypeOK, Address,
         StrangerRejected
<1>16. ASSUME NEW a \in Address, PoolStopped(a) PROVE PoolTypeOK'
  <2>1. CASE a \in Server
    <3>1. a \in Address /\ a \notin Pooled
      BY <1>16, <2>1, PoolAssumption
      DEF PoolIInv, PoolTypeOK, PlaceInv, PoolStopped, Address
    <3>2. /\ servers' \in Seq(Elements) /\ Distinct([i \in DOMAIN servers |-> servers[i].addr])'
          /\ rested' \in [Address -> 0 .. Period] /\ deadline' \in 0 .. (Period + 1)
          /\ Pooled' = Pooled \cup {a}
          /\ \A i \in DOMAIN servers' : rested'[servers'[i].addr] + servers'[i].wait >= Period
          /\ \A b \in Address \ {a} : rested'[b] = rested[b]
      BY <1>16, <2>1, <3>1, Pushed DEF PoolIInv, PoolStopped
    <3>3. QED
      BY <1>16, <2>1, <3>1, <3>2, PoolAssumption DEF PoolIInv, PoolTypeOK, Address,
           PoolStopped
  <2>2. CASE a \notin Server
    BY <1>16, <2>2, PoolAssumption DEF PoolIInv, PoolTypeOK, Address, PoolStopped,
         Pooled, Address
  <2>3. QED
    BY <2>1, <2>2
<1>17. QED
  BY <1>0, <1>1, <1>2, <1>3, <1>4, <1>5, <1>6, <1>7, <1>8, <1>9, <1>10, <1>11,
     <1>12, <1>13, <1>14, <1>15, <1>16
  DEF PoolNext, ConnectorStep

(* An address goes from one place to another.                              *)
LEMMA PlaceInvStep == PoolIInv /\ [PoolNext]_serverVars => PlaceInv'
<1> SUFFICES ASSUME PoolIInv, [PoolNext]_serverVars PROVE PlaceInv'
  OBVIOUS
<1>0. CASE UNCHANGED serverVars
  BY <1>0 DEF PoolIInv, PlaceInv, PoolTypeOK, Pooled, Address, serverVars
<1>1. ASSUME StartConnector PROVE PlaceInv'
  BY <1>1, PoolAssumption
  DEF PoolIInv, PlaceInv, PoolTypeOK, Pooled, Address, StartConnector
<1>2. ASSUME StartImprover PROVE PlaceInv'
  BY <1>2, PoolAssumption
  DEF PoolIInv, PlaceInv, PoolTypeOK, Pooled, Address, StartImprover
<1>3. ASSUME PoolWaitToConnect PROVE PlaceInv'
  BY <1>3, PoolAssumption
  DEF PoolIInv, PlaceInv, PoolTypeOK, Pooled, Address, PoolWaitToConnect
<1>4. ASSUME PopRevealed PROVE PlaceInv'
  <2>1. /\ servers' \in Seq(Elements) /\ Distinct([i \in DOMAIN servers |-> servers[i].addr])'
        /\ Head(servers).addr \in Address /\ Head(servers).addr \in Pooled
        /\ Pooled' = Pooled \ {Head(servers).addr}
        /\ \A i \in DOMAIN servers' : rested'[servers'[i].addr] + servers'[i].wait >= Period
        /\ rested[Head(servers).addr] = Period
    BY <1>4, Popped DEF PoolIInv, PopRevealed
  <2>2. QED
    BY <1>4, <2>1, PoolAssumption DEF PoolIInv, PlaceInv, PoolTypeOK, PopRevealed
<1>5. ASSUME PopWaits PROVE PlaceInv'
  BY <1>5, PoolAssumption
  DEF PoolIInv, PlaceInv, PoolTypeOK, Pooled, Address, PopWaits
<1>6. ASSUME PopWakes PROVE PlaceInv'
  BY <1>6, PoolAssumption
  DEF PoolIInv, PlaceInv, PoolTypeOK, Pooled, Address, PopWakes
<1>7. ASSUME ConnectPeer PROVE PlaceInv'
  BY <1>7, PoolAssumption
  DEF PoolIInv, PlaceInv, PoolTypeOK, Pooled, Address, ConnectPeer
<1>8. ASSUME ConnectRefused PROVE PlaceInv'
  <2>1. srvrAddr \in Address /\ srvrAddr \notin Pooled
    BY <1>8, PoolAssumption
    DEF PoolIInv, PoolTypeOK, PlaceInv, ConnectRefused, Address
  <2>2. /\ servers' \in Seq(Elements) /\ Distinct([i \in DOMAIN servers |-> servers[i].addr])'
        /\ rested' \in [Address -> 0 .. Period] /\ deadline' \in 0 .. (Period + 1)
        /\ Pooled' = Pooled \cup {srvrAddr}
        /\ \A i \in DOMAIN servers' : rested'[servers'[i].addr] + servers'[i].wait >= Period
        /\ \A b \in Address \ {srvrAddr} : rested'[b] = rested[b]
    BY <1>8, <2>1, Pushed DEF PoolIInv, ConnectRefused
  <2>3. QED
    BY <1>8, <2>1, <2>2, NobodyIsPooled, PoolAssumption DEF PoolIInv, PlaceInv,
         PoolTypeOK, ConnectRefused
<1>9. ASSUME PeerAdded PROVE PlaceInv'
  BY <1>9, NobodyIsPooled, PoolAssumption
  DEF PoolIInv, PlaceInv, PoolTypeOK, Pooled, Address, PeerAdded
<1>10. ASSUME PeerRejected PROVE PlaceInv'
  <2>1. srvrAddr \in Address /\ srvrAddr \notin Pooled
    BY <1>10, PoolAssumption
    DEF PoolIInv, PoolTypeOK, PlaceInv, PeerRejected, Address
  <2>2. /\ servers' \in Seq(Elements) /\ Distinct([i \in DOMAIN servers |-> servers[i].addr])'
        /\ rested' \in [Address -> 0 .. Period] /\ deadline' \in 0 .. (Period + 1)
        /\ Pooled' = Pooled \cup {srvrAddr}
        /\ \A i \in DOMAIN servers' : rested'[servers'[i].addr] + servers'[i].wait >= Period
        /\ \A b \in Address \ {srvrAddr} : rested'[b] = rested[b]
    BY <1>10, <2>1, Pushed DEF PoolIInv, PeerRejected
  <2>3. QED
    BY <1>10, <2>1, <2>2, NobodyIsPooled, PoolAssumption DEF PoolIInv, PlaceInv,
         PoolTypeOK, PeerRejected
<1>11. ASSUME PoolTick PROVE PlaceInv'
  <2>1. /\ servers' \in Seq(Elements) /\ Distinct([i \in DOMAIN servers |-> servers[i].addr])'
        /\ Pooled' = Pooled /\ RestInv'
        /\ rested' \in [Address -> 0 .. Period] /\ deadline' \in 0 .. (Period + 1)
    BY <1>11, Ticked DEF PoolIInv
  <2>2. QED
    BY <1>11, <2>1 DEF PoolIInv, PlaceInv, PoolTypeOK, PoolTick
<1>12. ASSUME ConnectFatal PROVE PlaceInv'
  BY <1>12, NobodyIsPooled, PoolAssumption
  DEF PoolIInv, PlaceInv, PoolTypeOK, Pooled, Address, ConnectFatal
<1>13. ASSUME CancelConnector PROVE PlaceInv'
  BY <1>13, NobodyIsPooled, PoolAssumption
  DEF PoolIInv, PlaceInv, PoolTypeOK, Pooled, Address, CancelConnector
<1>14. ASSUME NEW a \in Stranger, StrangerAdded(a) PROVE PlaceInv'
  BY <1>14, PoolAssumption
  DEF PoolIInv, PlaceInv, PoolTypeOK, Pooled, Address, StrangerAdded
<1>15. ASSUME NEW a \in Stranger, StrangerRejected(a) PROVE PlaceInv'
  <2>1. a \in Address /\ a \notin Pooled
    BY <1>15, PoolAssumption
    DEF PoolIInv, PoolTypeOK, PlaceInv, StrangerRejected, Address
  <2>2. /\ servers' \in Seq(Elements) /\ Distinct([i \in DOMAIN servers |-> servers[i].addr])'
        /\ rested' \in [Address -> 0 .. Period] /\ deadline' \in 0 .. (Period + 1)
        /\ Pooled' = Pooled \cup {a}
        /\ \A i \in DOMAIN servers' : rested'[servers'[i].addr] + servers'[i].wait >= Period
        /\ \A b \in Address \ {a} : rested'[b] = rested[b]
    BY <1>15, <2>1, Pushed DEF PoolIInv, StrangerRejected
  <2>3. QED
    BY <1>15, <2>1, <2>2, NobodyIsPooled, PoolAssumption DEF PoolIInv, PlaceInv,
         PoolTypeOK, StrangerRejected
<1>16. ASSUME NEW a \in Address, PoolStopped(a) PROVE PlaceInv'
  <2>1. CASE a \in Server
    <3>1. a \in Address /\ a \notin Pooled
      BY <1>16, <2>1, PoolAssumption
      DEF PoolIInv, PoolTypeOK, PlaceInv, PoolStopped, Address
    <3>2. /\ servers' \in Seq(Elements) /\ Distinct([i \in DOMAIN servers |-> servers[i].addr])'
          /\ rested' \in [Address -> 0 .. Period] /\ deadline' \in 0 .. (Period + 1)
          /\ Pooled' = Pooled \cup {a}
          /\ \A i \in DOMAIN servers' : rested'[servers'[i].addr] + servers'[i].wait >= Period
          /\ \A b \in Address \ {a} : rested'[b] = rested[b]
      BY <1>16, <2>1, <3>1, Pushed DEF PoolIInv, PoolStopped
    <3>3. QED
      BY <1>16, <2>1, <3>1, <3>2, PoolAssumption DEF PoolIInv, PlaceInv, PoolTypeOK,
           PoolStopped
  <2>2. CASE a \notin Server
    BY <1>16, <2>2, PoolAssumption DEF PoolIInv, PlaceInv, PoolTypeOK, PoolStopped,
         Pooled, Address
  <2>3. QED
    BY <2>1, <2>2
<1>17. QED
  BY <1>0, <1>1, <1>2, <1>3, <1>4, <1>5, <1>6, <1>7, <1>8, <1>9, <1>10, <1>11,
     <1>12, <1>13, <1>14, <1>15, <1>16
  DEF PoolNext, ConnectorStep

(* Whoever puts an address into the pool lets it rest.                     *)
LEMMA RestInvStep == PoolIInv /\ [PoolNext]_serverVars => RestInv'
<1> SUFFICES ASSUME PoolIInv, [PoolNext]_serverVars PROVE RestInv'
  OBVIOUS
<1>0. CASE UNCHANGED serverVars
  BY <1>0 DEF PoolIInv, RestInv, RetryRests, PlaceInv, PoolTypeOK, serverVars
<1>1. ASSUME StartConnector PROVE RestInv'
  BY <1>1, PoolAssumption
  DEF PoolIInv, RestInv, RetryRests, PlaceInv, PoolTypeOK, StartConnector
<1>2. ASSUME StartImprover PROVE RestInv'
  BY <1>2, PoolAssumption
  DEF PoolIInv, RestInv, RetryRests, PlaceInv, PoolTypeOK, StartImprover
<1>3. ASSUME PoolWaitToConnect PROVE RestInv'
  BY <1>3, PoolAssumption
  DEF PoolIInv, RestInv, RetryRests, PlaceInv, PoolTypeOK, PoolWaitToConnect
<1>4. ASSUME PopRevealed PROVE RestInv'
  <2>1. /\ servers' \in Seq(Elements) /\ Distinct([i \in DOMAIN servers |-> servers[i].addr])'
        /\ Head(servers).addr \in Address /\ Head(servers).addr \in Pooled
        /\ Pooled' = Pooled \ {Head(servers).addr}
        /\ \A i \in DOMAIN servers' : rested'[servers'[i].addr] + servers'[i].wait >= Period
        /\ rested[Head(servers).addr] = Period
    BY <1>4, Popped DEF PoolIInv, PopRevealed
  <2>2. QED
    BY <1>4, <2>1, PoolAssumption DEF PoolIInv, RestInv, RetryRests, PlaceInv,
         PoolTypeOK, PopRevealed
<1>5. ASSUME PopWaits PROVE RestInv'
  BY <1>5, PoolAssumption
  DEF PoolIInv, RestInv, RetryRests, PlaceInv, PoolTypeOK, PopWaits
<1>6. ASSUME PopWakes PROVE RestInv'
  BY <1>6, PoolAssumption
  DEF PoolIInv, RestInv, RetryRests, PlaceInv, PoolTypeOK, PopWakes
<1>7. ASSUME ConnectPeer PROVE RestInv'
  BY <1>7, PoolAssumption
  DEF PoolIInv, RestInv, RetryRests, PlaceInv, PoolTypeOK, ConnectPeer
<1>8. ASSUME ConnectRefused PROVE RestInv'
  <2>1. srvrAddr \in Address /\ srvrAddr \notin Pooled
    BY <1>8, PoolAssumption
    DEF PoolIInv, PoolTypeOK, PlaceInv, ConnectRefused, Address
  <2>2. /\ servers' \in Seq(Elements) /\ Distinct([i \in DOMAIN servers |-> servers[i].addr])'
        /\ rested' \in [Address -> 0 .. Period] /\ deadline' \in 0 .. (Period + 1)
        /\ Pooled' = Pooled \cup {srvrAddr}
        /\ \A i \in DOMAIN servers' : rested'[servers'[i].addr] + servers'[i].wait >= Period
        /\ \A b \in Address \ {srvrAddr} : rested'[b] = rested[b]
    BY <1>8, <2>1, Pushed DEF PoolIInv, ConnectRefused
  <2>3. QED
    BY <1>8, <2>1, <2>2, PoolAssumption DEF PoolIInv, RestInv, RetryRests, PlaceInv,
         PoolTypeOK, ConnectRefused
<1>9. ASSUME PeerAdded PROVE RestInv'
  BY <1>9, PoolAssumption
  DEF PoolIInv, RestInv, RetryRests, PlaceInv, PoolTypeOK, PeerAdded
<1>10. ASSUME PeerRejected PROVE RestInv'
  <2>1. srvrAddr \in Address /\ srvrAddr \notin Pooled
    BY <1>10, PoolAssumption
    DEF PoolIInv, PoolTypeOK, PlaceInv, PeerRejected, Address
  <2>2. /\ servers' \in Seq(Elements) /\ Distinct([i \in DOMAIN servers |-> servers[i].addr])'
        /\ rested' \in [Address -> 0 .. Period] /\ deadline' \in 0 .. (Period + 1)
        /\ Pooled' = Pooled \cup {srvrAddr}
        /\ \A i \in DOMAIN servers' : rested'[servers'[i].addr] + servers'[i].wait >= Period
        /\ \A b \in Address \ {srvrAddr} : rested'[b] = rested[b]
    BY <1>10, <2>1, Pushed DEF PoolIInv, PeerRejected
  <2>3. QED
    BY <1>10, <2>1, <2>2, PoolAssumption DEF PoolIInv, RestInv, RetryRests, PlaceInv,
         PoolTypeOK, PeerRejected
<1>11. ASSUME PoolTick PROVE RestInv'
  BY <1>11, Ticked DEF PoolIInv
<1>12. ASSUME ConnectFatal PROVE RestInv'
  BY <1>12, PoolAssumption
  DEF PoolIInv, RestInv, RetryRests, PlaceInv, PoolTypeOK, ConnectFatal
<1>13. ASSUME CancelConnector PROVE RestInv'
  BY <1>13, PoolAssumption
  DEF PoolIInv, RestInv, RetryRests, PlaceInv, PoolTypeOK, CancelConnector
<1>14. ASSUME NEW a \in Stranger, StrangerAdded(a) PROVE RestInv'
  BY <1>14, PoolAssumption
  DEF PoolIInv, RestInv, RetryRests, PlaceInv, PoolTypeOK, StrangerAdded
<1>15. ASSUME NEW a \in Stranger, StrangerRejected(a) PROVE RestInv'
  <2>1. a \in Address /\ a \notin Pooled
    BY <1>15, PoolAssumption
    DEF PoolIInv, PoolTypeOK, PlaceInv, StrangerRejected, Address
  <2>2. /\ servers' \in Seq(Elements) /\ Distinct([i \in DOMAIN servers |-> servers[i].addr])'
        /\ rested' \in [Address -> 0 .. Period] /\ deadline' \in 0 .. (Period + 1)
        /\ Pooled' = Pooled \cup {a}
        /\ \A i \in DOMAIN servers' : rested'[servers'[i].addr] + servers'[i].wait >= Period
        /\ \A b \in Address \ {a} : rested'[b] = rested[b]
    BY <1>15, <2>1, Pushed DEF PoolIInv, StrangerRejected
  <2>3. QED
    BY <1>15, <2>1, <2>2, PoolAssumption DEF PoolIInv, RestInv, RetryRests, PlaceInv,
         PoolTypeOK, StrangerRejected
<1>16. ASSUME NEW a \in Address, PoolStopped(a) PROVE RestInv'
  <2>1. CASE a \in Server
    <3>1. a \in Address /\ a \notin Pooled
      BY <1>16, <2>1, PoolAssumption
      DEF PoolIInv, PoolTypeOK, PlaceInv, PoolStopped, Address
    <3>2. /\ servers' \in Seq(Elements) /\ Distinct([i \in DOMAIN servers |-> servers[i].addr])'
          /\ rested' \in [Address -> 0 .. Period] /\ deadline' \in 0 .. (Period + 1)
          /\ Pooled' = Pooled \cup {a}
          /\ \A i \in DOMAIN servers' : rested'[servers'[i].addr] + servers'[i].wait >= Period
          /\ \A b \in Address \ {a} : rested'[b] = rested[b]
      BY <1>16, <2>1, <3>1, Pushed DEF PoolIInv, PoolStopped
    <3>3. QED
      BY <1>16, <2>1, <3>1, <3>2, PoolAssumption DEF PoolIInv, RestInv, RetryRests,
           PlaceInv, PoolTypeOK, PoolStopped
  <2>2. CASE a \notin Server
    BY <1>16, <2>2, PoolAssumption DEF PoolIInv, RestInv, RetryRests, PlaceInv,
         PoolTypeOK, PoolStopped, Pooled, Address
  <2>3. QED
    BY <2>1, <2>2
<1>17. QED
  BY <1>0, <1>1, <1>2, <1>3, <1>4, <1>5, <1>6, <1>7, <1>8, <1>9, <1>10, <1>11,
     <1>12, <1>13, <1>14, <1>15, <1>16
  DEF PoolNext, ConnectorStep

(* A server that leaves the pool goes on to the connector and the peer-    *)
(* set, and comes back.                                                    *)
LEMMA NoServerIsLostStep == PoolIInv /\ [PoolNext]_serverVars => NoServerIsLost'
<1> SUFFICES ASSUME PoolIInv, [PoolNext]_serverVars PROVE NoServerIsLost'
  OBVIOUS
<1>0. CASE UNCHANGED serverVars
  BY <1>0
  DEF PoolIInv, NoServerIsLost, PlaceInv, PoolTypeOK, Pooled, serverVars
<1>1. ASSUME StartConnector PROVE NoServerIsLost'
  BY <1>1, PoolAssumption
  DEF PoolIInv, NoServerIsLost, PlaceInv, PoolTypeOK, Pooled, StartConnector
<1>2. ASSUME StartImprover PROVE NoServerIsLost'
  BY <1>2, PoolAssumption
  DEF PoolIInv, NoServerIsLost, PlaceInv, PoolTypeOK, Pooled, StartImprover
<1>3. ASSUME PoolWaitToConnect PROVE NoServerIsLost'
  BY <1>3, PoolAssumption
  DEF PoolIInv, NoServerIsLost, PlaceInv, PoolTypeOK, Pooled, PoolWaitToConnect
<1>4. ASSUME PopRevealed PROVE NoServerIsLost'
  <2>1. /\ servers' \in Seq(Elements) /\ Distinct([i \in DOMAIN servers |-> servers[i].addr])'
        /\ Head(servers).addr \in Address /\ Head(servers).addr \in Pooled
        /\ Pooled' = Pooled \ {Head(servers).addr}
        /\ \A i \in DOMAIN servers' : rested'[servers'[i].addr] + servers'[i].wait >= Period
        /\ rested[Head(servers).addr] = Period
    BY <1>4, Popped DEF PoolIInv, PopRevealed
  <2>2. QED
    BY <1>4, <2>1, PoolAssumption DEF PoolIInv, NoServerIsLost, PlaceInv, PoolTypeOK,
         PopRevealed
<1>5. ASSUME PopWaits PROVE NoServerIsLost'
  BY <1>5, PoolAssumption
  DEF PoolIInv, NoServerIsLost, PlaceInv, PoolTypeOK, Pooled, PopWaits
<1>6. ASSUME PopWakes PROVE NoServerIsLost'
  BY <1>6, PoolAssumption
  DEF PoolIInv, NoServerIsLost, PlaceInv, PoolTypeOK, Pooled, PopWakes
<1>7. ASSUME ConnectPeer PROVE NoServerIsLost'
  BY <1>7, PoolAssumption
  DEF PoolIInv, NoServerIsLost, PlaceInv, PoolTypeOK, Pooled, ConnectPeer
<1>8. ASSUME ConnectRefused PROVE NoServerIsLost'
  <2>1. srvrAddr \in Address /\ srvrAddr \notin Pooled
    BY <1>8, PoolAssumption
    DEF PoolIInv, PoolTypeOK, PlaceInv, ConnectRefused, Address
  <2>2. /\ servers' \in Seq(Elements) /\ Distinct([i \in DOMAIN servers |-> servers[i].addr])'
        /\ rested' \in [Address -> 0 .. Period] /\ deadline' \in 0 .. (Period + 1)
        /\ Pooled' = Pooled \cup {srvrAddr}
        /\ \A i \in DOMAIN servers' : rested'[servers'[i].addr] + servers'[i].wait >= Period
        /\ \A b \in Address \ {srvrAddr} : rested'[b] = rested[b]
    BY <1>8, <2>1, Pushed DEF PoolIInv, ConnectRefused
  <2>3. QED
    BY <1>8, <2>1, <2>2, PoolAssumption DEF PoolIInv, NoServerIsLost, PlaceInv,
         PoolTypeOK, ConnectRefused
<1>9. ASSUME PeerAdded PROVE NoServerIsLost'
  BY <1>9, PoolAssumption
  DEF PoolIInv, NoServerIsLost, PlaceInv, PoolTypeOK, Pooled, PeerAdded
<1>10. ASSUME PeerRejected PROVE NoServerIsLost'
  <2>1. srvrAddr \in Address /\ srvrAddr \notin Pooled
    BY <1>10, PoolAssumption
    DEF PoolIInv, PoolTypeOK, PlaceInv, PeerRejected, Address
  <2>2. /\ servers' \in Seq(Elements) /\ Distinct([i \in DOMAIN servers |-> servers[i].addr])'
        /\ rested' \in [Address -> 0 .. Period] /\ deadline' \in 0 .. (Period + 1)
        /\ Pooled' = Pooled \cup {srvrAddr}
        /\ \A i \in DOMAIN servers' : rested'[servers'[i].addr] + servers'[i].wait >= Period
        /\ \A b \in Address \ {srvrAddr} : rested'[b] = rested[b]
    BY <1>10, <2>1, Pushed DEF PoolIInv, PeerRejected
  <2>3. QED
    BY <1>10, <2>1, <2>2, PoolAssumption DEF PoolIInv, NoServerIsLost, PlaceInv,
         PoolTypeOK, PeerRejected
<1>11. ASSUME PoolTick PROVE NoServerIsLost'
  <2>1. /\ servers' \in Seq(Elements) /\ Distinct([i \in DOMAIN servers |-> servers[i].addr])'
        /\ Pooled' = Pooled /\ RestInv'
        /\ rested' \in [Address -> 0 .. Period] /\ deadline' \in 0 .. (Period + 1)
    BY <1>11, Ticked DEF PoolIInv
  <2>2. QED
    BY <1>11, <2>1 DEF PoolIInv, NoServerIsLost, PlaceInv, PoolTypeOK, PoolTick
<1>12. ASSUME ConnectFatal PROVE NoServerIsLost'
  BY <1>12, PoolAssumption
  DEF PoolIInv, NoServerIsLost, PlaceInv, PoolTypeOK, Pooled, ConnectFatal
<1>13. ASSUME CancelConnector PROVE NoServerIsLost'
  BY <1>13, PoolAssumption
  DEF PoolIInv, NoServerIsLost, PlaceInv, PoolTypeOK, Pooled, CancelConnector
<1>14. ASSUME NEW a \in Stranger, StrangerAdded(a) PROVE NoServerIsLost'
  BY <1>14, PoolAssumption
  DEF PoolIInv, NoServerIsLost, PlaceInv, PoolTypeOK, Pooled, StrangerAdded
<1>15. ASSUME NEW a \in Stranger, StrangerRejected(a) PROVE NoServerIsLost'
  <2>1. a \in Address /\ a \notin Pooled
    BY <1>15, PoolAssumption
    DEF PoolIInv, PoolTypeOK, PlaceInv, StrangerRejected, Address
  <2>2. /\ servers' \in Seq(Elements) /\ Distinct([i \in DOMAIN servers |-> servers[i].addr])'
        /\ rested' \in [Address -> 0 .. Period] /\ deadline' \in 0 .. (Period + 1)
        /\ Pooled' = Pooled \cup {a}
        /\ \A i \in DOMAIN servers' : rested'[servers'[i].addr] + servers'[i].wait >= Period
        /\ \A b \in Address \ {a} : rested'[b] = rested[b]
    BY <1>15, <2>1, Pushed DEF PoolIInv, StrangerRejected
  <2>3. QED
    BY <1>15, <2>1, <2>2, PoolAssumption DEF PoolIInv, NoServerIsLost, PlaceInv,
         PoolTypeOK, StrangerRejected
<1>16. ASSUME NEW a \in Address, PoolStopped(a) PROVE NoServerIsLost'
  <2>1. CASE a \in Server
    <3>1. a \in Address /\ a \notin Pooled
      BY <1>16, <2>1, PoolAssumption
      DEF PoolIInv, PoolTypeOK, PlaceInv, PoolStopped, Address
    <3>2. /\ servers' \in Seq(Elements) /\ Distinct([i \in DOMAIN servers |-> servers[i].addr])'
          /\ rested' \in [Address -> 0 .. Period] /\ deadline' \in 0 .. (Period + 1)
          /\ Pooled' = Pooled \cup {a}
          /\ \A i \in DOMAIN servers' : rested'[servers'[i].addr] + servers'[i].wait >= Period
          /\ \A b \in Address \ {a} : rested'[b] = rested[b]
      BY <1>16, <2>1, <3>1, Pushed DEF PoolIInv, PoolStopped
    <3>3. QED
      BY <1>16, <2>1, <3>1, <3>2, PoolAssumption DEF PoolIInv, NoServerIsLost,
           PlaceInv, PoolTypeOK, PoolStopped
  <2>2. CASE a \notin Server
    BY <1>16, <2>2, PoolAssumption DEF PoolIInv, NoServerIsLost, PlaceInv, PoolTypeOK,
         PoolStopped, Pooled, Address
  <2>3. QED
    BY <2>1, <2>2
<1>17. QED
  BY <1>0, <1>1, <1>2, <1>3, <1>4, <1>5, <1>6, <1>7, <1>8, <1>9, <1>10, <1>11,
     <1>12, <1>13, <1>14, <1>15, <1>16
  DEF PoolNext, ConnectorStep

(* At first every server the pool is made of is in it, once. *)
LEMMA PoolInitInv == PoolInit => PoolIInv
<1> SUFFICES ASSUME PoolInit PROVE PoolIInv
  OBVIOUS
<1> DEFINE n == Cardinality(known)
<1>1. known \in SUBSET Server /\ IsFiniteSet(known) /\ n \in Nat /\ Period \in Nat
  BY PoolAssumption, FS_Subset, FS_CardinalityType DEF PoolInit
<1>2. PICK order \in [1 .. n -> known] :
        /\ Distinct(order)
        /\ servers = [i \in DOMAIN order |-> [addr |-> order[i], wait |-> 0]]
  BY DEF PoolInit
<1>3. order \in Surjection(1 .. n, known)
  <2>1. order \in Injection(1 .. n, known)
    BY <1>2, Fun_IsInj DEF Distinct
  <2>2. Cardinality(1 .. n) = n
    BY <1>1, FS_Interval
  <2>3. QED
    BY <1>1, <2>1, <2>2, FS_Injection
<1> HIDE DEF n
<1>4. DOMAIN servers = 1 .. n /\ DOMAIN order = 1 .. n
  BY <1>2
<1>5. \A i \in 1 .. n : /\ servers[i] = [addr |-> order[i], wait |-> 0]
                        /\ servers[i] \in Elements /\ order[i] \in Address
                        /\ servers[i].addr = order[i] /\ servers[i].wait = 0
  BY <1>1, <1>2, <1>4 DEF Elements, Address
<1>6. servers \in Seq(Elements)
  <2>1. servers \in [1 .. n -> Elements]
    BY <1>2, <1>4, <1>5
  <2>2. QED
    BY <1>1, <2>1
<1>7. Distinct([i \in DOMAIN servers |-> servers[i].addr])
  BY <1>2, <1>4, <1>5 DEF Distinct
<1>8. Pooled = known
  <2>1. Pooled \subseteq known
    BY <1>2, <1>4, <1>5 DEF Pooled
  <2>2. known \subseteq Pooled
    BY <1>3, <1>4, <1>5 DEF Pooled, Surjection
  <2>3. QED
    BY <2>1, <2>2
<1>9. PoolTypeOK
  BY <1>1, <1>6, <1>7 DEF PoolInit, PoolTypeOK
<1>10. PlaceInv
  BY <1>1, <1>8, PoolAssumption DEF PoolInit, PlaceInv
<1>11. RestInv
  <2>1. \A i \in 1 .. n : rested[servers[i].addr] = Period /\ servers[i].wait = 0
    BY <1>5 DEF PoolInit
  <2>2. srvrAddr = NoServer
    BY DEF PoolInit
  <2>3. QED
    BY <1>1, <1>4, <2>1, <2>2 DEF RestInv, RetryRests
<1>12. NoServerIsLost
  BY <1>1, <1>8, PoolAssumption DEF PoolInit, NoServerIsLost
<1>13. QED
  BY <1>9, <1>10, <1>11, <1>12 DEF PoolIInv

(* However long the connector, the acceptor and the threads of peers push  *)
(* and pop: a server is never forgotten while the connector goes on, is    *)
(* never in two places, and is left alone for the period once it failed.   *)
THEOREM ServersAreKept == PoolSpec => []PoolInv
<1>1. PoolIInv /\ [PoolNext]_serverVars => PoolIInv'
  BY PoolTypeOKStep, PlaceInvStep, RestInvStep, NoServerIsLostStep DEF PoolIInv
<1>2. PoolIInv => PoolInv
  BY DEF PoolIInv, PoolInv, RestInv
<1>3. QED
  BY PoolInitInv, <1>1, <1>2, PTL DEF PoolSpec

-----------------------------------------------------------------------------
(***************************************************************************)
(* Threads, for any number of objects, users and identifiers.  A joiner is *)
(* alone from the moment it sets beingJoined until it sets joined, so the  *)
(* flags tell what may be cancelled, joined or erased.                     *)
(***************************************************************************)
Life == {"none", "running", "ended", "joined", "destroyed"}
Away == {"idle", "canceled", "undefined"}
Joins == {"joining", "erasing", "erased"}
UserAt == Away \cup Joins \cup {"adding", "found", "waiting", "joined", "destroying"}

ThreadTypes ==
    /\ os \in [Thread -> Life] /\ tid \in [Thread -> Tid \cup {NoTid}]
    /\ state \in [Thread -> SUBSET {"completed", "beingJoined", "joined"}]
    /\ index \in [Thread -> Int] /\ canceled \subseteq Thread \X Life
    /\ listed \in [Tid -> Thread \cup {NoThread}]
    /\ used \in SUBSET Nat /\ IsFiniteSet(used)
    /\ doing \in [ThreadUser -> [at : UserAt, thr : Thread \cup {NoThread}, last : BOOLEAN]]
    /\ reused \in BOOLEAN
    /\ \A t \in Thread : os[t] # "none" => tid[t] \in Tid

(* What a user may do with its object: nobody else has it while it is      *)
(* constructed, and while it is destroyed nobody but a finder has it.      *)
UseOk(u) ==
    LET t == doing[u].thr
        a == doing[u].at IN
    /\ a \in Away <=> t = NoThread
    /\ a = "idle" => doing[u] = Idle
    /\ a = "adding" => /\ os[t] \in {"running", "ended"} /\ ~doing[u].last
                       /\ \A v \in ThreadUser : v # u => doing[v].thr # t
                       /\ \A id \in Tid : listed[id] # t
    /\ a = "found" => os[t] # "none" /\ ~doing[u].last
    /\ a \in {"waiting", "destroying"} => os[t] \in {"running", "ended", "joined"}
    /\ a = "destroying" => doing[u].last
    /\ a = "joining" => os[t] \in {"running", "ended"}
    /\ a \in {"erasing", "erased"} => os[t] = "joined"
    /\ a = "joined" => os[t] = "joined" /\ "joined" \in state[t]
    /\ doing[u].last =>
         /\ t # NoThread
         /\ \A v \in ThreadUser : v # u /\ doing[v].thr = t => doing[v].at = "found"

UseInv == \A u \in ThreadUser : UseOk(u)

(* What the flags of an object say of its thread-of-execution. *)
FlagInv ==
    /\ \A t \in Thread :
         /\ os[t] \in {"ended", "joined", "destroyed"} => "completed" \in state[t]
         /\ os[t] = "joined" => "beingJoined" \in state[t]
         /\ "joined" \in state[t] => os[t] \in {"joined", "destroyed"}
    /\ \A u \in ThreadUser : doing[u].at \in Joins => "beingJoined" \in state[doing[u].thr]

(* The threads that the list has. *)
Listable == {t \in Thread : \/ Constructed(t) /\ os[t] \in {"running", "ended"}
                            \/ \E u \in ThreadUser : doing[u].at = "erasing" /\ doing[u].thr = t}

(* The entries of the list, and the indexes. *)
ListInv ==
    /\ \A id \in Tid : listed[id] # NoThread => os[listed[id]] # "none"
    /\ reused \/
         /\ \A id \in Tid : listed[id] # NoThread => listed[id] \in Listable /\ tid[listed[id]] = id
         /\ \A t \in Listable : listed[tid[t]] = t /\ index[t] \in used
         /\ \A s, t \in Listable : s # t => index[s] # index[t]
         /\ \A n \in used : \E t \in Listable : index[t] = n

ThreadsIInv == ThreadTypes /\ UseInv /\ FlagInv /\ OneJoiner /\ OnlyLiveIsCanceled /\ ListInv

(* ThreadMap takes the lowest index that is free.  There is one: not all   *)
(* of the indexes 0, ..., c can be among c that are used, and the first    *)
(* position of those that are not is the lowest.                           *)
LEMMA LowestIsFree ==
    ASSUME NEW S \in SUBSET Nat, IsFiniteSet(S)
    PROVE  Lowest(S) \in Nat /\ Lowest(S) \notin S
<1> DEFINE c == Cardinality(S)
           keep == {n \in 1 .. c + 1 : n - 1 \notin S}
<1>1. c \in Nat
  BY FS_CardinalityType
<1>2. keep # {}
  <2> SUFFICES ASSUME keep = {} PROVE FALSE
    OBVIOUS
  <2>1. \A n \in 0 .. c : n + 1 \in 1 .. c + 1 /\ (n + 1) - 1 = n
    BY <1>1
  <2>2. 0 .. c \in SUBSET S
    BY <2>1
  <2>3. Cardinality(0 .. c) = c + 1
    BY <1>1, FS_Interval
  <2>4. Cardinality(0 .. c) =< c
    BY <2>2, FS_Subset
  <2>5. QED
    BY <1>1, <2>3, <2>4
<1>3. IsFiniteSet(keep) /\ Cardinality(keep) \in Nat \ {0}
  <2>1. IsFiniteSet(1 .. c + 1) /\ keep \in SUBSET (1 .. c + 1)
    BY <1>1, FS_Interval
  <2> HIDE DEF keep
  <2>2. QED
    BY <1>2, <2>1, FS_Subset, FS_CardinalityType, FS_EmptySet
<1>4. 1 \in 1 .. Cardinality(keep) /\ keep \subseteq 1 .. c + 1 /\ c + 1 \in Nat
  BY <1>1, <1>3
<1>5. PICK i \in keep : Place(keep, i) = 1
  <2> HIDE DEF keep
  <2>1. QED
    BY <1>4, PlaceIsSurjection
<1>6. \A k \in keep : i =< k
  <2> DEFINE upto == {k \in keep : k =< i}
  <2>1. IsFiniteSet(upto) /\ Cardinality(upto) = 1
    <3>1. upto \in SUBSET keep
      OBVIOUS
    <3> HIDE DEF keep
    <3>2. QED
      BY <1>3, <1>5, <3>1, FS_Subset DEF Place
  <2>2. PICK x : upto = {x}
    <3> HIDE DEF upto, keep
    <3>1. QED
      BY <2>1, FS_Singleton
  <2>3. i \in Nat /\ i \in upto /\ \A k \in keep : k \in Nat
    BY <1>1
  <2>4. \A k \in keep : k =< i => k = i
    BY <2>2, <2>3
  <2>5. QED
    BY <2>3, <2>4
<1>7. i - 1 \in 0 .. c /\ i - 1 \notin S
  BY <1>1
<1>8. ASSUME NEW k \in 0 .. ((i - 1) - 1) PROVE k \in S
  <2>1. k + 1 \in 1 .. c + 1 /\ ~(i =< k + 1) /\ (k + 1) - 1 = k
    BY <1>1, <1>7
  <2>2. k + 1 \notin keep
    BY <1>6, <2>1
  <2>3. QED
    BY <2>1, <2>2
<1>9. Lowest(S) \in 0 .. c /\ Lowest(S) \notin S
  BY <1>7, <1>8 DEF Lowest
<1>10. QED
  BY <1>1, <1>9

(* The list is about the same threads as before if none of them ends       *)
(* being alive, and nobody goes to or comes from adding or erasing.        *)
LEMMA SameListable ==
    ASSUME ThreadTypes,
           \A t \in Thread : os'[t] \in {"running", "ended"} <=> os[t] \in {"running", "ended"},
           \A u \in ThreadUser :
              \/ doing'[u] = doing[u]
              \/ /\ doing'[u].at \notin {"adding", "erasing"}
                 /\ doing[u].at \notin {"adding", "erasing"}
    PROVE  Listable' = Listable
<1>1. ASSUME NEW t \in Thread, os[t] \in {"running", "ended"}
      PROVE  Constructed(t)' <=> Constructed(t)
  BY <1>1 DEF Constructed
<1>2. QED
  BY <1>1 DEF Listable

(* Then the list is as before, too. *)
LEMMA ListKept ==
    ASSUME ThreadsIInv, Listable' = Listable, UNCHANGED <<listed, used, index, reused>>,
           \A t \in Thread : os[t] # "none" => os'[t] # "none" /\ tid'[t] = tid[t]
    PROVE  ListInv'
<1>1. \A t \in Listable : t \in Thread /\ os[t] # "none"
  BY DEF Listable, ThreadsIInv, UseInv, UseOk
<1>2. (\A id \in Tid : listed[id] # NoThread => os[listed[id]] # "none")'
  BY DEF ThreadsIInv, ListInv, ThreadTypes
<1>3. CASE reused
  BY <1>2, <1>3 DEF ListInv
<1>4. CASE ~reused
  BY <1>1, <1>2, <1>4 DEF ThreadsIInv, ListInv
<1>5. QED
  BY <1>3, <1>4

(* ensureJoined(): who is not told to wait is the first to join. *)
LEMMA Joining ==
    ASSUME ThreadTypes, NEW u \in ThreadUser, NEW t \in Thread, NEW last \in BOOLEAN,
           EnsureJoined(u, t, last)
    PROVE  /\ state' \in [Thread -> SUBSET {"completed", "beingJoined", "joined"}]
           /\ doing' \in [ThreadUser -> [at : UserAt, thr : Thread \cup {NoThread}, last : BOOLEAN]]
           /\ \A s \in Thread : "joined" \in state'[s] <=> "joined" \in state[s]
           /\ \A v \in ThreadUser : v # u => doing'[v] = doing[v]
           /\ doing'[u].thr = t /\ (doing'[u].last <=> last)
           /\ \/ doing'[u].at = "waiting"
              \/ /\ doing'[u].at = "joining"
                 /\ "joined" \notin state[t] /\ "beingJoined" \notin state[t]
<1> DEFINE Users == [at : UserAt, thr : Thread \cup {NoThread}, last : BOOLEAN]
<1>1. ASSUME NEW a \in UserAt
      PROVE  /\ Doing(a, t, last) \in Users /\ Doing(a, t, last).at = a
             /\ Doing(a, t, last).thr = t /\ (Doing(a, t, last).last <=> last)
  BY DEF Doing
<1>2. "waiting" \in UserAt /\ "joining" \in UserAt
  BY DEF UserAt, Joins
<1>3. doing \in [ThreadUser -> Users]
  BY DEF ThreadTypes
<1>4. CASE "joined" \in state[t] \/ "beingJoined" \in state[t]
  <2>1. doing' = [doing EXCEPT ![u] = Doing("waiting", t, last)] /\ state' = state
    BY <1>4 DEF EnsureJoined
  <2> HIDE DEF Users
  <2>2. doing' \in [ThreadUser -> Users] /\ doing'[u] = Doing("waiting", t, last)
    BY <1>1, <1>2, <1>3, <2>1
  <2>3. QED
    BY <1>1, <1>2, <1>3, <2>1, <2>2 DEF ThreadTypes, Users
<1>5. CASE ~("joined" \in state[t] \/ "beingJoined" \in state[t])
  <2>1. /\ doing' = [doing EXCEPT ![u] = Doing("joining", t, last)]
        /\ state' = [state EXCEPT ![t] = @ \cup {"beingJoined"}]
    BY <1>5 DEF EnsureJoined
  <2> HIDE DEF Users
  <2>2. doing' \in [ThreadUser -> Users] /\ doing'[u] = Doing("joining", t, last)
    BY <1>1, <1>2, <1>3, <2>1
  <2>3. /\ state' \in [Thread -> SUBSET {"completed", "beingJoined", "joined"}]
        /\ \A s \in Thread : "joined" \in state'[s] <=> "joined" \in state[s]
    BY <2>1 DEF ThreadTypes
  <2>4. QED
    BY <1>1, <1>2, <1>3, <1>5, <2>1, <2>2, <2>3 DEF Users
<1>6. QED
  BY <1>4, <1>5

(* ensureCompleted() *)
LEMMA Completing ==
    ASSUME ThreadTypes, NEW t \in Thread, EnsureCompleted(t)
    PROVE  /\ state' \in [Thread -> SUBSET {"completed", "beingJoined", "joined"}]
           /\ canceled' \subseteq Thread \X Life
<1>1. CASE "completed" \in state[t]
  BY <1>1 DEF EnsureCompleted, ThreadTypes
<1>2. CASE "completed" \notin state[t]
  BY <1>2 DEF EnsureCompleted, ThreadTypes
<1>3. QED
  BY <1>1, <1>2

(* Every step keeps the types.                                             *)
LEMMA ThreadTypesStep == ThreadsIInv /\ [ThreadsNext]_threadVars => ThreadTypes'
<1> SUFFICES ASSUME ThreadsIInv, [ThreadsNext]_threadVars PROVE ThreadTypes'
  OBVIOUS
<1>0. CASE UNCHANGED threadVars
  BY <1>0
  DEF ThreadsIInv, ThreadTypes, UseInv, UseOk, Life, UserAt, Away, Joins,
      threadVars, objVars, mapVars
<1>1. ASSUME NEW u \in ThreadUser, AddThread(u) PROVE ThreadTypes'
  <2>1. Lowest(used) \in Nat
    BY LowestIsFree DEF ThreadsIInv, ThreadTypes
  <2>2. used' \in SUBSET Nat /\ IsFiniteSet(used')
    <3>1. used' = used \cup {Lowest(used)}
      BY <1>1 DEF AddThread
    <3>2. QED
      BY <2>1, <3>1, FS_AddElement DEF ThreadsIInv, ThreadTypes
  <2>3. index' \in [Thread -> Int]
    <3> DEFINE num == Lowest(used)
    <3>1. num \in Int /\ index' = [index EXCEPT ![doing[u].thr] = num]
      BY <1>1, <2>1 DEF AddThread
    <3> HIDE DEF num
    <3>2. QED
      BY <3>1 DEF ThreadsIInv, ThreadTypes
  <2>4. listed' \in [Tid -> Thread \cup {NoThread}]
    BY <1>1 DEF ThreadsIInv, ThreadTypes, AddThread
  <2>5. reused' \in BOOLEAN
    BY <1>1 DEF AddThread
  <2>6. doing' \in [ThreadUser -> [at : UserAt, thr : Thread \cup {NoThread}, last : BOOLEAN]]
    BY <1>1 DEF ThreadsIInv, ThreadTypes, AddThread, Idle, Doing, UserAt, Away
  <2>7. QED
    BY <1>1, <2>2, <2>3, <2>4, <2>5, <2>6 DEF ThreadsIInv, ThreadTypes, AddThread
<1>2. ASSUME NEW u \in ThreadUser, JoinReturns(u) PROVE ThreadTypes'
  BY <1>2, ThreadsAssumption
  DEF ThreadsIInv, ThreadTypes, UseInv, UseOk, Life, UserAt, Away, Joins,
      JoinReturns, Doing, Idle, objVars, mapVars
<1>3. ASSUME NEW u \in ThreadUser, EraseThread(u) PROVE ThreadTypes'
  <2>1. used' \in SUBSET used
    BY <1>3 DEF EraseThread
  <2>2. used' \in SUBSET Nat /\ IsFiniteSet(used')
    BY <2>1, FS_Subset DEF ThreadsIInv, ThreadTypes
  <2>3. listed' \in [Tid -> Thread \cup {NoThread}]
    BY <1>3 DEF ThreadsIInv, ThreadTypes, EraseThread
  <2>4. doing' \in [ThreadUser -> [at : UserAt, thr : Thread \cup {NoThread}, last : BOOLEAN]]
    BY <1>3 DEF ThreadsIInv, ThreadTypes, EraseThread, UserAt, Joins
  <2>5. QED
    BY <1>3, <2>2, <2>3, <2>4 DEF ThreadsIInv, ThreadTypes, EraseThread, objVars
<1>4. ASSUME NEW u \in ThreadUser, SetJoined(u) PROVE ThreadTypes'
  BY <1>4, ThreadsAssumption
  DEF ThreadsIInv, ThreadTypes, UseInv, UseOk, Life, UserAt, Away, Joins,
      SetJoined, Doing, Idle, objVars, mapVars
<1>5. ASSUME NEW u \in ThreadUser, WaitReturns(u) PROVE ThreadTypes'
  BY <1>5, ThreadsAssumption
  DEF ThreadsIInv, ThreadTypes, UseInv, UseOk, Life, UserAt, Away, Joins,
      WaitReturns, Doing, Idle, objVars, mapVars
<1>6. ASSUME NEW u \in ThreadUser, EndJoin(u) PROVE ThreadTypes'
  BY <1>6, ThreadsAssumption
  DEF ThreadsIInv, ThreadTypes, UseInv, UseOk, Life, UserAt, Away, Joins,
      EndJoin, Doing, Idle, objVars, mapVars
<1>7. ASSUME NEW u \in ThreadUser, DestructorJoins(u) PROVE ThreadTypes'
  <2>1. doing[u].thr \in Thread
    BY <1>7, ThreadsAssumption DEF ThreadsIInv, ThreadTypes, UseInv, UseOk, Away,
         DestructorJoins
  <2>2. /\ state' \in [Thread -> SUBSET {"completed", "beingJoined", "joined"}]
        /\ doing' \in [ThreadUser -> [at : UserAt, thr : Thread \cup {NoThread}, last : BOOLEAN]]
    BY <1>7, <2>1, Joining DEF ThreadsIInv, DestructorJoins
  <2>3. QED
    BY <1>7, <2>2 DEF ThreadsIInv, ThreadTypes, DestructorJoins, mapVars
<1>8. ASSUME NEW u \in ThreadUser, CancelFound(u) PROVE ThreadTypes'
  <2>1. doing[u].thr \in Thread
    BY <1>8, ThreadsAssumption DEF ThreadsIInv, ThreadTypes, UseInv, UseOk, Away,
         CancelFound
  <2>2. /\ state' \in [Thread -> SUBSET {"completed", "beingJoined", "joined"}]
        /\ canceled' \subseteq Thread \X Life
    BY <1>8, <2>1, Completing DEF ThreadsIInv, ThreadTypes, CancelFound
  <2>3. doing' \in [ThreadUser -> [at : UserAt, thr : Thread \cup {NoThread}, last : BOOLEAN]]
    <3>1. \A a \in UserAt : Doing(a, NoThread, FALSE) \in
                [at : UserAt, thr : Thread \cup {NoThread}, last : BOOLEAN]
      BY DEF Doing
    <3>2. \E a \in UserAt : doing' = [doing EXCEPT ![u] = Doing(a, NoThread, FALSE)]
      BY <1>8 DEF CancelFound, Idle, UserAt, Away
    <3>3. QED
      BY <3>1, <3>2 DEF ThreadsIInv, ThreadTypes
  <2>4. QED
    BY <1>8, <2>2, <2>3 DEF ThreadsIInv, ThreadTypes, CancelFound, mapVars
<1>9. ASSUME NEW u \in ThreadUser, CancelJoiner(u) PROVE ThreadTypes'
  BY <1>9, ThreadsAssumption
  DEF ThreadsIInv, ThreadTypes, UseInv, UseOk, Life, UserAt, Away, Joins,
      CancelJoiner, Doing, Idle, objVars, mapVars
<1>10. ASSUME NEW u \in ThreadUser, NEW t \in Thread, Construct(u, t) PROVE
    ThreadTypes'
  BY <1>10, ThreadsAssumption
  DEF ThreadsIInv, ThreadTypes, UseInv, UseOk, Life, UserAt, Away, Joins,
      Construct, Doing, Idle, objVars, mapVars
<1>11. ASSUME NEW u \in ThreadUser, NEW t \in Thread, CallCancel(u, t) PROVE
    ThreadTypes'
  BY <1>11, ThreadsAssumption
  DEF ThreadsIInv, ThreadTypes, UseInv, UseOk, Life, UserAt, Away, Joins,
      CallCancel, EnsureCompleted, Usable, Constructed, Doing, Idle, objVars,
      mapVars
<1>12. ASSUME NEW u \in ThreadUser, NEW t \in Thread, JoinThread(u, t) PROVE
    ThreadTypes'
  <2>1. t \in Thread
    BY <1>12, ThreadsAssumption DEF ThreadsIInv, ThreadTypes, UseInv, UseOk, Away,
         JoinThread
  <2>2. /\ state' \in [Thread -> SUBSET {"completed", "beingJoined", "joined"}]
        /\ doing' \in [ThreadUser -> [at : UserAt, thr : Thread \cup {NoThread}, last : BOOLEAN]]
    BY <1>12, <2>1, Joining DEF ThreadsIInv, JoinThread
  <2>3. QED
    BY <1>12, <2>2 DEF ThreadsIInv, ThreadTypes, JoinThread, mapVars
<1>13. ASSUME NEW u \in ThreadUser, NEW t \in Thread, DestroyThread(u, t) PROVE
    ThreadTypes'
  BY <1>13, ThreadsAssumption
  DEF ThreadsIInv, ThreadTypes, UseInv, UseOk, Life, UserAt, Away, Joins,
      DestroyThread, EnsureCompleted, Usable, Constructed, Doing, Idle,
      objVars, mapVars
<1>14. ASSUME NEW u \in ThreadUser, NEW id \in Tid, FindThread(u, id) PROVE
    ThreadTypes'
  BY <1>14, ThreadsAssumption
  DEF ThreadsIInv, ThreadTypes, UseInv, UseOk, Life, UserAt, Away, Joins,
      FindThread, Doing, Idle, objVars, mapVars
<1>15. ASSUME NEW t \in Thread, EndCallable(t) PROVE ThreadTypes'
  BY <1>15, ThreadsAssumption
  DEF ThreadsIInv, ThreadTypes, UseInv, UseOk, Life, UserAt, Away, Joins,
      EndCallable, Doing, Idle, objVars, mapVars
<1>16. QED
  BY <1>0, <1>1, <1>2, <1>3, <1>4, <1>5, <1>6, <1>7, <1>8, <1>9, <1>10, <1>11,
     <1>12, <1>13, <1>14, <1>15
  DEF ThreadsNext, ThreadUserStep

(* Nobody gets an object that is constructed or destroyed by somebody      *)
(* else.                                                                   *)
LEMMA UseInvStep == ThreadsIInv /\ [ThreadsNext]_threadVars => UseInv'
<1> SUFFICES ASSUME ThreadsIInv, [ThreadsNext]_threadVars PROVE UseInv'
  OBVIOUS
<1>0. CASE UNCHANGED threadVars
  BY <1>0
  DEF ThreadsIInv, UseInv, UseOk, ThreadTypes, FlagInv, ListInv, Life, UserAt,
      Away, Joins, threadVars, objVars, mapVars
<1>1. ASSUME NEW u \in ThreadUser, AddThread(u) PROVE UseInv'
  BY <1>1, ThreadsAssumption
  DEF ThreadsIInv, UseInv, UseOk, ThreadTypes, FlagInv, ListInv, Life, UserAt,
      Away, Joins, AddThread, Doing, Idle, objVars, mapVars
<1>2. ASSUME NEW u \in ThreadUser, JoinReturns(u) PROVE UseInv'
  <2>1. doing[u].thr \in Thread
    BY <1>2, ThreadsAssumption DEF ThreadsIInv, ThreadTypes, UseInv, UseOk, Away,
         JoinReturns
  <2>2. ASSUME NEW v \in ThreadUser PROVE UseOk(v)'
    <3>1. CASE v = u
      BY <1>2, <2>1, <3>1, ThreadsAssumption
      DEF ThreadsIInv, UseInv, UseOk, FlagInv, ThreadTypes, Life, Away, Joins, Doing, Idle, mapVars,
          JoinReturns, OneJoiner
    <3>2. CASE v # u
      BY <1>2, <2>1, <3>2, ThreadsAssumption
      DEF ThreadsIInv, UseInv, UseOk, FlagInv, ThreadTypes, Life, Away, Joins, Doing, Idle, mapVars,
          JoinReturns, OneJoiner
    <3>3. QED
      BY <3>1, <3>2
  <2>3. QED
    BY <2>2 DEF UseInv
<1>3. ASSUME NEW u \in ThreadUser, EraseThread(u) PROVE UseInv'
  BY <1>3, ThreadsAssumption
  DEF ThreadsIInv, UseInv, UseOk, ThreadTypes, FlagInv, ListInv, Life, UserAt,
      Away, Joins, EraseThread, Doing, Idle, objVars, mapVars
<1>4. ASSUME NEW u \in ThreadUser, SetJoined(u) PROVE UseInv'
  BY <1>4, ThreadsAssumption
  DEF ThreadsIInv, UseInv, UseOk, ThreadTypes, FlagInv, ListInv, Life, UserAt,
      Away, Joins, SetJoined, Doing, Idle, objVars, mapVars
<1>5. ASSUME NEW u \in ThreadUser, WaitReturns(u) PROVE UseInv'
  BY <1>5, ThreadsAssumption
  DEF ThreadsIInv, UseInv, UseOk, ThreadTypes, FlagInv, ListInv, Life, UserAt,
      Away, Joins, WaitReturns, Doing, Idle, objVars, mapVars
<1>6. ASSUME NEW u \in ThreadUser, EndJoin(u) PROVE UseInv'
  BY <1>6, ThreadsAssumption
  DEF ThreadsIInv, UseInv, UseOk, ThreadTypes, FlagInv, ListInv, Life, UserAt,
      Away, Joins, EndJoin, Doing, Idle, objVars, mapVars
<1>7. ASSUME NEW u \in ThreadUser, DestructorJoins(u) PROVE UseInv'
  <2>1. doing[u].thr \in Thread /\ os[doing[u].thr] \in {"running", "ended", "joined"}
    BY <1>7, ThreadsAssumption
    DEF ThreadsIInv, ThreadTypes, UseInv, UseOk, Life, Away, DestructorJoins
  <2>2. /\ \A s \in Thread : "joined" \in state'[s] <=> "joined" \in state[s]
        /\ \A v \in ThreadUser : v # u => doing'[v] = doing[v]
        /\ doing'[u].thr = doing[u].thr /\ (doing'[u].last <=> TRUE)
        /\ \/ doing'[u].at = "waiting"
           \/ /\ doing'[u].at = "joining"
              /\ "joined" \notin state[doing[u].thr] /\ "beingJoined" \notin state[doing[u].thr]
        /\ UNCHANGED <<os, listed>>
    BY <1>7, <2>1, Joining DEF ThreadsIInv, DestructorJoins, mapVars
  <2>3. UseOk(u)'
    BY <1>7, <2>1, <2>2, ThreadsAssumption
    DEF ThreadsIInv, FlagInv, UseInv, UseOk, Away, DestructorJoins
  <2>4. ASSUME NEW v \in ThreadUser, v # u PROVE UseOk(v)'
    <3>1. UseOk(v) /\ doing'[v] = doing[v]
      BY <2>2, <2>4 DEF ThreadsIInv, UseInv
    <3>2. /\ doing[v].at = "adding" => doing[v].thr # doing[u].thr
          /\ doing[v].last => doing[v].thr # doing[u].thr
      BY <1>7, <2>1, <2>4, <3>1 DEF ThreadsIInv, UseInv, UseOk, DestructorJoins
    <3>3. doing[v].at = "joined" => doing[v].thr \in Thread
      BY <3>1 DEF ThreadsIInv, ThreadTypes, UseOk, Away
    <3>4. QED
      BY <2>2, <2>4, <3>1, <3>2, <3>3 DEF UseOk
  <2>5. QED
    BY <2>3, <2>4 DEF UseInv
<1>8. ASSUME NEW u \in ThreadUser, CancelFound(u) PROVE UseInv'
  <2>1. doing[u].thr \in Thread /\ ~doing[u].last /\ UNCHANGED <<os, listed>>
    BY <1>8 DEF ThreadsIInv, ThreadTypes, UseInv, UseOk, Away, CancelFound, mapVars
  <2>2. /\ doing'[u].at \in Away /\ doing'[u].thr = NoThread /\ ~doing'[u].last
        /\ doing'[u].at = "idle" => doing'[u] = Idle
        /\ \A v \in ThreadUser : v # u => doing'[v] = doing[v]
    <3>1. CASE os[doing[u].thr] = "destroyed"
      BY <1>8, <3>1 DEF ThreadsIInv, ThreadTypes, CancelFound, Doing, Away
    <3>2. CASE os[doing[u].thr] # "destroyed"
      BY <1>8, <3>2 DEF ThreadsIInv, ThreadTypes, CancelFound, Doing, Idle, Away
    <3>3. QED
      BY <3>1, <3>2
  <2>3. \A s \in Thread : "joined" \in state[s] => "joined" \in state'[s]
    <3>1. \/ state' = state
          \/ state' = [state EXCEPT ![doing[u].thr] = @ \cup {"completed"}]
      BY <1>8 DEF CancelFound, EnsureCompleted
    <3>2. QED
      BY <3>1 DEF ThreadsIInv, ThreadTypes
  <2>4. UseOk(u)'
    BY <2>2 DEF UseOk, Away
  <2>5. ASSUME NEW v \in ThreadUser, v # u PROVE UseOk(v)'
    <3>1. UseOk(v) /\ doing'[v] = doing[v]
      BY <2>2, <2>5 DEF ThreadsIInv, UseInv
    <3>2. doing[v].at = "joined" => doing[v].thr \in Thread
      BY <3>1 DEF ThreadsIInv, ThreadTypes, UseOk, Away
    <3>3. doing[v].at = "adding" => doing[v].thr # NoThread
      BY <3>1 DEF UseOk, Away
    <3>4. QED
      BY <2>1, <2>2, <2>3, <2>5, <3>1, <3>2, <3>3 DEF UseOk
  <2>6. QED
    BY <2>4, <2>5 DEF UseInv
<1>9. ASSUME NEW u \in ThreadUser, CancelJoiner(u) PROVE UseInv'
  BY <1>9, ThreadsAssumption
  DEF ThreadsIInv, UseInv, UseOk, ThreadTypes, FlagInv, ListInv, Life, UserAt,
      Away, Joins, CancelJoiner, Doing, Idle, objVars, mapVars
<1>10. ASSUME NEW u \in ThreadUser, NEW t \in Thread, Construct(u, t) PROVE
    UseInv'
  BY <1>10, ThreadsAssumption
  DEF ThreadsIInv, UseInv, UseOk, ThreadTypes, FlagInv, ListInv, Life, UserAt,
      Away, Joins, Construct, Doing, Idle, objVars, mapVars
<1>11. ASSUME NEW u \in ThreadUser, NEW t \in Thread, CallCancel(u, t) PROVE
    UseInv'
  BY <1>11, ThreadsAssumption
  DEF ThreadsIInv, UseInv, UseOk, ThreadTypes, FlagInv, ListInv, Life, UserAt,
      Away, Joins, CallCancel, EnsureCompleted, Usable, Constructed, Doing,
      Idle, objVars, mapVars
<1>12. ASSUME NEW u \in ThreadUser, NEW t \in Thread, JoinThread(u, t) PROVE
    UseInv'
  <2>1. t \in Thread /\ os[t] \in {"running", "ended", "joined"}
    BY <1>12, ThreadsAssumption
    DEF ThreadsIInv, ThreadTypes, UseInv, UseOk, Life, Away, JoinThread, Usable,
        Constructed, Idle, Doing
  <2>2. /\ \A s \in Thread : "joined" \in state'[s] <=> "joined" \in state[s]
        /\ \A v \in ThreadUser : v # u => doing'[v] = doing[v]
        /\ doing'[u].thr = t /\ (doing'[u].last <=> FALSE)
        /\ \/ doing'[u].at = "waiting"
           \/ /\ doing'[u].at = "joining"
              /\ "joined" \notin state[t] /\ "beingJoined" \notin state[t]
        /\ UNCHANGED <<os, listed>>
    BY <1>12, <2>1, Joining DEF ThreadsIInv, JoinThread, mapVars
  <2>3. UseOk(u)'
    BY <1>12, <2>1, <2>2, ThreadsAssumption
    DEF ThreadsIInv, FlagInv, UseInv, UseOk, Away, JoinThread, Usable,
        Constructed, Idle, Doing
  <2>4. ASSUME NEW v \in ThreadUser, v # u PROVE UseOk(v)'
    <3>1. UseOk(v) /\ doing'[v] = doing[v]
      BY <2>2, <2>4 DEF ThreadsIInv, UseInv
    <3>2. /\ doing[v].at = "adding" => doing[v].thr # t
          /\ doing[v].last => doing[v].thr # t
      BY <1>12, <2>1, <2>4, <3>1 DEF ThreadsIInv, UseInv, UseOk, JoinThread, Usable,
           Constructed, Idle, Doing
    <3>3. doing[v].at = "joined" => doing[v].thr \in Thread
      BY <3>1 DEF ThreadsIInv, ThreadTypes, UseOk, Away
    <3>4. QED
      BY <2>2, <2>4, <3>1, <3>2, <3>3 DEF UseOk
  <2>5. QED
    BY <2>3, <2>4 DEF UseInv
<1>13. ASSUME NEW u \in ThreadUser, NEW t \in Thread, DestroyThread(u, t) PROVE
    UseInv'
  BY <1>13, ThreadsAssumption
  DEF ThreadsIInv, UseInv, UseOk, ThreadTypes, FlagInv, ListInv, Life, UserAt,
      Away, Joins, DestroyThread, EnsureCompleted, Usable, Constructed, Doing,
      Idle, objVars, mapVars
<1>14. ASSUME NEW u \in ThreadUser, NEW id \in Tid, FindThread(u, id) PROVE
    UseInv'
  BY <1>14, ThreadsAssumption
  DEF ThreadsIInv, UseInv, UseOk, ThreadTypes, FlagInv, ListInv, Life, UserAt,
      Away, Joins, FindThread, Doing, Idle, objVars, mapVars
<1>15. ASSUME NEW t \in Thread, EndCallable(t) PROVE UseInv'
  BY <1>15, ThreadsAssumption
  DEF ThreadsIInv, UseInv, UseOk, ThreadTypes, FlagInv, ListInv, Life, UserAt,
      Away, Joins, EndCallable, Doing, Idle, objVars, mapVars
<1>16. QED
  BY <1>0, <1>1, <1>2, <1>3, <1>4, <1>5, <1>6, <1>7, <1>8, <1>9, <1>10, <1>11,
     <1>12, <1>13, <1>14, <1>15
  DEF ThreadsNext, ThreadUserStep

(* The flags follow what happens to the thread-of-execution.               *)
LEMMA FlagInvStep == ThreadsIInv /\ [ThreadsNext]_threadVars => FlagInv'
<1> SUFFICES ASSUME ThreadsIInv, [ThreadsNext]_threadVars PROVE FlagInv'
  OBVIOUS
<1>0. CASE UNCHANGED threadVars
  BY <1>0
  DEF ThreadsIInv, FlagInv, UseInv, UseOk, ThreadTypes, Life, UserAt, Away,
      Joins, threadVars, objVars, mapVars
<1>1. ASSUME NEW u \in ThreadUser, AddThread(u) PROVE FlagInv'
  BY <1>1, ThreadsAssumption
  DEF ThreadsIInv, FlagInv, UseInv, UseOk, ThreadTypes, Life, UserAt, Away,
      Joins, AddThread, Doing, Idle, objVars, mapVars
<1>2. ASSUME NEW u \in ThreadUser, JoinReturns(u) PROVE FlagInv'
  BY <1>2, ThreadsAssumption
  DEF ThreadsIInv, FlagInv, UseInv, UseOk, ThreadTypes, Life, UserAt, Away,
      Joins, JoinReturns, Doing, Idle, objVars, mapVars
<1>3. ASSUME NEW u \in ThreadUser, EraseThread(u) PROVE FlagInv'
  BY <1>3, ThreadsAssumption
  DEF ThreadsIInv, FlagInv, UseInv, UseOk, ThreadTypes, Life, UserAt, Away,
      Joins, EraseThread, Doing, Idle, objVars, mapVars
<1>4. ASSUME NEW u \in ThreadUser, SetJoined(u) PROVE FlagInv'
  BY <1>4, ThreadsAssumption
  DEF ThreadsIInv, FlagInv, UseInv, UseOk, ThreadTypes, Life, UserAt, Away,
      Joins, SetJoined, Doing, Idle, objVars, mapVars
<1>5. ASSUME NEW u \in ThreadUser, WaitReturns(u) PROVE FlagInv'
  BY <1>5, ThreadsAssumption
  DEF ThreadsIInv, FlagInv, UseInv, UseOk, ThreadTypes, Life, UserAt, Away,
      Joins, WaitReturns, Doing, Idle, objVars, mapVars
<1>6. ASSUME NEW u \in ThreadUser, EndJoin(u) PROVE FlagInv'
  BY <1>6, ThreadsAssumption
  DEF ThreadsIInv, FlagInv, UseInv, UseOk, ThreadTypes, Life, UserAt, Away,
      Joins, EndJoin, Doing, Idle, objVars, mapVars
<1>7. ASSUME NEW u \in ThreadUser, DestructorJoins(u) PROVE FlagInv'
  <2>1. doing[u].thr \in Thread
    BY <1>7 DEF ThreadsIInv, ThreadTypes, UseInv, UseOk, Away, DestructorJoins
  <2>2. /\ \A s \in Thread : "joined" \in state'[s] <=> "joined" \in state[s]
        /\ \A v \in ThreadUser : v # u => doing'[v] = doing[v]
        /\ doing'[u].thr = doing[u].thr /\ doing'[u].at \in {"waiting", "joining"}
        /\ os' = os
    BY <1>7, <2>1, Joining DEF ThreadsIInv, DestructorJoins
  <2>3. /\ \A s \in Thread : state[s] \subseteq state'[s]
        /\ doing'[u].at = "joining" => "beingJoined" \in state'[doing[u].thr]
    <3>1. CASE state' = state /\ doing' = [doing EXCEPT ![u] = Doing("waiting", doing[u].thr, TRUE)]
      BY <3>1 DEF ThreadsIInv, ThreadTypes, Doing
    <3>2. CASE state' = [state EXCEPT ![doing[u].thr] = @ \cup {"beingJoined"}]
      BY <2>1, <3>2 DEF ThreadsIInv, ThreadTypes
    <3>3. QED
      BY <1>7, <3>1, <3>2 DEF DestructorJoins, EnsureJoined
  <2>4. \A v \in ThreadUser : doing[v].at \in Joins => doing[v].thr \in Thread
    BY DEF ThreadsIInv, ThreadTypes, UseInv, UseOk, Away, Joins
  <2>5. QED
    BY <2>1, <2>2, <2>3, <2>4 DEF ThreadsIInv, FlagInv, Joins
<1>8. ASSUME NEW u \in ThreadUser, CancelFound(u) PROVE FlagInv'
  BY <1>8, ThreadsAssumption
  DEF ThreadsIInv, FlagInv, UseInv, UseOk, ThreadTypes, Life, UserAt, Away,
      Joins, CancelFound, EnsureCompleted, Doing, Idle, objVars, mapVars
<1>9. ASSUME NEW u \in ThreadUser, CancelJoiner(u) PROVE FlagInv'
  <2> DEFINE t == doing[u].thr
  <2>1. /\ doing[u].at = "joining" /\ t \in Thread /\ os[t] \in {"running", "ended"}
        /\ os' = os /\ state' = [state EXCEPT ![t] = @ \ {"beingJoined"}]
    BY <1>9 DEF ThreadsIInv, ThreadTypes, UseInv, UseOk, Away, CancelJoiner
  <2>2. /\ doing'[u].at = "canceled"
        /\ \A v \in ThreadUser : v # u => doing'[v] = doing[v]
    BY <1>9 DEF ThreadsIInv, ThreadTypes, CancelJoiner, Doing
  <2>3. \A v \in ThreadUser : v # u /\ doing[v].at \in Joins => doing[v].thr # t
    BY <2>1, ThreadsAssumption DEF ThreadsIInv, OneJoiner, Joins
  <2>4. \A v \in ThreadUser : doing[v].at \in Joins => doing[v].thr \in Thread
    BY DEF ThreadsIInv, ThreadTypes, UseInv, UseOk, Away, Joins
  <2>5. \A s \in Thread : /\ s # t => state'[s] = state[s]
                          /\ "completed" \in state[s] => "completed" \in state'[s]
                          /\ "joined" \in state'[s] => "joined" \in state[s]
    BY <2>1 DEF ThreadsIInv, ThreadTypes
  <2> HIDE DEF t
  <2>6. QED
    BY <2>1, <2>2, <2>3, <2>4, <2>5 DEF ThreadsIInv, FlagInv, Joins
<1>10. ASSUME NEW u \in ThreadUser, NEW t \in Thread, Construct(u, t) PROVE
    FlagInv'
  BY <1>10, ThreadsAssumption
  DEF ThreadsIInv, FlagInv, UseInv, UseOk, ThreadTypes, Life, UserAt, Away,
      Joins, Construct, Doing, Idle, objVars, mapVars
<1>11. ASSUME NEW u \in ThreadUser, NEW t \in Thread, CallCancel(u, t) PROVE
    FlagInv'
  BY <1>11, ThreadsAssumption
  DEF ThreadsIInv, FlagInv, UseInv, UseOk, ThreadTypes, Life, UserAt, Away,
      Joins, CallCancel, EnsureCompleted, Usable, Constructed, Doing, Idle,
      objVars, mapVars
<1>12. ASSUME NEW u \in ThreadUser, NEW t \in Thread, JoinThread(u, t) PROVE
    FlagInv'
  BY <1>12, ThreadsAssumption
  DEF ThreadsIInv, FlagInv, UseInv, UseOk, ThreadTypes, Life, UserAt, Away,
      Joins, JoinThread, EnsureJoined, Usable, Constructed, Doing, Idle,
      objVars, mapVars
<1>13. ASSUME NEW u \in ThreadUser, NEW t \in Thread, DestroyThread(u, t) PROVE
    FlagInv'
  BY <1>13, ThreadsAssumption
  DEF ThreadsIInv, FlagInv, UseInv, UseOk, ThreadTypes, Life, UserAt, Away,
      Joins, DestroyThread, EnsureCompleted, Usable, Constructed, Doing, Idle,
      objVars, mapVars
<1>14. ASSUME NEW u \in ThreadUser, NEW id \in Tid, FindThread(u, id) PROVE
    FlagInv'
  BY <1>14, ThreadsAssumption
  DEF ThreadsIInv, FlagInv, UseInv, UseOk, ThreadTypes, Life, UserAt, Away,
      Joins, FindThread, Doing, Idle, objVars, mapVars
<1>15. ASSUME NEW t \in Thread, EndCallable(t) PROVE FlagInv'
  BY <1>15, ThreadsAssumption
  DEF ThreadsIInv, FlagInv, UseInv, UseOk, ThreadTypes, Life, UserAt, Away,
      Joins, EndCallable, Doing, Idle, objVars, mapVars
<1>16. QED
  BY <1>0, <1>1, <1>2, <1>3, <1>4, <1>5, <1>6, <1>7, <1>8, <1>9, <1>10, <1>11,
     <1>12, <1>13, <1>14, <1>15
  DEF ThreadsNext, ThreadUserStep

(* Who finds neither joined nor beingJoined set is the only joiner.        *)
LEMMA OneJoinerStep == ThreadsIInv /\ [ThreadsNext]_threadVars => OneJoiner'
<1> SUFFICES ASSUME ThreadsIInv, [ThreadsNext]_threadVars PROVE OneJoiner'
  OBVIOUS
<1>0. CASE UNCHANGED threadVars
  BY <1>0
  DEF ThreadsIInv, OneJoiner, UseInv, UseOk, FlagInv, ThreadTypes, Life,
      UserAt, Away, Joins, threadVars, objVars, mapVars
<1>1. ASSUME NEW u \in ThreadUser, AddThread(u) PROVE OneJoiner'
  BY <1>1, ThreadsAssumption
  DEF ThreadsIInv, OneJoiner, UseInv, UseOk, FlagInv, ThreadTypes, Life,
      UserAt, Away, Joins, AddThread, Doing, Idle, objVars, mapVars
<1>2. ASSUME NEW u \in ThreadUser, JoinReturns(u) PROVE OneJoiner'
  BY <1>2, ThreadsAssumption
  DEF ThreadsIInv, OneJoiner, UseInv, UseOk, FlagInv, ThreadTypes, Life,
      UserAt, Away, Joins, JoinReturns, Doing, Idle, objVars, mapVars
<1>3. ASSUME NEW u \in ThreadUser, EraseThread(u) PROVE OneJoiner'
  BY <1>3, ThreadsAssumption
  DEF ThreadsIInv, OneJoiner, UseInv, UseOk, FlagInv, ThreadTypes, Life,
      UserAt, Away, Joins, EraseThread, Doing, Idle, objVars, mapVars
<1>4. ASSUME NEW u \in ThreadUser, SetJoined(u) PROVE OneJoiner'
  BY <1>4, ThreadsAssumption
  DEF ThreadsIInv, OneJoiner, UseInv, UseOk, FlagInv, ThreadTypes, Life,
      UserAt, Away, Joins, SetJoined, Doing, Idle, objVars, mapVars
<1>5. ASSUME NEW u \in ThreadUser, WaitReturns(u) PROVE OneJoiner'
  BY <1>5, ThreadsAssumption
  DEF ThreadsIInv, OneJoiner, UseInv, UseOk, FlagInv, ThreadTypes, Life,
      UserAt, Away, Joins, WaitReturns, Doing, Idle, objVars, mapVars
<1>6. ASSUME NEW u \in ThreadUser, EndJoin(u) PROVE OneJoiner'
  BY <1>6, ThreadsAssumption
  DEF ThreadsIInv, OneJoiner, UseInv, UseOk, FlagInv, ThreadTypes, Life,
      UserAt, Away, Joins, EndJoin, Doing, Idle, objVars, mapVars
<1>7. ASSUME NEW u \in ThreadUser, DestructorJoins(u) PROVE OneJoiner'
  BY <1>7, ThreadsAssumption
  DEF ThreadsIInv, OneJoiner, UseInv, UseOk, FlagInv, ThreadTypes, Life,
      UserAt, Away, Joins, DestructorJoins, EnsureJoined, Doing, Idle, objVars,
      mapVars
<1>8. ASSUME NEW u \in ThreadUser, CancelFound(u) PROVE OneJoiner'
  BY <1>8, ThreadsAssumption
  DEF ThreadsIInv, OneJoiner, UseInv, UseOk, FlagInv, ThreadTypes, Life,
      UserAt, Away, Joins, CancelFound, EnsureCompleted, Doing, Idle, objVars,
      mapVars
<1>9. ASSUME NEW u \in ThreadUser, CancelJoiner(u) PROVE OneJoiner'
  BY <1>9, ThreadsAssumption
  DEF ThreadsIInv, OneJoiner, UseInv, UseOk, FlagInv, ThreadTypes, Life,
      UserAt, Away, Joins, CancelJoiner, Doing, Idle, objVars, mapVars
<1>10. ASSUME NEW u \in ThreadUser, NEW t \in Thread, Construct(u, t) PROVE
    OneJoiner'
  BY <1>10, ThreadsAssumption
  DEF ThreadsIInv, OneJoiner, UseInv, UseOk, FlagInv, ThreadTypes, Life,
      UserAt, Away, Joins, Construct, Doing, Idle, objVars, mapVars
<1>11. ASSUME NEW u \in ThreadUser, NEW t \in Thread, CallCancel(u, t) PROVE
    OneJoiner'
  BY <1>11, ThreadsAssumption
  DEF ThreadsIInv, OneJoiner, UseInv, UseOk, FlagInv, ThreadTypes, Life,
      UserAt, Away, Joins, CallCancel, EnsureCompleted, Usable, Constructed,
      Doing, Idle, objVars, mapVars
<1>12. ASSUME NEW u \in ThreadUser, NEW t \in Thread, JoinThread(u, t) PROVE
    OneJoiner'
  BY <1>12, ThreadsAssumption
  DEF ThreadsIInv, OneJoiner, UseInv, UseOk, FlagInv, ThreadTypes, Life,
      UserAt, Away, Joins, JoinThread, EnsureJoined, Usable, Constructed,
      Doing, Idle, objVars, mapVars
<1>13. ASSUME NEW u \in ThreadUser, NEW t \in Thread, DestroyThread(u, t) PROVE
    OneJoiner'
  BY <1>13, ThreadsAssumption
  DEF ThreadsIInv, OneJoiner, UseInv, UseOk, FlagInv, ThreadTypes, Life,
      UserAt, Away, Joins, DestroyThread, EnsureCompleted, Usable, Constructed,
      Doing, Idle, objVars, mapVars
<1>14. ASSUME NEW u \in ThreadUser, NEW id \in Tid, FindThread(u, id) PROVE
    OneJoiner'
  BY <1>14, ThreadsAssumption
  DEF ThreadsIInv, OneJoiner, UseInv, UseOk, FlagInv, ThreadTypes, Life,
      UserAt, Away, Joins, FindThread, Doing, Idle, objVars, mapVars
<1>15. ASSUME NEW t \in Thread, EndCallable(t) PROVE OneJoiner'
  BY <1>15, ThreadsAssumption
  DEF ThreadsIInv, OneJoiner, UseInv, UseOk, FlagInv, ThreadTypes, Life,
      UserAt, Away, Joins, EndCallable, Doing, Idle, objVars, mapVars
<1>16. QED
  BY <1>0, <1>1, <1>2, <1>3, <1>4, <1>5, <1>6, <1>7, <1>8, <1>9, <1>10, <1>11,
     <1>12, <1>13, <1>14, <1>15
  DEF ThreadsNext, ThreadUserStep

(* Completed is set before a thread-of-execution can be joined.            *)
LEMMA OnlyLiveIsCanceledStep == ThreadsIInv /\ [ThreadsNext]_threadVars => OnlyLiveIsCanceled'
<1> SUFFICES ASSUME ThreadsIInv, [ThreadsNext]_threadVars PROVE OnlyLiveIsCanceled'
  OBVIOUS
<1>0. CASE UNCHANGED threadVars
  BY <1>0
  DEF ThreadsIInv, OnlyLiveIsCanceled, UseInv, UseOk, FlagInv, ThreadTypes,
      Life, UserAt, Away, Joins, threadVars, objVars, mapVars
<1>1. ASSUME NEW u \in ThreadUser, AddThread(u) PROVE OnlyLiveIsCanceled'
  BY <1>1, ThreadsAssumption
  DEF ThreadsIInv, OnlyLiveIsCanceled, UseInv, UseOk, FlagInv, ThreadTypes,
      Life, UserAt, Away, Joins, AddThread, Doing, Idle, objVars, mapVars
<1>2. ASSUME NEW u \in ThreadUser, JoinReturns(u) PROVE OnlyLiveIsCanceled'
  BY <1>2, ThreadsAssumption
  DEF ThreadsIInv, OnlyLiveIsCanceled, UseInv, UseOk, FlagInv, ThreadTypes,
      Life, UserAt, Away, Joins, JoinReturns, Doing, Idle, objVars, mapVars
<1>3. ASSUME NEW u \in ThreadUser, EraseThread(u) PROVE OnlyLiveIsCanceled'
  BY <1>3, ThreadsAssumption
  DEF ThreadsIInv, OnlyLiveIsCanceled, UseInv, UseOk, FlagInv, ThreadTypes,
      Life, UserAt, Away, Joins, EraseThread, Doing, Idle, objVars, mapVars
<1>4. ASSUME NEW u \in ThreadUser, SetJoined(u) PROVE OnlyLiveIsCanceled'
  BY <1>4, ThreadsAssumption
  DEF ThreadsIInv, OnlyLiveIsCanceled, UseInv, UseOk, FlagInv, ThreadTypes,
      Life, UserAt, Away, Joins, SetJoined, Doing, Idle, objVars, mapVars
<1>5. ASSUME NEW u \in ThreadUser, WaitReturns(u) PROVE OnlyLiveIsCanceled'
  BY <1>5, ThreadsAssumption
  DEF ThreadsIInv, OnlyLiveIsCanceled, UseInv, UseOk, FlagInv, ThreadTypes,
      Life, UserAt, Away, Joins, WaitReturns, Doing, Idle, objVars, mapVars
<1>6. ASSUME NEW u \in ThreadUser, EndJoin(u) PROVE OnlyLiveIsCanceled'
  BY <1>6, ThreadsAssumption
  DEF ThreadsIInv, OnlyLiveIsCanceled, UseInv, UseOk, FlagInv, ThreadTypes,
      Life, UserAt, Away, Joins, EndJoin, Doing, Idle, objVars, mapVars
<1>7. ASSUME NEW u \in ThreadUser, DestructorJoins(u) PROVE OnlyLiveIsCanceled'
  BY <1>7, ThreadsAssumption
  DEF ThreadsIInv, OnlyLiveIsCanceled, UseInv, UseOk, FlagInv, ThreadTypes,
      Life, UserAt, Away, Joins, DestructorJoins, EnsureJoined, Doing, Idle,
      objVars, mapVars
<1>8. ASSUME NEW u \in ThreadUser, CancelFound(u) PROVE OnlyLiveIsCanceled'
  BY <1>8, ThreadsAssumption
  DEF ThreadsIInv, OnlyLiveIsCanceled, UseInv, UseOk, FlagInv, ThreadTypes,
      Life, UserAt, Away, Joins, CancelFound, EnsureCompleted, Doing, Idle,
      objVars, mapVars
<1>9. ASSUME NEW u \in ThreadUser, CancelJoiner(u) PROVE OnlyLiveIsCanceled'
  BY <1>9, ThreadsAssumption
  DEF ThreadsIInv, OnlyLiveIsCanceled, UseInv, UseOk, FlagInv, ThreadTypes,
      Life, UserAt, Away, Joins, CancelJoiner, Doing, Idle, objVars, mapVars
<1>10. ASSUME NEW u \in ThreadUser, NEW t \in Thread, Construct(u, t) PROVE
    OnlyLiveIsCanceled'
  BY <1>10, ThreadsAssumption
  DEF ThreadsIInv, OnlyLiveIsCanceled, UseInv, UseOk, FlagInv, ThreadTypes,
      Life, UserAt, Away, Joins, Construct, Doing, Idle, objVars, mapVars
<1>11. ASSUME NEW u \in ThreadUser, NEW t \in Thread, CallCancel(u, t) PROVE
    OnlyLiveIsCanceled'
  BY <1>11, ThreadsAssumption
  DEF ThreadsIInv, OnlyLiveIsCanceled, UseInv, UseOk, FlagInv, ThreadTypes,
      Life, UserAt, Away, Joins, CallCancel, EnsureCompleted, Usable,
      Constructed, Doing, Idle, objVars, mapVars
<1>12. ASSUME NEW u \in ThreadUser, NEW t \in Thread, JoinThread(u, t) PROVE
    OnlyLiveIsCanceled'
  BY <1>12, ThreadsAssumption
  DEF ThreadsIInv, OnlyLiveIsCanceled, UseInv, UseOk, FlagInv, ThreadTypes,
      Life, UserAt, Away, Joins, JoinThread, EnsureJoined, Usable, Constructed,
      Doing, Idle, objVars, mapVars
<1>13. ASSUME NEW u \in ThreadUser, NEW t \in Thread, DestroyThread(u, t) PROVE
    OnlyLiveIsCanceled'
  BY <1>13, ThreadsAssumption
  DEF ThreadsIInv, OnlyLiveIsCanceled, UseInv, UseOk, FlagInv, ThreadTypes,
      Life, UserAt, Away, Joins, DestroyThread, EnsureCompleted, Usable,
      Constructed, Doing, Idle, objVars, mapVars
<1>14. ASSUME NEW u \in ThreadUser, NEW id \in Tid, FindThread(u, id) PROVE
    OnlyLiveIsCanceled'
  BY <1>14, ThreadsAssumption
  DEF ThreadsIInv, OnlyLiveIsCanceled, UseInv, UseOk, FlagInv, ThreadTypes,
      Life, UserAt, Away, Joins, FindThread, Doing, Idle, objVars, mapVars
<1>15. ASSUME NEW t \in Thread, EndCallable(t) PROVE OnlyLiveIsCanceled'
  BY <1>15, ThreadsAssumption
  DEF ThreadsIInv, OnlyLiveIsCanceled, UseInv, UseOk, FlagInv, ThreadTypes,
      Life, UserAt, Away, Joins, EndCallable, Doing, Idle, objVars, mapVars
<1>16. QED
  BY <1>0, <1>1, <1>2, <1>3, <1>4, <1>5, <1>6, <1>7, <1>8, <1>9, <1>10, <1>11,
     <1>12, <1>13, <1>14, <1>15
  DEF ThreadsNext, ThreadUserStep

(* A thread is listed from the end of its construction until its joiner    *)
(* erases it.                                                              *)
LEMMA ListInvStep == ThreadsIInv /\ [ThreadsNext]_threadVars => ListInv'
<1> SUFFICES ASSUME ThreadsIInv, [ThreadsNext]_threadVars PROVE ListInv'
  OBVIOUS
<1>0. CASE UNCHANGED threadVars
  <2>1. /\ UNCHANGED <<listed, used, index, reused>>
        /\ \A s \in Thread : os[s] # "none" => os'[s] # "none" /\ tid'[s] = tid[s]
    BY <1>0 DEF ThreadsIInv, ThreadTypes, threadVars, objVars, mapVars
  <2>2. \A s \in Thread : os'[s] \in {"running", "ended"} <=> os[s] \in {"running", "ended"}
    BY <1>0 DEF ThreadsIInv, ThreadTypes, UseInv, UseOk, threadVars, objVars, mapVars
  <2>3. \A v \in ThreadUser : \/ doing'[v] = doing[v]
                              \/ /\ doing'[v].at \notin {"adding", "erasing"}
                                 /\ doing[v].at \notin {"adding", "erasing"}
    BY <1>0 DEF ThreadsIInv, ThreadTypes, threadVars, objVars, mapVars
  <2>4. QED
    BY <2>1, <2>2, <2>3, SameListable, ListKept DEF ThreadsIInv
<1>1. ASSUME NEW u \in ThreadUser, AddThread(u) PROVE ListInv'
  <2> DEFINE t == doing[u].thr
             id == tid[t]
             num == Lowest(used)
  <2>1. /\ doing[u].at = "adding" /\ t \in Thread /\ os[t] \in {"running", "ended"}
        /\ id \in Tid /\ UNCHANGED <<os, tid>>
        /\ \A v \in ThreadUser : v # u => doing[v].thr # t
    BY <1>1 DEF ThreadsIInv, ThreadTypes, UseInv, UseOk, Away, AddThread
  <2>2. num \in Nat /\ num \notin used
    BY LowestIsFree DEF ThreadsIInv, ThreadTypes
  <2>3. /\ index' = [index EXCEPT ![t] = num] /\ used' = used \cup {num}
        /\ listed' = [listed EXCEPT ![id] = t]
    BY <1>1 DEF AddThread
  <2>4. reused' <=> (reused \/ listed[id] # NoThread)
    BY <1>1 DEF AddThread
  <2>5. /\ doing'[u].at = "idle" /\ doing'[u].thr = NoThread
        /\ \A v \in ThreadUser : v # u => doing'[v] = doing[v]
    BY <1>1 DEF ThreadsIInv, ThreadTypes, AddThread, Idle, Doing
  <2> HIDE DEF num
  <2>6. listed'[id] = t /\ \A k \in Tid : k # id => listed'[k] = listed[k]
    BY <2>1, <2>3 DEF ThreadsIInv, ThreadTypes
  <2>7. \A k \in Tid : listed'[k] # NoThread => os'[listed'[k]] # "none"
    BY <2>1, <2>6 DEF ThreadsIInv, ListInv
  <2>8. CASE reused \/ listed[id] # NoThread
    BY <2>4, <2>7, <2>8 DEF ListInv
  <2>9. CASE ~reused /\ listed[id] = NoThread
    <3>1. t \notin Listable
      BY <2>1 DEF Listable, Constructed
    <3>2. ASSUME NEW s \in Thread PROVE s \in Listable' <=> (s \in Listable \/ s = t)
      <4>1. CASE s = t
        <5>1. Constructed(s)'
          BY <2>1, <2>5, <4>1, ThreadsAssumption DEF Constructed
        <5>2. QED
          BY <2>1, <4>1, <5>1 DEF Listable
      <4>2. CASE s # t
        <5>1. Constructed(s)' <=> Constructed(s)
          BY <2>1, <2>5, <4>2 DEF Constructed
        <5>2. QED
          BY <2>1, <2>5, <4>2, <5>1 DEF Listable
      <4>3. QED
        BY <4>1, <4>2
    <3>3. Listable' = Listable \cup {t}
      BY <2>1, <3>2 DEF Listable
    <3>4. \A s \in Listable : s \in Thread /\ tid[s] \in Tid /\ s # NoThread
      BY ThreadsAssumption DEF Listable, ThreadsIInv, ThreadTypes, UseInv, UseOk,
           Constructed
    <3>5. \A s \in Listable : tid[s] # id
      BY <2>9, <3>4 DEF ThreadsIInv, ListInv
    <3>6. index'[t] = num /\ \A s \in Listable : index'[s] = index[s]
      BY <2>1, <2>3, <3>1, <3>4 DEF ThreadsIInv, ThreadTypes
    <3>7. \A s \in Listable' : listed'[tid'[s]] = s /\ index'[s] \in used'
      BY <2>1, <2>3, <2>6, <2>9, <3>3, <3>4, <3>5, <3>6 DEF ThreadsIInv, ListInv
    <3>8. \A s, r \in Listable' : s # r => index'[s] # index'[r]
      BY <2>2, <2>9, <3>3, <3>6 DEF ThreadsIInv, ListInv
    <3>9. \A n \in used' : \E s \in Listable' : index'[s] = n
      BY <2>3, <2>9, <3>3, <3>6 DEF ThreadsIInv, ListInv
    <3>10. \A k \in Tid : listed'[k] # NoThread =>
              listed'[k] \in Listable' /\ tid'[listed'[k]] = k
      BY <2>1, <2>6, <2>9, <3>3 DEF ThreadsIInv, ListInv
    <3>11. QED
      BY <2>7, <3>7, <3>8, <3>9, <3>10 DEF ListInv
  <2>10. QED
    BY <2>8, <2>9
<1>2. ASSUME NEW u \in ThreadUser, JoinReturns(u) PROVE ListInv'
  <2> DEFINE t == doing[u].thr
  <2>1. /\ UNCHANGED <<listed, used, index, reused>> /\ t \in Thread
        /\ os' = [os EXCEPT ![t] = "joined"] /\ tid' = tid
        /\ doing[u].at = "joining" /\ os[t] = "ended"
    BY <1>2 DEF ThreadsIInv, ThreadTypes, UseInv, UseOk, Away, JoinReturns, mapVars
  <2>2. /\ doing'[u].at = "erasing" /\ doing'[u].thr = t
        /\ \A v \in ThreadUser : v # u => doing'[v] = doing[v]
    BY <1>2 DEF ThreadsIInv, ThreadTypes, JoinReturns
  <2>3. ASSUME NEW s \in Thread PROVE s \in Listable' <=> s \in Listable
    <3>1. CASE s = t
      <4>1. Constructed(t)
        BY <1>2, <2>1 DEF ThreadsIInv, UseInv, UseOk, Constructed
      <4>2. QED
        BY <2>1, <2>2, <3>1, <4>1 DEF Listable
    <3>2. CASE s # t
      <4>1. os'[s] = os[s]
        BY <2>1, <3>2 DEF ThreadsIInv, ThreadTypes
      <4>2. Constructed(s)' <=> Constructed(s)
        BY <2>1, <2>2, <4>1 DEF Constructed
      <4>3. QED
        BY <2>1, <2>2, <3>2, <4>1, <4>2 DEF Listable
    <3>3. QED
      BY <3>1, <3>2
  <2>4. Listable' = Listable
    BY <2>3 DEF Listable
  <2>5. QED
    BY <2>1, <2>4, ListKept DEF ThreadsIInv, ThreadTypes
<1>3. ASSUME NEW u \in ThreadUser, EraseThread(u) PROVE ListInv'
  <2> DEFINE t == doing[u].thr
             id == tid[t]
  <2>1. /\ doing[u].at = "erasing" /\ t \in Thread /\ os[t] = "joined" /\ id \in Tid
        /\ UNCHANGED <<os, tid, index, reused>>
    BY <1>3 DEF ThreadsIInv, ThreadTypes, UseInv, UseOk, Away, EraseThread, objVars
  <2>2. /\ doing'[u].at = "erased" /\ doing'[u].thr = t
        /\ \A v \in ThreadUser : v # u => doing'[v] = doing[v]
    BY <1>3 DEF ThreadsIInv, ThreadTypes, EraseThread
  <2>3. \A k \in Tid : listed'[k] # NoThread => listed'[k] = listed[k]
    BY <1>3 DEF ThreadsIInv, ThreadTypes, EraseThread
  <2>4. \A k \in Tid : listed'[k] # NoThread => os'[listed'[k]] # "none"
    BY <2>1, <2>3 DEF ThreadsIInv, ListInv
  <2>5. CASE reused
    BY <2>1, <2>4, <2>5 DEF ListInv
  <2>6. CASE ~reused
    <3>1. t \in Listable /\ t # NoThread
      BY <2>1, ThreadsAssumption DEF Listable
    <3>2. listed[id] = t /\ index[t] \in used
      BY <2>6, <3>1 DEF ThreadsIInv, ListInv
    <3>3. used' = used \ {index[t]} /\ listed' = [listed EXCEPT ![id] = NoThread]
      BY <1>3, <3>1, <3>2 DEF EraseThread
    <3>4. \A v \in ThreadUser : v # u /\ doing[v].thr = t => doing[v].at # "erasing"
      BY <2>1, <3>1 DEF ThreadsIInv, OneJoiner
    <3>5. ASSUME NEW s \in Thread PROVE s \in Listable' <=> (s \in Listable /\ s # t)
      <4>1. CASE s = t
        BY <2>1, <2>2, <3>4, <4>1 DEF Listable
      <4>2. CASE s # t
        <5>1. Constructed(s)' <=> Constructed(s)
          BY <2>1, <2>2 DEF Constructed
        <5>2. QED
          BY <2>1, <2>2, <4>2, <5>1 DEF Listable
      <4>3. QED
        BY <4>1, <4>2
    <3>6. Listable' = Listable \ {t}
      BY <3>5 DEF Listable
    <3>7. \A k \in Tid : k # id => listed'[k] = listed[k]
      BY <3>3 DEF ThreadsIInv, ThreadTypes
    <3>8. listed'[id] = NoThread
      BY <2>1, <3>3 DEF ThreadsIInv, ThreadTypes
    <3>9. \A s \in Listable : s \in Thread /\ tid[s] \in Tid
      BY DEF Listable, ThreadsIInv, ThreadTypes, UseInv, UseOk, Constructed
    <3>10. \A s \in Listable \ {t} : tid[s] # id
      BY <2>6, <3>2 DEF ThreadsIInv, ListInv
    <3>11. QED
      BY <2>1, <2>4, <2>6, <3>1, <3>2, <3>3, <3>6, <3>7, <3>8, <3>9, <3>10
      DEF ThreadsIInv, ListInv
  <2>7. QED
    BY <2>5, <2>6
<1>4. ASSUME NEW u \in ThreadUser, SetJoined(u) PROVE ListInv'
  <2>1. /\ UNCHANGED <<listed, used, index, reused>>
        /\ \A s \in Thread : os[s] # "none" => os'[s] # "none" /\ tid'[s] = tid[s]
    BY <1>4 DEF ThreadsIInv, ThreadTypes, SetJoined, mapVars
  <2>2. \A s \in Thread : os'[s] \in {"running", "ended"} <=> os[s] \in {"running", "ended"}
    BY <1>4 DEF ThreadsIInv, ThreadTypes, UseInv, UseOk, SetJoined, mapVars
  <2>3. \A v \in ThreadUser : \/ doing'[v] = doing[v]
                              \/ /\ doing'[v].at \notin {"adding", "erasing"}
                                 /\ doing[v].at \notin {"adding", "erasing"}
    BY <1>4 DEF ThreadsIInv, ThreadTypes, SetJoined, mapVars
  <2>4. QED
    BY <2>1, <2>2, <2>3, SameListable, ListKept DEF ThreadsIInv
<1>5. ASSUME NEW u \in ThreadUser, WaitReturns(u) PROVE ListInv'
  <2>1. /\ UNCHANGED <<listed, used, index, reused>>
        /\ \A s \in Thread : os[s] # "none" => os'[s] # "none" /\ tid'[s] = tid[s]
    BY <1>5 DEF ThreadsIInv, ThreadTypes, WaitReturns, objVars, mapVars
  <2>2. \A s \in Thread : os'[s] \in {"running", "ended"} <=> os[s] \in {"running", "ended"}
    BY <1>5 DEF ThreadsIInv, ThreadTypes, UseInv, UseOk, WaitReturns, objVars, mapVars
  <2>3. \A v \in ThreadUser : \/ doing'[v] = doing[v]
                              \/ /\ doing'[v].at \notin {"adding", "erasing"}
                                 /\ doing[v].at \notin {"adding", "erasing"}
    BY <1>5 DEF ThreadsIInv, ThreadTypes, WaitReturns, objVars, mapVars
  <2>4. QED
    BY <2>1, <2>2, <2>3, SameListable, ListKept DEF ThreadsIInv
<1>6. ASSUME NEW u \in ThreadUser, EndJoin(u) PROVE ListInv'
  <2>1. /\ UNCHANGED <<listed, used, index, reused>>
        /\ \A s \in Thread : os[s] # "none" => os'[s] # "none" /\ tid'[s] = tid[s]
    BY <1>6 DEF ThreadsIInv, ThreadTypes, EndJoin, Idle, Doing, mapVars
  <2>2. \A s \in Thread : os'[s] \in {"running", "ended"} <=> os[s] \in {"running", "ended"}
    BY <1>6 DEF ThreadsIInv, ThreadTypes, UseInv, UseOk, EndJoin, Idle, Doing, mapVars
  <2>3. \A v \in ThreadUser : \/ doing'[v] = doing[v]
                              \/ /\ doing'[v].at \notin {"adding", "erasing"}
                                 /\ doing[v].at \notin {"adding", "erasing"}
    BY <1>6 DEF ThreadsIInv, ThreadTypes, EndJoin, Idle, Doing, mapVars
  <2>4. QED
    BY <2>1, <2>2, <2>3, SameListable, ListKept DEF ThreadsIInv
<1>7. ASSUME NEW u \in ThreadUser, DestructorJoins(u) PROVE ListInv'
  <2>1. /\ UNCHANGED <<listed, used, index, reused>>
        /\ \A s \in Thread : os[s] # "none" => os'[s] # "none" /\ tid'[s] = tid[s]
    BY <1>7 DEF ThreadsIInv, ThreadTypes, DestructorJoins, EnsureJoined, Doing, mapVars
  <2>2. \A s \in Thread : os'[s] \in {"running", "ended"} <=> os[s] \in {"running", "ended"}
    BY <1>7 DEF ThreadsIInv, ThreadTypes, UseInv, UseOk, DestructorJoins, EnsureJoined,
         Doing, mapVars
  <2>3. \A v \in ThreadUser : \/ doing'[v] = doing[v]
                              \/ /\ doing'[v].at \notin {"adding", "erasing"}
                                 /\ doing[v].at \notin {"adding", "erasing"}
    BY <1>7 DEF ThreadsIInv, ThreadTypes, DestructorJoins, EnsureJoined, Doing, mapVars
  <2>4. QED
    BY <2>1, <2>2, <2>3, SameListable, ListKept DEF ThreadsIInv
<1>8. ASSUME NEW u \in ThreadUser, CancelFound(u) PROVE ListInv'
  <2>1. /\ UNCHANGED <<listed, used, index, reused>>
        /\ \A s \in Thread : os[s] # "none" => os'[s] # "none" /\ tid'[s] = tid[s]
    BY <1>8 DEF ThreadsIInv, ThreadTypes, CancelFound, EnsureCompleted, Doing, Idle,
         mapVars
  <2>2. \A s \in Thread : os'[s] \in {"running", "ended"} <=> os[s] \in {"running", "ended"}
    BY <1>8 DEF ThreadsIInv, ThreadTypes, UseInv, UseOk, CancelFound, EnsureCompleted,
         Doing, Idle, mapVars
  <2>3. \A v \in ThreadUser : \/ doing'[v] = doing[v]
                              \/ /\ doing'[v].at \notin {"adding", "erasing"}
                                 /\ doing[v].at \notin {"adding", "erasing"}
    BY <1>8 DEF ThreadsIInv, ThreadTypes, CancelFound, EnsureCompleted, Doing, Idle,
         mapVars
  <2>4. QED
    BY <2>1, <2>2, <2>3, SameListable, ListKept DEF ThreadsIInv
<1>9. ASSUME NEW u \in ThreadUser, CancelJoiner(u) PROVE ListInv'
  <2>1. /\ UNCHANGED <<listed, used, index, reused>>
        /\ \A s \in Thread : os[s] # "none" => os'[s] # "none" /\ tid'[s] = tid[s]
    BY <1>9 DEF ThreadsIInv, ThreadTypes, CancelJoiner, Doing, mapVars
  <2>2. \A s \in Thread : os'[s] \in {"running", "ended"} <=> os[s] \in {"running", "ended"}
    BY <1>9 DEF ThreadsIInv, ThreadTypes, UseInv, UseOk, CancelJoiner, Doing, mapVars
  <2>3. \A v \in ThreadUser : \/ doing'[v] = doing[v]
                              \/ /\ doing'[v].at \notin {"adding", "erasing"}
                                 /\ doing[v].at \notin {"adding", "erasing"}
    BY <1>9 DEF ThreadsIInv, ThreadTypes, CancelJoiner, Doing, mapVars
  <2>4. QED
    BY <2>1, <2>2, <2>3, SameListable, ListKept DEF ThreadsIInv
<1>10. ASSUME NEW u \in ThreadUser, NEW t \in Thread, Construct(u, t) PROVE
    ListInv'
  <2>1. /\ doing[u] = Idle /\ os[t] = "none" /\ UNCHANGED <<listed, used, index, reused>>
        /\ os' = [os EXCEPT ![t] = "running"]
    BY <1>10 DEF Construct, mapVars
  <2>2. \A s \in Thread : os[s] # "none" => os'[s] # "none" /\ tid'[s] = tid[s]
    BY <1>10, <2>1 DEF Construct, ThreadsIInv, ThreadTypes
  <2>3. /\ doing'[u].at = "adding" /\ doing'[u].thr = t
        /\ doing[u].at = "idle" /\ doing[u].thr = NoThread
        /\ \A v \in ThreadUser : v # u => doing'[v] = doing[v]
    BY <1>10, <2>1 DEF Construct, ThreadsIInv, ThreadTypes, Idle, Doing
  <2>4. ASSUME NEW s \in Thread PROVE s \in Listable' <=> s \in Listable
    <3>1. CASE s = t
      <4>1. ~Constructed(s)' /\ ~Constructed(s)
        BY <1>10, <2>1, <2>3, <3>1 DEF Constructed
      <4>2. \A v \in ThreadUser : doing[v].at = "erasing" => doing[v].thr # s
        BY <2>1, <3>1 DEF ThreadsIInv, UseInv, UseOk
      <4>3. QED
        BY <2>3, <4>1, <4>2 DEF Listable
    <3>2. CASE s # t
      <4>1. os'[s] = os[s]
        BY <2>1, <3>2 DEF ThreadsIInv, ThreadTypes
      <4>2. Constructed(s)' <=> Constructed(s)
        BY <2>3, <3>2, <4>1 DEF Constructed
      <4>3. QED
        BY <2>3, <4>1, <4>2 DEF Listable
    <3>3. QED
      BY <3>1, <3>2
  <2>5. Listable' = Listable
    BY <2>4 DEF Listable
  <2>6. QED
    BY <2>1, <2>2, <2>5, ListKept
<1>11. ASSUME NEW u \in ThreadUser, NEW t \in Thread, CallCancel(u, t) PROVE
    ListInv'
  <2>1. /\ UNCHANGED <<listed, used, index, reused>>
        /\ \A s \in Thread : os[s] # "none" => os'[s] # "none" /\ tid'[s] = tid[s]
    BY <1>11 DEF ThreadsIInv, ThreadTypes, CallCancel, mapVars
  <2>2. \A s \in Thread : os'[s] \in {"running", "ended"} <=> os[s] \in {"running", "ended"}
    BY <1>11 DEF ThreadsIInv, ThreadTypes, UseInv, UseOk, CallCancel, mapVars
  <2>3. \A v \in ThreadUser : \/ doing'[v] = doing[v]
                              \/ /\ doing'[v].at \notin {"adding", "erasing"}
                                 /\ doing[v].at \notin {"adding", "erasing"}
    BY <1>11 DEF ThreadsIInv, ThreadTypes, CallCancel, mapVars
  <2>4. QED
    BY <2>1, <2>2, <2>3, SameListable, ListKept DEF ThreadsIInv
<1>12. ASSUME NEW u \in ThreadUser, NEW t \in Thread, JoinThread(u, t) PROVE
    ListInv'
  <2>1. /\ UNCHANGED <<listed, used, index, reused>>
        /\ \A s \in Thread : os[s] # "none" => os'[s] # "none" /\ tid'[s] = tid[s]
    BY <1>12 DEF ThreadsIInv, ThreadTypes, JoinThread, EnsureJoined, Doing, Idle, mapVars
  <2>2. \A s \in Thread : os'[s] \in {"running", "ended"} <=> os[s] \in {"running", "ended"}
    BY <1>12 DEF ThreadsIInv, ThreadTypes, UseInv, UseOk, JoinThread, EnsureJoined,
         Doing, Idle, mapVars
  <2>3. \A v \in ThreadUser : \/ doing'[v] = doing[v]
                              \/ /\ doing'[v].at \notin {"adding", "erasing"}
                                 /\ doing[v].at \notin {"adding", "erasing"}
    BY <1>12 DEF ThreadsIInv, ThreadTypes, JoinThread, EnsureJoined, Doing, Idle, mapVars
  <2>4. QED
    BY <2>1, <2>2, <2>3, SameListable, ListKept DEF ThreadsIInv
<1>13. ASSUME NEW u \in ThreadUser, NEW t \in Thread, DestroyThread(u, t) PROVE
    ListInv'
  <2>1. /\ UNCHANGED <<listed, used, index, reused>>
        /\ \A s \in Thread : os[s] # "none" => os'[s] # "none" /\ tid'[s] = tid[s]
    BY <1>13 DEF ThreadsIInv, ThreadTypes, DestroyThread, Doing, Idle, mapVars
  <2>2. \A s \in Thread : os'[s] \in {"running", "ended"} <=> os[s] \in {"running", "ended"}
    BY <1>13 DEF ThreadsIInv, ThreadTypes, UseInv, UseOk, DestroyThread, Doing, Idle,
         mapVars
  <2>3. \A v \in ThreadUser : \/ doing'[v] = doing[v]
                              \/ /\ doing'[v].at \notin {"adding", "erasing"}
                                 /\ doing[v].at \notin {"adding", "erasing"}
    BY <1>13 DEF ThreadsIInv, ThreadTypes, DestroyThread, Doing, Idle, mapVars
  <2>4. QED
    BY <2>1, <2>2, <2>3, SameListable, ListKept DEF ThreadsIInv
<1>14. ASSUME NEW u \in ThreadUser, NEW id \in Tid, FindThread(u, id) PROVE
    ListInv'
  <2>1. /\ UNCHANGED <<listed, used, index, reused>>
        /\ \A s \in Thread : os[s] # "none" => os'[s] # "none" /\ tid'[s] = tid[s]
    BY <1>14 DEF ThreadsIInv, ThreadTypes, FindThread, Doing, Idle, objVars, mapVars
  <2>2. \A s \in Thread : os'[s] \in {"running", "ended"} <=> os[s] \in {"running", "ended"}
    BY <1>14 DEF ThreadsIInv, ThreadTypes, UseInv, UseOk, FindThread, Doing, Idle,
         objVars, mapVars
  <2>3. \A v \in ThreadUser : \/ doing'[v] = doing[v]
                              \/ /\ doing'[v].at \notin {"adding", "erasing"}
                                 /\ doing[v].at \notin {"adding", "erasing"}
    BY <1>14 DEF ThreadsIInv, ThreadTypes, FindThread, Doing, Idle, objVars, mapVars
  <2>4. QED
    BY <2>1, <2>2, <2>3, SameListable, ListKept DEF ThreadsIInv
<1>15. ASSUME NEW t \in Thread, EndCallable(t) PROVE ListInv'
  <2>1. /\ UNCHANGED <<listed, used, index, reused>>
        /\ \A s \in Thread : os[s] # "none" => os'[s] # "none" /\ tid'[s] = tid[s]
    BY <1>15 DEF ThreadsIInv, ThreadTypes, EndCallable, mapVars
  <2>2. \A s \in Thread : os'[s] \in {"running", "ended"} <=> os[s] \in {"running", "ended"}
    BY <1>15 DEF ThreadsIInv, ThreadTypes, UseInv, UseOk, EndCallable, mapVars
  <2>3. \A v \in ThreadUser : \/ doing'[v] = doing[v]
                              \/ /\ doing'[v].at \notin {"adding", "erasing"}
                                 /\ doing[v].at \notin {"adding", "erasing"}
    BY <1>15 DEF ThreadsIInv, ThreadTypes, EndCallable, mapVars
  <2>4. QED
    BY <2>1, <2>2, <2>3, SameListable, ListKept DEF ThreadsIInv
<1>16. QED
  BY <1>0, <1>1, <1>2, <1>3, <1>4, <1>5, <1>6, <1>7, <1>8, <1>9, <1>10, <1>11,
     <1>12, <1>13, <1>14, <1>15
  DEF ThreadsNext, ThreadUserStep

(* The invariant holds at first. *)
LEMMA ThreadsInitInv == ThreadsInit => ThreadsIInv
<1> SUFFICES ASSUME ThreadsInit PROVE ThreadsIInv
  OBVIOUS
<1>1. doing \in [ThreadUser -> [at : UserAt, thr : Thread \cup {NoThread}, last : BOOLEAN]]
  BY DEF ThreadsInit, Idle, Doing, UserAt, Away
<1>2. index \in [Thread -> Int]
  BY DEF ThreadsInit
<1>3. used \in SUBSET Nat /\ IsFiniteSet(used)
  BY FS_EmptySet DEF ThreadsInit
<1>4. ThreadTypes
  BY <1>1, <1>2, <1>3 DEF ThreadsInit, ThreadTypes, Life
<1>5. UseInv
  BY DEF ThreadsInit, UseInv, UseOk, Idle, Doing, Away
<1>6. FlagInv /\ OneJoiner /\ OnlyLiveIsCanceled
  BY DEF ThreadsInit, FlagInv, OneJoiner, OnlyLiveIsCanceled, Idle, Doing, Joins
<1>7. ListInv
  BY DEF ThreadsInit, ListInv, Listable, Idle, Doing
<1>8. QED
  BY <1>4, <1>5, <1>6, <1>7 DEF ThreadsIInv

(* The list is what it must be if the entries are. *)
LEMMA ListFollows == ThreadsIInv => ListIsExact
<1> SUFFICES ASSUME ThreadsIInv, ~reused PROVE ListIsExact
  BY DEF ListIsExact
<1> DEFINE live == {t \in Thread : Constructed(t) /\ os[t] \in {"running", "ended"}}
           gone == {doing[u].thr : u \in {v \in ThreadUser : doing[v].at = "erasing"}}
<1>1. live \cup gone = Listable
  <2>1. gone \subseteq Thread
    BY DEF ThreadsIInv, ThreadTypes, UseInv, UseOk, Away
  <2>2. QED
    BY <2>1 DEF Listable
<1>2. \A t \in Listable : t \in Thread /\ t # NoThread /\ tid[t] \in Tid
  BY ThreadsAssumption DEF Listable, ThreadsIInv, ThreadTypes, UseInv, UseOk
<1>3. {listed[id] : id \in Tid} \ {NoThread} = Listable
  BY <1>2 DEF ThreadsIInv, ListInv
<1>4. used = {index[t] : t \in Listable}
  BY DEF ThreadsIInv, ListInv
<1>5. \A s, t \in Listable : s # t => index[s] # index[t]
  BY DEF ThreadsIInv, ListInv
<1>6. QED
  BY <1>1, <1>3, <1>4, <1>5 DEF ListIsExact

(* However the users of thread objects mix: a thread-of-execution that has *)
(* been joined is never cancelled, one user at most joins it, and the list *)
(* has those that are constructed and not yet erased.                      *)
THEOREM ThreadsAreSound == ThreadsSpec => []ThreadsInv
<1>1. ThreadsIInv /\ [ThreadsNext]_threadVars => ThreadsIInv'
  BY ThreadTypesStep, UseInvStep, FlagInvStep, OneJoinerStep, OnlyLiveIsCanceledStep,
     ListInvStep
  DEF ThreadsIInv
<1>2. ThreadsIInv => ThreadsInv
  BY ListFollows DEF ThreadsIInv, ThreadsInv
<1>3. QED
  BY ThreadsInitInv, <1>1, <1>2, PTL DEF ThreadsSpec

-----------------------------------------------------------------------------
(* Jobs and the threads that execute them: Executor.                       *)

Outcome == {"result", "exception", "canceled"}
UserType == [at : {"idle", "submit", "cancelAll", "await", "join", "destroyed"},
             job : Job \cup {NoJob}, left : SUBSET Job]

(* The thread that has completed and is not joined is the one that the     *)
(* executor remembers; the others that it has are active.                  *)
ThreadOK(j) ==
    /\ thread[j] \in {"exit", "ended"} /\ j \notin joined => j = doneThread
    /\ j = doneThread => thread[j] \in {"exit", "ended"}
    /\ thread[j] \in {"start", "run", "queue", "set", "purge", "join"} => j \in tasks

(* A job's future is set before its thread leaves the job.                 *)
FutureOK(j) ==
    /\ thread[j] \in {"queue", "set"} => ending[j] \in Outcome
    /\ thread[j] \in {"purge", "join", "exit", "ended"} \/ j \in skipped => future[j] # {}

ExecInv ==
    /\ ExecTypeOK
    /\ user.at = "submit" => user.job \in Job /\ thread[user.job] = "none"
    /\ \A j \in Job : ThreadOK(j) /\ FutureOK(j)

(* Every step of a thread, of a canceler and of the user keeps this.       *)
LEMMA ExecStepKeeps ==
  ASSUME ExecInv, ExecNext
  PROVE  ExecInv'
<1>1. /\ ExecTypeOK /\ NoJob \notin Job
      /\ user.at = "submit" => user.job \in Job /\ thread[user.job] = "none"
      /\ \A j \in Job : ThreadOK(j) /\ FutureOK(j)
  BY ExecutorAssumption DEF ExecInv
<1>2. ASSUME NEW j \in Job, Submit(j) PROVE ExecInv'
  BY <1>1, <1>2 DEF ExecInv, ExecTypeOK, ThreadOK, FutureOK, Submit, jobVars, stateVars,
     queueVars
<1>3. CASE CreateThread
  <2> DEFINE k == user.job
  <2>1. /\ k \in Job /\ thread[k] = "none" /\ user.left \subseteq Job
        /\ joined' = joined \cup ({doneThread} \ {NoJob})
        /\ tasks' = (tasks \ {doneThread}) \cup {k} /\ doneThread' = NoJob
        /\ thread' = [thread EXCEPT ![k] = "start"] /\ mutex' = NoJob
        /\ user' = [user EXCEPT !.at = "idle", !.job = NoJob]
        /\ UNCHANGED <<ending, future, skipped, signalled, completed, closed, canceler,
                       completedFutures, taken>>
    BY <1>1, <1>3 DEF ExecTypeOK, CreateThread, JoinedDone, DoneThreads, queueVars
  <2> HIDE DEF k
  <2>2. thread' \in [Job -> ThreadAt] /\ tasks' \subseteq Job /\ joined' \subseteq Job
    BY <1>1, <2>1 DEF ExecTypeOK, ThreadAt
  <2>3. user'.at = "idle" /\ user' \in UserType
    BY <1>1, <2>1 DEF ExecTypeOK, UserType
  <2>4. ExecTypeOK'
    BY <1>1, <2>1, <2>2, <2>3 DEF ExecTypeOK, UserType
  <2>5. ASSUME NEW j \in Job PROVE ThreadOK(j)' /\ FutureOK(j)'
    <3>1. thread'[j] = IF j = k THEN "start" ELSE thread[j]
      BY <1>1, <2>1 DEF ExecTypeOK
    <3> QED
      BY <1>1, <2>1, <3>1 DEF ThreadOK, FutureOK
  <2> QED
    BY <2>3, <2>4, <2>5 DEF ExecInv
<1>4. ASSUME NEW j \in Job, StartTask(j) PROVE ExecInv'
  BY <1>1, <1>4 DEF ExecInv, ExecTypeOK, ThreadAt, ThreadOK, FutureOK, StartTask, stateVars,
     poolVars, queueVars
<1>5. ASSUME NEW j \in Job, NEW how \in Outcome, EndFunction(j, how) PROVE ExecInv'
  BY <1>1, <1>5 DEF ExecInv, ExecTypeOK, ThreadAt, ThreadOK, FutureOK, Outcome, EndFunction,
     stateVars, poolVars, queueVars
<1>6. ASSUME NEW j \in Job, AddFutureToQueue(j) PROVE ExecInv'
  BY <1>1, <1>6 DEF ExecInv, ExecTypeOK, ThreadAt, ThreadOK, FutureOK, AddFutureToQueue,
     stateVars, poolVars
<1>7. ASSUME NEW j \in Job, SetFuture(j) PROVE ExecInv'
  BY <1>1, <1>7 DEF ExecInv, ExecTypeOK, ThreadAt, ThreadOK, FutureOK, Outcome, SetFuture,
     stateVars, poolVars, queueVars
<1>8. ASSUME NEW j \in Job, Purge(j) PROVE ExecInv'
  BY <1>1, <1>8 DEF ExecInv, ExecTypeOK, ThreadAt, ThreadOK, FutureOK, Purge, stateVars,
     queueVars
<1>9. ASSUME NEW j \in Job, SaveThisThread(j) PROVE ExecInv'
  BY <1>1, <1>9 DEF ExecInv, ExecTypeOK, ThreadAt, ThreadOK, FutureOK, SaveThisThread,
     JoinedDone, DoneThreads, queueVars
<1>10. ASSUME NEW j \in Job, EndThread(j) PROVE ExecInv'
  BY <1>1, <1>10 DEF ExecInv, ExecTypeOK, ThreadAt, ThreadOK, FutureOK, EndThread, poolVars,
     queueVars
<1>11. ASSUME NEW j \in Job, Cancel(j) PROVE ExecInv'
  BY <1>1, <1>11 DEF ExecInv, ExecTypeOK, ThreadOK, FutureOK, Cancel, jobVars, stateVars,
     poolVars, queueVars
<1>12. ASSUME NEW j \in Job, CancelTask(j) PROVE ExecInv'
  <2>1. /\ UNCHANGED <<thread, ending, signalled, completed, joined, tasks, doneThread, closed,
                       mutex, user, completedFutures, taken>>
        /\ \E at \in {"thread", "ended", "dangling"} : canceler' = [canceler EXCEPT ![j] = at]
        /\ \/ UNCHANGED <<skipped, future>>
           \/ /\ skipped' = skipped \cup {j}
              /\ future' = [future EXCEPT ![j] = @ \cup {"canceled"}]
    BY <1>12 DEF CancelTask, jobVars, poolVars, queueVars
  <2>2. canceler' \in [Job -> {"none", "stop", "thread", "mark", "ended", "threw", "dangling"}]
    BY <1>1, <2>1 DEF ExecTypeOK
  <2> QED
    BY <1>1, <2>1, <2>2 DEF ExecInv, ExecTypeOK, ThreadOK, FutureOK
<1>13. ASSUME NEW j \in Job, CancelThread(j) PROVE ExecInv'
  BY <1>1, <1>13 DEF ExecInv, ExecTypeOK, ThreadOK, FutureOK, CancelThread, Signalled,
     jobVars, poolVars, queueVars
<1>14. ASSUME NEW j \in Job, SetCanceled(j) PROVE ExecInv'
  BY <1>1, <1>14 DEF ExecInv, ExecTypeOK, ThreadOK, FutureOK, SetCanceled, jobVars, stateVars,
     poolVars, queueVars
<1>15. ASSUME NEW mayInterrupt \in BOOLEAN, ShutDown(mayInterrupt) PROVE ExecInv'
  <2>1. /\ closed' = TRUE /\ mutex' \in {"user", mutex}
        /\ \/ user' = [user EXCEPT !.at = "cancelAll", !.left = tasks]
           \/ user' = [user EXCEPT !.at = "await"]
        /\ UNCHANGED <<thread, ending, future, skipped, signalled, completed, joined, tasks,
                       doneThread, canceler, completedFutures, taken>>
    BY <1>15 DEF ShutDown, jobVars, stateVars, queueVars
  <2>2. user'.at # "submit" /\ user' \in UserType
    BY <1>1, <2>1 DEF ExecTypeOK, UserType
  <2>3. ExecTypeOK'
    BY <1>1, <2>1, <2>2 DEF ExecTypeOK, UserType
  <2> QED
    BY <1>1, <2>1, <2>2, <2>3 DEF ExecInv, ThreadOK, FutureOK
<1>16. ASSUME NEW j \in Job, CancelAll(j) PROVE ExecInv'
  BY <1>1, <1>16 DEF ExecInv, ExecTypeOK, ThreadOK, FutureOK, CancelAll, Signalled, jobVars,
     poolVars, queueVars
<1>17. CASE ReturnFromShutDown
  BY <1>1, <1>17 DEF ExecInv, ExecTypeOK, ThreadOK, FutureOK, ReturnFromShutDown, jobVars,
     stateVars, queueVars
<1>18. CASE AwaitTermination
  BY <1>1, <1>18 DEF ExecInv, ExecTypeOK, ThreadOK, FutureOK, AwaitTermination, jobVars,
     stateVars, poolVars, queueVars
<1>19. CASE DestroyExecutor
  BY <1>1, <1>19 DEF ExecInv, ExecTypeOK, ThreadOK, FutureOK, DestroyExecutor, jobVars,
     queueVars
<1>20. CASE TakeFuture
  <2>1. Head(completedFutures) \in Job /\ Tail(completedFutures) \in Seq(Job)
    BY <1>1, <1>20, HeadTailElems DEF ExecTypeOK, TakeFuture
  <2> QED
    BY <1>1, <1>20, <2>1 DEF ExecInv, ExecTypeOK, ThreadOK, FutureOK, TakeFuture, jobVars,
       stateVars, poolVars
<1> QED
  BY <1>2, <1>3, <1>4, <1>5, <1>6, <1>7, <1>8, <1>9, <1>10, <1>11, <1>12, <1>13, <1>14, <1>15,
     <1>16, <1>17, <1>18, <1>19, <1>20 DEF ExecNext, ExecProgress, UserStep, ThreadStep,
     CancelStep, Outcome

(* However many jobs complete while others are submitted and cancelled, at *)
(* most one of their threads is unjoined; and a task that is destroyed has *)
(* set its future ("assert(future.hasCompleted())", ~Task::Impl()).        *)
THEOREM ExecutorIsSound == ExecSpec => [](AtMostOneUnjoined /\ DestroyedTaskHasCompleted)
<1>1. ExecInit => ExecInv
  <2> SUFFICES ASSUME ExecInit PROVE ExecInv
    OBVIOUS
  <2>1. ExecTypeOK
    <3>1. completedFutures \in Seq(Job)
      BY DEF ExecInit
    <3> QED
      BY <3>1 DEF ExecInit, ExecTypeOK, ThreadAt
  <2>2. \A j \in Job : ThreadOK(j) /\ FutureOK(j)
    BY ExecutorAssumption DEF ExecInit, ThreadOK, FutureOK
  <2> QED
    BY <2>1, <2>2 DEF ExecInv, ExecInit
<1>2. ExecInv /\ [ExecNext]_execVars => ExecInv'
  <2>1. ExecInv /\ ExecNext => ExecInv'
    BY ExecStepKeeps
  <2>2. ExecInv /\ UNCHANGED execVars => ExecInv'
    BY DEF ExecInv, ExecTypeOK, ThreadOK, FutureOK, execVars, jobVars, stateVars, poolVars,
       queueVars
  <2> QED
    BY <2>1, <2>2
<1>3. ExecInv => AtMostOneUnjoined
  <2> SUFFICES ASSUME ExecInv PROVE AtMostOneUnjoined
    OBVIOUS
  <2> DEFINE unjoined == {j \in Job : thread[j] \in {"exit", "ended"} /\ j \notin joined}
  <2>1. unjoined \subseteq {doneThread}
    BY DEF ExecInv, ThreadOK
  <2>2. IsFiniteSet({doneThread}) /\ Cardinality({doneThread}) = 1
    BY FS_Singleton
  <2>3. IsFiniteSet(unjoined) /\ Cardinality(unjoined) =< 1
    BY <2>1, <2>2, FS_Subset
  <2> QED
    BY <2>3 DEF AtMostOneUnjoined
<1>4. ExecInv => DestroyedTaskHasCompleted
  BY DEF ExecInv, ExecTypeOK, ThreadAt, ThreadOK, FutureOK, DestroyedTaskHasCompleted,
     TaskExists
<1> QED
  BY <1>1, <1>2, <1>3, <1>4, PTL DEF ExecSpec

-----------------------------------------------------------------------------
(* Threads that meet: Rendezvous.                                          *)

MeetTypes ==
    /\ haveObj \in BOOLEAN /\ pushes \in [Producer -> Nat]
    /\ pushed \in Seq(Producer \X Nat) /\ popped \in Seq(Producer \X Nat)

(* What was handed over and not taken is the object that the queue has.    *)
HeldInv ==
    /\ haveObj => obj \in Producer \X Nat /\ pushed = Append(popped, obj)
    /\ ~haveObj => pushed = popped

(* No step but a push or a pop touches the queue.                          *)
LEMMA HeldIsKept ==
  ASSUME MeetTypes, HeldInv, MeetNext
  PROVE  MeetTypes' /\ HeldInv'
<1>1. ASSUME UNCHANGED <<obj, haveObj, pushed, popped>>, pushes' \in [Producer -> Nat]
      PROVE  MeetTypes' /\ HeldInv'
  BY <1>1 DEF MeetTypes, HeldInv
<1>2. pushes \in [Producer -> Nat]
  BY DEF MeetTypes
<1>3. ASSUME NEW p \in Producer, CallPush(p) PROVE MeetTypes' /\ HeldInv'
  <2>1. UNCHANGED <<obj, haveObj, pushed, popped>> /\ pushes' \in [Producer -> Nat]
    BY <1>2, <1>3 DEF CallPush
  <2> QED
    BY <2>1, <1>1
<1>4. ASSUME NEW p \in Producer, Push(p) PROVE MeetTypes' /\ HeldInv'
  <2>1. CASE haveObj
    <3>1. UNCHANGED <<obj, haveObj, pushed, popped, pushes>>
      BY <2>1, <1>4 DEF Push
    <3> QED
      BY <3>1, <1>1, <1>2
  <2>2. CASE ~haveObj
    <3>1. /\ obj' = <<p, pushes[p]>> /\ haveObj' = TRUE /\ pushed' = Append(pushed, obj')
          /\ popped' = popped /\ pushes' = pushes /\ obj' \in Producer \X Nat
      BY <2>2, <1>2, <1>4 DEF Push
    <3> QED
      BY <2>2, <3>1, AppendProperties DEF MeetTypes, HeldInv
  <2> QED
    BY <2>1, <2>2
<1>5. ASSUME NEW c \in Consumer, Pop(c) PROVE MeetTypes' /\ HeldInv'
  <2>1. CASE ~haveObj
    <3>1. UNCHANGED <<obj, haveObj, pushed, popped, pushes>>
      BY <2>1, <1>5 DEF Pop
    <3> QED
      BY <3>1, <1>1, <1>2
  <2>2. CASE haveObj
    <3>1. /\ haveObj' = FALSE /\ popped' = Append(popped, obj)
          /\ pushed' = pushed /\ pushes' = pushes
      BY <2>2, <1>5 DEF Pop
    <3> QED
      BY <2>2, <3>1 DEF MeetTypes, HeldInv
  <2> QED
    BY <2>1, <2>2
<1>6. ASSUME UNCHANGED syncVars PROVE MeetTypes' /\ HeldInv'
  BY <1>1, <1>2, <1>6 DEF syncVars
<1>7. ASSUME NEW t, \/ CallPop(t) \/ CallGet(t) \/ CallWait(t)
                    \/ CheckResult(t) \/ AwaitCue(t) \/ Wakeup(t)
      PROVE  MeetTypes' /\ HeldInv'
  BY <1>6, <1>7 DEF CallPop, CallGet, CallWait, CheckResult, AwaitCue, Wakeup
<1>8. ASSUME NEW what, SetPromise(what) PROVE MeetTypes' /\ HeldInv'
  BY <1>6, <1>8 DEF SetPromise
<1>9. CASE CueThreads
  BY <1>6, <1>9 DEF CueThreads
<1> QED
  BY <1>3, <1>4, <1>5, <1>7, <1>8, <1>9 DEF MeetNext, TestStep

(* Whatever the number of producers and consumers, objects are taken in    *)
(* the order in which they were handed over, one at a time and none twice  *)
(* (push() and pop(), misc/SyncQueue.h).                                   *)
THEOREM QueueIsInOrder == MeetSpec => []PoppedInOrder
<1>1. MeetInit => MeetTypes /\ HeldInv
  <2>1. <<>> \in Seq(Producer \X Nat) /\ [p \in Producer |-> 0] \in [Producer -> Nat]
    OBVIOUS
  <2> QED
    BY <2>1 DEF MeetInit, MeetTypes, HeldInv
<1>2. MeetTypes /\ HeldInv /\ [MeetNext]_meetVars => (MeetTypes /\ HeldInv)'
  <2>1. MeetTypes /\ HeldInv /\ MeetNext => (MeetTypes /\ HeldInv)'
    BY HeldIsKept
  <2>2. MeetTypes /\ HeldInv /\ UNCHANGED meetVars => (MeetTypes /\ HeldInv)'
    BY DEF MeetTypes, HeldInv, meetVars, syncVars
  <2> QED
    BY <2>1, <2>2
<1>3. MeetTypes /\ HeldInv => PoppedInOrder
  <2> SUFFICES ASSUME MeetTypes, HeldInv PROVE PoppedInOrder
    OBVIOUS
  <2>1. popped \in Seq(Producer \X Nat) /\ Len(popped) \in Nat
    BY DEF MeetTypes
  <2>2. CASE haveObj
    <3>1. /\ pushed = Append(popped, obj) /\ pushed \in Seq(Producer \X Nat)
          /\ Len(pushed) = Len(popped) + 1
      BY <2>1, <2>2, AppendProperties DEF MeetTypes, HeldInv
    <3>2. \A i \in 1..Len(popped) : pushed[i] = popped[i]
      BY <2>1, <3>1
    <3>3. SubSeq(pushed, 1, Len(popped)) = [i \in 1..Len(popped) |-> pushed[i]]
      BY <2>1, <3>1
    <3>4. popped = [i \in 1..Len(popped) |-> popped[i]]
      BY <2>1
    <3> QED
      BY <2>1, <3>1, <3>2, <3>3, <3>4 DEF PoppedInOrder
  <2>3. CASE ~haveObj
    <3>1. pushed = popped
      BY <2>3 DEF HeldInv
    <3>2. SubSeq(popped, 1, Len(popped)) = popped
      BY <2>1, SubSeqFull
    <3> QED
      BY <2>1, <3>1, <3>2 DEF PoppedInOrder
  <2> QED
    BY <2>2, <2>3
<1> QED
  BY <1>1, <1>2, <1>3, PTL DEF MeetSpec

(* How the classes are used: one producer and one consumer, and one thread *)
(* that waits for a promise.                                               *)
UsedInPairs ==
    /\ \A p, q \in Producer : p = q
    /\ \A p, q \in Consumer : p = q
    /\ \A p, q \in Getter : p = q
    /\ Producer \cap (Consumer \cup Getter \cup Cued) = {}
    /\ Consumer \cap (Getter \cup Cued) = {} /\ Getter \cap Cued = {}

(* If the classes are used so, no notification is lost though they notify  *)
(* one thread only: none sleeps while there is what it waits for.  For the *)
(* cue, which notifies all, the number of threads does not matter.         *)
THEOREM NotificationsArrive == UsedInPairs => (MeetSpec => []NoLostWakeup)
<1> SUFFICES ASSUME UsedInPairs PROVE MeetSpec => []NoLostWakeup
  OBVIOUS
<1> DEFINE Inv == haveObj \in BOOLEAN /\ NoLostWakeup
<1>1. MeetInit => Inv
  BY DEF MeetInit, NoLostWakeup
<1>2. Inv /\ [MeetNext]_meetVars => Inv'
  <2> SUFFICES ASSUME Inv, [MeetNext]_meetVars PROVE Inv'
    OBVIOUS
  <2>1. ASSUME waiting' \subseteq waiting, UNCHANGED <<haveObj, promise, cued>> PROVE Inv'
    BY <2>1 DEF NoLostWakeup
  <2>2. ASSUME NEW p \in Producer, Push(p) PROVE Inv'
    <3>1. p \notin waiting /\ UNCHANGED <<promise, cued>>
      BY <2>2 DEF Push, Tests, promiseVars
    <3>2. CASE haveObj
      <4>1. waiting' = waiting \cup {p} /\ haveObj' = haveObj
        BY <2>2, <3>2 DEF Push, Blocks
      <4> QED
        BY <3>1, <3>2, <4>1 DEF NoLostWakeup, UsedInPairs
    <3>3. CASE ~haveObj
      <4>1. haveObj' = TRUE /\ NotifyOne(Producer \cup Consumer)
        BY <2>2, <3>3 DEF Push
      <4>2. waiting' \subseteq waiting
        BY <4>1 DEF NotifyOne
      <4>3. waiting \cap Producer = {}
        BY <3>3 DEF NoLostWakeup
      <4>4. waiting' \cap Consumer = {}
        BY <4>1, <4>3 DEF NotifyOne, UsedInPairs
      <4> QED
        BY <3>1, <4>1, <4>2, <4>4 DEF NoLostWakeup
    <3> QED
      BY <3>2, <3>3
  <2>3. ASSUME NEW c \in Consumer, Pop(c) PROVE Inv'
    <3>1. c \notin waiting /\ UNCHANGED <<promise, cued>>
      BY <2>3 DEF Pop, Tests, promiseVars
    <3>2. CASE ~haveObj
      <4>1. waiting' = waiting \cup {c} /\ haveObj' = haveObj
        BY <2>3, <3>2 DEF Pop, Blocks
      <4> QED
        BY <3>1, <3>2, <4>1 DEF NoLostWakeup, UsedInPairs
    <3>3. CASE haveObj
      <4>1. haveObj' = FALSE /\ NotifyOne(Producer \cup Consumer)
        BY <2>3, <3>3 DEF Pop
      <4>2. waiting' \subseteq waiting
        BY <4>1 DEF NotifyOne
      <4>3. waiting \cap Consumer = {}
        BY <3>3 DEF NoLostWakeup
      <4>4. waiting' \cap Producer = {}
        BY <4>1, <4>3 DEF NotifyOne, UsedInPairs
      <4> QED
        BY <3>1, <4>1, <4>2, <4>4 DEF NoLostWakeup
    <3> QED
      BY <3>2, <3>3
  <2>4. ASSUME NEW g \in Getter, CheckResult(g) PROVE Inv'
    <3>1. /\ promise = {} => waiting' = waiting \cup {g}
          /\ promise # {} => waiting' = waiting
          /\ UNCHANGED <<haveObj, promise, cued>>
      BY <2>4 DEF CheckResult, Blocks, syncVars
    <3> QED
      BY <3>1 DEF NoLostWakeup, UsedInPairs
  <2>5. ASSUME NEW t \in Cued, AwaitCue(t) PROVE Inv'
    <3>1. /\ ~cued => waiting' = waiting \cup {t}
          /\ cued => waiting' = waiting
          /\ UNCHANGED <<haveObj, promise, cued>>
      BY <2>5 DEF AwaitCue, Blocks, syncVars, promiseVars
    <3> QED
      BY <3>1 DEF NoLostWakeup, UsedInPairs
  <2>6. ASSUME NEW what, SetPromise(what) PROVE Inv'
    <3>1. NotifyOne(Getter) /\ UNCHANGED <<haveObj, cued>>
      BY <2>6 DEF SetPromise, syncVars
    <3>2. waiting' \subseteq waiting /\ waiting' \cap Getter = {}
      BY <3>1 DEF NotifyOne, UsedInPairs
    <3> QED
      BY <3>1, <3>2 DEF NoLostWakeup
  <2>7. CASE CueThreads
    <3>1. waiting' = waiting \ Cued /\ UNCHANGED <<haveObj, promise>>
      BY <2>7 DEF CueThreads, NotifyAll, syncVars, promiseVars
    <3> QED
      BY <3>1 DEF NoLostWakeup
  <2>8. ASSUME NEW t, CallPush(t) \/ CallPop(t) \/ CallGet(t) \/ CallWait(t) \/ Wakeup(t) PROVE Inv'
    BY <2>1, <2>8 DEF CallPush, CallPop, CallGet, CallWait, Wakeup, syncVars, promiseVars
  <2>9. CASE UNCHANGED meetVars
    BY <2>1, <2>9 DEF meetVars, syncVars, promiseVars
  <2> QED
    BY <2>2, <2>3, <2>4, <2>5, <2>6, <2>7, <2>8, <2>9 DEF MeetNext, TestStep
<1>3. Inv => NoLostWakeup
  OBVIOUS
<1> QED
  BY <1>1, <1>2, <1>3, PTL DEF MeetSpec

=============================================================================
