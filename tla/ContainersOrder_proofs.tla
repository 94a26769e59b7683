-------------------------- MODULE ContainersOrder_proofs --------------------------
(***************************************************************************)
(* The order of the five containers: every value pushed is held by one     *)
(* node or returned by one pop (ExactlyOnce), and each of the five is what *)
(* Container promises (ImplementsContainer), whatever the threads do and   *)
(* wherever they stop.                                                     *)
(*                                                                         *)
(* The memory of the nodes is Containers_proofs's; here the nodes of the   *)
(* list are put in their order (Sorted, Before), the nodes that have data  *)
(* are those of the container and those on their way in or out (Held), and *)
(* a step changes the order as Container's actions do, or not (Change).    *)
(***************************************************************************)
EXTENDS Containers_proofs

(* L gives the nodes of S in the order of the list. *)
Sorted(L, S, f, succ) ==
    /\ L \in Seq(S) /\ Elements(L) = S /\ Distinct(L)
    /\ (L = <<>> => f = Null) /\ (L # <<>> => f = L[1] /\ succ[L[Len(L)]] = Null)
    /\ \A i \in 1 .. Len(L) - 1 : succ[L[i]] = L[i + 1]

(* A sequence without its last element. *)
Front(s) == SubSeq(s, 1, Len(s) - 1)

(* ListFrom gives the nodes in their order ... *)
LEMMA ListSorted ==
    ASSUME NEW N \in Nat, NEW succ, DOMAIN succ = 1 .. N, NEW S, NEW f, IsChain(S, f, succ)
    PROVE  Sorted(ListFrom(f, succ), S, f, succ)
<1>0. PICK k, L : InOrder(k, L, S, f, succ)
  BY DEF IsChain
<1>1. S \subseteq DOMAIN succ
  BY DEF IsChain
<1>2. ListFrom(f, succ) = L /\ L \in Seq(S) /\ Len(L) = k
  BY <1>0, <1>1, ListIs
<1>3. /\ k \in Nat /\ DOMAIN L = 1 .. k /\ \A i \in 1 .. k : L[i] \in S
      /\ \A n \in S : \E i \in 1 .. k : L[i] = n
      /\ \A i, j \in 1 .. k : L[i] = L[j] => i = j
      /\ (k = 0 => f = Null) /\ (k > 0 => f = L[1] /\ succ[L[k]] = Null)
      /\ \A i \in 1 .. k - 1 : succ[L[i]] = L[i + 1]
  BY <1>0 DEF InOrder
<1>4. Elements(L) = S /\ Distinct(L)
  BY <1>3 DEF Elements, Distinct
<1>5. (L = <<>> => k = 0) /\ (L # <<>> => k > 0)
  BY <1>2, <1>3
<1> QED
  BY <1>2, <1>3, <1>4, <1>5 DEF Sorted

(* ... and no other sequence does. *)
LEMMA SortedIs ==
    ASSUME NEW N \in Nat, NEW succ, DOMAIN succ = 1 .. N, NEW S, NEW f, S \subseteq DOMAIN succ,
           NEW L, Sorted(L, S, f, succ)
    PROVE  ListFrom(f, succ) = L
<1>1. L \in Seq(S) /\ Len(L) \in Nat /\ DOMAIN L = 1 .. Len(L) /\ L \in [1 .. Len(L) -> S]
  BY DEF Sorted
<1>2. /\ \A n \in S : \E i \in 1 .. Len(L) : L[i] = n
      /\ \A i, j \in 1 .. Len(L) : L[i] = L[j] => i = j
  BY <1>1 DEF Sorted, Elements, Distinct
<1>3. (Len(L) = 0 => L = <<>>) /\ (Len(L) > 0 => L # <<>>)
  BY <1>1
<1>4. InOrder(Len(L), L, S, f, succ)
  BY <1>1, <1>2, <1>3 DEF Sorted, InOrder
<1> QED
  BY <1>4, ListIs

(* The order depends on the successors of the nodes only. *)
LEMMA SortedSame ==
    ASSUME NEW L, NEW S, NEW f, NEW succ, Sorted(L, S, f, succ), NEW succ2,
           \A n \in S : succ2[n] = succ[n]
    PROVE  Sorted(L, S, f, succ2)
<1>1. L \in Seq(S) /\ Len(L) \in Nat
  BY DEF Sorted
<1>2. \A i \in 1 .. Len(L) : succ2[L[i]] = succ[L[i]]
  BY <1>1
<1>3. L # <<>> => Len(L) \in 1 .. Len(L)
  BY <1>1
<1> QED
  BY <1>1, <1>2, <1>3 DEF Sorted

(* A node put before the others. *)
LEMMA SortedPush ==
    ASSUME NEW L, NEW S, NEW f, NEW succ, Sorted(L, S, f, succ),
           NEW n, n \notin S, NEW succ2, succ2[n] = f, \A m \in S : succ2[m] = succ[m]
    PROVE  Sorted(<<n>> \o L, S \cup {n}, n, succ2)
<1> DEFINE M == <<n>> \o L
<1>1. L \in Seq(S \cup {n}) /\ Len(L) \in Nat
  BY DEF Sorted
<1>2. /\ M \in Seq(S \cup {n}) /\ M # <<>> /\ Elements(M) = S \cup {n} /\ Distinct(M)
      /\ Len(M) = Len(L) + 1 /\ M[1] = n /\ \A i \in 1 .. Len(L) : M[i + 1] = L[i]
  <2>1. /\ Len(M) = Len(L) + 1 /\ M[1] = n /\ \A i \in 1 .. Len(L) : M[i + 1] = L[i]
    BY <1>1
  <2> QED
    BY <1>1, <2>1, PutFirst DEF Sorted
<1> HIDE DEF M
<1>3. \A i \in 1 .. Len(L) : succ2[L[i]] = succ[L[i]]
  <2>1. \A i \in 1 .. Len(L) : L[i] \in S
    BY DEF Sorted
  <2> QED
    BY <2>1
<1>4. CASE L = <<>>
  <2>1. Len(L) = 0 /\ f = Null
    BY <1>4 DEF Sorted
  <2> QED
    BY <1>2, <2>1 DEF Sorted, M
<1>5. CASE L # <<>>
  <2>1. Len(L) \in 1 .. Len(L) /\ f = L[1] /\ succ[L[Len(L)]] = Null
    BY <1>1, <1>5 DEF Sorted
  <2>2. succ2[M[Len(M)]] = Null
    BY <1>2, <1>3, <2>1
  <2>3. ASSUME NEW i \in 1 .. Len(M) - 1 PROVE succ2[M[i]] = M[i + 1]
    <3>1. CASE i = 1
      BY <1>2, <2>1, <3>1
    <3>2. CASE i # 1
      <4>1. i - 1 \in 1 .. Len(L) - 1 /\ i - 1 \in 1 .. Len(L) /\ i \in 1 .. Len(L) /\ (i - 1) + 1 = i
        BY <1>1, <1>2, <3>2
      <4>2. succ[L[i - 1]] = L[i]
        BY <4>1 DEF Sorted
      <4> QED
        BY <1>2, <1>3, <4>1, <4>2
    <3> QED
      BY <3>1, <3>2
  <2> QED
    BY <1>2, <2>2, <2>3 DEF Sorted, M
<1> QED
  BY <1>4, <1>5

(* The first node taken away. *)
LEMMA SortedPop ==
    ASSUME NEW L, NEW S, NEW f, NEW succ, Sorted(L, S, f, succ), f # Null, Null \notin S
    PROVE  L # <<>> /\ L[1] = f /\ Sorted(Tail(L), S \ {f}, succ[f], succ)
<1> DEFINE M == Tail(L)
<1>1. L # <<>> /\ L[1] = f /\ L \in Seq(S)
  BY DEF Sorted
<1>2. Len(L) \in Nat /\ Len(L) > 0 /\ DOMAIN L = 1 .. Len(L)
  BY <1>1
<1>3. /\ M \in Seq(S) /\ Elements(M) = S \ {f} /\ Distinct(M) /\ Len(M) = Len(L) - 1
      /\ \A i \in 1 .. Len(M) : M[i] = L[i + 1]
  <2>1. /\ Len(M) = Len(L) - 1 /\ \A i \in 1 .. Len(M) : M[i] = L[i + 1]
    BY <1>1, <1>2
  <2>2. Head(L) = f
    BY <1>1
  <2> QED
    BY <1>1, <2>1, <2>2, TakeFirst DEF Sorted
<1> HIDE DEF M
<1>4. M \in Seq(S \ {f})
  <2>1. DOMAIN M = 1 .. Len(M) /\ Len(M) \in Nat /\ M \in [1 .. Len(M) -> S]
    BY <1>3
  <2>2. \A i \in 1 .. Len(M) : M[i] \in S \ {f}
    BY <1>3, <2>1 DEF Elements
  <2>3. M \in [1 .. Len(M) -> S \ {f}]
    BY <2>1, <2>2
  <2> QED
    BY <2>1, <2>3, SeqDef
<1>5. CASE M = <<>>
  <2>0. Len(M) = 0
    BY <1>5
  <2>1. Len(L) = 1
    <3>1. Len(M) = Len(L) - 1
      BY <1>3
    <3>2. Len(L) - 1 = 0
      BY <2>0, <3>1, Zenon
    <3>3. Len(L) \in Nat
      BY <1>2
    <3> QED
      BY <3>2, <3>3
  <2>2. succ[f] = Null
    BY <1>1, <2>1 DEF Sorted
  <2> QED
    BY <1>1, <1>3, <1>4, <1>5, <2>0, <2>2 DEF Sorted, M
<1>6. CASE M # <<>>
  <2>1. Len(M) \in Nat /\ Len(M) > 0 /\ 1 \in 1 .. Len(M) /\ Len(M) \in 1 .. Len(M) /\ Len(L) = Len(M) + 1
    BY <1>2, <1>3, <1>6
  <2>2. 1 \in 1 .. Len(L) - 1 /\ M[1] = L[1 + 1]
    BY <1>3, <2>1
  <2>3. succ[f] = M[1]
    BY <1>1, <2>2 DEF Sorted
  <2>4. succ[M[Len(M)]] = Null
    BY <1>1, <1>3, <2>1 DEF Sorted
  <2>5. ASSUME NEW i \in 1 .. Len(M) - 1 PROVE succ[M[i]] = M[i + 1]
    <3>1. i + 1 \in 1 .. Len(L) - 1 /\ i \in 1 .. Len(M) /\ i + 1 \in 1 .. Len(M)
      BY <2>1
    <3>2. succ[L[i + 1]] = L[(i + 1) + 1]
      BY <3>1 DEF Sorted
    <3> QED
      BY <1>3, <3>1, <3>2
  <2> QED
    BY <1>1, <1>3, <1>4, <1>6, <2>3, <2>4, <2>5 DEF Sorted, M
<1> QED
  BY <1>5, <1>6

(* A node put after the last. *)
LEMMA SortedAppend ==
    ASSUME NEW L, NEW S, NEW f, NEW succ, Sorted(L, S, f, succ), L # <<>>,
           NEW n, n \notin S, NEW succ2, succ2[L[Len(L)]] = n, succ2[n] = Null,
           \A m \in S : m # L[Len(L)] => succ2[m] = succ[m]
    PROVE  Sorted(Append(L, n), S \cup {n}, f, succ2)
<1> DEFINE M == Append(L, n)
<1>1. /\ L \in Seq(S) /\ L \in Seq(S \cup {n}) /\ Len(L) \in Nat /\ Len(L) > 0 /\ DOMAIN L = 1 .. Len(L)
      /\ Elements(L) = S
  BY DEF Sorted
<1>2. /\ M \in Seq(S \cup {n}) /\ M # <<>> /\ Len(M) = Len(L) + 1 /\ M[Len(L) + 1] = n
      /\ DOMAIN M = 1 .. Len(M) /\ \A i \in 1 .. Len(L) : M[i] = L[i] /\ L[i] \in S
  BY <1>1
<1> HIDE DEF M
<1>3. \A i \in DOMAIN M : i \in 1 .. Len(L) \/ i = Len(L) + 1
  BY <1>1, <1>2
<1>4. Elements(M) = S \cup {n}
  <2>1. ASSUME NEW m \in S PROVE m \in Elements(M)
    <3>1. PICK i \in 1 .. Len(L) : L[i] = m
      BY <1>1 DEF Elements
    <3>2. i \in DOMAIN M /\ M[i] = m
      BY <1>1, <1>2, <3>1
    <3> QED
      BY <3>2 DEF Elements
  <2>2. n \in Elements(M)
    <3>1. Len(L) + 1 \in DOMAIN M
      BY <1>1, <1>2
    <3> QED
      BY <1>2, <3>1 DEF Elements
  <2>3. \A i \in DOMAIN M : M[i] \in S \cup {n}
    BY <1>2, <1>3
  <2> QED
    BY <2>1, <2>2, <2>3 DEF Elements
<1>5. Distinct(M)
  <2> SUFFICES ASSUME NEW i \in DOMAIN M, NEW j \in DOMAIN M, M[i] = M[j] PROVE i = j
    BY DEF Distinct
  <2>1. CASE i \in 1 .. Len(L) /\ j \in 1 .. Len(L)
    BY <1>1, <1>2, <2>1 DEF Sorted, Distinct
  <2> QED
    BY <1>2, <1>3, <2>1
<1>6. f = M[1]
  <2>1. 1 \in 1 .. Len(L)
    BY <1>1
  <2> QED
    BY <1>2, <2>1 DEF Sorted
<1>7. ASSUME NEW i \in 1 .. Len(M) - 1 PROVE succ2[M[i]] = M[i + 1]
  <2>1. i \in 1 .. Len(L)
    BY <1>1, <1>2
  <2>2. CASE i = Len(L)
    BY <1>2, <2>1, <2>2
  <2>3. CASE i # Len(L)
    <3>1. i \in 1 .. Len(L) - 1 /\ i + 1 \in 1 .. Len(L) /\ Len(L) \in 1 .. Len(L)
      BY <1>1, <2>1, <2>3
    <3>2. \A j, k \in 1 .. Len(L) : L[j] = L[k] => j = k
      BY <1>1 DEF Sorted, Distinct
    <3>4. L[i] # L[Len(L)]
      BY <2>1, <2>3, <3>1, <3>2
    <3>3. succ[L[i]] = L[i + 1]
      BY <3>1 DEF Sorted
    <3> QED
      BY <1>2, <2>1, <3>1, <3>3, <3>4
  <2> QED
    BY <2>2, <2>3
<1>8. succ2[M[Len(M)]] = Null
  BY <1>2
<1> QED
  BY <1>2, <1>4, <1>5, <1>6, <1>7, <1>8 DEF Sorted, M

(* What a sequence without its last element is. *)
LEMMA FrontFacts ==
    ASSUME NEW X, NEW s \in Seq(X), s # <<>>
    PROVE  /\ Front(s) \in Seq(X) /\ Len(Front(s)) = Len(s) - 1 /\ Len(Front(s)) \in Nat
           /\ DOMAIN Front(s) = 1 .. Len(s) - 1
           /\ \A i \in 1 .. Len(s) - 1 : Front(s)[i] = s[i]
           /\ Elements(Front(s)) \subseteq Elements(s)
           /\ Distinct(s) => /\ Distinct(Front(s))
                             /\ Elements(Front(s)) = Elements(s) \ {s[Len(s)]}
<1> DEFINE r == Front(s)
<1>1. Len(s) \in Nat /\ Len(s) > 0 /\ DOMAIN s = 1 .. Len(s)
  OBVIOUS
<1>2. r \in Seq(X) /\ Len(r) = Len(s) - 1 /\ \A i \in 1 .. Len(s) - 1 : r[i] = s[i]
  BY <1>1 DEF Front
<1> HIDE DEF r
<1>3. DOMAIN r = 1 .. Len(s) - 1 /\ Len(r) \in Nat
  BY <1>1, <1>2
<1>4. \A i \in DOMAIN r : i \in DOMAIN s /\ i # Len(s) /\ r[i] = s[i]
  BY <1>1, <1>2, <1>3
<1>5. ASSUME Distinct(s) PROVE Distinct(r) /\ Elements(r) = Elements(s) \ {s[Len(s)]}
  <2>1. Distinct(r)
    BY <1>4, <1>5 DEF Distinct
  <2>2. \A i \in DOMAIN r : r[i] # s[Len(s)]
    BY <1>1, <1>4, <1>5 DEF Distinct
  <2>3. \A i \in DOMAIN s : i # Len(s) => i \in DOMAIN r /\ r[i] = s[i]
    BY <1>1, <1>2, <1>3
  <2> QED
    BY <1>4, <2>1, <2>2, <2>3 DEF Elements
<1> QED
  BY <1>2, <1>3, <1>4, <1>5 DEF Elements, r

(* The last node of more than one taken away. *)
Shortened(S, p, last, succ, succ2) ==
    /\ last \in S /\ succ[last] = Null /\ p \in S /\ succ[p] = last /\ succ2[p] = Null
    /\ \A m \in S : m # p /\ m # last => succ2[m] = succ[m]

LEMMA SortedCut ==
    ASSUME NEW L, NEW S, NEW f, NEW succ, Sorted(L, S, f, succ), Null \notin S,
           NEW p, NEW last, NEW succ2, Shortened(S, p, last, succ, succ2)
    PROVE  /\ L # <<>> /\ L[Len(L)] = last
           /\ Sorted(Front(L), S \ {last}, f, succ2) /\ Front(L) # <<>>
           /\ Front(L)[Len(Front(L))] = p
<1> USE DEF Shortened
<1> DEFINE M == Front(L)
<1>1. /\ L \in Seq(S) /\ Len(L) \in Nat /\ DOMAIN L = 1 .. Len(L) /\ Elements(L) = S /\ Distinct(L)
      /\ \A i \in 1 .. Len(L) : L[i] \in S
  BY DEF Sorted
<1>0. Len(L) \in Nat /\ \A i, j \in 1 .. Len(L) : L[i] = L[j] => i = j
  BY <1>1 DEF Distinct
<1>2. PICK q \in 1 .. Len(L) : L[q] = p
  BY <1>1 DEF Elements
<1>3. L # <<>> /\ Len(L) > 0 /\ Len(L) \in 1 .. Len(L)
  BY <1>1, <1>2
<1>4. \A i \in 1 .. Len(L) - 1 : i \in 1 .. Len(L) /\ i + 1 \in 1 .. Len(L) /\ succ[L[i]] = L[i + 1]
  BY <1>1 DEF Sorted
<1>5. PICK k \in 1 .. Len(L) : L[k] = last
  BY <1>1 DEF Elements
<1>6. k = Len(L)
  <2> SUFFICES ASSUME k # Len(L) PROVE FALSE
    OBVIOUS
  <2>1. k \in 1 .. Len(L) - 1
    BY <1>0, <1>5
  <2>2. \A i \in 1 .. Len(L) : L[i] \in S
    BY <1>1, Zenon
  <2>3. L[k + 1] = Null /\ L[k + 1] \in S
    BY <1>4, <1>5, <2>1, <2>2
  <2> QED
    BY <2>3
<1>7. q \in 1 .. Len(L) - 1 /\ q + 1 = Len(L)
  <2>0. succ[L[Len(L)]] = Null
    BY <1>3 DEF Sorted
  <2>1. q # Len(L)
    BY <1>2, <2>0
  <2>2. q \in 1 .. Len(L) - 1
    BY <1>0, <1>2, <2>1
  <2>3. L[q + 1] = L[k] /\ q + 1 \in 1 .. Len(L)
    BY <1>2, <1>4, <1>5, <2>2
  <2>4. q + 1 = k
    BY <1>0, <1>5, <2>3
  <2> QED
    BY <1>6, <2>2, <2>4
<1>8. /\ M \in Seq(S) /\ Len(M) = Len(L) - 1 /\ Len(M) \in Nat /\ DOMAIN M = 1 .. Len(L) - 1
      /\ \A i \in 1 .. Len(L) - 1 : M[i] = L[i]
      /\ Distinct(M) /\ Elements(M) = S \ {last}
  <2>1. last = L[Len(L)]
    BY <1>5, <1>6
  <2>2. /\ M \in Seq(S) /\ Len(M) = Len(L) - 1 /\ Len(M) \in Nat /\ DOMAIN M = 1 .. Len(L) - 1
        /\ \A i \in 1 .. Len(L) - 1 : M[i] = L[i]
        /\ Distinct(M) /\ Elements(M) = Elements(L) \ {L[Len(L)]}
    <3> HIDE DEF M
    <3>1. M = Front(L)
      BY DEF M
    <3>2. /\ Front(L) \in Seq(S) /\ Len(Front(L)) = Len(L) - 1 /\ Len(Front(L)) \in Nat
          /\ DOMAIN Front(L) = 1 .. Len(L) - 1
          /\ \A i \in 1 .. Len(L) - 1 : Front(L)[i] = L[i]
          /\ Distinct(Front(L)) /\ Elements(Front(L)) = Elements(L) \ {L[Len(L)]}
      BY <1>1, <1>3, FrontFacts, Zenon
    <3> QED
      BY <3>1, <3>2, Zenon
  <2> HIDE DEF M
  <2> QED
    BY <1>1, <2>1, <2>2
<1> HIDE DEF M
<1>9. M \in Seq(S \ {last})
  <2>1. DOMAIN M = 1 .. Len(M) /\ \A i \in 1 .. Len(M) : M[i] \in S \ {last}
    BY <1>8 DEF Elements
  <2>2. M \in [1 .. Len(M) -> S \ {last}]
    BY <1>8, <2>1
  <2> QED
    BY <1>8, <2>2, SeqDef
<1>10. q = Len(M) /\ Len(M) > 0 /\ M # <<>> /\ M[Len(M)] = p /\ M[1] = L[1]
  <2>1. q = Len(M) /\ Len(M) > 0 /\ 1 \in 1 .. Len(L) - 1
    <3>1. Len(M) = Len(L) - 1 /\ Len(M) \in Nat
      BY <1>8
    <3> QED
      BY <1>0, <1>7, <3>1
  <2> QED
    BY <1>2, <1>7, <1>8, <2>1
<1>11. ASSUME NEW i \in 1 .. Len(M) - 1 PROVE succ2[M[i]] = M[i + 1]
  <2>1. i \in 1 .. Len(L) - 1 /\ i + 1 \in 1 .. Len(L) - 1 /\ i # q /\ i # Len(L)
    <3>1. Len(M) = Len(L) - 1 /\ Len(M) \in Nat
      BY <1>8
    <3> QED
      BY <1>0, <1>10, <3>1
  <2>2. L[i] # p /\ L[i] # last /\ L[i] \in S
    <3>0. \A j \in 1 .. Len(L) : L[j] \in S
      BY <1>1
    <3>1. i \in 1 .. Len(L) /\ L[i] \in S
      BY <1>4, <2>1, <3>0
    <3> QED
      BY <1>0, <1>2, <1>3, <1>5, <1>6, <2>1, <3>1
  <2> QED
    BY <1>4, <1>8, <2>1, <2>2
<1>12. f = M[1]
  BY <1>3, <1>10 DEF Sorted
<1>13. Sorted(M, S \ {last}, f, succ2)
  BY <1>8, <1>9, <1>10, <1>11, <1>12 DEF Sorted
<1> QED
  BY <1>3, <1>5, <1>6, <1>10, <1>13 DEF M

(* A function from 1 .. k is a sequence of length k. *)
LEMMA SeqOfLen ==
    ASSUME NEW T, NEW k \in Nat, NEW s, s \in [1 .. k -> T]
    PROVE  s \in Seq(T) /\ Len(s) = k /\ DOMAIN s = 1 .. k
<1>1. s \in Seq(T)
  BY SeqDef
<1>2. DOMAIN s = 1 .. Len(s) /\ Len(s) \in Nat /\ DOMAIN s = 1 .. k
  BY <1>1
<1>3. (k > 0 => k \in 1 .. Len(s)) /\ (Len(s) > 0 => Len(s) \in 1 .. k)
  BY <1>2
<1>4. Len(s) = k
  <2>1. Len(s) \in Nat
    BY <1>2
  <2> QED
    BY <1>3, <2>1
<1> QED
  BY <1>1, <1>2, <1>4

-----------------------------------------------------------------------------
(* Where the values are.  The nodes ns that are full hold some, the        *)
(* results pop some, and the operations rest some that are still to be     *)
(* pushed; prog is what the threads had to do in the beginning.            *)
Full(ns) == {n \in DOMAIN ns : ns[n].data # NoData}

RestOk(rest, prog) ==
    /\ rest \in [Threads -> Seq(Value \cup Others)] /\ PushedOnce(rest)
    /\ \A t \in Threads : Elements(rest[t]) \subseteq Elements(prog[t])

(* The values that have been pushed. *)
Brought(rest, prog) == {v \in Value : /\ \E t \in Threads : v \in Elements(prog[t])
                                      /\ \A t \in Threads : v \notin Elements(rest[t])}

(* A value that has been pushed is in one node or in one result. *)
Once(ns, pop, rest, prog) ==
    /\ RestOk(rest, prog)
    /\ \A n \in Full(ns) : ns[n].data \in Value
    /\ \A n, m \in Full(ns) : ns[n].data = ns[m].data => n = m
    /\ \A r \in pop : r.val \in Value
    /\ \A r, s \in pop : r.val = s.val => r = s
    /\ \A n \in Full(ns), r \in pop : ns[n].data # r.val
    /\ \A v : v \in Brought(rest, prog) <=> \/ \E n \in Full(ns) : ns[n].data = v
                                            \/ \E r \in pop : r.val = v

(* The full nodes are those of the container, in the order of L, and X.    *)
Held(ns, pop, rest, prog, L, X) ==
    /\ Once(ns, pop, rest, prog)
    /\ L \in Seq(Full(ns)) /\ Distinct(L)
    /\ Full(ns) = Elements(L) \cup X /\ Elements(L) \cap X = {}

(* What the container holds, and what has left it if T are being taken.    *)
Values(L, ns) == [i \in DOMAIN L |-> ns[L[i]].data]
OutOf(T, pop, ns) == {ns[n].data : n \in T} \cup {r.val : r \in pop}

(* The operations when thread t has finished one. *)
Done(rest, t) == [rest EXCEPT ![t] = Tail(@)]

(* What a step does to the data of the nodes: nothing, or it stores v in   *)
(* node n, or it takes the data out of n.                                  *)
SameData(ns, ns2) == Full(ns2) = Full(ns) /\ \A m \in Full(ns) : ns2[m].data = ns[m].data

Stored(ns, ns2, n, v) == /\ n \notin Full(ns) /\ Full(ns2) = Full(ns) \cup {n}
                         /\ ns2[n].data = v /\ \A m \in Full(ns) : ns2[m].data = ns[m].data

Emptied(ns, ns2, n) == Full(ns2) = Full(ns) \ {n} /\ \A m \in Full(ns2) : ns2[m].data = ns[m].data

LEMMA RestTail ==
    ASSUME NEW rest, NEW prog, RestOk(rest, prog), NEW t \in Threads, rest[t] # <<>>
    PROVE  /\ RestOk(Done(rest, t), prog)
           /\ Head(rest[t]) \in Value =>
                 /\ \A v : v \in Brought(Done(rest, t), prog) <=> v = Head(rest[t]) \/ v \in Brought(rest, prog)
                 /\ Head(rest[t]) \notin Brought(rest, prog)
           /\ Head(rest[t]) \notin Value =>
                 \A v : v \in Brought(Done(rest, t), prog) <=> v \in Brought(rest, prog)
<1> DEFINE rest2 == Done(rest, t)
           s == rest[t]
           r == Tail(s)
<1>1. /\ rest \in [Threads -> Seq(Value \cup Others)] /\ s \in Seq(Value \cup Others)
      /\ \A u \in Threads : Elements(rest[u]) \subseteq Elements(prog[u])
  BY DEF RestOk
<1>2. /\ r \in Seq(Value \cup Others) /\ Head(s) \in Elements(s) /\ Elements(r) \subseteq Elements(s)
      /\ Head(s) = s[1]
  BY <1>1, TakeFirst
<1>3. rest2 \in [Threads -> Seq(Value \cup Others)] /\ rest2[t] = r
      /\ \A u \in Threads : u # t => rest2[u] = rest[u]
  BY <1>1, <1>2 DEF Done
<1>4. /\ 1 \in DOMAIN s
      /\ \A i \in DOMAIN r : i \in Nat /\ i + 1 \in DOMAIN s /\ i + 1 # 1 /\ r[i] = s[i + 1]
      /\ \A i \in DOMAIN s : i = 1 \/ (i - 1 \in DOMAIN r /\ r[i - 1] = s[i])
  BY <1>1
<1> HIDE DEF rest2, s, r
<1>5. PushedOnce(rest2)
  <2> SUFFICES ASSUME NEW u \in Threads, NEW w \in Threads,
                      NEW i \in DOMAIN rest2[u], NEW j \in DOMAIN rest2[w],
                      rest2[u][i] \in Value, rest2[u][i] = rest2[w][j]
               PROVE  u = w /\ i = j
    BY DEF PushedOnce
  <2>1. \A x \in Threads : \A k \in DOMAIN rest2[x] :
           /\ x = t => k + 1 \in DOMAIN rest[x] /\ rest[x][k + 1] = rest2[x][k]
           /\ x # t => k \in DOMAIN rest[x] /\ rest[x][k] = rest2[x][k]
    BY <1>3, <1>4 DEF s
  <2> DEFINE m == IF u = t THEN i + 1 ELSE i
             k == IF w = t THEN j + 1 ELSE j
  <2>2. m \in DOMAIN rest[u] /\ rest[u][m] = rest2[u][i] /\ k \in DOMAIN rest[w] /\ rest[w][k] = rest2[w][j]
    BY <2>1
  <2>3. u = w /\ m = k
    BY <2>2 DEF RestOk, PushedOnce
  <2>4. CASE u = t
    <3>1. i \in Nat /\ j \in Nat /\ i + 1 = j + 1
      BY <1>3, <1>4, <2>3, <2>4
    <3> QED
      BY <2>3, <3>1
  <2>5. CASE u # t
    BY <2>3, <2>5
  <2> QED
    BY <2>4, <2>5
<1>6. \A u \in Threads : Elements(rest2[u]) \subseteq Elements(prog[u])
  BY <1>1, <1>2, <1>3 DEF s
<1>7. RestOk(rest2, prog)
  BY <1>3, <1>5, <1>6 DEF RestOk
<1>8. \A v : v \in Elements(s) <=> v = Head(s) \/ v \in Elements(r)
  BY <1>2, <1>4 DEF Elements
<1>9. ASSUME Head(s) \in Value
      PROVE  /\ Head(s) \notin Elements(r)
             /\ \A u \in Threads : u # t => Head(s) \notin Elements(rest[u])
  <2>1. \A u \in Threads : \A j \in DOMAIN rest[u] : rest[u][j] = s[1] => u = t /\ j = 1
    BY <1>2, <1>4, <1>9 DEF RestOk, PushedOnce, s
  <2>2. ASSUME NEW i \in DOMAIN r PROVE r[i] # s[1]
    BY <1>4, <2>1 DEF s
  <2> QED
    BY <1>2, <2>1, <2>2 DEF Elements
<1>10. ASSUME NEW v \in Value
       PROVE  v # Head(s) => (v \in Brought(rest2, prog) <=> v \in Brought(rest, prog))
  <2>1. v # Head(s) => \A u \in Threads : v \in Elements(rest2[u]) <=> v \in Elements(rest[u])
    BY <1>3, <1>8 DEF s
  <2> QED
    BY <2>1 DEF Brought
<1>11. ASSUME Head(s) \in Value
       PROVE  Head(s) \in Brought(rest2, prog) /\ Head(s) \notin Brought(rest, prog)
  <2>1. Head(s) \in Elements(rest[t]) /\ Head(s) \in Elements(prog[t])
    BY <1>1, <1>2 DEF s
  <2>2. \A u \in Threads : Head(s) \notin Elements(rest2[u])
    BY <1>3, <1>9, <1>11
  <2> QED
    BY <1>11, <2>1, <2>2 DEF Brought
<1>12. Brought(rest2, prog) \subseteq Value /\ Brought(rest, prog) \subseteq Value
  BY DEF Brought
<1>13. s = rest[t]
  BY DEF s
<1>14. Head(s) \in Value => \A v : v \in Brought(rest2, prog) <=> v = Head(s) \/ v \in Brought(rest, prog)
  BY <1>10, <1>11, <1>12
<1>15. Head(s) \notin Value => \A v : v \in Brought(rest2, prog) <=> v \in Brought(rest, prog)
  BY <1>10, <1>12
<1> QED
  BY <1>7, <1>11, <1>13, <1>14, <1>15 DEF rest2

(* What the programs say in the beginning. *)
LEMMA RestInit ==
    ASSUME NEW prog \in [Threads -> Seq(Value \cup Others)], PushedOnce(prog)
    PROVE  RestOk(prog, prog) /\ Brought(prog, prog) = {}
BY DEF RestOk, Brought

(* Nothing happens to the data. *)
LEMMA HeldSame ==
    ASSUME NEW ns, NEW pop, NEW rest, NEW prog, NEW L, NEW X, Held(ns, pop, rest, prog, L, X),
           NEW ns2, SameData(ns, ns2)
    PROVE  /\ Held(ns2, pop, rest, prog, L, X) /\ Values(L, ns2) = Values(L, ns)
           /\ \A T \in SUBSET X : OutOf(T, pop, ns2) = OutOf(T, pop, ns)
<1> USE DEF SameData
<1>1. Once(ns2, pop, rest, prog)
  BY DEF Held, Once
<1>2. Held(ns2, pop, rest, prog, L, X)
  BY <1>1 DEF Held
<1>3. \A i \in DOMAIN L : ns2[L[i]].data = ns[L[i]].data
  BY DEF Held
<1>4. \A n \in X : ns2[n].data = ns[n].data
  BY DEF Held
<1>5. Values(L, ns2) = Values(L, ns)
  BY <1>3 DEF Values
<1>6. \A T \in SUBSET X : OutOf(T, pop, ns2) = OutOf(T, pop, ns)
  BY <1>4 DEF OutOf
<1> QED
  BY <1>2, <1>5, <1>6

(* An operation that is no push is finished. *)
LEMMA HeldReturn ==
    ASSUME NEW ns, NEW pop, NEW rest, NEW prog, NEW L, NEW X, Held(ns, pop, rest, prog, L, X),
           NEW t \in Threads, rest[t] # <<>>, Head(rest[t]) \notin Value
    PROVE  Held(ns, pop, Done(rest, t), prog, L, X)
<1>1. RestOk(rest, prog)
  BY DEF Held, Once
<1>2. /\ RestOk(Done(rest, t), prog)
      /\ \A v : v \in Brought(Done(rest, t), prog) <=> v \in Brought(rest, prog)
  BY <1>1, RestTail
<1>3. Once(ns, pop, Done(rest, t), prog)
  BY <1>2 DEF Held, Once
<1> QED
  BY <1>3 DEF Held

(* A push stores its value in a node that has none. *)
LEMMA HeldPut ==
    ASSUME NEW ns, NEW pop, NEW rest, NEW prog, NEW L, NEW X, Held(ns, pop, rest, prog, L, X),
           NEW t \in Threads, rest[t] # <<>>, Head(rest[t]) \in Value,
           NEW n, NEW ns2, Stored(ns, ns2, n, Head(rest[t]))
    PROVE  /\ Held(ns2, pop, Done(rest, t), prog, L, X \cup {n})
           /\ Values(L, ns2) = Values(L, ns)
           /\ \A T \in SUBSET X : OutOf(T, pop, ns2) = OutOf(T, pop, ns)
<1> USE DEF Stored
<1> DEFINE rest2 == Done(rest, t)
           v == Head(rest[t])
<1>1. Once(ns, pop, rest, prog) /\ RestOk(rest, prog)
  BY DEF Held, Once
<1>2. /\ RestOk(rest2, prog) /\ v \notin Brought(rest, prog)
      /\ \A w : w \in Brought(rest2, prog) <=> w = v \/ w \in Brought(rest, prog)
  BY <1>1, RestTail
<1> HIDE DEF rest2, v
<1>3. v \in Value /\ ns2[n].data = v
  BY DEF v
<1>4. (\A m \in Full(ns) : ns[m].data # v) /\ (\A r \in pop : r.val # v)
  BY <1>1, <1>2 DEF Once
<1>5. Once(ns2, pop, rest2, prog)
  <2>1. \A m \in Full(ns2) : ns2[m].data \in Value
    BY <1>1, <1>3 DEF Once
  <2>2. \A m, k \in Full(ns2) : ns2[m].data = ns2[k].data => m = k
    BY <1>1, <1>3, <1>4 DEF Once
  <2>3. \A m \in Full(ns2), r \in pop : ns2[m].data # r.val
    BY <1>1, <1>3, <1>4 DEF Once
  <2>4. \A w : w \in Brought(rest2, prog) <=> \/ \E m \in Full(ns2) : ns2[m].data = w
                                              \/ \E r \in pop : r.val = w
    BY <1>1, <1>2, <1>3 DEF Once
  <2> QED
    BY <1>1, <1>2, <2>1, <2>2, <2>3, <2>4 DEF Once
<1>6. L \in Seq(Full(ns2))
  <2>1. L \in Seq(Full(ns)) /\ Full(ns) \subseteq Full(ns2)
    BY DEF Held
  <2> QED
    BY <2>1, SeqMonotonic
<1>7. Held(ns2, pop, rest2, prog, L, X \cup {n})
  BY <1>5, <1>6 DEF Held
<1>8. \A i \in DOMAIN L : ns2[L[i]].data = ns[L[i]].data
  BY DEF Held
<1>9. \A m \in X : ns2[m].data = ns[m].data
  BY DEF Held
<1>10. Values(L, ns2) = Values(L, ns)
  BY <1>8 DEF Values
<1>11. \A T \in SUBSET X : OutOf(T, pop, ns2) = OutOf(T, pop, ns)
  BY <1>9 DEF OutOf
<1> QED
  BY <1>7, <1>10, <1>11 DEF rest2

(* A full node becomes the first of the container ... *)
LEMMA HeldFirst ==
    ASSUME NEW ns, NEW pop, NEW rest, NEW prog, NEW L, NEW X, Held(ns, pop, rest, prog, L, X),
           NEW n \in X
    PROVE  /\ Held(ns, pop, rest, prog, <<n>> \o L, X \ {n})
           /\ Values(<<n>> \o L, ns) = <<ns[n].data>> \o Values(L, ns) /\ ns[n].data \in Value
<1> DEFINE M == <<n>> \o L
<1>1. L \in Seq(Full(ns)) /\ n \in Full(ns) /\ n \notin Elements(L) /\ Distinct(L)
  BY DEF Held
<1>2. M \in Seq(Full(ns)) /\ Elements(M) = Elements(L) \cup {n} /\ Distinct(M)
  BY <1>1, PutFirst
<1>3. /\ Len(L) \in Nat /\ DOMAIN L = 1 .. Len(L) /\ DOMAIN M = 1 .. Len(L) + 1
      /\ M[1] = n /\ \A i \in 1 .. Len(L) : M[i + 1] = L[i]
  BY <1>1
<1> HIDE DEF M
<1>4. Held(ns, pop, rest, prog, M, X \ {n})
  BY <1>2 DEF Held
<1>5. Values(M, ns) = <<ns[n].data>> \o Values(L, ns)
  <2> DEFINE V == Values(L, ns)
             W == Values(M, ns)
             d == ns[n].data
  <2>1. \A k \in DOMAIN L : L[k] \in Full(ns) /\ ns[L[k]].data \in {ns[m].data : m \in Full(ns)}
    BY <1>1
  <2>2. /\ V \in [1 .. Len(L) -> {ns[m].data : m \in Full(ns)}]
        /\ \A k \in 1 .. Len(L) : V[k] = ns[L[k]].data
    BY <1>3, <2>1 DEF Values
  <2>3. V \in Seq({ns[m].data : m \in Full(ns)}) /\ DOMAIN V = 1 .. Len(L)
    BY <1>3, <2>2, SeqDef
  <2>4. DOMAIN W = 1 .. Len(L) + 1 /\ W[1] = d /\ \A k \in 1 .. Len(L) : W[k + 1] = V[k]
    BY <1>3, <2>2 DEF Values
  <2>5. W = [k \in 1 .. Len(L) + 1 |-> W[k]]
    BY <1>3 DEF Values
  <2> HIDE DEF V, W, d
  <2>6. Len(V) = Len(L)
    BY <1>3, <2>3
  <2>7. <<d>> \o V = [k \in 1 .. Len(V) + 1 |-> IF k = 1 THEN d ELSE V[k - 1]]
    BY <2>3
  <2>8. \A k \in 1 .. Len(L) + 1 : W[k] = IF k = 1 THEN d ELSE V[k - 1]
    <3> SUFFICES ASSUME NEW k \in 1 .. Len(L) + 1, k # 1 PROVE W[k] = V[k - 1]
      BY <2>4
    <3>1. k - 1 \in 1 .. Len(L) /\ (k - 1) + 1 = k
      BY <1>3
    <3> QED
      BY <2>4, <3>1
  <2>9. W = <<d>> \o V
    BY <2>5, <2>6, <2>7, <2>8
  <2> QED
    BY <2>9 DEF V, W, d
<1>6. ns[n].data \in Value
  BY <1>1 DEF Held, Once
<1> QED
  BY <1>4, <1>5, <1>6 DEF M

(* ... or the last. *)
LEMMA HeldLast ==
    ASSUME NEW ns, NEW pop, NEW rest, NEW prog, NEW L, NEW X, Held(ns, pop, rest, prog, L, X),
           NEW n \in X
    PROVE  /\ Held(ns, pop, rest, prog, Append(L, n), X \ {n})
           /\ Values(Append(L, n), ns) = Append(Values(L, ns), ns[n].data) /\ ns[n].data \in Value
<1> DEFINE M == Append(L, n)
<1>1. L \in Seq(Full(ns)) /\ n \in Full(ns) /\ n \notin Elements(L) /\ Distinct(L)
  BY DEF Held
<1>2. /\ M \in Seq(Full(ns)) /\ Len(L) \in Nat /\ DOMAIN L = 1 .. Len(L) /\ DOMAIN M = 1 .. Len(L) + 1
      /\ M[Len(L) + 1] = n /\ \A i \in 1 .. Len(L) : M[i] = L[i]
  BY <1>1
<1> HIDE DEF M
<1>3. Elements(M) = Elements(L) \cup {n} /\ Distinct(M)
  <2>1. Len(L) + 1 \in DOMAIN M /\ \A i \in DOMAIN M : i \in DOMAIN L \/ i = Len(L) + 1
    BY <1>2
  <2>2. \A i \in DOMAIN L : i \in DOMAIN M /\ M[i] = L[i] /\ L[i] # n
    BY <1>1, <1>2 DEF Elements
  <2>3. M[Len(L) + 1] = n
    BY <1>2
  <2>4. Distinct(M)
    BY <1>1, <2>1, <2>2, <2>3 DEF Distinct
  <2> QED
    BY <2>1, <2>2, <2>3, <2>4 DEF Elements
<1>4. Held(ns, pop, rest, prog, M, X \ {n})
  BY <1>2, <1>3 DEF Held
<1>5. Values(M, ns) = Append(Values(L, ns), ns[n].data)
  <2> DEFINE V == Values(L, ns)
             W == Values(M, ns)
             d == ns[n].data
             D == {ns[m].data : m \in Full(ns)}
  <2>1. \A k \in DOMAIN L : L[k] \in Full(ns) /\ ns[L[k]].data \in D
    BY <1>1
  <2>2. V \in [1 .. Len(L) -> D] /\ \A k \in 1 .. Len(L) : V[k] = ns[L[k]].data
    BY <1>2, <2>1 DEF Values
  <2>3. V \in Seq(D) /\ DOMAIN V = 1 .. Len(L) /\ d \in D
    BY <1>1, <1>2, <2>2, SeqDef
  <2>4. DOMAIN W = 1 .. Len(L) + 1 /\ W[Len(L) + 1] = d /\ \A k \in 1 .. Len(L) : W[k] = V[k]
    BY <1>2, <2>2 DEF Values
  <2>5. W = [k \in 1 .. Len(L) + 1 |-> W[k]]
    BY <1>2 DEF Values
  <2> HIDE DEF V, W, d, D
  <2>6. Len(V) = Len(L)
    BY <1>2, <2>3
  <2>7. /\ Append(V, d) \in Seq(D) /\ Len(Append(V, d)) = Len(L) + 1
        /\ \A k \in 1 .. Len(L) : Append(V, d)[k] = V[k]
        /\ Append(V, d)[Len(L) + 1] = d
    BY <2>3, <2>6, AppendProperties
  <2>8. \A k \in 1 .. Len(L) + 1 : k \in 1 .. Len(L) \/ k = Len(L) + 1
    <3>1. Len(L) \in Nat
      BY <1>2
    <3> QED
      BY <3>1
  <2>9. \A k \in 1 .. Len(L) + 1 : W[k] = Append(V, d)[k] /\ W[k] \in D
    BY <2>2, <2>4, <2>7, <2>8, <2>3
  <2>10. W \in Seq(D) /\ Len(W) = Len(L) + 1
    <3>1. Len(L) + 1 \in Nat /\ W \in [1 .. Len(L) + 1 -> D]
      BY <1>2, <2>5, <2>9
    <3> QED
      BY <2>5, <2>9, <3>1, SeqOfLen
  <2>11. W = Append(V, d)
    BY <2>7, <2>9, <2>10, SeqEqual
  <2> QED
    BY <2>11 DEF V, W, d
<1>6. ns[n].data \in Value
  BY <1>1 DEF Held, Once
<1> QED
  BY <1>4, <1>5, <1>6 DEF M

(* The element at place k of i leaves. *)
Leaves(k, i, o, i2, o2) == /\ i # <<>> /\ i[k] \notin o /\ o2 = o \cup {i[k]}
                           /\ i2 = SubSeq(i, 1, k - 1) \o SubSeq(i, k + 1, Len(i))

(* A sequence without the element at place k. *)
LEMMA Without ==
    ASSUME NEW D, NEW s \in Seq(D), NEW k \in 1 .. Len(s), NEW r \in Seq(D),
           Len(r) = Len(s) - 1, \A i \in 1 .. Len(s) - 1 : r[i] = IF i < k THEN s[i] ELSE s[i + 1]
    PROVE  r = SubSeq(s, 1, k - 1) \o SubSeq(s, k + 1, Len(s))
<1> DEFINE a == SubSeq(s, 1, k - 1)
           b == SubSeq(s, k + 1, Len(s))
           n == Len(s)
<1>1. n \in Nat /\ k \in Nat /\ k >= 1 /\ k <= n /\ \A i \in 1 .. n : s[i] \in D
  OBVIOUS
<1> HIDE DEF n
<1>2. k - 1 \in Int /\ k + 1 \in Int /\ n \in Int
  BY <1>1
<1>3. a \in Seq(D) /\ Len(a) = k - 1 /\ \A i \in 1 .. k - 1 : a[i] = s[i]
  <2>1. \A i \in 1 .. k - 1 : s[i] \in D
    BY <1>1
  <2>2. a \in Seq(D) /\ Len(a) = (IF 1 <= k - 1 THEN (k - 1) - 1 + 1 ELSE 0)
        /\ \A i \in 1 .. (k - 1) - 1 + 1 : a[i] = s[1 + i - 1]
    BY <1>2, <2>1, SubSeqProperties
  <2>3. (IF 1 <= k - 1 THEN (k - 1) - 1 + 1 ELSE 0) = k - 1
        /\ \A i \in 1 .. k - 1 : i \in 1 .. (k - 1) - 1 + 1 /\ 1 + i - 1 = i
    BY <1>1
  <2> HIDE DEF a
  <2> QED
    BY <2>2, <2>3
<1>4. b \in Seq(D) /\ Len(b) = n - k /\ \A i \in 1 .. n - k : b[i] = s[k + i]
  <2>1. \A i \in k + 1 .. n : s[i] \in D
    BY <1>1
  <2>2. b = SubSeq(s, k + 1, n)
    BY DEF n
  <2>3. SubSeq(s, k + 1, n) \in Seq(D) /\ Len(SubSeq(s, k + 1, n)) = (IF k + 1 <= n THEN n - (k + 1) + 1 ELSE 0)
        /\ \A i \in 1 .. n - (k + 1) + 1 : SubSeq(s, k + 1, n)[i] = s[(k + 1) + i - 1]
    BY <1>2, <2>1, SubSeqProperties
  <2>4. (IF k + 1 <= n THEN n - (k + 1) + 1 ELSE 0) = n - k
        /\ \A i \in 1 .. n - k : i \in 1 .. n - (k + 1) + 1 /\ (k + 1) + i - 1 = k + i
    BY <1>1
  <2> HIDE DEF b
  <2> QED
    BY <2>2, <2>3, <2>4
<1> HIDE DEF a, b
<1>5. /\ a \o b \in Seq(D) /\ Len(a \o b) = Len(a) + Len(b)
      /\ \A i \in 1 .. Len(a) + Len(b) : (a \o b)[i] = IF i <= Len(a) THEN a[i] ELSE b[i - Len(a)]
  BY <1>3, <1>4, ConcatProperties
<1>6. Len(r) = n - 1 /\ \A i \in 1 .. n - 1 : r[i] = IF i < k THEN s[i] ELSE s[i + 1]
  BY DEF n
<1>7. Len(a) + Len(b) = n - 1
  BY <1>1, <1>3, <1>4
<1>8. ASSUME NEW i \in 1 .. n - 1 PROVE r[i] = (a \o b)[i]
  <2>1. CASE i < k
    <3>1. i \in 1 .. k - 1 /\ i <= Len(a)
      BY <1>1, <1>3, <2>1
    <3> QED
      BY <1>3, <1>5, <1>6, <1>7, <2>1, <3>1
  <2>2. CASE ~(i < k)
    <3>1. ~(i <= Len(a)) /\ i - Len(a) \in 1 .. n - k /\ k + (i - Len(a)) = i + 1
      BY <1>1, <1>3, <2>2
    <3> QED
      BY <1>4, <1>5, <1>6, <1>7, <2>2, <3>1
  <2> QED
    BY <2>1, <2>2
<1>9. r = a \o b
  BY <1>5, <1>6, <1>7, <1>8, SeqEqual
<1> QED
  BY <1>9 DEF a, b

(* A node that leaves the container, at place k, takes its value with it.  *)
LEMMA HeldLeave ==
    ASSUME NEW ns, NEW pop, NEW rest, NEW prog, NEW L, NEW X, Held(ns, pop, rest, prog, L, X),
           NEW k \in 1 .. Len(L), NEW M \in Seq(Full(ns)), Len(M) = Len(L) - 1,
           \A i \in 1 .. Len(L) - 1 : M[i] = IF i < k THEN L[i] ELSE L[i + 1],
           Distinct(M), Elements(M) = Elements(L) \ {L[k]}
    PROVE  /\ Held(ns, pop, rest, prog, M, X \cup {L[k]})
           /\ \A T \in SUBSET X : Leaves(k, Values(L, ns), OutOf(T, pop, ns),
                                         Values(M, ns), OutOf(T \cup {L[k]}, pop, ns))
<1> DEFINE D == {ns[m].data : m \in Full(ns)}
           V == Values(L, ns)
           W == Values(M, ns)
           n == Len(L)
<1>1. n \in Nat /\ DOMAIN L = 1 .. n /\ n - 1 \in Nat /\ DOMAIN M = 1 .. n - 1 /\ k \in 1 .. n
      /\ \A i \in 1 .. n : L[i] \in Full(ns) /\ ns[L[i]].data \in D
  <2>1. L \in Seq(Full(ns)) /\ n \in Nat /\ DOMAIN L = 1 .. n /\ DOMAIN M = 1 .. Len(M) /\ Len(M) = n - 1
    BY DEF Held
  <2>2. k \in 1 .. n
    OBVIOUS
  <2>3. \A i \in 1 .. n : L[i] \in Full(ns)
    BY <2>1
  <2> HIDE DEF n
  <2>4. n - 1 \in Nat
    BY <2>1, <2>2
  <2> QED
    BY <2>1, <2>2, <2>3, <2>4
<1>2. L[k] \in Elements(L)
  BY <1>1 DEF Elements
<1>3. Held(ns, pop, rest, prog, M, X \cup {L[k]})
  BY <1>2 DEF Held
<1>4. \A i \in 1 .. n - 1 : M[i] = IF i < k THEN L[i] ELSE L[i + 1]
  OBVIOUS
<1> HIDE DEF n
<1>5. V \in [1 .. n -> D] /\ \A i \in 1 .. n : V[i] = ns[L[i]].data
  BY <1>1 DEF Values
<1>6. W = [i \in 1 .. n - 1 |-> ns[M[i]].data]
  BY <1>1 DEF Values
<1>7. \A i \in 1 .. n - 1 : i \in 1 .. n /\ i + 1 \in 1 .. n
  BY <1>1
<1> HIDE DEF V, W, D
<1>8. \A i \in 1 .. n - 1 : W[i] = IF i < k THEN V[i] ELSE V[i + 1]
  BY <1>4, <1>5, <1>6, <1>7
<1>9. W \in [1 .. n - 1 -> D]
  BY <1>5, <1>6, <1>7, <1>8
<1>10. V \in Seq(D) /\ Len(V) = n
  BY <1>1, <1>5, SeqOfLen
<1>11. W \in Seq(D) /\ Len(W) = n - 1
  BY <1>1, <1>9, SeqOfLen
<1>12. W = SubSeq(V, 1, k - 1) \o SubSeq(V, k + 1, Len(V))
  BY <1>1, <1>8, <1>10, <1>11, Without
<1>13. V # <<>>
  <2>1. 1 \in DOMAIN V
    BY <1>1, <1>5
  <2> QED
    BY <2>1
<1>14. V[k] = ns[L[k]].data
  BY <1>1, <1>5
<1> SUFFICES ASSUME NEW T \in SUBSET X
             PROVE  Leaves(k, V, OutOf(T, pop, ns), W, OutOf(T \cup {L[k]}, pop, ns))
  BY <1>3 DEF V, W
<1>15. OutOf(T \cup {L[k]}, pop, ns) = OutOf(T, pop, ns) \cup {V[k]}
  BY <1>14 DEF OutOf
<1>16. ns[L[k]].data \notin OutOf(T, pop, ns)
  <2>1. \A m \in T : m \in Full(ns) /\ m # L[k]
    BY <1>2 DEF Held
  <2>2. L[k] \in Full(ns)
    BY <1>1
  <2>3. /\ \A m \in T : ns[m].data # ns[L[k]].data
        /\ \A r \in pop : ns[L[k]].data # r.val
    BY <2>1, <2>2 DEF Held, Once
  <2> QED
    BY <2>3 DEF OutOf
<1> QED
  BY <1>12, <1>13, <1>14, <1>15, <1>16 DEF Leaves

(* The first node leaves ... *)
LEMMA HeldTaken ==
    ASSUME NEW ns, NEW pop, NEW rest, NEW prog, NEW L, NEW X, Held(ns, pop, rest, prog, L, X),
           L # <<>>
    PROVE  /\ Held(ns, pop, rest, prog, Tail(L), X \cup {L[1]})
           /\ \A T \in SUBSET X : Leaves(1, Values(L, ns), OutOf(T, pop, ns),
                                         Values(Tail(L), ns), OutOf(T \cup {L[1]}, pop, ns))
<1>1. L \in Seq(Full(ns)) /\ Distinct(L)
  BY DEF Held
<1>2. /\ Tail(L) \in Seq(Full(ns)) /\ Distinct(Tail(L)) /\ Elements(Tail(L)) = Elements(L) \ {L[1]}
  <2>1. Head(L) = L[1] /\ Elements(Tail(L)) = Elements(L) \ {Head(L)}
        /\ Tail(L) \in Seq(Full(ns)) /\ Distinct(Tail(L))
    BY <1>1, TakeFirst
  <2> QED
    BY <2>1
<1>3. Len(Tail(L)) = Len(L) - 1 /\ \A i \in 1 .. Len(Tail(L)) : Tail(L)[i] = L[i + 1]
  BY <1>1, HeadTailProperties
<1>4. 1 \in 1 .. Len(L)
  BY <1>1
<1>5. \A i \in 1 .. Len(L) - 1 : Tail(L)[i] = IF i < 1 THEN L[i] ELSE L[i + 1]
  BY <1>3
<1> QED
  BY <1>2, <1>3, <1>4, <1>5, HeldLeave

(* ... or the last. *)
LEMMA HeldCut ==
    ASSUME NEW ns, NEW pop, NEW rest, NEW prog, NEW L, NEW X, Held(ns, pop, rest, prog, L, X),
           L # <<>>
    PROVE  /\ Held(ns, pop, rest, prog, Front(L), X \cup {L[Len(L)]})
           /\ \A T \in SUBSET X : Leaves(Len(Values(L, ns)), Values(L, ns), OutOf(T, pop, ns),
                                         Values(Front(L), ns), OutOf(T \cup {L[Len(L)]}, pop, ns))
<1>1. L \in Seq(Full(ns)) /\ Distinct(L)
  BY DEF Held
<1>2. /\ Front(L) \in Seq(Full(ns)) /\ Len(Front(L)) = Len(L) - 1
      /\ \A i \in 1 .. Len(L) - 1 : Front(L)[i] = L[i]
      /\ Distinct(Front(L)) /\ Elements(Front(L)) = Elements(L) \ {L[Len(L)]}
  BY <1>1, FrontFacts
<1>3. Len(L) \in 1 .. Len(L) /\ Len(L) \in Nat /\ DOMAIN L = 1 .. Len(L)
  BY <1>1
<1>4. \A i \in 1 .. Len(L) - 1 : Front(L)[i] = IF i < Len(L) THEN L[i] ELSE L[i + 1]
  <2>1. \A i \in 1 .. Len(L) - 1 : i < Len(L)
    BY <1>3
  <2> QED
    BY <1>2, <2>1
<1>5. Len(Values(L, ns)) = Len(L)
  <2>1. Values(L, ns) \in [1 .. Len(L) -> {ns[L[i]].data : i \in DOMAIN L}]
    BY <1>3 DEF Values
  <2> QED
    BY <1>3, <2>1, SeqOfLen
<1> QED
  BY <1>2, <1>3, <1>4, <1>5, HeldLeave

(* A pop takes the data out of node n and returns it. *)
LEMMA HeldOut ==
    ASSUME NEW ns, NEW pop, NEW rest, NEW prog, NEW L, NEW X, Held(ns, pop, rest, prog, L, X),
           NEW n \in X, NEW r, r.val = ns[n].data,
           NEW ns2, Emptied(ns, ns2, n)
    PROVE  /\ Held(ns2, pop \cup {r}, rest, prog, L, X \ {n})
           /\ Values(L, ns2) = Values(L, ns)
           /\ \A T \in SUBSET X : n \in T => OutOf(T \ {n}, pop \cup {r}, ns2) = OutOf(T, pop, ns)
<1> USE DEF Emptied
<1>1. n \in Full(ns) /\ n \notin Elements(L) /\ L \in Seq(Full(ns))
  BY DEF Held
<1>2. Once(ns, pop, rest, prog)
  BY DEF Held
<1>3. Once(ns2, pop \cup {r}, rest, prog)
  <2>1. \A v : (\E m \in Full(ns2) : ns2[m].data = v) \/ (\E q \in pop \cup {r} : q.val = v)
               <=> (\E m \in Full(ns) : ns[m].data = v) \/ (\E q \in pop : q.val = v)
    BY <1>1
  <2>2. \A q \in pop : q.val # r.val
    BY <1>1, <1>2 DEF Once
  <2>3. \A m \in Full(ns2) : m \in Full(ns) /\ m # n /\ ns2[m].data # r.val
    BY <1>1, <1>2 DEF Once
  <2>4. /\ \A m \in Full(ns2) : ns2[m].data \in Value
        /\ \A m, k \in Full(ns2) : ns2[m].data = ns2[k].data => m = k
        /\ \A m \in Full(ns2), q \in pop \cup {r} : ns2[m].data # q.val
    BY <1>2, <2>3 DEF Once
  <2>5. /\ \A q \in pop \cup {r} : q.val \in Value
        /\ \A q, s \in pop \cup {r} : q.val = s.val => q = s
    BY <1>1, <1>2, <2>2 DEF Once
  <2> QED
    BY <1>2, <2>1, <2>4, <2>5 DEF Once
<1>4. \A i \in DOMAIN L : L[i] \in Full(ns2) /\ L[i] \in Elements(L)
  BY <1>1 DEF Elements
<1>5. L \in Seq(Full(ns2))
  <2>1. Len(L) \in Nat /\ DOMAIN L = 1 .. Len(L) /\ L \in [1 .. Len(L) -> Full(ns)]
    BY <1>1
  <2>2. L \in [1 .. Len(L) -> Full(ns2)]
    BY <1>4, <2>1
  <2> QED
    BY <2>1, <2>2, SeqDef
<1>6. Held(ns2, pop \cup {r}, rest, prog, L, X \ {n})
  BY <1>1, <1>3, <1>5 DEF Held
<1>7. Values(L, ns2) = Values(L, ns)
  BY <1>4 DEF Values
<1>8. \A T \in SUBSET X : n \in T => OutOf(T \ {n}, pop \cup {r}, ns2) = OutOf(T, pop, ns)
  <2> SUFFICES ASSUME NEW T \in SUBSET X, n \in T
               PROVE  OutOf(T \ {n}, pop \cup {r}, ns2) = OutOf(T, pop, ns)
    OBVIOUS
  <2>1. \A m \in T \ {n} : ns2[m].data = ns[m].data
    BY DEF Held
  <2> QED
    BY <2>1 DEF OutOf
<1> QED
  BY <1>6, <1>7, <1>8

(* A value that has been pushed is in one node or in one result: how many  *)
(* nodes of H and results have it, and whether another node has.           *)
Copies(H, ns, pop, v) == Cardinality({n \in H : ns[n].data = v}) + Cardinality({r \in pop : r.val = v})
Elsewhere(H, ns, v) == \E n \in Full(ns) \ H : ns[n].data = v

LEMMA HeldCount ==
    ASSUME NEW ns, NEW pop, NEW rest, NEW prog, NEW L, NEW X, Held(ns, pop, rest, prog, L, X),
           NEW H \in SUBSET DOMAIN ns, NEW v \in Value
    PROVE  Copies(H, ns, pop, v) = IF v \in Brought(rest, prog) /\ ~Elsewhere(H, ns, v) THEN 1 ELSE 0
<1> USE DEF Copies, Elsewhere
<1> DEFINE A == {n \in H : ns[n].data = v}
           B == {r \in pop : r.val = v}
<1>1. Once(ns, pop, rest, prog) /\ v # NoData
  BY ThreadsAssumption DEF Held
<1>2. A = {n \in Full(ns) : n \in H /\ ns[n].data = v}
  BY <1>1 DEF Full
<1>3. (A = {} => Cardinality(A) = 0) /\ \A x : A = {x} => Cardinality(A) = 1
  BY FS_EmptySet, FS_Singleton
<1>4. (B = {} => Cardinality(B) = 0) /\ \A x : B = {x} => Cardinality(B) = 1
  BY FS_EmptySet, FS_Singleton
<1> DEFINE there == v \in Brought(rest, prog) /\ ~(\E n \in Full(ns) \ H : ns[n].data = v)
<1>5. CASE v \notin Brought(rest, prog)
  <2>1. A = {} /\ B = {} /\ ~there
    BY <1>1, <1>2, <1>5 DEF Once
  <2> HIDE DEF A, B, there
  <2>2. Cardinality(A) = 0 /\ Cardinality(B) = 0
    BY <1>3, <1>4, <2>1
  <2> QED
    BY <2>1, <2>2 DEF A, B, there
<1>6. CASE \E n \in Full(ns) \ H : ns[n].data = v
  <2>1. A = {} /\ B = {} /\ ~there
    BY <1>1, <1>2, <1>6 DEF Once
  <2> HIDE DEF A, B, there
  <2>2. Cardinality(A) = 0 /\ Cardinality(B) = 0
    BY <1>3, <1>4, <2>1
  <2> QED
    BY <2>1, <2>2 DEF A, B, there
<1>7. CASE there
  <2>1. CASE \E n \in Full(ns) : ns[n].data = v
    <3>1. PICK n \in Full(ns) : ns[n].data = v
      BY <2>1
    <3>2. A = {n} /\ B = {}
      BY <1>1, <1>2, <1>7, <3>1 DEF Once
    <3> HIDE DEF A, B, there
    <3>3. Cardinality(A) = 1 /\ Cardinality(B) = 0
      BY <1>3, <1>4, <3>2
    <3> QED
      BY <1>7, <3>3 DEF A, B, there
  <2>2. CASE ~(\E n \in Full(ns) : ns[n].data = v)
    <3>1. PICK r \in pop : r.val = v
      BY <1>1, <1>7, <2>2 DEF Once
    <3>2. A = {} /\ B = {r}
      BY <1>1, <1>2, <2>2, <3>1 DEF Once
    <3> HIDE DEF A, B, there
    <3>3. Cardinality(A) = 0 /\ Cardinality(B) = 1
      BY <1>3, <1>4, <3>2
    <3> QED
      BY <1>7, <3>3 DEF A, B, there
  <2> QED
    BY <2>1, <2>2
<1> QED
  BY <1>5, <1>6, <1>7

(* What a step does to the items of a container and to what has left it, as *)
(* Container has it; fifo says whether the container is a queue.            *)
Change(fifo, i, o, e, i2, o2, e2) ==
    \/ i2 = i /\ o2 = o /\ e2 = e
    \/ (\E v \in Value : i2 = IF fifo THEN Append(i, v) ELSE <<v>> \o i) /\ o2 = o /\ e2 = e
    \/ Leaves(1, i, o, i2, o2) /\ e2 = e
    \/ fifo /\ Leaves(Len(i), i, o, i2, o2) /\ e2 = e
    \/ i = <<>> /\ i2 = i /\ o2 = o /\ e2 = e + 1

-----------------------------------------------------------------------------
(* The list, as ListFrom gives it: when a node is put before the others, *)
(* when the first is taken away, when the other nodes change.            *)
LEMMA ListPushed ==
    ASSUME NEW N \in Nat, NEW succ, DOMAIN succ = 1 .. N, NEW S, NEW f, IsChain(S, f, succ),
           NEW N2 \in Nat, NEW succ2, DOMAIN succ2 = 1 .. N2, S \subseteq 1 .. N2,
           NEW n \in 1 .. N2, n \notin S, succ2[n] = f, \A m \in S : succ2[m] = succ[m]
    PROVE  ListFrom(n, succ2) = <<n>> \o ListFrom(f, succ)
<1>1. Sorted(ListFrom(f, succ), S, f, succ)
  BY ListSorted
<1>2. Sorted(<<n>> \o ListFrom(f, succ), S \cup {n}, n, succ2)
  BY <1>1, SortedPush
<1>3. S \cup {n} \subseteq DOMAIN succ2
  OBVIOUS
<1> QED
  BY <1>2, <1>3, SortedIs

LEMMA ListPopped ==
    ASSUME NEW N \in Nat, NEW succ, DOMAIN succ = 1 .. N, NEW S, NEW f, IsChain(S, f, succ), f # Null
    PROVE  /\ ListFrom(f, succ) # <<>> /\ ListFrom(f, succ)[1] = f
           /\ ListFrom(succ[f], succ) = Tail(ListFrom(f, succ))
<1>1. Sorted(ListFrom(f, succ), S, f, succ)
  BY ListSorted
<1>2. Null \notin S /\ S \subseteq DOMAIN succ
  BY ChainFacts
<1>3. /\ ListFrom(f, succ) # <<>> /\ ListFrom(f, succ)[1] = f
      /\ Sorted(Tail(ListFrom(f, succ)), S \ {f}, succ[f], succ)
  BY <1>1, <1>2, SortedPop
<1>4. S \ {f} \subseteq DOMAIN succ
  BY <1>2
<1> QED
  BY <1>3, <1>4, SortedIs

LEMMA ListSame ==
    ASSUME NEW N \in Nat, NEW succ, DOMAIN succ = 1 .. N, NEW S, NEW f, IsChain(S, f, succ),
           NEW N2 \in Nat, NEW succ2, DOMAIN succ2 = 1 .. N2, S \subseteq 1 .. N2,
           \A m \in S : succ2[m] = succ[m]
    PROVE  ListFrom(f, succ2) = ListFrom(f, succ)
<1>1. Sorted(ListFrom(f, succ), S, f, succ)
  BY ListSorted
<1>2. Sorted(ListFrom(f, succ), S, f, succ2)
  BY <1>1, SortedSame
<1> QED
  BY <1>2, SortedIs

(* The list has the nodes of the chain; one that leads nowhere has none. *)
LEMMA ListNodes ==
    ASSUME NEW N \in Nat, NEW succ, DOMAIN succ = 1 .. N, NEW S, NEW f, IsChain(S, f, succ)
    PROVE  Elements(ListFrom(f, succ)) = S /\ (f = Null => ListFrom(f, succ) = <<>>)
<1>1. Sorted(ListFrom(f, succ), S, f, succ)
  BY ListSorted
<1>2. Elements(ListFrom(f, succ)) = S
  BY <1>1 DEF Sorted
<1>3. ASSUME f = Null PROVE ListFrom(f, succ) = <<>>
  <2>1. Null \notin S
    BY ChainFacts
  <2>2. ListFrom(f, succ) \in Seq(S) /\ (ListFrom(f, succ) # <<>> => f = ListFrom(f, succ)[1])
    BY <1>1 DEF Sorted
  <2> DEFINE L == ListFrom(f, succ)
  <2> HIDE DEF L
  <2>3. L # <<>> => L[1] \in S
    BY <2>2 DEF L
  <2> QED
    BY <1>3, <2>1, <2>2, <2>3 DEF L
<1> QED
  BY <1>2, <1>3

-----------------------------------------------------------------------------
LEMMA SameValues ==
    ASSUME NEW ns, NEW ns2, NEW L, \A n \in Elements(L) : ns2[n].data = ns[n].data
    PROVE  Values(L, ns2) = Values(L, ns)
BY DEF Values, Elements

(* What the operations on a stack do: push ... *)
LEMMA StackPush ==
    ASSUME NEW ns, NEW pop, NEW rest, NEW prog, NEW L, NEW X, Held(ns, pop, rest, prog, L, X),
           NEW t \in Threads, rest[t] # <<>>, Head(rest[t]) \in Value,
           NEW n, NEW ns2, Stored(ns, ns2, n, Head(rest[t])),
           NEW e
    PROVE  /\ Held(ns2, pop, Done(rest, t), prog, <<n>> \o L, X)
           /\ Change(FALSE, Values(L, ns), OutOf(X, pop, ns), e,
                     Values(<<n>> \o L, ns2), OutOf(X, pop, ns2), e)
<1> DEFINE Y == X \cup {n}
           rest2 == Done(rest, t)
<1>1. Held(ns2, pop, rest2, prog, L, Y)
  BY HeldPut
<1>2. Values(L, ns2) = Values(L, ns)
  BY SameValues DEF Held, Stored
<1>3. n \in Y /\ Y \ {n} = X
  BY DEF Held, Stored
<1> HIDE DEF Y, rest2
<1>4. Held(ns2, pop, rest2, prog, <<n>> \o L, Y \ {n})
  BY <1>1, <1>3, HeldFirst
<1>5. Values(<<n>> \o L, ns2) = <<ns2[n].data>> \o Values(L, ns2) /\ ns2[n].data \in Value
  BY <1>1, <1>3, <1>4, HeldFirst
<1>6. OutOf(X, pop, ns2) = OutOf(X, pop, ns)
  BY DEF OutOf, Held, Stored
<1>7. \E v \in Value : Values(<<n>> \o L, ns2) = IF FALSE THEN Append(Values(L, ns), v) ELSE <<v>> \o Values(L, ns)
  BY <1>2, <1>5, Zenon
<1>8. Held(ns2, pop, rest2, prog, <<n>> \o L, X)
  BY <1>3, <1>4, Zenon
<1> QED
  BY <1>6, <1>7, <1>8, Zenon DEF Change, rest2

(* ... the exchange of head in a pop ... *)
LEMMA StackTake ==
    ASSUME NEW ns, NEW pop, NEW rest, NEW prog, NEW L, NEW X, Held(ns, pop, rest, prog, L, X),
           L # <<>>, NEW fifo, NEW e
    PROVE  /\ Held(ns, pop, rest, prog, Tail(L), X \cup {L[1]})
           /\ Change(fifo, Values(L, ns), OutOf(X, pop, ns), e,
                     Values(Tail(L), ns), OutOf(X \cup {L[1]}, pop, ns), e)
<1>1. Held(ns, pop, rest, prog, Tail(L), X \cup {L[1]})
  BY HeldTaken
<1>2. Leaves(1, Values(L, ns), OutOf(X, pop, ns), Values(Tail(L), ns), OutOf(X \cup {L[1]}, pop, ns))
  <2>1. X \in SUBSET X
    OBVIOUS
  <2> QED
    BY <1>1, <2>1, HeldTaken
<1> QED
  BY <1>1, <1>2, Zenon DEF Change

(* ... a pop that returns the data of the node it has taken ... *)
LEMMA StackOut ==
    ASSUME NEW ns, NEW pop, NEW rest, NEW prog, NEW L, NEW X, Held(ns, pop, rest, prog, L, X),
           NEW n \in X, NEW r, r.val = ns[n].data,
           NEW ns2, Emptied(ns, ns2, n),
           NEW fifo, NEW e
    PROVE  /\ Held(ns2, pop \cup {r}, rest, prog, L, X \ {n})
           /\ Change(fifo, Values(L, ns), OutOf(X, pop, ns), e,
                     Values(L, ns2), OutOf(X \ {n}, pop \cup {r}, ns2), e)
<1>1. Held(ns2, pop \cup {r}, rest, prog, L, X \ {n})
  BY HeldOut
<1>2. Values(L, ns2) = Values(L, ns)
  BY <1>1, HeldOut
<1>3. OutOf(X \ {n}, pop \cup {r}, ns2) = OutOf(X, pop, ns)
  <2>1. X \in SUBSET X
    OBVIOUS
  <2>2. \A T \in SUBSET X : n \in T => OutOf(T \ {n}, pop \cup {r}, ns2) = OutOf(T, pop, ns)
    BY <1>1, HeldOut
  <2> QED
    BY <2>1, <2>2
<1> QED
  BY <1>1, <1>2, <1>3, Zenon DEF Change

(* ... one that does both at once ... *)
LEMMA StackTakeOut ==
    ASSUME NEW ns, NEW pop, NEW rest, NEW prog, NEW L, NEW X, Held(ns, pop, rest, prog, L, X),
           L # <<>>, NEW r, r.val = ns[L[1]].data,
           NEW ns2, Emptied(ns, ns2, L[1]),
           NEW fifo, NEW e
    PROVE  /\ Held(ns2, pop \cup {r}, rest, prog, Tail(L), X)
           /\ Change(fifo, Values(L, ns), OutOf(X, pop, ns), e,
                     Values(Tail(L), ns2), OutOf(X, pop \cup {r}, ns2), e)
<1> DEFINE Y == X \cup {L[1]}
           m == L[1]
           M == Tail(L)
<1>1. Held(ns, pop, rest, prog, M, Y)
  BY HeldTaken
<1>2. Leaves(1, Values(L, ns), OutOf(X, pop, ns), Values(M, ns), OutOf(Y, pop, ns))
  <2>1. X \in SUBSET X
    OBVIOUS
  <2> QED
    BY <1>1, <2>1, HeldTaken
<1>3. m \in Y /\ Y \ {m} = X
  <2>1. L \in Seq(Full(ns)) /\ Elements(L) \cap X = {}
    BY DEF Held
  <2>2. Head(L) \in Elements(L) /\ Head(L) = L[1]
    BY <2>1, TakeFirst
  <2> QED
    BY <2>1, <2>2
<1>4. r.val = ns[m].data /\ Emptied(ns, ns2, m)
  OBVIOUS
<1> HIDE DEF Y, m, M
<1>5. Held(ns2, pop \cup {r}, rest, prog, M, Y \ {m})
  BY <1>1, <1>3, <1>4, HeldOut
<1>6. Values(M, ns2) = Values(M, ns)
  BY <1>4, <1>5, SameValues DEF Held, Emptied
<1>7. \A T \in SUBSET Y : m \in T => OutOf(T \ {m}, pop \cup {r}, ns2) = OutOf(T, pop, ns)
  BY <1>1, <1>3, <1>4, <1>5, HeldOut
<1>8. OutOf(X, pop \cup {r}, ns2) = OutOf(Y, pop, ns)
  BY <1>3, <1>7
<1>9. Leaves(1, Values(L, ns), OutOf(X, pop, ns), Values(M, ns2), OutOf(X, pop \cup {r}, ns2))
  BY <1>2, <1>6, <1>8, Zenon
<1> QED
  BY <1>3, <1>5, <1>9, Zenon DEF Change, M

(* ... and a step that does nothing of the kind. *)
LEMMA StackQuiet ==
    ASSUME NEW ns, NEW pop, NEW rest, NEW prog, NEW L, NEW X, Held(ns, pop, rest, prog, L, X),
           NEW ns2, SameData(ns, ns2),
           NEW fifo, NEW e
    PROVE  /\ Held(ns2, pop, rest, prog, L, X)
           /\ Change(fifo, Values(L, ns), OutOf(X, pop, ns), e,
                     Values(L, ns2), OutOf(X, pop, ns2), e)
<1>1. Held(ns2, pop, rest, prog, L, X)
  BY HeldSame
<1>2. Values(L, ns2) = Values(L, ns)
  BY <1>1, HeldSame
<1>3. OutOf(X, pop, ns2) = OutOf(X, pop, ns)
  <2>1. X \in SUBSET X
    OBVIOUS
  <2> QED
    BY <1>1, <2>1, HeldSame
<1> QED
  BY <1>1, <1>2, <1>3, Zenon DEF Change

(* What a step that leaves the nodes there are does to their data. *)
LEMMA DataFacts ==
    ASSUME NEW ns, NEW ns2, DOMAIN ns2 = DOMAIN ns
    PROVE  /\ (\A m \in DOMAIN ns : ns2[m].data = ns[m].data) => SameData(ns, ns2)
           /\ \A n \in DOMAIN ns :
                 ns2[n].data = NoData /\ (\A m \in DOMAIN ns : m # n => ns2[m].data = ns[m].data)
                    => Emptied(ns, ns2, n)
BY DEF Full, SameData, Emptied

(* A new node holds the value it is made with. *)
LEMMA StoredNew ==
    ASSUME NEW n, NEW node, node.data # NoData, nodes' = Place(n, node), n \notin Full(nodes)
    PROVE  Stored(nodes, nodes', n, node.data)
BY DEF Place, Stored, Full

-----------------------------------------------------------------------------
(* HazardPointerStack and PendingStack: the nodes of the stack in order.  A *)
(* thread that is not idle is in the pop that comes next.                   *)
Order == ListFrom(head, SuccOf(nodes))

PopsOk == \A t \in Threads : pc[t] # "idle" => todo[t] # <<>> /\ Head(todo[t]) = Pop

StackHeld(taking) == PopsOk /\ Held(nodes, popped, todo, StackProgram, Order, taking)

LEMMA OrderPushed ==
    ASSUME nodes \in Seq(StackNode), nodes' \in Seq(StackNode), ListOk, In \subseteq Alive,
           head' \notin Alive, head' \in DOMAIN nodes', nodes'[head'].next = head,
           \A m \in Alive : m \in DOMAIN nodes' /\ nodes'[m] = nodes[m]
    PROVE  Order' = <<head'>> \o Order
<1> DEFINE succ == SuccOf(nodes)
           succ2 == SuccOf(nodes')
<1>1. DOMAIN succ = 1 .. Len(nodes) /\ Len(nodes) \in Nat /\ DOMAIN succ2 = 1 .. Len(nodes') /\ Len(nodes') \in Nat
  BY DEF SuccOf
<1>2. DOMAIN succ = DOMAIN nodes /\ DOMAIN succ2 = DOMAIN nodes'
  BY DEF SuccOf
<1>3. IsChain(In, head, succ) /\ In \subseteq DOMAIN nodes
  BY InFacts DEF ListOk
<1>4. In \subseteq 1 .. Len(nodes') /\ head' \in 1 .. Len(nodes') /\ head' \notin In
  BY <1>1, <1>2
<1>5. succ2[head'] = head /\ \A m \in In : succ2[m] = succ[m]
  BY <1>3 DEF SuccOf
<1> HIDE DEF succ, succ2
<1>6. ListFrom(head', succ2) = <<head'>> \o ListFrom(head, succ)
  BY <1>1, <1>3, <1>4, <1>5, ListPushed
<1> QED
  BY <1>6 DEF Order, succ, succ2

LEMMA OrderPopped ==
    ASSUME NEW T, nodes \in Seq(T), ListOk, head # Null,
           nodes' = nodes, head' = nodes[head].next
    PROVE  Order # <<>> /\ Order[1] = head /\ Order' = Tail(Order)
<1> DEFINE succ == SuccOf(nodes)
<1>1. DOMAIN succ = 1 .. Len(nodes) /\ Len(nodes) \in Nat
  BY DEF SuccOf
<1>2. IsChain(In, head, succ) /\ succ[head] = head'
  BY InFacts DEF ListOk, SuccOf
<1> HIDE DEF succ
<1>3. /\ ListFrom(head, succ) # <<>> /\ ListFrom(head, succ)[1] = head
      /\ ListFrom(head', succ) = Tail(ListFrom(head, succ))
  BY <1>1, <1>2, ListPopped
<1> QED
  BY <1>3 DEF Order, succ

LEMMA OrderStays ==
    ASSUME NEW T, nodes \in Seq(T), nodes' \in Seq(T), ListOk, head' = head,
           \A n \in In : n \in DOMAIN nodes' /\ nodes'[n].next = nodes[n].next
    PROVE  Order' = Order
<1> DEFINE succ == SuccOf(nodes)
           succ2 == SuccOf(nodes')
<1>1. DOMAIN succ = 1 .. Len(nodes) /\ Len(nodes) \in Nat /\ DOMAIN succ2 = 1 .. Len(nodes') /\ Len(nodes') \in Nat
  BY DEF SuccOf
<1>2. DOMAIN succ = DOMAIN nodes /\ DOMAIN succ2 = DOMAIN nodes'
  BY DEF SuccOf
<1>3. IsChain(In, head, succ) /\ In \subseteq DOMAIN nodes
  BY InFacts DEF ListOk
<1>4. In \subseteq 1 .. Len(nodes') /\ \A m \in In : succ2[m] = succ[m]
  BY <1>1, <1>2, <1>3 DEF SuccOf
<1> HIDE DEF succ, succ2
<1>5. ListFrom(head, succ2) = ListFrom(head, succ)
  BY <1>1, <1>3, <1>4, ListSame
<1> QED
  BY <1>5 DEF Order, succ, succ2

LEMMA OrderNodes ==
    ASSUME NEW T, nodes \in Seq(T), ListOk
    PROVE  Elements(Order) = In /\ (head = Null => Order = <<>>)
<1> DEFINE succ == SuccOf(nodes)
<1>1. DOMAIN succ = 1 .. Len(nodes) /\ Len(nodes) \in Nat /\ IsChain(In, head, succ)
  BY DEF SuccOf, ListOk
<1> HIDE DEF succ
<1>2. Elements(ListFrom(head, succ)) = In /\ (head = Null => ListFrom(head, succ) = <<>>)
  BY <1>1, ListNodes
<1> QED
  BY <1>2 DEF Order, succ

(* What the steps on the stack do to what it holds, taking being the nodes  *)
(* that pops have taken.                                                    *)
StackChange(taking, taking2) ==
    Change(FALSE, Values(Order, nodes), OutOf(taking, popped, nodes), empties,
           Values(Order', nodes'), OutOf(taking2, popped', nodes'), empties')

LEMMA StackPushed ==
    ASSUME NEW taking, StackHeld(taking), NEW t \in Threads, todo[t] # <<>>, Head(todo[t]) \in Value,
           nodes \in Seq(StackNode), ListOk, In \subseteq Alive, taking \subseteq Alive,
           nodes' = Place(Address, [data |-> Head(todo[t]), next |-> head, alive |-> TRUE]),
           head' = Address, todo' = Done(todo, t), popped' = popped, empties' = empties
    PROVE  /\ Held(nodes', popped', todo', StackProgram, Order', taking)
           /\ StackChange(taking, taking)
<1> DEFINE node == [data |-> Head(todo[t]), next |-> head, alive |-> TRUE]
<1>1. /\ nodes' \in Seq(StackNode) /\ head' \notin Alive
      /\ \A m \in Alive : m \in DOMAIN nodes' /\ nodes'[m] = nodes[m]
  BY PushedNode
<1>2. head' \in DOMAIN nodes' /\ nodes'[head'].next = head
  BY DEF Place
<1>3. Order' = <<head'>> \o Order
  BY <1>1, <1>2, OrderPushed
<1>4. Held(nodes, popped, todo, StackProgram, Order, taking)
  BY DEF StackHeld
<1>5. head' \notin Full(nodes)
  <2>1. Full(nodes) \subseteq In \cup taking
    BY <1>4, OrderNodes DEF Held
  <2> QED
    BY <1>1, <2>1
<1>6. node.data # NoData /\ nodes' = Place(head', node) /\ node.data = Head(todo[t])
  BY ThreadsAssumption
<1> HIDE DEF node
<1>7. Stored(nodes, nodes', head', Head(todo[t]))
  BY <1>5, <1>6, StoredNew
<1>8. Held(nodes', popped, Done(todo, t), StackProgram, <<head'>> \o Order, taking)
  BY <1>4, <1>7, StackPush
<1>9. Change(FALSE, Values(Order, nodes), OutOf(taking, popped, nodes), empties,
             Values(<<head'>> \o Order, nodes'), OutOf(taking, popped, nodes'), empties)
  BY <1>4, <1>7, <1>8, StackPush
<1> QED
  BY <1>3, <1>8, <1>9 DEF StackChange

LEMMA StackTaken ==
    ASSUME NEW taking, StackHeld(taking), nodes \in Seq(StackNode), ListOk, head # Null,
           head' = nodes[head].next, UNCHANGED <<nodes, todo, popped, empties>>
    PROVE  /\ Held(nodes', popped', todo', StackProgram, Order', taking \cup {head})
           /\ StackChange(taking, taking \cup {head})
<1>1. Order # <<>> /\ Order[1] = head /\ Order' = Tail(Order)
  BY OrderPopped
<1>2. Held(nodes, popped, todo, StackProgram, Order, taking)
  BY DEF StackHeld
<1>3. Held(nodes, popped, todo, StackProgram, Tail(Order), taking \cup {Order[1]})
  BY <1>1, <1>2, StackTake
<1>4. Change(FALSE, Values(Order, nodes), OutOf(taking, popped, nodes), empties,
             Values(Tail(Order), nodes), OutOf(taking \cup {Order[1]}, popped, nodes), empties)
  BY <1>1, <1>2, <1>3, StackTake
<1> QED
  BY <1>1, <1>3, <1>4 DEF StackChange

LEMMA StackReturned ==
    ASSUME NEW taking, StackHeld(taking), NEW n \in taking, NEW r, r.val = nodes[n].data,
           Order' = Order, DOMAIN nodes' = DOMAIN nodes, n \in DOMAIN nodes, nodes'[n].data = NoData,
           \A m \in DOMAIN nodes : m # n => nodes'[m].data = nodes[m].data,
           popped' = popped \cup {r}, UNCHANGED <<todo, empties>>
    PROVE  /\ Held(nodes', popped', todo', StackProgram, Order', taking \ {n})
           /\ StackChange(taking, taking \ {n})
<1>1. Held(nodes, popped, todo, StackProgram, Order, taking)
  BY DEF StackHeld
<1>2. Emptied(nodes, nodes', n)
  BY DataFacts
<1>3. Held(nodes', popped \cup {r}, todo, StackProgram, Order, taking \ {n})
  BY <1>1, <1>2, StackOut
<1>4. Change(FALSE, Values(Order, nodes), OutOf(taking, popped, nodes), empties,
             Values(Order, nodes'), OutOf(taking \ {n}, popped \cup {r}, nodes'), empties)
  BY <1>1, <1>2, <1>3, StackOut
<1> QED
  BY <1>3, <1>4 DEF StackChange

(* A step that moves no data; it may return, or find the stack empty. *)
LEMMA StackStays ==
    ASSUME NEW taking, StackHeld(taking), Order' = Order,
           DOMAIN nodes' = DOMAIN nodes, \A m \in DOMAIN nodes : nodes'[m].data = nodes[m].data,
           \/ todo' = todo
           \/ \E t \in Threads : todo[t] # <<>> /\ Head(todo[t]) = Pop /\ todo' = Done(todo, t),
           popped' = popped,
           empties' = empties \/ (Order = <<>> /\ empties' = empties + 1)
    PROVE  /\ Held(nodes', popped', todo', StackProgram, Order', taking)
           /\ StackChange(taking, taking)
<1>1. Held(nodes, popped, todo, StackProgram, Order, taking)
  BY DEF StackHeld
<1>2. SameData(nodes, nodes')
  BY DataFacts
<1>3. Held(nodes', popped, todo, StackProgram, Order, taking)
  BY <1>1, <1>2, HeldSame
<1>4. Held(nodes', popped, todo', StackProgram, Order, taking)
  <2>1. CASE todo' = todo
    BY <1>3, <2>1
  <2>2. ASSUME NEW t \in Threads, todo[t] # <<>>, Head(todo[t]) = Pop, todo' = Done(todo, t)
        PROVE  Held(nodes', popped, todo', StackProgram, Order, taking)
    <3>1. Head(todo[t]) \notin Value
      BY <2>2, ThreadsAssumption
    <3> QED
      BY <1>3, <2>2, <3>1, HeldReturn
  <2> QED
    BY <2>1, <2>2
<1>5. Values(Order, nodes') = Values(Order, nodes)
  BY <1>1, <1>2, SameValues DEF Held, SameData
<1>6. OutOf(taking, popped, nodes') = OutOf(taking, popped, nodes)
  BY <1>1, <1>2 DEF OutOf, Held, SameData
<1>7. Order = <<>> => Values(Order, nodes) = <<>>
  BY DEF Values
<1> QED
  BY <1>4, <1>5, <1>6, <1>7, Zenon DEF StackChange, Change

-----------------------------------------------------------------------------
(* HazardPointerStack: the steps of its operations. *)
HTaking == {old[u] : u \in {w \in Threads : pc[w] = "clear" /\ old[w] # Null}}

(* The places of a pop, and what a thread that changes places has to do.   *)
LEMMA PopsMoved ==
    ASSUME PopsOk, NEW t \in Threads, todo \in [Threads -> Seq(Value \cup Others)],
           NEW Places, pc \in [Threads -> Places], NEW place,
           pc' = [pc EXCEPT ![t] = place],
           \/ place = "idle" /\ todo' = Done(todo, t)
           \/ todo' = todo /\ todo[t] # <<>> /\ Head(todo[t]) = Pop
    PROVE  PopsOk'
BY DEF PopsOk, Done

LEMMA StackFacts ==
    ASSUME NEW taking, StackHeld(taking)
    PROVE  PopsOk /\ todo \in [Threads -> Seq(Value \cup Others)]
BY DEF StackHeld, Held, Once, RestOk

LEMMA HazardTaking ==
    ASSUME HInv
    PROVE  HTaking \subseteq Alive /\ \A n \in HTaking : n \in DOMAIN nodes
<1>1. \A u \in Threads : pc[u] = "clear" /\ old[u] # Null => old[u] \in HOwn(u) /\ HOwn(u) \subseteq Alive
  BY HazardFacts
<1>2. Alive \subseteq DOMAIN nodes
  BY HazardFacts
<1> QED
  BY <1>1, <1>2 DEF HTaking

LEMMA HazardHeldPush ==
    ASSUME HInv, StackHeld(HTaking), NEW t \in Threads, Hazard!Push(t)
    PROVE  StackHeld(HTaking)' /\ StackChange(HTaking, HTaking')
<1>1. /\ todo[t] # <<>> /\ Head(todo[t]) \in Value
      /\ nodes' = Place(Address, [data |-> Head(todo[t]), next |-> head, alive |-> TRUE])
      /\ head' = Address /\ todo' = Done(todo, t) /\ pc[t] = "idle" /\ pc' = [pc EXCEPT ![t] = "idle"]
      /\ UNCHANGED <<old, popped, empties>>
  BY HazardSame DEF Hazard!Push, Hazard!Calls, Hazard!Operation, Hazard!Return, Hazard!Goto, Hazard!hpVars, Done
<1>2. nodes \in Seq(StackNode) /\ ListOk /\ In \subseteq Alive /\ HTaking \subseteq Alive
  BY HazardFacts, HazardTaking DEF HInv, HType
<1>3. HTaking' = HTaking
  BY <1>1 DEF HInv, HType, HTaking
<1>4. PopsOk'
  BY <1>1, StackFacts, PopsMoved DEF HInv, HType
<1>5. Held(nodes', popped', todo', StackProgram, Order', HTaking) /\ StackChange(HTaking, HTaking)
  BY <1>1, <1>2, StackPushed
<1> QED
  BY <1>3, <1>4, <1>5 DEF StackHeld

(* The steps that leave the stack and the data as they are. *)
LEMMA HazardHeldStays ==
    ASSUME HInv, StackHeld(HTaking), NEW t \in Threads,
           \/ Hazard!PopLoad(t) \/ Hazard!PopPublish(t) \/ Hazard!PopCheck(t)
           \/ Hazard!PopScan(t) \/ Hazard!PopSweep(t)
           \/ Hazard!PopExchange(t) /\ head # old[t]
           \/ Hazard!PopClear(t) /\ old[t] = Null
    PROVE  StackHeld(HTaking)' /\ StackChange(HTaking, HTaking')
<1>1. /\ pc \in [Threads -> {"idle", "publish", "check", "exchange", "clear", "scan", "sweep"}]
      /\ old \in [Threads -> Nat] /\ nodes \in Seq(StackNode) /\ ListOk
      /\ todo \in [Threads -> Seq(Value \cup Others)] /\ PopsOk
  BY StackFacts DEF HInv, HType
<1>2. popped' = popped /\ head' = head
  BY DEF Hazard!PopLoad, Hazard!PopPublish, Hazard!PopCheck, Hazard!PopScan, Hazard!PopSweep,
         Hazard!PopExchange, Hazard!PopClear, Hazard!Null, Null, Hazard!hpVars
<1>3. /\ nodes' \in Seq(StackNode) /\ DOMAIN nodes' = DOMAIN nodes
      /\ \A m \in DOMAIN nodes : nodes'[m].data = nodes[m].data /\ nodes'[m].next = nodes[m].next
  <2>1. CASE nodes' = nodes
    BY <1>1, <2>1
  <2>2. CASE Hazard!PopScan(t) /\ nodes' # nodes
    <3>1. nodes' = [nodes EXCEPT ![Head(work[t])].alive = FALSE] /\ Head(work[t]) \in DOMAIN nodes
      BY <2>2, HazardFirst, HazardFacts DEF Hazard!PopScan
    <3> DEFINE n == Head(work[t])
    <3>2. nodes' = [nodes EXCEPT ![n].alive = FALSE] /\ n \in DOMAIN nodes
      BY <3>1
    <3> HIDE DEF n
    <3>3. /\ nodes' \in Seq(StackNode) /\ DOMAIN nodes' = DOMAIN nodes
          /\ \A m \in DOMAIN nodes : nodes'[m].next = nodes[m].next
          /\ \A m \in DOMAIN nodes : m # n => nodes'[m] = nodes[m]
      BY <1>1, <3>2, ChangedNode
    <3>4. nodes'[n].data = nodes[n].data
      <4>1. nodes[n] \in StackNode
        BY <1>1, <3>2
      <4> QED
        BY <3>2, <4>1 DEF StackNode
    <3> QED
      BY <3>3, <3>4
  <2> QED
    BY <2>1, <2>2 DEF Hazard!PopLoad, Hazard!PopPublish, Hazard!PopCheck, Hazard!PopScan, Hazard!PopSweep,
           Hazard!PopExchange, Hazard!PopClear, Hazard!Null, Null, Hazard!hpVars
<1>4. Order' = Order
  <2>1. In \subseteq DOMAIN nodes
    BY <1>1, InFacts
  <2> QED
    BY <1>1, <1>2, <1>3, <2>1, OrderStays
<1>5. \/ \E place : place # "idle" /\ pc' = [pc EXCEPT ![t] = place] /\ todo' = todo
                    /\ todo[t] # <<>> /\ Head(todo[t]) = Pop
      \/ pc' = pc /\ todo' = todo
      \/ pc[t] # "idle" /\ pc' = [pc EXCEPT ![t] = "idle"] /\ todo' = Done(todo, t)
         /\ todo[t] # <<>> /\ Head(todo[t]) = Pop
  <2>1. pc[t] # "idle" => todo[t] # <<>> /\ Head(todo[t]) = Pop
    BY <1>1 DEF PopsOk
  <2> QED
    BY <2>1 DEF Hazard!PopLoad, Hazard!PopPublish, Hazard!PopCheck, Hazard!PopScan, Hazard!PopSweep,
           Hazard!PopExchange, Hazard!PopClear, Hazard!Calls, Hazard!Operation, Hazard!Return, Hazard!Goto,
           Hazard!Null, Null, Done
<1>6. PopsOk'
  <2>1. pc' = pc /\ todo' = todo => PopsOk'
    BY <1>1 DEF PopsOk
  <2> QED
    BY <1>1, <1>5, <2>1, PopsMoved
<1>7. HTaking' = HTaking
  BY <1>1, <1>5 DEF HTaking, Hazard!PopLoad, Hazard!PopPublish, Hazard!PopCheck, Hazard!PopScan, Hazard!PopSweep,
           Hazard!PopExchange, Hazard!PopClear, Hazard!Calls, Hazard!Return, Hazard!Goto,
           Hazard!Null, Null
<1>8. empties' = empties \/ (Order = <<>> /\ empties' = empties + 1)
  <2>1. head = Null => Order = <<>>
    BY <1>1, OrderNodes
  <2> QED
    BY <2>1 DEF Hazard!PopLoad, Hazard!PopPublish, Hazard!PopCheck, Hazard!PopScan, Hazard!PopSweep,
           Hazard!PopExchange, Hazard!PopClear, Hazard!Null, Null
<1>9. \/ todo' = todo
      \/ \E u \in Threads : todo[u] # <<>> /\ Head(todo[u]) = Pop /\ todo' = Done(todo, u)
  BY <1>5
<1>10. Held(nodes', popped', todo', StackProgram, Order', HTaking) /\ StackChange(HTaking, HTaking)
  BY <1>2, <1>3, <1>4, <1>8, <1>9, StackStays
<1> QED
  BY <1>6, <1>7, <1>10 DEF StackHeld

LEMMA HazardHeldExchange ==
    ASSUME HInv, StackHeld(HTaking), NEW t \in Threads, Hazard!PopExchange(t), head = old[t]
    PROVE  StackHeld(HTaking)' /\ StackChange(HTaking, HTaking')
<1>1. /\ pc[t] = "exchange" /\ head' = nodes[head].next /\ pc' = [pc EXCEPT ![t] = "clear"]
      /\ UNCHANGED <<nodes, todo, old, popped, empties>>
  BY DEF Hazard!PopExchange, Hazard!Goto
<1>2. nodes \in Seq(StackNode) /\ ListOk /\ head # Null /\ PopsOk
      /\ pc \in [Threads -> {"idle", "publish", "check", "exchange", "clear", "scan", "sweep"}]
      /\ todo \in [Threads -> Seq(Value \cup Others)]
  BY <1>1, HazardFacts, StackFacts DEF HInv, HType, HPublished
<1>3. HTaking' = HTaking \cup {head}
  BY <1>1, <1>2 DEF HTaking
<1>4. PopsOk'
  <2>1. todo[t] # <<>> /\ Head(todo[t]) = Pop
    BY <1>1, <1>2 DEF PopsOk
  <2> QED
    BY <1>1, <1>2, <2>1, PopsMoved
<1>5. /\ Held(nodes', popped', todo', StackProgram, Order', HTaking \cup {head})
      /\ StackChange(HTaking, HTaking \cup {head})
  BY <1>1, <1>2, StackTaken
<1> QED
  BY <1>3, <1>4, <1>5 DEF StackHeld

LEMMA HazardHeldClear ==
    ASSUME HInv, StackHeld(HTaking), NEW t \in Threads, Hazard!PopClear(t), old[t] # Null
    PROVE  StackHeld(HTaking)' /\ StackChange(HTaking, HTaking')
<1>1. /\ pc[t] = "clear" /\ pc' = [pc EXCEPT ![t] = "scan"]
      /\ nodes' = [nodes EXCEPT ![old[t]].data = NoData]
      /\ popped' = popped \cup {[by |-> t, nth |-> Len(todo[t]), val |-> nodes[old[t]].data]}
      /\ UNCHANGED <<head, todo, old, empties>>
  BY HazardSame DEF Hazard!PopClear, Hazard!Goto, Hazard!Result
<1>2. nodes \in Seq(StackNode) /\ ListOk /\ PopsOk
      /\ pc \in [Threads -> {"idle", "publish", "check", "exchange", "clear", "scan", "sweep"}]
      /\ todo \in [Threads -> Seq(Value \cup Others)]
  BY StackFacts DEF HInv, HType
<1>3. old[t] \in HTaking /\ old[t] \in DOMAIN nodes
  <2>1. old[t] \in HTaking
    BY <1>1 DEF HTaking
  <2> QED
    BY <2>1, HazardTaking
<1>4. /\ nodes' \in Seq(StackNode) /\ DOMAIN nodes' = DOMAIN nodes
      /\ \A m \in DOMAIN nodes : nodes'[m].next = nodes[m].next
      /\ \A m \in DOMAIN nodes : m # old[t] => nodes'[m].data = nodes[m].data
      /\ nodes'[old[t]].data = NoData
  <2>1. /\ nodes' \in Seq(StackNode) /\ DOMAIN nodes' = DOMAIN nodes
        /\ \A m \in DOMAIN nodes : nodes'[m].next = nodes[m].next
        /\ \A m \in DOMAIN nodes : m # old[t] => nodes'[m] = nodes[m]
    BY <1>1, <1>2, <1>3, ChangedNode
  <2>2. nodes[old[t]] \in StackNode
    BY <1>2, <1>3
  <2>3. nodes'[old[t]].data = NoData
    BY <1>1, <1>3, <2>2 DEF StackNode
  <2> QED
    BY <2>1, <2>3
<1>5. Order' = Order
  <2>1. In \subseteq DOMAIN nodes
    BY <1>2, InFacts
  <2> QED
    BY <1>1, <1>2, <1>4, <2>1, OrderStays
<1>6. HTaking' = HTaking \ {old[t]}
  <2>1. \A u \in Threads : pc[u] = "clear" /\ old[u] # Null /\ u # t => old[u] # old[t]
    BY <1>1, HazardFacts
  <2> QED
    BY <1>1, <1>2, <2>1 DEF HTaking
<1>7. PopsOk'
  <2>1. todo[t] # <<>> /\ Head(todo[t]) = Pop
    BY <1>1, <1>2 DEF PopsOk
  <2> QED
    BY <1>1, <1>2, <2>1, PopsMoved
<1> DEFINE r == [by |-> t, nth |-> Len(todo[t]), val |-> nodes[old[t]].data]
<1>8. r.val = nodes[old[t]].data /\ popped' = popped \cup {r}
  BY <1>1
<1> HIDE DEF r
<1>9. /\ Held(nodes', popped', todo', StackProgram, Order', HTaking \ {old[t]})
      /\ StackChange(HTaking, HTaking \ {old[t]})
  <2>1. UNCHANGED <<todo, empties>>
    BY <1>1
  <2> QED
    BY <1>3, <1>4, <1>5, <1>8, <2>1, StackReturned
<1> QED
  BY <1>6, <1>7, <1>9 DEF StackHeld

LEMMA HazardHeldStep ==
    ASSUME HInv, StackHeld(HTaking), NEW t \in Threads, Hazard!Step(t)
    PROVE  StackHeld(HTaking)' /\ StackChange(HTaking, HTaking')
BY HazardHeldPush, HazardHeldStays, HazardHeldExchange, HazardHeldClear DEF Hazard!Step

LEMMA StackHeldInit ==
    ASSUME nodes = <<>>, head = Null, popped = {}, todo = StackProgram,
           \A t \in Threads : pc[t] = "idle"
    PROVE  StackHeld({})
<1>1. Order = <<>> /\ Full(nodes) = {}
  <2>1. nodes \in Seq({}) /\ ListOk
    <3>1. nodes \in Seq({})
      OBVIOUS
    <3>2. IsChain({}, Null, SuccOf(nodes))
      BY ChainEmpty
    <3> QED
      BY <3>1, <3>2, FoundIn DEF In, ListOk
  <2> QED
    BY <2>1, OrderNodes DEF Full
<1>2. RestOk(todo, StackProgram) /\ Brought(todo, StackProgram) = {}
  BY RestInit, ProgramsAssumption, OnceAssumption
<1>3. <<>> \in Seq({}) /\ Elements(<<>>) = {} /\ Distinct(<<>>)
  BY DEF Elements, Distinct
<1>4. Once(nodes, popped, todo, StackProgram)
  BY <1>1, <1>2 DEF Once
<1> QED
  BY <1>1, <1>3, <1>4 DEF StackHeld, PopsOk, Held

LEMMA HazardHeldInit == Hazard!Init => StackHeld(HTaking)
<1> SUFFICES ASSUME Hazard!Init PROVE StackHeld(HTaking)
  OBVIOUS
<1>1. /\ nodes = <<>> /\ head = Null /\ popped = {} /\ todo = StackProgram
      /\ \A t \in Threads : pc[t] = "idle"
  BY DEF Hazard!Init, Hazard!ThreadsInit, Hazard!Null, Null
<1>2. HTaking = {}
  BY <1>1 DEF HTaking
<1> QED
  BY <1>1, <1>2, StackHeldInit

-----------------------------------------------------------------------------
(* PendingStack: the steps of its operations. *)
PTaking == {old[u] : u \in {w \in Threads : pc[w] = "take"}}

PendingPlaces == {"idle", "load", "exchange", "take", "chain", "leave", "grab", "last", "rechain", "delete"}

LEMMA PendingTaking ==
    ASSUME PInv
    PROVE  PTaking \subseteq Alive /\ \A n \in PTaking : n \in DOMAIN nodes
<1>1. \A u \in Threads : pc[u] = "take" => old[u] \in POwn(u) /\ POwn(u) \subseteq Alive
  BY PendingFacts DEF Taken
<1>2. Alive \subseteq DOMAIN nodes
  BY PendingFacts
<1> QED
  BY <1>1, <1>2 DEF PTaking

LEMMA PendingHeldPush ==
    ASSUME PInv, StackHeld(PTaking), NEW t \in Threads, Pending!Push(t)
    PROVE  StackHeld(PTaking)' /\ StackChange(PTaking, PTaking')
<1>1. /\ todo[t] # <<>> /\ Head(todo[t]) \in Value
      /\ nodes' = Place(Address, [data |-> Head(todo[t]), next |-> head, alive |-> TRUE])
      /\ head' = Address /\ todo' = Done(todo, t) /\ pc[t] = "idle" /\ pc' = [pc EXCEPT ![t] = "idle"]
      /\ UNCHANGED <<old, popped, empties>>
  BY PendingSame DEF Pending!Push, Pending!Calls, Pending!Operation, Pending!Return, Pending!Goto, Done
<1>2. nodes \in Seq(StackNode) /\ ListOk /\ In \subseteq Alive /\ PTaking \subseteq Alive
  BY PendingFacts, PendingTaking DEF PInv, PType
<1>3. PTaking' = PTaking
  BY <1>1 DEF PInv, PType, PTaking
<1>4. PopsOk'
  BY <1>1, StackFacts, PopsMoved DEF PInv, PType
<1>5. Held(nodes', popped', todo', StackProgram, Order', PTaking) /\ StackChange(PTaking, PTaking)
  BY <1>1, <1>2, StackPushed
<1> QED
  BY <1>3, <1>4, <1>5 DEF StackHeld

(* The nodes that a step links anew are the thread's own, and those that it *)
(* deletes keep what is in them.                                            *)
LEMMA PendingRelinked ==
    ASSUME PInv, NEW n \in Alive, n \notin In, NEW x \in Nat, nodes' = [nodes EXCEPT ![n].next = x]
    PROVE  /\ nodes' \in Seq(StackNode) /\ DOMAIN nodes' = DOMAIN nodes
           /\ \A m \in DOMAIN nodes : nodes'[m].data = nodes[m].data
           /\ \A m \in In : nodes'[m].next = nodes[m].next
<1>1. nodes \in Seq(StackNode) /\ n \in DOMAIN nodes /\ In \subseteq DOMAIN nodes
  BY PendingFacts DEF PInv, PType
<1>2. /\ nodes' \in Seq(StackNode) /\ DOMAIN nodes' = DOMAIN nodes
      /\ \A m \in DOMAIN nodes : m # n => nodes'[m].next = nodes[m].next
  BY <1>1, RelinkedNode
<1>3. \A m \in DOMAIN nodes : nodes'[m].data = nodes[m].data
  <2>1. nodes[n] \in StackNode
    BY <1>1
  <2> QED
    BY <1>1, <2>1 DEF StackNode
<1> QED
  BY <1>1, <1>2, <1>3

LEMMA PendingDeletedData ==
    ASSUME PInv, NEW S, nodes' = Pending!Deleted(S)
    PROVE  /\ nodes' \in Seq(StackNode) /\ DOMAIN nodes' = DOMAIN nodes
           /\ \A m \in DOMAIN nodes : nodes'[m].data = nodes[m].data
           /\ \A m \in In : nodes'[m].next = nodes[m].next
<1>1. nodes \in Seq(StackNode) /\ In \subseteq DOMAIN nodes
  BY PendingFacts DEF PInv, PType
<1>2. nodes' = [n \in DOMAIN nodes |-> [nodes[n] EXCEPT !.alive = @ /\ n \notin S]]
  BY DEF Pending!Deleted
<1>3. nodes' \in Seq(StackNode) /\ DOMAIN nodes' = DOMAIN nodes
      /\ \A m \in DOMAIN nodes : nodes'[m].next = nodes[m].next
  BY <1>1, <1>2, DeletedNodes
<1>4. ASSUME NEW m \in DOMAIN nodes PROVE nodes'[m].data = nodes[m].data
  <2>1. nodes[m] \in StackNode
    BY <1>1
  <2> QED
    BY <1>2, <2>1 DEF StackNode
<1> QED
  BY <1>1, <1>3, <1>4

(* The steps that leave the stack and the data as they are. *)
PendingQuiet(t) ==
    \/ Pending!PopEnter(t) \/ Pending!PopLoad(t) \/ Pending!PopChain(t) \/ Pending!PopLeave(t)
    \/ Pending!PopGrab(t) \/ Pending!PopLast(t) \/ Pending!PopRechain(t) \/ Pending!PopDelete(t)
    \/ Pending!PopExchange(t) /\ head # old[t]

LEMMA PendingNodes ==
    ASSUME PInv, NEW t \in Threads, PendingQuiet(t)
    PROVE  /\ nodes' \in Seq(StackNode) /\ DOMAIN nodes' = DOMAIN nodes
           /\ \A m \in DOMAIN nodes : nodes'[m].data = nodes[m].data
           /\ \A m \in In : nodes'[m].next = nodes[m].next
<1>1. nodes \in Seq(StackNode) /\ to_be_deleted \in Nat
  BY PendingFacts DEF PInv, PType
<1>2. CASE nodes' = nodes
  BY <1>1, <1>2
<1>3. CASE Pending!PopChain(t)
  <2>1. pc[t] = "chain" /\ nodes' = [nodes EXCEPT ![old[t]].next = to_be_deleted]
    BY <1>3 DEF Pending!PopChain, Pending!Chained
  <2>2. old[t] \in Alive /\ old[t] \notin In
    <3>1. old[t] \in POwn(t)
      BY <2>1 DEF POwn, Taken
    <3> QED
      BY <3>1, PendingFacts
  <2> QED
    BY <1>1, <2>1, <2>2, PendingRelinked
<1>4. CASE Pending!PopRechain(t)
  <2> DEFINE list == ListFrom(mine[t], SuccOf(nodes))
             last == list[Len(list)]
  <2>1. pc[t] = "rechain" /\ nodes' = [nodes EXCEPT ![last].next = to_be_deleted]
    BY <1>4, PendingSame DEF Pending!PopRechain, Pending!Chained
  <2>2. IsChain(Grabbed(t), mine[t], SuccOf(nodes)) /\ Grabbed(t) = Linked(mine[t], SuccOf(nodes)) /\ mine[t] # Null
    BY <2>1 DEF PInv, PPlaces, GrabbedOk, Grabbed
  <2>3. last \in Grabbed(t)
    <3>1. DOMAIN SuccOf(nodes) = 1 .. Len(nodes) /\ Len(nodes) \in Nat
      BY <1>1 DEF SuccOf
    <3> QED
      BY <2>2, <3>1, ChainFound
  <2> HIDE DEF last, list
  <2>4. last \in Alive /\ last \notin In
    <3>1. Grabbed(t) \subseteq POwn(t)
      BY DEF POwn
    <3> QED
      BY <2>3, <3>1, PendingFacts
  <2> QED
    BY <1>1, <2>1, <2>4, PendingRelinked
<1>5. CASE \E S : nodes' = Pending!Deleted(S)
  BY <1>5, PendingDeletedData
<1> QED
  BY <1>2, <1>3, <1>4, <1>5 DEF PendingQuiet, Pending!PopEnter, Pending!PopLoad, Pending!PopLeave,
     Pending!PopGrab, Pending!PopLast, Pending!PopDelete, Pending!PopExchange, Pending!pendingVars

LEMMA PendingHeldStays ==
    ASSUME PInv, StackHeld(PTaking), NEW t \in Threads, PendingQuiet(t)
    PROVE  StackHeld(PTaking)' /\ StackChange(PTaking, PTaking')
<1>1. pc \in [Threads -> PendingPlaces] /\ nodes \in Seq(StackNode) /\ ListOk
  BY DEF PInv, PType, PendingPlaces
<1>2. PopsOk /\ todo \in [Threads -> Seq(Value \cup Others)]
  BY StackFacts
<1>3. popped' = popped /\ head' = head
  BY DEF PendingQuiet, Pending!PopEnter, Pending!PopLoad, Pending!PopChain, Pending!PopLeave, Pending!PopGrab,
     Pending!PopLast, Pending!PopRechain, Pending!PopDelete, Pending!PopExchange, Pending!Null, Null,
     Pending!pendingVars
<1>4. /\ nodes' \in Seq(StackNode) /\ DOMAIN nodes' = DOMAIN nodes
      /\ \A m \in DOMAIN nodes : nodes'[m].data = nodes[m].data
      /\ \A m \in In : nodes'[m].next = nodes[m].next
  BY PendingNodes
<1>5. Order' = Order
  <2>1. In \subseteq DOMAIN nodes
    BY <1>1, InFacts
  <2> QED
    BY <1>1, <1>3, <1>4, <2>1, OrderStays
<1>6. pc[t] # "take" /\ \E place :
          /\ pc' = [pc EXCEPT ![t] = place] /\ place # "take"
          /\ todo[t] # <<>> /\ Head(todo[t]) = Pop
          /\ \/ place # "idle" /\ todo' = todo
             \/ place = "idle" /\ todo' = Done(todo, t)
  <2>1. pc[t] # "idle" => todo[t] # <<>> /\ Head(todo[t]) = Pop
    BY <1>2 DEF PopsOk
  <2> QED
    BY <2>1 DEF PendingQuiet, Pending!PopEnter, Pending!PopLoad, Pending!PopChain, Pending!PopLeave,
     Pending!PopGrab, Pending!PopLast, Pending!PopRechain, Pending!PopDelete, Pending!PopExchange,
     Pending!Calls, Pending!Operation, Pending!Return, Pending!Goto, Pending!Null, Null, Done
<1>7. PopsOk'
  BY <1>1, <1>2, <1>6, PopsMoved
<1>8. PTaking' = PTaking
  <2>1. CASE old' = old
    BY <1>1, <1>6, <2>1 DEF PTaking
  <2>2. CASE Pending!PopLoad(t)
    <3>1. old' = [old EXCEPT ![t] = head] /\ old \in [Threads -> Nat]
      BY <2>2 DEF Pending!PopLoad, PInv, PType
    <3> QED
      BY <1>1, <1>6, <3>1 DEF PTaking
  <2> QED
    BY <2>1, <2>2 DEF PendingQuiet, Pending!PopEnter, Pending!PopChain, Pending!PopLeave, Pending!PopGrab,
     Pending!PopLast, Pending!PopRechain, Pending!PopDelete, Pending!PopExchange
<1>9. empties' = empties \/ (Order = <<>> /\ empties' = empties + 1)
  <2>1. head = Null => Order = <<>>
    BY <1>1, OrderNodes
  <2> QED
    BY <2>1 DEF PendingQuiet, Pending!PopEnter, Pending!PopLoad, Pending!PopChain, Pending!PopLeave, Pending!PopGrab,
     Pending!PopLast, Pending!PopRechain, Pending!PopDelete, Pending!PopExchange, Pending!Null, Null,
     Pending!pendingVars
<1>10. \/ todo' = todo
       \/ \E u \in Threads : todo[u] # <<>> /\ Head(todo[u]) = Pop /\ todo' = Done(todo, u)
  BY <1>6
<1>11. Held(nodes', popped', todo', StackProgram, Order', PTaking) /\ StackChange(PTaking, PTaking)
  BY <1>3, <1>4, <1>5, <1>9, <1>10, StackStays
<1> QED
  BY <1>7, <1>8, <1>11 DEF StackHeld

LEMMA PendingHeldExchange ==
    ASSUME PInv, StackHeld(PTaking), NEW t \in Threads, Pending!PopExchange(t), head = old[t]
    PROVE  StackHeld(PTaking)' /\ StackChange(PTaking, PTaking')
<1>1. /\ pc[t] = "exchange" /\ head' = nodes[head].next /\ pc' = [pc EXCEPT ![t] = "take"]
      /\ UNCHANGED <<nodes, todo, old, popped, empties>>
  BY DEF Pending!PopExchange, Pending!Goto
<1>2. /\ nodes \in Seq(StackNode) /\ ListOk /\ head # Null /\ pc \in [Threads -> PendingPlaces]
      /\ PopsOk /\ todo \in [Threads -> Seq(Value \cup Others)]
  BY <1>1, PendingFacts, StackFacts DEF PInv, PType, PRead, PendingPlaces
<1>3. PTaking' = PTaking \cup {head}
  BY <1>1, <1>2 DEF PTaking
<1>4. PopsOk'
  <2>1. todo[t] # <<>> /\ Head(todo[t]) = Pop
    BY <1>1, <1>2 DEF PopsOk
  <2> QED
    BY <1>1, <1>2, <2>1, PopsMoved
<1>5. /\ Held(nodes', popped', todo', StackProgram, Order', PTaking \cup {head})
      /\ StackChange(PTaking, PTaking \cup {head})
  BY <1>1, <1>2, StackTaken
<1> QED
  BY <1>3, <1>4, <1>5 DEF StackHeld

LEMMA PendingHeldTake ==
    ASSUME PInv, StackHeld(PTaking), NEW t \in Threads, Pending!PopTake(t)
    PROVE  StackHeld(PTaking)' /\ StackChange(PTaking, PTaking')
<1>1. /\ pc[t] = "take" /\ nodes' = [nodes EXCEPT ![old[t]].data = NoData]
      /\ popped' = popped \cup {[by |-> t, nth |-> Len(todo[t]), val |-> nodes[old[t]].data]}
      /\ UNCHANGED <<head, todo, old, empties>>
  BY PendingSame DEF Pending!PopTake, Pending!Result, Pending!pendingVars
<1>2. PICK place \in {"grab", "chain"} : pc' = [pc EXCEPT ![t] = place]
  BY DEF Pending!PopTake, Pending!Goto
<1>3. /\ nodes \in Seq(StackNode) /\ ListOk /\ pc \in [Threads -> PendingPlaces]
      /\ PopsOk /\ todo \in [Threads -> Seq(Value \cup Others)]
  BY StackFacts DEF PInv, PType, PendingPlaces
<1>4. old[t] \in PTaking /\ old[t] \in DOMAIN nodes
  <2>1. old[t] \in PTaking
    BY <1>1 DEF PTaking
  <2> QED
    BY <2>1, PendingTaking
<1>5. /\ nodes' \in Seq(StackNode) /\ DOMAIN nodes' = DOMAIN nodes
      /\ \A m \in DOMAIN nodes : nodes'[m].next = nodes[m].next
      /\ \A m \in DOMAIN nodes : m # old[t] => nodes'[m].data = nodes[m].data
      /\ nodes'[old[t]].data = NoData
  <2>1. /\ nodes' \in Seq(StackNode) /\ DOMAIN nodes' = DOMAIN nodes
        /\ \A m \in DOMAIN nodes : nodes'[m].next = nodes[m].next
        /\ \A m \in DOMAIN nodes : m # old[t] => nodes'[m] = nodes[m]
    BY <1>1, <1>3, <1>4, ChangedNode
  <2>2. nodes[old[t]] \in StackNode
    BY <1>3, <1>4
  <2>3. nodes'[old[t]].data = NoData
    BY <1>1, <1>4, <2>2 DEF StackNode
  <2> QED
    BY <2>1, <2>3
<1>6. Order' = Order
  <2>1. In \subseteq DOMAIN nodes
    BY <1>3, InFacts
  <2> QED
    BY <1>1, <1>3, <1>5, <2>1, OrderStays
<1>7. PTaking' = PTaking \ {old[t]}
  <2>1. \A u \in Threads : pc[u] = "take" => old[u] \in POwn(u)
    BY DEF POwn, Taken
  <2>2. \A u \in Threads : u # t => POwn(u) \cap POwn(t) = {}
    BY PendingFacts
  <2>3. \A u \in Threads : pc[u] = "take" /\ u # t => old[u] # old[t]
    BY <1>1, <2>1, <2>2
  <2> QED
    BY <1>1, <1>2, <1>3, <2>3 DEF PTaking
<1>8. PopsOk'
  <2>1. todo[t] # <<>> /\ Head(todo[t]) = Pop
    BY <1>1, <1>3 DEF PopsOk
  <2> QED
    BY <1>1, <1>2, <1>3, <2>1, PopsMoved
<1> DEFINE r == [by |-> t, nth |-> Len(todo[t]), val |-> nodes[old[t]].data]
<1>9. r.val = nodes[old[t]].data /\ popped' = popped \cup {r} /\ UNCHANGED <<todo, empties>>
  BY <1>1
<1> HIDE DEF r
<1>10. /\ Held(nodes', popped', todo', StackProgram, Order', PTaking \ {old[t]})
       /\ StackChange(PTaking, PTaking \ {old[t]})
  BY <1>4, <1>5, <1>6, <1>9, StackReturned
<1> QED
  BY <1>7, <1>8, <1>10 DEF StackHeld

LEMMA PendingHeldStep ==
    ASSUME PInv, StackHeld(PTaking), NEW t \in Threads, Pending!Step(t)
    PROVE  StackHeld(PTaking)' /\ StackChange(PTaking, PTaking')
BY PendingHeldPush, PendingHeldStays, PendingHeldExchange, PendingHeldTake DEF Pending!Step, PendingQuiet

LEMMA PendingHeldInit == Pending!Init => StackHeld(PTaking)
<1> SUFFICES ASSUME Pending!Init PROVE StackHeld(PTaking)
  OBVIOUS
<1>1. /\ nodes = <<>> /\ head = Null /\ popped = {} /\ todo = StackProgram
      /\ \A t \in Threads : pc[t] = "idle"
  BY DEF Pending!Init, Pending!ThreadsInit, Pending!Null, Null
<1>2. PTaking = {}
  BY <1>1 DEF PTaking
<1> QED
  BY <1>1, <1>2, StackHeldInit

-----------------------------------------------------------------------------
(* RefCountStack: the steps of its operations. *)
COrder == ListFrom(head.ptr, NextOf(nodes))

CTaking == {old[u].ptr : u \in {w \in Threads : pc[w] = "take"}}

CountHeld == PopsOk /\ Held(nodes, popped, todo, StackProgram, COrder, CTaking)

CountChange == Change(FALSE, Values(COrder, nodes), OutOf(CTaking, popped, nodes), empties,
                      Values(COrder', nodes'), OutOf(CTaking', popped', nodes'), empties')

CountPlaces == {"idle", "pop", "exchange", "take", "release"}

LEMMA CountHeldFacts ==
    ASSUME CInv, CountHeld
    PROVE  /\ nodes \in Seq(CountNode) /\ pc \in [Threads -> CountPlaces] /\ PopsOk
           /\ todo \in [Threads -> Seq(Value \cup Others)]
           /\ Held(nodes, popped, todo, StackProgram, COrder, CTaking)
           /\ CTaking \subseteq Alive /\ CIn \subseteq Alive /\ Alive \subseteq DOMAIN nodes
           /\ Elements(COrder) = CIn /\ (head.ptr = Null => COrder = <<>>)
           /\ DOMAIN NextOf(nodes) = 1 .. Len(nodes) /\ Len(nodes) \in Nat
           /\ IsChain(CIn, head.ptr, NextOf(nodes))
<1>1. todo \in [Threads -> Seq(Value \cup Others)] /\ PopsOk
      /\ Held(nodes, popped, todo, StackProgram, COrder, CTaking)
  BY DEF CountHeld, Held, Once, RestOk
<1>2. nodes \in Seq(CountNode) /\ pc \in [Threads -> CountPlaces] /\ IsChain(CIn, head.ptr, NextOf(nodes))
  BY DEF CInv, CType, CListOk, CountPlaces
<1>3. CIn \subseteq Alive /\ Alive \subseteq DOMAIN nodes /\ CTaking \subseteq Alive
  BY CountFacts DEF CInv, CPlaces, CTaking
<1>4. DOMAIN NextOf(nodes) = 1 .. Len(nodes) /\ Len(nodes) \in Nat
  BY <1>2 DEF NextOf
<1>5. Elements(COrder) = CIn /\ (head.ptr = Null => COrder = <<>>)
  BY <1>2, <1>4, ListNodes DEF COrder
<1> QED
  BY <1>1, <1>2, <1>3, <1>4, <1>5

LEMMA CountOrderStays ==
    ASSUME CInv, CountHeld, nodes' \in Seq(CountNode), head'.ptr = head.ptr,
           \A m \in CIn : m \in DOMAIN nodes' /\ nodes'[m].next = nodes[m].next
    PROVE  COrder' = COrder
<1> DEFINE succ == NextOf(nodes)
           succ2 == NextOf(nodes')
           f == head.ptr
<1>1. DOMAIN succ = 1 .. Len(nodes) /\ Len(nodes) \in Nat /\ IsChain(CIn, f, succ)
  BY CountHeldFacts
<1>2. DOMAIN succ2 = 1 .. Len(nodes') /\ Len(nodes') \in Nat /\ DOMAIN succ2 = DOMAIN nodes'
  BY DEF NextOf
<1>3. CIn \subseteq 1 .. Len(nodes') /\ \A m \in CIn : succ2[m] = succ[m]
  BY <1>2, CountHeldFacts DEF NextOf
<1> HIDE DEF succ, succ2, f
<1>4. Sorted(ListFrom(f, succ), CIn, f, succ)
  BY <1>1, ListSorted
<1>5. Sorted(ListFrom(f, succ), CIn, f, succ2)
  BY <1>3, <1>4, SortedSame
<1>6. ListFrom(f, succ2) = ListFrom(f, succ)
  BY <1>2, <1>3, <1>5, SortedIs
<1> QED
  BY <1>6 DEF COrder, succ, succ2, f

LEMMA CountOrderPopped ==
    ASSUME CInv, CountHeld, head.ptr # Null, head' = nodes[head.ptr].next,
           nodes' \in Seq(CountNode), DOMAIN nodes' = DOMAIN nodes,
           \A m \in DOMAIN nodes : nodes'[m].next = nodes[m].next
    PROVE  COrder # <<>> /\ COrder[1] = head.ptr /\ COrder' = Tail(COrder)
<1> DEFINE succ == NextOf(nodes)
<1>1. DOMAIN succ = 1 .. Len(nodes) /\ Len(nodes) \in Nat /\ IsChain(CIn, head.ptr, succ)
  BY CountHeldFacts
<1>2. succ[head.ptr] = head'.ptr
  <2>1. head.ptr \in DOMAIN nodes
    BY CountFacts
  <2> QED
    BY <2>1 DEF NextOf
<1>3. NextOf(nodes') = succ
  BY DEF NextOf
<1> HIDE DEF succ
<1>4. /\ ListFrom(head.ptr, succ) # <<>> /\ ListFrom(head.ptr, succ)[1] = head.ptr
      /\ ListFrom(head'.ptr, succ) = Tail(ListFrom(head.ptr, succ))
  BY <1>1, <1>2, ListPopped
<1> QED
  BY <1>3, <1>4 DEF COrder, succ

LEMMA CountHeldPush ==
    ASSUME CInv, CountHeld, NEW t \in Threads, Count!Push(t)
    PROVE  CountHeld' /\ CountChange
<1>0. PICK n : n = Address
  OBVIOUS
<1> DEFINE node == [data |-> Head(todo[t]), next |-> head, internal |-> 0, alive |-> TRUE]
<1>1. /\ todo[t] # <<>> /\ Head(todo[t]) \in Value /\ pc[t] = "idle"
      /\ nodes' = Place(n, node) /\ head' = [ext |-> 1, ptr |-> n]
      /\ todo' = Done(todo, t) /\ pc' = [pc EXCEPT ![t] = "idle"]
      /\ UNCHANGED <<old, popped, empties>>
  BY <1>0, CountSame DEF Count!Push, Count!Calls, Count!Operation, Count!Return, Count!Goto, Done
<1>2. n \in 1 .. Len(nodes) + 1 /\ n \notin Alive /\ Len(nodes) \in Nat
  BY <1>0, CountHeldFacts, AddressIsFree
<1>3. node \in CountNode /\ node.data = Head(todo[t]) /\ node.data # NoData /\ node.next = head
  BY <1>1, ThreadsAssumption DEF CInv, CType, CountNode
<1>4. head'.ptr = n
  BY <1>1
<1> HIDE DEF node
<1>5. nodes' \in Seq(CountNode)
  <2>1. nodes \in Seq(CountNode)
    BY CountHeldFacts
  <2>2. Place(n, node) \in Seq(CountNode)
    BY <1>2, <1>3, <2>1, Placed, Zenon
  <2> QED
    BY <1>1, <2>2
<1>6. /\ DOMAIN nodes' = DOMAIN nodes \cup {n} /\ nodes'[n] = node
      /\ \A m \in DOMAIN nodes : m # n => nodes'[m] = nodes[m]
  BY <1>1 DEF Place
<1>7. COrder' = <<n>> \o COrder
  <2> DEFINE succ == NextOf(nodes)
             succ2 == NextOf(nodes')
  <2>1. DOMAIN succ = 1 .. Len(nodes) /\ Len(nodes) \in Nat /\ IsChain(CIn, head.ptr, succ)
        /\ CIn \subseteq DOMAIN nodes /\ n \notin CIn
    BY <1>2, CountHeldFacts
  <2>2. DOMAIN succ2 = 1 .. Len(nodes') /\ Len(nodes') \in Nat /\ DOMAIN succ2 = DOMAIN nodes'
    BY <1>5 DEF NextOf
  <2>3. CIn \subseteq 1 .. Len(nodes') /\ n \in 1 .. Len(nodes')
    BY <1>6, <2>1, <2>2
  <2>4. succ2[n] = head.ptr /\ \A m \in CIn : succ2[m] = succ[m]
    BY <1>3, <1>6, <2>1 DEF NextOf
  <2> HIDE DEF succ, succ2
  <2>5. ListFrom(n, succ2) = <<n>> \o ListFrom(head.ptr, succ)
    BY <2>1, <2>2, <2>3, <2>4, ListPushed
  <2> QED
    BY <1>4, <2>5 DEF COrder, succ, succ2
<1>8. CTaking' = CTaking /\ PopsOk'
  <2>1. CTaking' = CTaking
    BY <1>1, CountHeldFacts DEF CTaking
  <2> QED
    BY <1>1, <2>1, CountHeldFacts, PopsMoved
<1>9. Held(nodes, popped, todo, StackProgram, COrder, CTaking)
  BY CountHeldFacts
<1>10. Stored(nodes, nodes', n, Head(todo[t]))
  <2>1. Full(nodes) \subseteq Alive
    BY CountHeldFacts DEF Held
  <2> QED
    BY <1>1, <1>2, <1>3, <2>1, StoredNew
<1>11. Held(nodes', popped, Done(todo, t), StackProgram, <<n>> \o COrder, CTaking)
  BY <1>1, <1>9, <1>10, StackPush
<1>12. Change(FALSE, Values(COrder, nodes), OutOf(CTaking, popped, nodes), empties,
              Values(<<n>> \o COrder, nodes'), OutOf(CTaking, popped, nodes'), empties)
  BY <1>1, <1>9, <1>10, <1>11, StackPush
<1> QED
  BY <1>1, <1>7, <1>8, <1>11, <1>12 DEF CountHeld, CountChange

LEMMA CountHeldExchange ==
    ASSUME CInv, CountHeld, NEW t \in Threads, Count!PopExchange(t), head = old[t]
    PROVE  CountHeld' /\ CountChange
<1>1. /\ pc[t] = "exchange" /\ head' = nodes[head.ptr].next /\ pc' = [pc EXCEPT ![t] = "take"]
      /\ UNCHANGED <<nodes, todo, old, popped, empties>>
  BY DEF Count!PopExchange, Count!Goto
<1>2. head.ptr # Null
  BY <1>1, CountFacts DEF CInv, CPlaces
<1>3. COrder # <<>> /\ COrder[1] = head.ptr /\ COrder' = Tail(COrder)
  BY <1>1, <1>2, CountHeldFacts, CountOrderPopped
<1>4. CTaking' = CTaking \cup {COrder[1]}
  BY <1>1, <1>3, CountHeldFacts DEF CTaking
<1>5. PopsOk'
  <2>1. todo[t] # <<>> /\ Head(todo[t]) = Pop
    BY <1>1, CountHeldFacts DEF PopsOk
  <2> QED
    BY <1>1, <2>1, CountHeldFacts, PopsMoved
<1>6. Held(nodes, popped, todo, StackProgram, COrder, CTaking)
  BY CountHeldFacts
<1>7. Held(nodes, popped, todo, StackProgram, Tail(COrder), CTaking \cup {COrder[1]})
  BY <1>3, <1>6, StackTake
<1>8. Change(FALSE, Values(COrder, nodes), OutOf(CTaking, popped, nodes), empties,
             Values(Tail(COrder), nodes), OutOf(CTaking \cup {COrder[1]}, popped, nodes), empties)
  BY <1>3, <1>6, <1>7, StackTake
<1> QED
  BY <1>1, <1>3, <1>4, <1>5, <1>7, <1>8 DEF CountHeld, CountChange

(* What the counts of a node do to its data. *)
LEMMA AddedData ==
    ASSUME nodes \in Seq(CountNode), NEW n \in DOMAIN nodes, NEW k \in Int
    PROVE  /\ nodes' = Count!Add(n, nodes[n], k) =>
                 \A m \in DOMAIN nodes : nodes'[m].data = nodes[m].data
           /\ nodes' = Count!Add(n, [nodes[n] EXCEPT !.data = NoData], k) =>
                 /\ nodes'[n].data = NoData
                 /\ \A m \in DOMAIN nodes : m # n => nodes'[m].data = nodes[m].data
<1>1. nodes[n] \in CountNode
  OBVIOUS
<1>2. ASSUME NEW node \in CountNode, nodes' = Count!Add(n, node, k)
      PROVE  nodes'[n].data = node.data /\ \A m \in DOMAIN nodes : m # n => nodes'[m] = nodes[m]
  <2>1. nodes'[n] = [node EXCEPT !.internal = @ + k, !.alive = node.internal + k # 0]
    BY <1>2 DEF Count!Add
  <2>2. [node EXCEPT !.internal = @ + k, !.alive = node.internal + k # 0].data = node.data
    BY <1>2 DEF CountNode
  <2> QED
    BY <1>2, <2>1, <2>2 DEF Count!Add
<1>3. [nodes[n] EXCEPT !.data = NoData] \in CountNode /\ [nodes[n] EXCEPT !.data = NoData].data = NoData
  BY <1>1 DEF CountNode
<1> QED
  BY <1>1, <1>2, <1>3

(* A pop counts itself, fails, or has finished with a node: the stack and   *)
(* the data are as they were.                                               *)
LEMMA CountHeldStays ==
    ASSUME CInv, CountHeld, NEW t \in Threads,
           \/ Count!PopCount(t) \/ Count!PopRelease(t)
           \/ Count!PopExchange(t) /\ head # old[t]
    PROVE  CountHeld' /\ CountChange
<1>1. popped' = popped /\ head'.ptr = head.ptr
  BY DEF Count!PopCount, Count!PopRelease, Count!PopExchange, CInv, CType, CountedPtr
<1>2. /\ nodes' \in Seq(CountNode) /\ DOMAIN nodes' = DOMAIN nodes
      /\ \A m \in DOMAIN nodes : nodes'[m].data = nodes[m].data /\ nodes'[m].next = nodes[m].next
  <2>1. CASE nodes' = nodes
    BY <2>1, CountHeldFacts
  <2>2. CASE Count!PopRelease(t)
    <3>1. PICK h : h = old[t].ptr
      OBVIOUS
    <3>2. pc[t] = "release" /\ nodes' = Count!Add(h, nodes[h], -1)
      BY <2>2, <3>1 DEF Count!PopRelease
    <3>3. h \in DOMAIN nodes /\ nodes \in Seq(CountNode) /\ -1 \in Int
      <4>1. h \in Alive
        BY <3>1, <3>2 DEF CInv, CPlaces
      <4> QED
        BY <4>1, CountHeldFacts
    <3>4. /\ nodes' \in Seq(CountNode) /\ DOMAIN nodes' = DOMAIN nodes
          /\ \A m \in DOMAIN nodes : m # h => nodes'[m] = nodes[m]
          /\ nodes'[h].next = nodes[h].next
      BY <3>2, <3>3, CountAdded
    <3>5. \A m \in DOMAIN nodes : nodes'[m].data = nodes[m].data
      BY <3>2, <3>3, AddedData
    <3> QED
      BY <3>4, <3>5
  <2> QED
    BY <2>1, <2>2 DEF Count!PopCount, Count!PopExchange
<1>3. COrder' = COrder
  BY <1>1, <1>2, CountHeldFacts, CountOrderStays
<1>4. pc[t] # "take" /\ \E place :
          /\ pc' = [pc EXCEPT ![t] = place] /\ place # "take"
          /\ todo[t] # <<>> /\ Head(todo[t]) = Pop
          /\ \/ place # "idle" /\ todo' = todo
             \/ place = "idle" /\ todo' = Done(todo, t)
  <2>1. pc[t] # "idle" => todo[t] # <<>> /\ Head(todo[t]) = Pop
    BY CountHeldFacts DEF PopsOk
  <2> QED
    BY <2>1 DEF Count!PopCount, Count!PopRelease, Count!PopExchange, Count!Calls, Count!Operation,
       Count!Return, Count!Goto, Count!Null, Null, Done
<1>5. PopsOk'
  BY <1>4, CountHeldFacts, PopsMoved
<1>6. CTaking' = CTaking
  <2>1. old \in [Threads -> CountedPtr]
    BY DEF CInv, CType
  <2>2. \A u \in Threads : u # t => old'[u] = old[u]
    BY <2>1 DEF Count!PopCount, Count!PopRelease, Count!PopExchange
  <2> QED
    BY <1>4, <2>2, CountHeldFacts DEF CTaking
<1>7. empties' = empties \/ (COrder = <<>> /\ empties' = empties + 1)
  BY CountHeldFacts DEF Count!PopCount, Count!PopRelease, Count!PopExchange, Count!Null, Null
<1>8. Held(nodes, popped, todo, StackProgram, COrder, CTaking) /\ SameData(nodes, nodes')
  BY <1>2, CountHeldFacts, DataFacts
<1>9. Held(nodes', popped, todo, StackProgram, COrder, CTaking)
  BY <1>8, HeldSame
<1>10. Held(nodes', popped, todo', StackProgram, COrder, CTaking)
  <2>1. CASE todo' = todo
    BY <1>9, <2>1
  <2>2. CASE todo' = Done(todo, t)
    <3>1. todo[t] # <<>> /\ Head(todo[t]) \notin Value
      BY <1>4, ThreadsAssumption
    <3> QED
      BY <1>9, <2>2, <3>1, HeldReturn
  <2> QED
    BY <1>4, <2>1, <2>2
<1>11. Values(COrder, nodes') = Values(COrder, nodes) /\ OutOf(CTaking, popped, nodes') = OutOf(CTaking, popped, nodes)
  BY <1>8, SameValues DEF Held, SameData, OutOf
<1>12. COrder = <<>> => Values(COrder, nodes) = <<>>
  BY DEF Values
<1>13. CountChange
  BY <1>1, <1>3, <1>6, <1>7, <1>11, <1>12, Zenon DEF CountChange, Change
<1> QED
  BY <1>1, <1>3, <1>5, <1>6, <1>10, <1>13 DEF CountHeld

LEMMA CountHeldTake ==
    ASSUME CInv, CountHeld, NEW t \in Threads, Count!PopTake(t)
    PROVE  CountHeld' /\ CountChange
<1>1. PICK h : h = old[t].ptr
  OBVIOUS
<1> DEFINE r == [by |-> t, nth |-> Len(todo[t]), val |-> nodes[h].data]
<1>2. /\ pc[t] = "take" /\ pc' = [pc EXCEPT ![t] = "idle"] /\ todo' = Done(todo, t)
      /\ nodes' = Count!Add(h, [nodes[h] EXCEPT !.data = NoData], old[t].ext - 2)
      /\ popped' = popped \cup {r} /\ r.val = nodes[h].data
      /\ UNCHANGED <<head, old, empties>>
  BY <1>1, CountSame DEF Count!PopTake, Count!Return, Count!Goto, Count!Result, Done
<1> HIDE DEF r
<1>3. h \in CTaking /\ h \in DOMAIN nodes /\ h \notin CIn
  BY <1>1, <1>2, CountFacts DEF CInv, CPlaces, CTaking
<1>4. /\ nodes' \in Seq(CountNode) /\ DOMAIN nodes' = DOMAIN nodes
      /\ \A m \in DOMAIN nodes : m # h => nodes'[m] = nodes[m]
      /\ nodes'[h].data = NoData
  <2>1. nodes \in Seq(CountNode) /\ old[t].ext - 2 \in Int
    BY DEF CInv, CType, CountedPtr
  <2>2. /\ nodes' \in Seq(CountNode) /\ DOMAIN nodes' = DOMAIN nodes
        /\ \A m \in DOMAIN nodes : m # h => nodes'[m] = nodes[m]
    BY <1>2, <1>3, <2>1, CountAdded
  <2> QED
    BY <1>2, <1>3, <2>1, <2>2, AddedData
<1>5. COrder' = COrder
  BY <1>2, <1>3, <1>4, CountHeldFacts, CountOrderStays
<1>6. CTaking' = CTaking \ {h}
  <2>1. \A u \in Threads : pc[u] = "take" /\ u # t => old[u].ptr # h
    BY <1>1, <1>2 DEF CInv, CPlaces
  <2> QED
    BY <1>1, <1>2, <2>1, CountHeldFacts DEF CTaking
<1>7. todo[t] # <<>> /\ Head(todo[t]) \notin Value
  BY <1>2, CountHeldFacts, ThreadsAssumption DEF PopsOk
<1>8. PopsOk'
  BY <1>2, CountHeldFacts, PopsMoved
<1>9. Held(nodes, popped, todo, StackProgram, COrder, CTaking) /\ Emptied(nodes, nodes', h)
  BY <1>3, <1>4, CountHeldFacts, DataFacts
<1>10. Held(nodes', popped \cup {r}, todo, StackProgram, COrder, CTaking \ {h})
  BY <1>2, <1>3, <1>9, StackOut
<1>11. Change(FALSE, Values(COrder, nodes), OutOf(CTaking, popped, nodes), empties,
              Values(COrder, nodes'), OutOf(CTaking \ {h}, popped \cup {r}, nodes'), empties)
  BY <1>2, <1>3, <1>9, <1>10, StackOut
<1>12. Held(nodes', popped \cup {r}, Done(todo, t), StackProgram, COrder, CTaking \ {h})
  BY <1>7, <1>10, HeldReturn
<1> QED
  BY <1>2, <1>5, <1>6, <1>8, <1>11, <1>12 DEF CountHeld, CountChange

LEMMA CountHeldDestroy ==
    ASSUME CInv, CountHeld, Count!Destroy
    PROVE  CountHeld' /\ CountChange
<1>1. PICK h : h = head.ptr
  OBVIOUS
<1> DEFINE r == [by |-> "destructor", nth |-> h, val |-> nodes[h].data]
<1>2. /\ h # Null /\ head' = nodes[h].next /\ UNCHANGED <<pc, todo, old, empties>>
      /\ nodes' = Count!Add(h, [nodes[h] EXCEPT !.data = NoData], head.ext + 1 - 2)
      /\ popped' = popped \cup {r} /\ r.val = nodes[h].data
  BY <1>1, CountSame DEF Count!Destroy
<1> HIDE DEF r
<1>3. h \in DOMAIN nodes
  BY <1>1, <1>2, CountFacts
<1>4. /\ nodes' \in Seq(CountNode) /\ DOMAIN nodes' = DOMAIN nodes
      /\ \A m \in DOMAIN nodes : m # h => nodes'[m] = nodes[m]
      /\ nodes'[h].next = nodes[h].next /\ nodes'[h].data = NoData
  <2>1. nodes \in Seq(CountNode) /\ head.ext + 1 - 2 \in Int
    BY DEF CInv, CType, CountedPtr
  <2>2. /\ nodes' \in Seq(CountNode) /\ DOMAIN nodes' = DOMAIN nodes
        /\ \A m \in DOMAIN nodes : m # h => nodes'[m] = nodes[m]
        /\ nodes'[h].next = nodes[h].next
    BY <1>2, <1>3, <2>1, CountAdded
  <2> QED
    BY <1>2, <1>3, <2>1, <2>2, AddedData
<1>5. COrder # <<>> /\ COrder[1] = h /\ COrder' = Tail(COrder)
  <2>1. \A m \in DOMAIN nodes : nodes'[m].next = nodes[m].next
    BY <1>4
  <2> QED
    BY <1>1, <1>2, <1>4, <2>1, CountOrderPopped
<1>6. CTaking' = CTaking /\ PopsOk'
  BY <1>2, CountHeldFacts DEF CTaking, PopsOk
<1>7. Held(nodes, popped, todo, StackProgram, COrder, CTaking) /\ Emptied(nodes, nodes', COrder[1])
  BY <1>3, <1>4, <1>5, CountHeldFacts, DataFacts
<1>8. r.val = nodes[COrder[1]].data
  BY <1>2, <1>5
<1>9. Held(nodes', popped \cup {r}, todo, StackProgram, Tail(COrder), CTaking)
  BY <1>5, <1>7, <1>8, StackTakeOut
<1>10. Change(FALSE, Values(COrder, nodes), OutOf(CTaking, popped, nodes), empties,
              Values(Tail(COrder), nodes'), OutOf(CTaking, popped \cup {r}, nodes'), empties)
  BY <1>5, <1>7, <1>8, <1>9, StackTakeOut
<1> QED
  BY <1>2, <1>5, <1>6, <1>9, <1>10 DEF CountHeld, CountChange

LEMMA CountHeldStep ==
    ASSUME CInv, CountHeld, (\E t \in Threads : Count!Step(t)) \/ Count!Destroy
    PROVE  CountHeld' /\ CountChange
BY CountHeldPush, CountHeldStays, CountHeldExchange, CountHeldTake, CountHeldDestroy DEF Count!Step

LEMMA CountHeldInit == Count!Init => CountHeld
<1> SUFFICES ASSUME Count!Init PROVE CountHeld
  OBVIOUS
<1>1. /\ nodes = <<>> /\ head.ptr = Null /\ popped = {} /\ todo = StackProgram
      /\ \A t \in Threads : pc[t] = "idle"
  BY DEF Count!Init, Count!ThreadsInit, Count!NoNode, Count!Null, Null
<1>2. CTaking = {} /\ Full(nodes) = {}
  BY <1>1 DEF CTaking, Full
<1>3. COrder = <<>>
  <2>1. IsChain({}, Null, NextOf(nodes))
    BY ChainEmpty
  <2>2. DOMAIN NextOf(nodes) = 1 .. 0
    BY <1>1 DEF NextOf
  <2>3. 0 \in Nat
    OBVIOUS
  <2> QED
    BY <1>1, <2>1, <2>2, <2>3, ListNodes DEF COrder
<1>4. RestOk(todo, StackProgram) /\ Brought(todo, StackProgram) = {}
  BY <1>1, RestInit, ProgramsAssumption, OnceAssumption
<1>5. <<>> \in Seq({}) /\ Elements(<<>>) = {} /\ Distinct(<<>>)
  BY DEF Elements, Distinct
<1>6. Once(nodes, popped, todo, StackProgram)
  BY <1>1, <1>2, <1>4 DEF Once
<1> QED
  BY <1>1, <1>2, <1>3, <1>5, <1>6 DEF CountHeld, PopsOk, Held

-----------------------------------------------------------------------------
(* The queues: the nodes of the list from first to last, and those before   *)
(* last; the list may go on for one node more.                              *)
Cut(last, succ) == [n \in DOMAIN succ |-> IF n = last THEN Null ELSE succ[n]]
UpTo(first, last, succ) == ListFrom(first, Cut(last, succ))
Before(first, last, succ) == Front(UpTo(first, last, succ))

Lined(S, first, last, succ) ==
    /\ IsChain(S, first, succ) /\ last \in S
    /\ succ[last] # Null => succ[succ[last]] = Null

(* W is what L starts with. *)
Starts(W, L) == \A i \in 1 .. Len(W) : i \in DOMAIN L /\ L[i] = W[i]

(* The line as far as its last node e. *)
Line(U, f, e, succ) == U # <<>> /\ U[Len(U)] = e /\ Starts(U, ListFrom(f, succ))

LEMMA UpToSorted ==
    ASSUME NEW N \in Nat, NEW succ, DOMAIN succ = 1 .. N, NEW S, NEW f, NEW e, Lined(S, f, e, succ)
    PROVE  /\ Sorted(UpTo(f, e, succ), S \ {succ[e]}, f, Cut(e, succ))
           /\ UpTo(f, e, succ) # <<>> /\ UpTo(f, e, succ)[Len(UpTo(f, e, succ))] = e
           /\ Line(UpTo(f, e, succ), f, e, succ)
<1> USE DEF Line, Starts
<1> DEFINE L == ListFrom(f, succ)
           cut == Cut(e, succ)
           W == UpTo(f, e, succ)
<1>1. IsChain(S, f, succ) /\ e \in S /\ Sorted(L, S, f, succ) /\ Null \notin S /\ S \subseteq DOMAIN succ
  BY ListSorted, ChainFacts DEF Lined
<1>2. /\ DOMAIN cut = 1 .. N /\ cut[e] = Null
      /\ \A m \in S : m # e => cut[m] = succ[m]
  BY <1>1 DEF Cut
<1>3. W = ListFrom(f, cut)
  BY DEF UpTo
<1> HIDE DEF L, cut, W
<1>4. CASE succ[e] = Null
  <2>1. S \ {succ[e]} = S
    BY <1>1, <1>4
  <2>2. \A m \in S : cut[m] = succ[m]
    BY <1>2, <1>4
  <2>3. Sorted(L, S, f, cut)
    BY <1>1, <2>2, SortedSame
  <2>4. W = L
    BY <1>1, <1>2, <1>3, <2>3, SortedIs
  <2>5. L \in Seq(S) /\ L # <<>>
    <3>1. L \in Seq(S) /\ Elements(L) = S
      BY <1>1 DEF Sorted
    <3> QED
      BY <1>1, <3>1 DEF Elements
  <2>6. L[Len(L)] = e
    <3>1. succ[L[Len(L)]] = Null /\ L[Len(L)] \in S
      BY <1>1, <2>5 DEF Sorted
    <3> QED
      BY <1>1, <1>4, <3>1, ChainFacts
  <2>7. \A i \in 1 .. Len(L) : i \in DOMAIN L
    BY <2>5
  <2> QED
    BY <2>1, <2>3, <2>4, <2>5, <2>6, <2>7 DEF L, W, cut
<1>5. CASE succ[e] # Null
  <2>1. PICK last : last = succ[e]
    OBVIOUS
  <2>2. last \in S /\ succ[last] = Null
    BY <1>1, <1>5, <2>1, ChainFacts DEF Lined
  <2>3. \A m \in S : m # e /\ m # last => cut[m] = succ[m]
    BY <1>2
  <2>4. /\ L # <<>> /\ L[Len(L)] = last
        /\ Sorted(Front(L), S \ {last}, f, cut) /\ Front(L) # <<>>
        /\ Front(L)[Len(Front(L))] = e
    <3>1. Sorted(L, S, f, succ) /\ Null \notin S
      BY <1>1
    <3>2. Shortened(S, e, last, succ, cut)
      BY <1>1, <1>2, <2>1, <2>2, <2>3 DEF Shortened
    <3> QED
      BY <3>1, <3>2, SortedCut
  <2>5. S \ {last} \subseteq DOMAIN cut
    BY <1>1, <1>2
  <2>6. W = Front(L)
    BY <1>2, <1>3, <2>4, <2>5, SortedIs
  <2>7. L \in Seq(S)
    BY <1>1 DEF Sorted
  <2>8. Len(Front(L)) = Len(L) - 1 /\ \A i \in 1 .. Len(L) - 1 : Front(L)[i] = L[i]
    BY <2>4, <2>7, FrontFacts
  <2>9. Starts(W, L)
    BY <2>6, <2>7, <2>8
  <2> QED
    BY <2>1, <2>4, <2>6, <2>9 DEF L, W, cut
<1> QED
  BY <1>4, <1>5

LEMMA BeforeFacts ==
    ASSUME NEW N \in Nat, NEW succ, DOMAIN succ = 1 .. N, NEW S, NEW f, NEW e, Lined(S, f, e, succ)
    PROVE  /\ Before(f, e, succ) \in Seq(S) /\ Distinct(Before(f, e, succ))
           /\ Elements(Before(f, e, succ)) = (S \ {succ[e]}) \ {e}
           /\ f = e => Before(f, e, succ) = <<>>
           /\ f # e => Before(f, e, succ) # <<>> /\ Before(f, e, succ)[1] = f
<1> DEFINE W == UpTo(f, e, succ)
           C == S \ {succ[e]}
<1>0. Sorted(W, C, f, Cut(e, succ))
  BY UpToSorted
<1>1. /\ Sorted(W, C, f, Cut(e, succ)) /\ W # <<>> /\ W[Len(W)] = e
  BY <1>0, UpToSorted
<1>2. Before(f, e, succ) = Front(W)
  BY DEF Before
<1>3. f # Null
  <2>1. IsChain(S, f, succ) /\ e \in S
    BY DEF Lined
  <2> QED
    BY <2>1, ChainFacts
<1> HIDE DEF W
<1>4. W \in Seq(C) /\ Elements(W) = C /\ Distinct(W) /\ W[1] = f
  BY <1>1 DEF Sorted
<1>5. /\ Front(W) \in Seq(C) /\ Len(Front(W)) = Len(W) - 1
      /\ \A i \in 1 .. Len(W) - 1 : Front(W)[i] = W[i]
      /\ Distinct(Front(W)) /\ Elements(Front(W)) = C \ {e}
  BY <1>1, <1>4, FrontFacts
<1>6. Len(W) \in Nat /\ Len(W) >= 1 /\ (\A i, j \in 1 .. Len(W) : W[i] = W[j] => i = j)
  BY <1>1, <1>4 DEF Distinct
<1>7. f = e => Len(W) = 1
  <2>1. 1 \in 1 .. Len(W) /\ Len(W) \in 1 .. Len(W)
    BY <1>6
  <2> QED
    BY <1>1, <1>4, <1>6, <2>1
<1>8. f # e => Len(W) # 1
  BY <1>1, <1>4
<1>9. Front(W) \in Seq(S)
  <2>1. \A i \in 1 .. Len(Front(W)) : Front(W)[i] \in S
    BY <1>5
  <2> QED
    BY <1>5, <2>1
<1> DEFINE Q == Front(W)
<1>10. /\ Q \in Seq(C) /\ Len(Q) = Len(W) - 1 /\ \A i \in 1 .. Len(W) - 1 : Q[i] = W[i]
  BY <1>5
<1> HIDE DEF Q
<1>11. (f = e => Q = <<>>) /\ (f # e => Q # <<>> /\ Q[1] = f)
  BY <1>4, <1>6, <1>7, <1>8, <1>10
<1> QED
  BY <1>2, <1>5, <1>9, <1>11 DEF Q

(* The nodes before last stay the same ... *)
LEMMA BeforeSame ==
    ASSUME NEW N \in Nat, NEW succ, DOMAIN succ = 1 .. N, NEW S, NEW f, NEW e, Lined(S, f, e, succ),
           NEW N2 \in Nat, NEW succ2, DOMAIN succ2 = 1 .. N2,
           \A m \in S : m # succ[e] => m \in DOMAIN succ2 /\ (m # e => succ2[m] = succ[m])
    PROVE  Before(f, e, succ2) = Before(f, e, succ)
<1> DEFINE W == UpTo(f, e, succ)
           C == S \ {succ[e]}
           cut == Cut(e, succ)
           cut2 == Cut(e, succ2)
<1>1. Sorted(W, C, f, cut)
  BY UpToSorted
<1>2. S \subseteq DOMAIN succ
  BY ChainFacts DEF Lined
<1>3. DOMAIN cut2 = 1 .. N2 /\ C \subseteq DOMAIN cut2 /\ \A m \in C : cut2[m] = cut[m]
  BY <1>2 DEF Cut
<1> HIDE DEF W, C, cut, cut2
<1>4. Sorted(W, C, f, cut2)
  BY <1>1, <1>3, SortedSame
<1>5. ListFrom(f, cut2) = W
  BY <1>3, <1>4, SortedIs
<1> QED
  BY <1>5 DEF Before, UpTo, W, cut2

(* ... one is added when last moves on ... *)
LEMMA BeforeAdded ==
    ASSUME NEW N \in Nat, NEW succ, DOMAIN succ = 1 .. N, NEW S, NEW f, NEW e, Lined(S, f, e, succ),
           succ[e] # Null
    PROVE  Before(f, succ[e], succ) = Append(Before(f, e, succ), e)
<1> DEFINE W == UpTo(f, e, succ)
           C == S \ {succ[e]}
           n == succ[e]
           cut == Cut(e, succ)
           cut2 == Cut(n, succ)
           M == Append(W, n)
<1>0. Sorted(W, C, f, cut)
  BY UpToSorted
<1>1. Sorted(W, C, f, cut) /\ W # <<>> /\ W[Len(W)] = e
  BY <1>0, UpToSorted
<1>2. S \subseteq DOMAIN succ /\ n \in S /\ succ[n] = Null /\ e \in S /\ n # e
  BY ChainFacts DEF Lined
<1>3. /\ DOMAIN cut2 = 1 .. N /\ S \subseteq DOMAIN cut2 /\ cut2[e] = n /\ cut2[n] = Null /\ n \notin C
      /\ C \cup {n} = S
      /\ \A m \in C : m # e => cut2[m] = cut[m]
  BY <1>2 DEF Cut
<1>4. Before(f, e, succ) = Front(W) /\ Before(f, n, succ) = Front(ListFrom(f, cut2))
  BY DEF Before, UpTo
<1> HIDE DEF W, C, n, cut, cut2
<1>5. Sorted(M, C \cup {n}, f, cut2)
  BY <1>1, <1>3, SortedAppend
<1>6. ListFrom(f, cut2) = M
  BY <1>3, <1>5, SortedIs
<1>7. W \in Seq(C)
  BY <1>1 DEF Sorted
<1>8. Front(M) = W
  <2>1. W \in Seq(C \cup {n})
    BY <1>7
  <2> QED
    BY <2>1 DEF Front
<1>9. W = Append(Front(W), e)
  BY <1>1, <1>7 DEF Front
<1> QED
  BY <1>4, <1>6, <1>8, <1>9 DEF n

(* ... the first goes when first moves on ... *)
LEMMA BeforeTaken ==
    ASSUME NEW N \in Nat, NEW succ, DOMAIN succ = 1 .. N, NEW S, NEW f, NEW e, Lined(S, f, e, succ),
           f # e
    PROVE  Before(succ[f], e, succ) = Tail(Before(f, e, succ)) /\ Lined(S \ {f}, succ[f], e, succ)
<1> DEFINE W == UpTo(f, e, succ)
           C == S \ {succ[e]}
           cut == Cut(e, succ)
<1>0. Sorted(W, C, f, cut)
  BY UpToSorted
<1>1. Sorted(W, C, f, cut) /\ W # <<>> /\ W[Len(W)] = e
  BY <1>0, UpToSorted
<1>2. /\ S \subseteq DOMAIN succ /\ Null \notin S /\ f \in S /\ f # Null /\ IsChain(S \ {f}, succ[f], succ)
      /\ e \in S
  <2>1. IsChain(S, f, succ) /\ e \in S
    BY DEF Lined
  <2>2. f # Null
    BY <2>1, ChainFacts
  <2> QED
    BY <2>1, <2>2, ChainFacts, ChainPop
<1>3. Lined(S \ {f}, succ[f], e, succ)
  BY <1>2 DEF Lined
<1>4. cut[f] = succ[f] /\ DOMAIN cut = 1 .. N /\ Null \notin C /\ C \ {f} \subseteq DOMAIN cut
  BY <1>2 DEF Cut
<1>5. Before(f, e, succ) = Front(W) /\ Before(succ[f], e, succ) = Front(ListFrom(succ[f], cut))
  BY DEF Before, UpTo
<1> HIDE DEF W, C, cut
<1>6. W[1] = f /\ Sorted(Tail(W), C \ {f}, cut[f], cut)
  BY <1>1, <1>2, <1>4, SortedPop
<1>7. ListFrom(succ[f], cut) = Tail(W)
  BY <1>4, <1>6, SortedIs
<1>8. W \in Seq(C)
  BY <1>1 DEF Sorted
<1>9. Front(Tail(W)) = Tail(Front(W))
  <2>1. PICK k \in Nat : k = Len(W) /\ k # 0 /\ k # 1
    BY <1>1, <1>6, <1>8
  <2>2. Len(W) \in Nat /\ Len(W) >= 2
    BY <2>1
  <2> DEFINE r == Tail(W)
  <2>3. r \in Seq(C) /\ Len(r) = Len(W) - 1 /\ \A i \in 1 .. Len(W) - 1 : r[i] = W[i + 1]
    BY <1>8, <2>2
  <2> HIDE DEF r
  <2>4. r # <<>>
    BY <2>2, <2>3
  <2> DEFINE a == Front(r)
             b == Front(W)
             c == Tail(b)
  <2>5. a \in Seq(C) /\ Len(a) = Len(W) - 2 /\ \A i \in 1 .. Len(W) - 2 : a[i] = W[i + 1]
    <3>1. /\ a \in Seq(C) /\ Len(a) = Len(r) - 1
          /\ \A i \in 1 .. Len(r) - 1 : a[i] = r[i]
      BY <2>3, <2>4, FrontFacts
    <3> HIDE DEF a
    <3>2. Len(a) = Len(W) - 2
      BY <2>2, <2>3, <3>1
    <3>3. ASSUME NEW i \in 1 .. Len(W) - 2 PROVE a[i] = W[i + 1]
      <4>1. i \in 1 .. Len(r) - 1 /\ i \in 1 .. Len(W) - 1
        BY <2>2, <2>3
      <4>2. a[i] = r[i] /\ r[i] = W[i + 1]
        BY <2>3, <3>1, <4>1
      <4> QED
        BY <4>2
    <3> QED
      BY <3>1, <3>2, <3>3
  <2>6. b \in Seq(C) /\ Len(b) = Len(W) - 1 /\ \A i \in 1 .. Len(W) - 1 : b[i] = W[i]
    BY <1>1, <1>8, FrontFacts
  <2> HIDE DEF a, b
  <2>7. c \in Seq(C) /\ Len(c) = Len(W) - 2 /\ \A i \in 1 .. Len(W) - 2 : c[i] = W[i + 1]
    BY <2>2, <2>6
  <2> HIDE DEF c
  <2>8. a = c
    <3>1. Len(a) = Len(c) /\ \A i \in 1 .. Len(a) : a[i] = c[i]
      BY <2>2, <2>5, <2>7
    <3> QED
      BY <2>5, <2>7, <3>1
  <2> QED
    BY <2>8 DEF a, b, c, r
<1> QED
  BY <1>3, <1>5, <1>7, <1>9

(* ... and the last goes when last moves back. *)
LEMMA BeforeCut ==
    ASSUME NEW N \in Nat, NEW succ, DOMAIN succ = 1 .. N, NEW S, NEW f, NEW e, Lined(S, f, e, succ),
           succ[e] = Null, NEW p \in S, succ[p] = e,
           NEW N2 \in Nat, NEW succ2, DOMAIN succ2 = 1 .. N2, succ2[p] = Null,
           \A m \in S : m \in DOMAIN succ2 /\ (m # p /\ m # e => succ2[m] = succ[m])
    PROVE  /\ Before(f, e, succ) # <<>> /\ Before(f, e, succ)[Len(Before(f, e, succ))] = p
           /\ Before(f, p, succ2) = Front(Before(f, e, succ))
<1> DEFINE W == UpTo(f, e, succ)
           cut == Cut(e, succ)
           cut2 == Cut(p, succ2)
<1>1. /\ S \subseteq DOMAIN succ /\ Null \notin S /\ e \in S /\ p # e
  BY ChainFacts DEF Lined
<1>2. Sorted(W, S, f, cut)
  <2>1. S \ {succ[e]} = S
    BY <1>1
  <2> QED
    BY <2>1, UpToSorted
<1>3. /\ cut[e] = Null /\ cut[p] = e /\ DOMAIN cut2 = 1 .. N2 /\ cut2[p] = Null
      /\ \A m \in S : m # p /\ m # e => cut2[m] = cut[m]
      /\ S \ {e} \subseteq DOMAIN cut2
  BY <1>1 DEF Cut
<1>4. Before(f, e, succ) = Front(W) /\ Before(f, p, succ2) = Front(ListFrom(f, cut2))
  BY DEF Before, UpTo
<1> HIDE DEF W, cut, cut2
<1>5. Sorted(Front(W), S \ {e}, f, cut2) /\ Front(W) # <<>> /\ Front(W)[Len(Front(W))] = p
  <2>1. Shortened(S, p, e, cut, cut2)
    BY <1>1, <1>3 DEF Shortened
  <2> QED
    BY <1>1, <1>2, <2>1, SortedCut
<1>6. ListFrom(f, cut2) = Front(W)
  BY <1>3, <1>5, SortedIs
<1> QED
  BY <1>4, <1>5, <1>6

(* What the operations on a queue do.  The list moves on over a node that   *)
(* has its data ...                                                         *)
LEMMA LineAdded ==
    ASSUME NEW ns, NEW pop, NEW rest, NEW prog, NEW L, NEW X, Held(ns, pop, rest, prog, L, X),
           NEW n \in X, NEW out, NEW e
    PROVE  /\ Held(ns, pop, rest, prog, Append(L, n), X \ {n})
           /\ Change(TRUE, Values(L, ns), out, e, Values(Append(L, n), ns), out, e)
<1>1. Held(ns, pop, rest, prog, Append(L, n), X \ {n})
  BY HeldLast
<1>2. Values(Append(L, n), ns) = Append(Values(L, ns), ns[n].data) /\ ns[n].data \in Value
  BY <1>1, HeldLast
<1>3. \E v \in Value : Values(Append(L, n), ns) = IF TRUE THEN Append(Values(L, ns), v) ELSE <<v>> \o Values(L, ns)
  BY <1>2, Zenon
<1> QED
  BY <1>1, <1>3, Zenon DEF Change

(* ... the first node is taken ... *)
LEMMA LineTaken ==
    ASSUME NEW ns, NEW pop, NEW rest, NEW prog, NEW L, NEW X, Held(ns, pop, rest, prog, L, X),
           L # <<>>, NEW T \in SUBSET X, NEW e
    PROVE  /\ Held(ns, pop, rest, prog, Tail(L), X \cup {L[1]})
           /\ Change(TRUE, Values(L, ns), OutOf(T, pop, ns), e,
                     Values(Tail(L), ns), OutOf(T \cup {L[1]}, pop, ns), e)
<1>1. Held(ns, pop, rest, prog, Tail(L), X \cup {L[1]})
  BY HeldTaken
<1>2. Leaves(1, Values(L, ns), OutOf(T, pop, ns), Values(Tail(L), ns), OutOf(T \cup {L[1]}, pop, ns))
  BY <1>1, HeldTaken
<1> QED
  BY <1>1, <1>2, Zenon DEF Change

(* ... its data is returned ... *)
LEMMA LineOut ==
    ASSUME NEW ns, NEW pop, NEW rest, NEW prog, NEW L, NEW X, Held(ns, pop, rest, prog, L, X),
           NEW n \in X, NEW r, r.val = ns[n].data, NEW ns2, Emptied(ns, ns2, n),
           NEW T \in SUBSET X, n \in T, NEW e
    PROVE  /\ Held(ns2, pop \cup {r}, rest, prog, L, X \ {n})
           /\ Change(TRUE, Values(L, ns), OutOf(T, pop, ns), e,
                     Values(L, ns2), OutOf(T \ {n}, pop \cup {r}, ns2), e)
<1>1. Held(ns2, pop \cup {r}, rest, prog, L, X \ {n})
  BY HeldOut
<1>2. Values(L, ns2) = Values(L, ns)
  BY <1>1, HeldOut
<1>3. OutOf(T \ {n}, pop \cup {r}, ns2) = OutOf(T, pop, ns)
  BY <1>1, HeldOut
<1> QED
  BY <1>1, <1>2, <1>3, Zenon DEF Change

(* ... the first or the last node is taken and its data returned at once ... *)
LEMMA LineTakeOut ==
    ASSUME NEW ns, NEW pop, NEW rest, NEW prog, NEW L, NEW X, Held(ns, pop, rest, prog, L, X),
           L # <<>>, NEW r, r.val = ns[L[1]].data, NEW ns2, Emptied(ns, ns2, L[1]),
           NEW T \in SUBSET X, NEW e
    PROVE  /\ Held(ns2, pop \cup {r}, rest, prog, Tail(L), X)
           /\ Change(TRUE, Values(L, ns), OutOf(T, pop, ns), e,
                     Values(Tail(L), ns2), OutOf(T, pop \cup {r}, ns2), e)
<1> DEFINE Y == X \cup {L[1]}
           m == L[1]
           M == Tail(L)
           U == T \cup {L[1]}
<1>1. Held(ns, pop, rest, prog, M, Y)
  BY HeldTaken
<1>2. Leaves(1, Values(L, ns), OutOf(T, pop, ns), Values(M, ns), OutOf(U, pop, ns))
  BY <1>1, HeldTaken
<1>3. m \in Y /\ Y \ {m} = X /\ U \in SUBSET Y /\ m \in U /\ U \ {m} = T
  <2>1. L \in Seq(Full(ns)) /\ Elements(L) \cap X = {}
    BY DEF Held
  <2>2. Head(L) \in Elements(L) /\ Head(L) = L[1]
    BY <2>1, TakeFirst
  <2> QED
    BY <2>1, <2>2
<1>4. r.val = ns[m].data /\ Emptied(ns, ns2, m)
  OBVIOUS
<1> HIDE DEF Y, m, M, U
<1>5. Held(ns2, pop \cup {r}, rest, prog, M, Y \ {m})
  BY <1>1, <1>3, <1>4, HeldOut
<1>6. Values(M, ns2) = Values(M, ns)
  BY <1>4, <1>5, SameValues DEF Held, Emptied
<1>7. \A V \in SUBSET Y : m \in V => OutOf(V \ {m}, pop \cup {r}, ns2) = OutOf(V, pop, ns)
  BY <1>1, <1>3, <1>4, <1>5, HeldOut
<1>8. OutOf(T, pop \cup {r}, ns2) = OutOf(U, pop, ns)
  BY <1>3, <1>7
<1>9. Leaves(1, Values(L, ns), OutOf(T, pop, ns), Values(M, ns2), OutOf(T, pop \cup {r}, ns2))
  BY <1>2, <1>6, <1>8, Zenon
<1> QED
  BY <1>3, <1>5, <1>9, Zenon DEF Change, M

LEMMA LineStolen ==
    ASSUME NEW ns, NEW pop, NEW rest, NEW prog, NEW L, NEW X, Held(ns, pop, rest, prog, L, X),
           L # <<>>, NEW m, m = L[Len(L)], NEW r, r.val = ns[m].data, NEW ns2, Emptied(ns, ns2, m),
           NEW T \in SUBSET X, NEW e
    PROVE  /\ Held(ns2, pop \cup {r}, rest, prog, Front(L), X)
           /\ Change(TRUE, Values(L, ns), OutOf(T, pop, ns), e,
                     Values(Front(L), ns2), OutOf(T, pop \cup {r}, ns2), e)
<1> DEFINE Y == X \cup {L[Len(L)]}
           M == Front(L)
           U == T \cup {L[Len(L)]}
<1>1. Held(ns, pop, rest, prog, M, Y)
  BY HeldCut
<1>2. Leaves(Len(Values(L, ns)), Values(L, ns), OutOf(T, pop, ns), Values(M, ns), OutOf(U, pop, ns))
  BY <1>1, HeldCut
<1>3. m \in Y /\ Y \ {m} = X /\ U \in SUBSET Y /\ m \in U /\ U \ {m} = T
  <2>1. L \in Seq(Full(ns)) /\ Elements(L) \cap X = {}
    BY DEF Held
  <2>2. L[Len(L)] \in Elements(L)
    BY <2>1 DEF Elements
  <2> QED
    BY <2>1, <2>2
<1> HIDE DEF Y, M, U
<1>5. Held(ns2, pop \cup {r}, rest, prog, M, Y \ {m})
  BY <1>1, <1>3, HeldOut
<1>6. Values(M, ns2) = Values(M, ns)
  BY <1>5, SameValues DEF Held, Emptied
<1>7. \A V \in SUBSET Y : m \in V => OutOf(V \ {m}, pop \cup {r}, ns2) = OutOf(V, pop, ns)
  BY <1>1, <1>3, <1>5, HeldOut
<1>8. OutOf(T, pop \cup {r}, ns2) = OutOf(U, pop, ns)
  BY <1>3, <1>7
<1>9. Leaves(Len(Values(L, ns)), Values(L, ns), OutOf(T, pop, ns), Values(M, ns2), OutOf(T, pop \cup {r}, ns2))
  BY <1>2, <1>6, <1>8, Zenon
<1> QED
  BY <1>3, <1>5, <1>9, Zenon DEF Change, M

(* ... nothing happens, or the queue is found empty ... *)
LEMMA LineStays ==
    ASSUME NEW ns, NEW pop, NEW rest, NEW prog, NEW L, NEW X, Held(ns, pop, rest, prog, L, X),
           NEW ns2, SameData(ns, ns2), NEW T \in SUBSET X,
           NEW e, NEW e2, e2 = e \/ (L = <<>> /\ e2 = e + 1)
    PROVE  /\ Held(ns2, pop, rest, prog, L, X)
           /\ Change(TRUE, Values(L, ns), OutOf(T, pop, ns), e, Values(L, ns2), OutOf(T, pop, ns2), e2)
<1>1. Held(ns2, pop, rest, prog, L, X)
  BY HeldSame
<1>2. Values(L, ns2) = Values(L, ns)
  BY <1>1, HeldSame
<1>3. OutOf(T, pop, ns2) = OutOf(T, pop, ns)
  BY <1>1, HeldSame
<1>4. L = <<>> => Values(L, ns) = <<>>
  BY DEF Values
<1> QED
  BY <1>1, <1>2, <1>3, <1>4, Zenon DEF Change

(* ... or a push stores its value in a node beyond the list. *)
LEMMA LinePut ==
    ASSUME NEW ns, NEW pop, NEW rest, NEW prog, NEW L, NEW X, Held(ns, pop, rest, prog, L, X),
           NEW t \in Threads, rest[t] # <<>>, Head(rest[t]) \in Value,
           NEW n, NEW ns2, Stored(ns, ns2, n, Head(rest[t])),
           NEW T \in SUBSET X, NEW e
    PROVE  /\ Held(ns2, pop, Done(rest, t), prog, L, X \cup {n})
           /\ Change(TRUE, Values(L, ns), OutOf(T, pop, ns), e, Values(L, ns2), OutOf(T, pop, ns2), e)
<1>1. Held(ns2, pop, Done(rest, t), prog, L, X \cup {n})
  BY HeldPut
<1>2. Values(L, ns2) = Values(L, ns)
  BY SameValues DEF Held, Stored
<1>3. OutOf(T, pop, ns2) = OutOf(T, pop, ns)
  BY DEF OutOf, Held, Stored
<1> QED
  BY <1>1, <1>2, <1>3, Zenon DEF Change

(* A queue without values. *)
LEMMA HeldInit ==
    ASSUME NEW ns, Full(ns) = {}, NEW prog \in [Threads -> Seq(Value \cup Others)], PushedOnce(prog)
    PROVE  Held(ns, {}, prog, prog, <<>>, {})
<1>1. RestOk(prog, prog) /\ Brought(prog, prog) = {}
  BY RestInit
<1>2. <<>> \in Seq({}) /\ Elements(<<>>) = {} /\ Distinct(<<>>)
  BY DEF Elements, Distinct
<1>3. Once(ns, {}, prog, prog)
  BY <1>1 DEF Once
<1> QED
  BY <1>2, <1>3 DEF Held

-----------------------------------------------------------------------------
(* TwoLockQueue: the nodes before tail in order, and the one whose data has *)
(* been stored by a push that has still to move tail on.                    *)
LOrder == Before(head, tail, SuccOf(nodes))
LFilled == IF tail_mutex = Nobody THEN {} ELSE {tail}

(* What the threads have still to push, or to do otherwise. *)
LRest == [t \in Threads |-> IF pc[t] \in {"move", "notify"} THEN Tail(todo[t]) ELSE todo[t]]

LOpsOk(t) ==
    /\ pc[t] # "idle" => todo[t] # <<>>
    /\ pc[t] \in {"move", "notify"} => Head(todo[t]) \in Value
    /\ pc[t] \notin {"idle", "move", "notify"} => Head(todo[t]) \notin Value

LRestOk == RestOk(todo, LockProgram) /\ \A t \in Threads : LOpsOk(t)

LHeld == LRestOk /\ Held(nodes, popped, LRest, LockProgram, LOrder, LFilled)

LChange == Change(TRUE, Values(LOrder, nodes), OutOf({}, popped, nodes), empties,
                  Values(LOrder', nodes'), OutOf({}, popped', nodes'), empties')

LEMMA LocksLined ==
    ASSUME LInv
    PROVE  /\ Lined(In, head, tail, SuccOf(nodes))
           /\ DOMAIN SuccOf(nodes) = 1 .. Len(nodes) /\ Len(nodes) \in Nat
           /\ DOMAIN SuccOf(nodes) = DOMAIN nodes
           /\ \A n \in In : SuccOf(nodes)[n] = nodes[n].next
<1>1. /\ ListOk /\ tail \in In
      /\ tail_mutex # Nobody => nodes[tail].next # Null /\ nodes[nodes[tail].next].next = Null
  BY DEF LInv, LList
<1>2. DOMAIN nodes = 1 .. Len(nodes) /\ Len(nodes) \in Nat /\ In \subseteq DOMAIN nodes
      /\ tail \in In /\ \A n \in In : nodes[n].next \in In \cup {Null}
  BY LocksFacts
<1>3. DOMAIN SuccOf(nodes) = DOMAIN nodes /\ \A n \in In : SuccOf(nodes)[n] = nodes[n].next
  BY <1>2 DEF SuccOf
<1>4. SuccOf(nodes)[tail] # Null => SuccOf(nodes)[SuccOf(nodes)[tail]] = Null
  <2>1. tail_mutex = Nobody => nodes[tail].next = Null
    BY DEF LInv, LList
  <2> QED
    BY <1>1, <1>2, <1>3, <2>1
<1>5. IsChain(In, head, SuccOf(nodes))
  BY <1>1 DEF ListOk
<1> QED
  BY <1>2, <1>3, <1>4, <1>5 DEF Lined

(* A thread that has called begins its operation, or goes on with it ... *)
LEMMA LocksGo ==
    ASSUME LType, LRestOk, NEW t \in Threads, todo' = todo,
           todo[t] # <<>>, Head(todo[t]) \notin Value,
           \A u \in Threads : \/ u # t /\ pc'[u] = pc[u]
                              \/ u = t /\ pc[u] \notin {"move", "notify"}
                                       /\ pc'[u] \notin {"idle", "move", "notify"}
    PROVE  LRestOk' /\ LRest' = LRest
<1>1. \A u \in Threads : LOpsOk(u)' /\ (pc'[u] \in {"move", "notify"} <=> pc[u] \in {"move", "notify"})
  BY DEF LRestOk, LOpsOk
<1> QED
  BY <1>1 DEF LRestOk, LRest

(* ... or ends it, and may wake up others. *)
LEMMA LocksEnd ==
    ASSUME LType, LRestOk, NEW t \in Threads, todo' = Done(todo, t), pc'[t] = "idle", todo[t] # <<>>,
           \A u \in Threads : u # t => pc'[u] = pc[u] \/ (pc[u] = "asleep" /\ pc'[u] = "relock")
    PROVE  /\ LRestOk'
           /\ pc[t] \in {"move", "notify"} => LRest' = LRest
           /\ pc[t] \notin {"move", "notify"} => LRest' = Done(LRest, t) /\ LRest[t] = todo[t]
<1>1. /\ todo'[t] = Tail(todo[t]) /\ \A u \in Threads : u # t => todo'[u] = todo[u]
      /\ DOMAIN todo = Threads
  BY DEF LType, Done
<1>2. \A u \in Threads : LOpsOk(u)' /\ (u # t => (pc'[u] \in {"move", "notify"} <=> pc[u] \in {"move", "notify"}))
  BY <1>1 DEF LRestOk, LOpsOk
<1>3. RestOk(todo', LockProgram)
  BY RestTail DEF LRestOk
<1>4. \A u \in Threads : u # t => LRest'[u] = LRest[u]
  BY <1>1, <1>2 DEF LRest
<1>5. LRest'[t] = Tail(todo[t]) /\ LRest' \in [Threads -> {LRest'[u] : u \in Threads}]
  BY <1>1 DEF LRest
<1>6. pc[t] \in {"move", "notify"} => LRest[t] = Tail(todo[t])
  BY DEF LRest
<1>7. pc[t] \notin {"move", "notify"} => LRest[t] = todo[t]
  BY DEF LRest
<1>8. LRest = [u \in Threads |-> LRest[u]] /\ LRest' = [u \in Threads |-> LRest'[u]]
  BY DEF LRest
<1>9. pc[t] \in {"move", "notify"} => LRest' = LRest
  BY <1>4, <1>5, <1>6, <1>8
<1>10. pc[t] \notin {"move", "notify"} => LRest' = Done(LRest, t)
  BY <1>4, <1>5, <1>7, <1>8 DEF Done
<1> QED
  BY <1>2, <1>3, <1>7, <1>9, <1>10 DEF LRestOk

(* A step that moves no data; it may find the queue empty. *)
LEMMA LocksStays ==
    ASSUME LInv, LHeld, UNCHANGED <<nodes, head, tail, popped>>,
           tail_mutex' = Nobody <=> tail_mutex = Nobody, LRestOk',
           \/ LRest' = LRest
           \/ \E t \in Threads : LRest' = Done(LRest, t) /\ LRest[t] # <<>> /\ Head(LRest[t]) \notin Value,
           empties' = empties \/ (head = tail /\ empties' = empties + 1)
    PROVE  LHeld' /\ LChange
<1>1. Held(nodes, popped, LRest, LockProgram, LOrder, LFilled)
  BY DEF LHeld
<1>2. LOrder' = LOrder /\ LFilled' = LFilled
  BY DEF LOrder, LFilled
<1>3. SameData(nodes, nodes)
  BY DEF SameData
<1>4. head = tail => LOrder = <<>>
  BY LocksLined, BeforeFacts DEF LOrder
<1>5. {} \in SUBSET LFilled
  OBVIOUS
<1>6. Change(TRUE, Values(LOrder, nodes), OutOf({}, popped, nodes), empties,
                  Values(LOrder, nodes), OutOf({}, popped, nodes), empties')
  BY <1>1, <1>3, <1>4, <1>5, LineStays
<1>7. Held(nodes, popped, LRest', LockProgram, LOrder, LFilled)
  BY <1>1, HeldReturn
<1> QED
  BY <1>2, <1>6, <1>7 DEF LHeld, LChange

(* The calls and the sleeps, and what a pop finds at its look. *)
LEMMA LocksHeldStarts ==
    ASSUME LInv, LHeld, NEW t \in Threads,
           \/ TwoLock!ExitSet(t) \/ TwoLock!PopLock(t) \/ TwoLock!PopSleep(t) \/ TwoLock!PopWake(t)
           \/ TwoLock!PopLook(t) /\ pc'[t] # "idle"
    PROVE  LHeld' /\ LChange
<1>1. /\ UNCHANGED <<nodes, head, tail, tail_mutex, popped, todo, empties>>
      /\ \E place \in {"wake_all", "look", "last_look", "take", "sleep", "asleep", "relock", "timeout"} :
            pc' = [pc EXCEPT ![t] = place]
  <2>1. pc[t] \in {"look", "last_look"} => pc \in [Threads -> {"idle", "move", "notify", "wake_all",
             "look", "last_look", "take", "sleep", "asleep", "relock", "timeout"}]
    BY DEF LInv, LType
  <2> QED
    BY <2>1 DEF TwoLock!ExitSet, TwoLock!PopLock, TwoLock!PopSleep, TwoLock!PopWake, TwoLock!PopLook,
           TwoLock!Goto, TwoLock!Return, TwoLock!lockVars
<1>2. /\ LType /\ LRestOk /\ DOMAIN pc = Threads
  BY DEF LHeld, LInv, LType
<1>3. /\ todo[t] # <<>> /\ Head(todo[t]) \notin Value /\ pc[t] \notin {"move", "notify"}
  <2>1. LOpsOk(t)
    BY <1>2 DEF LRestOk
  <2>2. CASE pc[t] # "idle"
    BY <2>1, <2>2 DEF LOpsOk, TwoLock!ExitSet, TwoLock!PopLock, TwoLock!PopSleep, TwoLock!PopWake, TwoLock!PopLook,
              TwoLock!Calls
  <2>3. CASE pc[t] = "idle"
    <3>1. todo[t] # <<>> /\ Head(todo[t]) \in TwoLock!Pops \cup {"exit"}
      BY <2>3 DEF TwoLock!ExitSet, TwoLock!PopLock, TwoLock!PopSleep, TwoLock!PopWake, TwoLock!PopLook,
                TwoLock!Calls, TwoLock!Operation
    <3> QED
      BY <2>3, <3>1, ThreadsAssumption, NamesAssumption DEF TwoLock!Pops, TwoLock!Waits
  <2> QED
    BY <2>2, <2>3
<1>4. \A u \in Threads : \/ u # t /\ pc'[u] = pc[u]
                         \/ u = t /\ pc[u] \notin {"move", "notify"}
                                  /\ pc'[u] \notin {"idle", "move", "notify"}
  BY <1>1, <1>2, <1>3
<1>5. LRestOk' /\ LRest' = LRest
  BY <1>1, <1>2, <1>3, <1>4, LocksGo
<1> QED
  BY <1>1, <1>5, LocksStays

(* The ends of operations that move no data. *)
LEMMA LocksHeldEnds ==
    ASSUME LInv, LHeld, NEW t \in Threads,
           \/ TwoLock!PushNotify(t) \/ TwoLock!ExitNotify(t)
           \/ TwoLock!PopLook(t) /\ pc'[t] = "idle"
           \/ TwoLock!PopTake(t) /\ nodes' = nodes /\ head' = head /\ popped' = popped
           \/ TwoLock!Steal(t) /\ head = tail
    PROVE  LHeld' /\ LChange
<1>1. LType /\ LRestOk /\ LOpsOk(t) /\ DOMAIN pc = Threads
  BY DEF LHeld, LRestOk, LInv, LType
<1>2. /\ UNCHANGED <<nodes, head, tail, tail_mutex, popped>>
      /\ empties' = empties \/ (head = tail /\ empties' = empties + 1)
      /\ todo' = Done(todo, t)
  <2>1. CASE TwoLock!PushNotify(t) \/ TwoLock!ExitNotify(t)
    BY <2>1 DEF TwoLock!PushNotify, TwoLock!ExitNotify, TwoLock!lockVars, Done
  <2>2. CASE TwoLock!PopLook(t) /\ pc'[t] = "idle"
    BY <1>1, <2>2 DEF TwoLock!PopLook, TwoLock!Goto, TwoLock!Return, Done
  <2>3. CASE TwoLock!PopTake(t) /\ nodes' = nodes /\ head' = head /\ popped' = popped
    BY <2>3 DEF TwoLock!PopTake, TwoLock!Return, Done
  <2>4. CASE TwoLock!Steal(t) /\ head = tail
    BY <2>4 DEF TwoLock!Steal, TwoLock!Return, Done
  <2> QED
    BY <2>1, <2>2, <2>3, <2>4
<1>3. /\ pc'[t] = "idle" /\ pc[t] # "move"
      /\ \A u \in Threads : u # t => pc'[u] = pc[u] \/ (pc[u] = "asleep" /\ pc'[u] = "relock")
  <2>1. CASE TwoLock!PushNotify(t)
    <3>1. /\ pc[t] = "notify"
          /\ \/ \E w \in Threads : pc[w] = "asleep" /\ pc' = [pc EXCEPT ![t] = "idle", ![w] = "relock"]
             \/ pc' = [pc EXCEPT ![t] = "idle"]
      BY <2>1 DEF TwoLock!PushNotify, TwoLock!Asleep
    <3> QED
      BY <1>1, <3>1
  <2>2. CASE TwoLock!ExitNotify(t)
    BY <1>1, <2>2 DEF TwoLock!ExitNotify, TwoLock!Asleep
  <2>3. CASE TwoLock!PopLook(t) /\ pc'[t] = "idle"
    BY <1>1, <2>3 DEF TwoLock!PopLook, TwoLock!Goto, TwoLock!Return
  <2>4. CASE TwoLock!PopTake(t)
    BY <1>1, <2>4 DEF TwoLock!PopTake, TwoLock!Return, TwoLock!Goto
  <2>5. CASE TwoLock!Steal(t)
    BY <1>1, <2>5 DEF TwoLock!Steal, TwoLock!Calls, TwoLock!Return, TwoLock!Goto
  <2> QED
    BY <2>1, <2>2, <2>3, <2>4, <2>5
<1>4. todo[t] # <<>> /\ (pc[t] # "notify" => Head(todo[t]) \notin Value)
  <2>1. CASE pc[t] # "idle"
    BY <1>1, <1>3, <2>1 DEF LOpsOk
  <2>2. CASE pc[t] = "idle"
    <3>1. todo[t] # <<>> /\ Head(todo[t]) = "steal"
      BY <2>2 DEF TwoLock!PushNotify, TwoLock!ExitNotify, TwoLock!PopLook, TwoLock!PopTake, TwoLock!Steal,
                TwoLock!Calls, TwoLock!Operation
    <3> QED
      BY <2>2, <3>1, ThreadsAssumption, NamesAssumption
  <2> QED
    BY <2>1, <2>2
<1>5. /\ LRestOk'
      /\ pc[t] = "notify" => LRest' = LRest
      /\ pc[t] # "notify" => LRest' = Done(LRest, t) /\ LRest[t] = todo[t]
  BY <1>1, <1>2, <1>3, <1>4, LocksEnd
<1>6. \/ LRest' = LRest
      \/ LRest' = Done(LRest, t) /\ LRest[t] # <<>> /\ Head(LRest[t]) \notin Value
  BY <1>4, <1>5
<1> QED
  BY <1>2, <1>5, <1>6, LocksStays

(* push: the last node gets the data ... *)
LEMMA LocksHeldFill ==
    ASSUME LInv, LHeld, NEW t \in Threads, TwoLock!PushFill(t)
    PROVE  LHeld' /\ LChange
<1>1. /\ pc[t] = "idle" /\ tail_mutex = Nobody /\ tail_mutex' = t /\ pc' = [pc EXCEPT ![t] = "move"]
      /\ todo[t] # <<>> /\ Head(todo[t]) \in Value
      /\ UNCHANGED <<head, tail, todo, popped, empties>>
  BY DEF TwoLock!PushFill, TwoLock!Calls, TwoLock!Operation, TwoLock!Goto, TwoLock!Nobody, Nobody
<1>2. PICK n : n = Address
  OBVIOUS
<1>3. nodes' = [Place(n, TwoLock!EmptyNode(tail)) EXCEPT ![tail].data = Head(todo[t]), ![tail].next = n]
  <2>1. TwoLock!Address = Address
    BY DEF TwoLock!Address, Address, TwoLock!Alive, Alive
  <2>2. \A m, node : TwoLock!Place(m, node) = Place(m, node)
    BY DEF TwoLock!Place, Place
  <2> QED
    BY <1>2, <2>1, <2>2 DEF TwoLock!PushFill, TwoLock!Operation
<1>4. LType /\ LRestOk /\ DOMAIN pc = Threads /\ t # Nobody
  BY LocksFacts DEF LHeld, LInv, LType
<1>5. n \in 1 .. Len(nodes) + 1 /\ n \notin Alive
  BY <1>2, <1>4, AddressIsFree DEF LType
<1>6. /\ nodes' \in Seq(LockNode) /\ n \notin In /\ nodes'[n].data = NoData
      /\ nodes'[tail].data = Head(todo[t]) /\ DOMAIN nodes' = DOMAIN nodes \cup {n}
      /\ \A m \in DOMAIN nodes : m # n /\ m # tail => nodes'[m] = nodes[m]
  <2>1. Head(todo[t]) \in Value
    BY <1>1
  <2> QED
    BY <1>3, <1>5, <2>1, FilledNodes
<1>7. /\ Lined(In, head, tail, SuccOf(nodes)) /\ DOMAIN SuccOf(nodes) = 1 .. Len(nodes) /\ Len(nodes) \in Nat
      /\ \A m \in In : SuccOf(nodes)[m] = nodes[m].next
      /\ In \subseteq DOMAIN nodes /\ tail \in In
  BY LocksLined, LocksFacts
<1>8. LOrder' = LOrder
  <2>1. DOMAIN SuccOf(nodes') = 1 .. Len(nodes') /\ Len(nodes') \in Nat
    <3>1. nodes' \in Seq(LockNode)
      BY <1>6
    <3> QED
      BY <3>1 DEF SuccOf
  <2>2. \A m \in In : m \in DOMAIN SuccOf(nodes') /\ (m # tail => SuccOf(nodes')[m] = SuccOf(nodes)[m])
    BY <1>6, <1>7 DEF SuccOf
  <2>3. Before(head, tail, SuccOf(nodes')) = Before(head, tail, SuccOf(nodes))
    BY <1>7, <2>1, <2>2, BeforeSame
  <2> QED
    BY <1>1, <2>3 DEF LOrder
<1>9. Held(nodes, popped, LRest, LockProgram, LOrder, LFilled) /\ LFilled = {} /\ LFilled' = {tail}
  BY <1>1, <1>4 DEF LHeld, LFilled
<1>10. Elements(LOrder) \subseteq In /\ tail \notin Elements(LOrder)
  BY <1>7, BeforeFacts DEF LOrder
<1>11. Full(nodes) \subseteq In /\ tail \notin Full(nodes)
  BY <1>9, <1>10 DEF Held
<1>12. LRest[t] = todo[t] /\ LRest' = Done(LRest, t) /\ LRestOk'
  <2>1. \A u \in Threads : u # t => pc'[u] = pc[u]
    BY <1>1, <1>4
  <2>2. pc'[t] = "move"
    BY <1>1, <1>4
  <2>3. LRest[t] = todo[t] /\ LRest' = Done(LRest, t)
    BY <1>1, <2>1, <2>2 DEF LRest, Done
  <2>4. \A u \in Threads : LOpsOk(u)'
    BY <1>1, <1>4, <2>1, <2>2 DEF LRestOk, LOpsOk
  <2> QED
    BY <1>1, <1>4, <2>3, <2>4 DEF LRestOk
<1>13. Stored(nodes, nodes', tail, Head(LRest[t]))
  <2>1. Head(todo[t]) # NoData
    BY <1>1, ThreadsAssumption
  <2>2. \A m : m \in Full(nodes') <=> m \in Full(nodes) \/ m = tail
    BY <1>6, <1>7, <1>11, <2>1 DEF Full
  <2>3. \A m \in Full(nodes) : nodes'[m].data = nodes[m].data
    BY <1>6, <1>11 DEF Full
  <2> QED
    BY <1>6, <1>11, <1>12, <2>2, <2>3 DEF Stored
<1>14. {} \in SUBSET LFilled /\ LRest[t] # <<>> /\ Head(LRest[t]) \in Value
  BY <1>1, <1>12
<1>15. Held(nodes', popped, LRest', LockProgram, LOrder, LFilled \cup {tail})
  BY <1>9, <1>12, <1>13, <1>14, LinePut
<1>16. Change(TRUE, Values(LOrder, nodes), OutOf({}, popped, nodes), empties,
              Values(LOrder, nodes'), OutOf({}, popped, nodes'), empties)
  BY <1>9, <1>12, <1>13, <1>14, <1>15, LinePut
<1> QED
  BY <1>1, <1>8, <1>9, <1>12, <1>15, <1>16 DEF LHeld, LChange

(* ... and is part of the queue when tail moves on. *)
LEMMA LocksHeldMove ==
    ASSUME LInv, LHeld, NEW t \in Threads, TwoLock!PushMove(t)
    PROVE  LHeld' /\ LChange
<1>1. /\ pc[t] = "move" /\ tail' = nodes[tail].next /\ tail_mutex' = Nobody
      /\ pc' = [pc EXCEPT ![t] = "notify"] /\ UNCHANGED <<nodes, head, todo, popped, empties>>
  BY DEF TwoLock!PushMove, TwoLock!Goto, TwoLock!Nobody, Nobody
<1>2. LType /\ LRestOk /\ DOMAIN pc = Threads /\ tail_mutex # Nobody /\ nodes[tail].next # Null
  <2>1. tail_mutex = t
    BY <1>1 DEF LInv, LMutex
  <2> QED
    BY <2>1, LocksFacts DEF LHeld, LInv, LType, LList
<1>3. LOrder' = Append(LOrder, tail)
  <2>1. /\ Lined(In, head, tail, SuccOf(nodes)) /\ DOMAIN SuccOf(nodes) = 1 .. Len(nodes) /\ Len(nodes) \in Nat
        /\ SuccOf(nodes)[tail] = nodes[tail].next
    BY LocksLined, LocksFacts
  <2>2. Before(head, SuccOf(nodes)[tail], SuccOf(nodes)) = Append(Before(head, tail, SuccOf(nodes)), tail)
    BY <1>2, <2>1, BeforeAdded
  <2> QED
    BY <1>1, <2>1, <2>2 DEF LOrder
<1>4. Held(nodes, popped, LRest, LockProgram, LOrder, LFilled) /\ tail \in LFilled /\ LFilled' = LFilled \ {tail}
  BY <1>1, <1>2 DEF LHeld, LFilled
<1>5. LRest' = LRest /\ LRestOk'
  <2>1. \A u \in Threads : u # t => pc'[u] = pc[u]
    BY <1>1, <1>2
  <2>2. pc'[t] = "notify"
    BY <1>1, <1>2
  <2>3. LRest' = LRest
    BY <1>1, <2>1, <2>2 DEF LRest
  <2>4. \A u \in Threads : LOpsOk(u)'
    BY <1>1, <1>2, <2>1, <2>2 DEF LRestOk, LOpsOk
  <2> QED
    BY <1>1, <1>2, <2>3, <2>4 DEF LRestOk
<1>6. Held(nodes, popped, LRest, LockProgram, Append(LOrder, tail), LFilled \ {tail})
  BY <1>4, LineAdded
<1>7. Change(TRUE, Values(LOrder, nodes), OutOf({}, popped, nodes), empties,
             Values(Append(LOrder, tail), nodes), OutOf({}, popped, nodes), empties)
  BY <1>4, <1>6, LineAdded
<1> QED
  BY <1>1, <1>3, <1>4, <1>5, <1>6, <1>7 DEF LHeld, LChange

(* A pop returns the data of the first node. *)
LEMMA LocksHeldTake ==
    ASSUME LInv, LHeld, NEW t \in Threads, TwoLock!PopTake(t)
    PROVE  LHeld' /\ LChange
<1>1. CASE TwoLock!Operation(t) \in TwoLock!Waits /\ bstop
  <2>1. nodes' = nodes /\ head' = head /\ popped' = popped
    BY <1>1 DEF TwoLock!PopTake
  <2> QED
    BY <2>1, LocksHeldEnds
<1>2. CASE ~(TwoLock!Operation(t) \in TwoLock!Waits /\ bstop)
  <2>1. /\ pc[t] = "take" /\ pc' = [pc EXCEPT ![t] = "idle"] /\ todo' = Done(todo, t)
        /\ UNCHANGED <<tail, tail_mutex, empties>>
        /\ popped' = popped \cup {[by |-> t, nth |-> Len(todo[t]), val |-> nodes[head].data]}
        /\ nodes' = [nodes EXCEPT ![head].alive = FALSE, ![head].data = NoData]
        /\ head' = nodes[head].next
    BY <1>2 DEF TwoLock!PopTake, TwoLock!Goto, TwoLock!Return, TwoLock!Result, TwoLock!NoData, NoData, Done
  <2>2. head # tail /\ LType /\ LRestOk /\ LOpsOk(t) /\ DOMAIN pc = Threads
    BY <1>2, <2>1 DEF LHeld, LRestOk, LInv, LTake, LType
  <2>3. PICK r : r = [by |-> t, nth |-> Len(todo[t]), val |-> nodes[head].data]
    OBVIOUS
  <2>4. r.val = nodes[head].data /\ popped' = popped \cup {r}
    BY <2>1, <2>3
  <2>5. /\ Lined(In, head, tail, SuccOf(nodes)) /\ DOMAIN SuccOf(nodes) = 1 .. Len(nodes) /\ Len(nodes) \in Nat
        /\ \A m \in In : SuccOf(nodes)[m] = nodes[m].next
        /\ In \subseteq DOMAIN nodes /\ head \in In
    BY LocksLined, LocksFacts
  <2>6. /\ DOMAIN nodes' = DOMAIN nodes /\ nodes'[head].data = NoData
        /\ \A m \in DOMAIN nodes : nodes'[m].next = nodes[m].next
        /\ \A m \in DOMAIN nodes : m # head => nodes'[m] = nodes[m]
    <3>1. nodes[head] \in LockNode /\ head \in DOMAIN nodes
      BY <2>5, LocksFacts
    <3>2. PICK node : node = [nodes[head] EXCEPT !.alive = FALSE, !.data = NoData]
      OBVIOUS
    <3>3. node.data = NoData /\ node.next = nodes[head].next
      BY <3>1, <3>2 DEF LockNode
    <3>4. nodes' = [nodes EXCEPT ![head] = node]
      BY <2>1, <3>1, <3>2
    <3> QED
      BY <3>1, <3>3, <3>4
  <2>7. LOrder # <<>> /\ LOrder[1] = head /\ LOrder' = Tail(LOrder)
    <3>1. LOrder # <<>> /\ LOrder[1] = head
      BY <2>2, <2>5, BeforeFacts DEF LOrder
    <3>2. /\ Before(SuccOf(nodes)[head], tail, SuccOf(nodes)) = Tail(Before(head, tail, SuccOf(nodes)))
          /\ Lined(In \ {head}, SuccOf(nodes)[head], tail, SuccOf(nodes))
      BY <2>2, <2>5, BeforeTaken
    <3>3. head' = SuccOf(nodes)[head]
      BY <2>1, <2>5
    <3>4. SuccOf(nodes') = SuccOf(nodes)
      BY <2>6 DEF SuccOf
    <3> QED
      BY <2>1, <3>1, <3>2, <3>3, <3>4 DEF LOrder
  <2>8. Held(nodes, popped, LRest, LockProgram, LOrder, LFilled) /\ LFilled' = LFilled
    BY <2>1 DEF LHeld, LFilled
  <2>9. Emptied(nodes, nodes', LOrder[1]) /\ r.val = nodes[LOrder[1]].data /\ {} \in SUBSET LFilled
    <3>1. Emptied(nodes, nodes', head)
      BY <2>5, <2>6, DataFacts
    <3> QED
      BY <2>4, <2>7, <3>1
  <2>10. Held(nodes', popped \cup {r}, LRest, LockProgram, Tail(LOrder), LFilled)
    BY <2>7, <2>8, <2>9, LineTakeOut
  <2>11. Change(TRUE, Values(LOrder, nodes), OutOf({}, popped, nodes), empties,
                Values(Tail(LOrder), nodes'), OutOf({}, popped \cup {r}, nodes'), empties)
    BY <2>7, <2>8, <2>9, <2>10, LineTakeOut
  <2>12. todo[t] # <<>> /\ Head(todo[t]) \notin Value
    BY <2>1, <2>2 DEF LOpsOk
  <2>13. LRestOk' /\ LRest' = Done(LRest, t) /\ LRest[t] = todo[t]
    <3>1. pc'[t] = "idle" /\ \A u \in Threads : u # t => pc'[u] = pc[u]
      BY <2>1, <2>2
    <3>2. pc[t] \notin {"move", "notify"}
      BY <2>1
    <3> QED
      BY <2>1, <2>2, <2>12, <3>1, <3>2, LocksEnd
  <2>14. Held(nodes', popped \cup {r}, LRest', LockProgram, Tail(LOrder), LFilled)
    BY <2>10, <2>12, <2>13, HeldReturn
  <2> QED
    BY <2>1, <2>4, <2>7, <2>8, <2>11, <2>13, <2>14 DEF LHeld, LChange
<1> QED
  BY <1>1, <1>2

(* try_steal returns the data of the last node that has any. *)
LEMMA LocksHeldSteal ==
    ASSUME LInv, LHeld, NEW t \in Threads, TwoLock!Steal(t)
    PROVE  LHeld' /\ LChange
<1>1. CASE head = tail
  BY <1>1, LocksHeldEnds
<1>2. CASE head # tail
  <2>0. PICK p : p = nodes[tail].prev
    OBVIOUS
  <2>1. /\ pc[t] = "idle" /\ pc' = [pc EXCEPT ![t] = "idle"] /\ todo' = Done(todo, t)
        /\ tail_mutex = Nobody /\ todo[t] # <<>> /\ Head(todo[t]) = "steal"
        /\ UNCHANGED <<head, tail_mutex, empties>>
        /\ popped' = popped \cup {[by |-> t, nth |-> Len(todo[t]), val |-> nodes[p].data]}
        /\ nodes' = [nodes EXCEPT ![p].data = NoData, ![p].next = Null, ![tail].alive = FALSE]
        /\ tail' = p
    BY <1>2, <2>0 DEF TwoLock!Steal, TwoLock!Calls, TwoLock!Operation, TwoLock!Goto, TwoLock!Return, TwoLock!Result,
                TwoLock!NoData, NoData, TwoLock!Null, Null, TwoLock!Nobody, Nobody, Done
  <2>2. LType /\ LRestOk /\ DOMAIN pc = Threads
    BY DEF LHeld, LRestOk, LInv, LType
  <2>3. PICK r : r = [by |-> t, nth |-> Len(todo[t]), val |-> nodes[p].data]
    OBVIOUS
  <2>4. r.val = nodes[p].data /\ popped' = popped \cup {r}
    BY <2>1, <2>3
  <2>5. /\ Lined(In, head, tail, SuccOf(nodes)) /\ DOMAIN SuccOf(nodes) = 1 .. Len(nodes) /\ Len(nodes) \in Nat
        /\ DOMAIN SuccOf(nodes) = DOMAIN nodes
        /\ \A m \in In : SuccOf(nodes)[m] = nodes[m].next
        /\ In \subseteq DOMAIN nodes /\ tail \in In
    BY LocksLined, LocksFacts
  <2>6. p \in In /\ nodes[p].next = tail /\ nodes[tail].next = Null /\ p # tail
    BY <1>2, <2>0, <2>1, <2>5, LocksFacts DEF LInv, LList
  <2>7. /\ DOMAIN nodes' = DOMAIN nodes /\ nodes'[p].data = NoData /\ nodes'[p].next = Null
        /\ \A m \in DOMAIN nodes : m # p => nodes'[m].next = nodes[m].next /\ nodes'[m].data = nodes[m].data
    <3>1. /\ nodes[p] \in LockNode /\ p \in DOMAIN nodes /\ nodes[tail] \in LockNode /\ tail \in DOMAIN nodes
      BY <2>5, <2>6, LocksFacts
    <3>2. PICK a : a = [nodes[p] EXCEPT !.data = NoData, !.next = Null]
      OBVIOUS
    <3>3. PICK b : b = [nodes[tail] EXCEPT !.alive = FALSE]
      OBVIOUS
    <3>4. a.data = NoData /\ a.next = Null /\ b.data = nodes[tail].data /\ b.next = nodes[tail].next
      BY <3>1, <3>2, <3>3 DEF LockNode
    <3>5. nodes' = [[nodes EXCEPT ![p] = a] EXCEPT ![tail] = b]
      BY <2>1, <2>6, <3>1, <3>2, <3>3
    <3>6. /\ DOMAIN nodes' = DOMAIN nodes /\ nodes'[p] = a /\ nodes'[tail] = b
          /\ \A m \in DOMAIN nodes : m # p /\ m # tail => nodes'[m] = nodes[m]
      BY <2>6, <3>1, <3>5
    <3> QED
      BY <3>4, <3>6
  <2>8. LOrder # <<>> /\ LOrder[Len(LOrder)] = p /\ LOrder' = Front(LOrder)
    <3>1. SuccOf(nodes)[tail] = Null /\ SuccOf(nodes)[p] = tail
      BY <2>5, <2>6
    <3>2. DOMAIN SuccOf(nodes') = 1 .. Len(nodes)
      BY <2>5, <2>7 DEF SuccOf
    <3>3. SuccOf(nodes')[p] = Null
      BY <2>5, <2>6, <2>7 DEF SuccOf
    <3>4. \A m \in In : m \in DOMAIN SuccOf(nodes') /\ (m # p /\ m # tail => SuccOf(nodes')[m] = SuccOf(nodes)[m])
      BY <2>5, <2>7 DEF SuccOf
    <3> DEFINE succ == SuccOf(nodes)
               succ2 == SuccOf(nodes')
    <3>5. /\ Lined(In, head, tail, succ) /\ DOMAIN succ = 1 .. Len(nodes) /\ Len(nodes) \in Nat
          /\ succ[tail] = Null /\ p \in In /\ succ[p] = tail /\ DOMAIN succ2 = 1 .. Len(nodes) /\ succ2[p] = Null
          /\ \A m \in In : m \in DOMAIN succ2 /\ (m # p /\ m # tail => succ2[m] = succ[m])
      BY <2>5, <2>6, <3>1, <3>2, <3>3, <3>4
    <3> HIDE DEF succ, succ2
    <3>6. /\ Before(head, tail, succ) # <<>> /\ Before(head, tail, succ)[Len(Before(head, tail, succ))] = p
          /\ Before(head, p, succ2) = Front(Before(head, tail, succ))
      BY <3>5, BeforeCut
    <3> QED
      BY <2>1, <3>6 DEF LOrder, succ, succ2
  <2>9. Held(nodes, popped, LRest, LockProgram, LOrder, LFilled) /\ LFilled' = LFilled
    BY <2>1 DEF LHeld, LFilled
  <2>10. Emptied(nodes, nodes', p) /\ {} \in SUBSET LFilled
    BY <2>5, <2>6, <2>7, DataFacts
  <2>11. Held(nodes', popped \cup {r}, LRest, LockProgram, Front(LOrder), LFilled)
    BY <2>4, <2>8, <2>9, <2>10, LineStolen
  <2>12. Change(TRUE, Values(LOrder, nodes), OutOf({}, popped, nodes), empties,
                Values(Front(LOrder), nodes'), OutOf({}, popped \cup {r}, nodes'), empties)
    BY <2>4, <2>8, <2>9, <2>10, <2>11, LineStolen
  <2>13. todo[t] # <<>> /\ Head(todo[t]) \notin Value
    BY <2>1, ThreadsAssumption, NamesAssumption
  <2>14. LRestOk' /\ LRest' = Done(LRest, t) /\ LRest[t] = todo[t]
    <3>1. pc'[t] = "idle" /\ \A u \in Threads : u # t => pc'[u] = pc[u]
      BY <2>1, <2>2
    <3>2. pc[t] \notin {"move", "notify"}
      BY <2>1
    <3> QED
      BY <2>1, <2>2, <2>13, <3>1, <3>2, LocksEnd
  <2>15. Held(nodes', popped \cup {r}, LRest', LockProgram, Front(LOrder), LFilled)
    BY <2>11, <2>13, <2>14, HeldReturn
  <2> QED
    BY <2>1, <2>4, <2>8, <2>9, <2>12, <2>14, <2>15 DEF LHeld, LChange
<1> QED
  BY <1>1, <1>2

LEMMA LocksHeldStep ==
    ASSUME LInv, LHeld, NEW t \in Threads, TwoLock!Step(t)
    PROVE  LHeld' /\ LChange
<1>1. CASE TwoLock!PopLook(t)
  BY <1>1, LocksHeldStarts, LocksHeldEnds
<1> QED
  BY <1>1, LocksHeldStarts, LocksHeldEnds, LocksHeldFill, LocksHeldMove, LocksHeldTake, LocksHeldSteal
  DEF TwoLock!Step

LEMMA LocksHeldInit == TwoLock!Init => LHeld
<1> SUFFICES ASSUME TwoLock!Init PROVE LHeld
  OBVIOUS
<1>1. /\ nodes = <<TwoLock!EmptyNode(Null)>> /\ head = tail /\ popped = {}
      /\ tail_mutex = Nobody /\ pc = [t \in Threads |-> "idle"] /\ todo = LockProgram
  BY DEF TwoLock!Init, TwoLock!ThreadsInit, TwoLock!EmptyNode, TwoLock!Null, TwoLock!NoData,
         TwoLock!Nobody, Null, NoData, Nobody
<1>2. LInv
  BY LocksInit
<1>3. LOrder = <<>>
  BY <1>1, <1>2, LocksLined, BeforeFacts DEF LOrder
<1>4. Full(nodes) = {}
  BY <1>1 DEF Full, TwoLock!EmptyNode, TwoLock!NoData, NoData
<1>5. LockProgram \in [Threads -> Seq(Value \cup Others)] /\ PushedOnce(LockProgram)
  BY ProgramsAssumption, OnceAssumption
<1>6. LRest = LockProgram /\ LFilled = {}
  BY <1>1, <1>5 DEF LRest, LFilled
<1>7. Held(nodes, {}, LockProgram, LockProgram, <<>>, {})
  BY <1>4, <1>5, HeldInit
<1>8. LRestOk
  BY <1>1, <1>5, RestInit DEF LRestOk, LOpsOk
<1> QED
  BY <1>1, <1>3, <1>6, <1>7, <1>8 DEF LHeld

-----------------------------------------------------------------------------
(* LockFreeQueue: the nodes before tail in order.  Of the other nodes that  *)
(* have data one is tail itself, when a push has stored there, some are     *)
(* those that pops are taking, and the rest those in which values are lost. *)
QOrder == IF head.ptr = Null THEN <<>> ELSE Before(head.ptr, tail.ptr, NextOf(nodes))
QFilled == Full(nodes) \ Elements(QOrder)
QTaking == {old[t].ptr : t \in {u \in Threads : pc[u] = "take"}}

(* The threads whose push has stored its value, and what all have still to  *)
(* push, or to do otherwise.                                                *)
QStores(t) == /\ pc[t] = "link" \/ (next[t] = "done" /\ pc[t] \in {"move", "free", "release"})
              /\ Head(todo[t]) \in Value
QRest == [t \in Threads |-> IF QStores(t) THEN Tail(todo[t]) ELSE todo[t]]

(* A node that a pop takes has data, and so has a tail that is to be linked *)
(* or is; a pop that finds its head to be tail finds the queue empty.       *)
FilledOk(t) ==
    /\ pc[t] = "take" => old[t].ptr \in Full(nodes)
    /\ pc[t] \in {"link", "help"} /\ old[t].ptr = tail.ptr => tail.ptr \in Full(nodes)
    /\ pc[t] = "compare" /\ old[t].ptr = tail.ptr => head.ptr = tail.ptr

QFull == /\ nodes[tail.ptr].next.ptr # Null => tail.ptr \in Full(nodes)
         /\ \A t \in Threads : FilledOk(t)

QHeld == /\ RestOk(todo, Program) /\ Held(nodes, popped, QRest, Program, QOrder, QFilled)
         /\ head.ptr # Null => QFull

QChange == Change(TRUE, Values(QOrder, nodes), OutOf(QTaking, popped, nodes), empties,
                  Values(QOrder', nodes'), OutOf(QTaking', popped', nodes'), empties')

LEMMA HeldFilled ==
    ASSUME NEW ns, NEW pop, NEW rest, NEW prog, NEW L, NEW X, Held(ns, pop, rest, prog, L, X)
    PROVE  X = Full(ns) \ Elements(L) /\ Held(ns, pop, rest, prog, L, Full(ns) \ Elements(L))
<1>1. X = Full(ns) \ Elements(L)
  BY DEF Held
<1> QED
  BY <1>1

LEMMA QueueLined ==
    ASSUME QInv, head.ptr # Null
    PROVE  /\ Lined(CIn, head.ptr, tail.ptr, NextOf(nodes))
           /\ DOMAIN NextOf(nodes) = 1 .. Len(nodes) /\ Len(nodes) \in Nat
           /\ DOMAIN NextOf(nodes) = DOMAIN nodes /\ CIn \subseteq DOMAIN nodes
           /\ \A n \in DOMAIN nodes : NextOf(nodes)[n] = nodes[n].next.ptr
<1>1. DOMAIN nodes = 1 .. Len(nodes) /\ Len(nodes) \in Nat /\ CIn \subseteq DOMAIN nodes
  BY QueueFacts
<1>2. DOMAIN NextOf(nodes) = DOMAIN nodes /\ \A n \in DOMAIN nodes : NextOf(nodes)[n] = nodes[n].next.ptr
  BY DEF NextOf
<1>3. /\ IsChain(CIn, head.ptr, NextOf(nodes)) /\ tail.ptr \in CIn
      /\ nodes[tail.ptr].next.ptr # Null => nodes[nodes[tail.ptr].next.ptr].next.ptr = Null
  BY QueueFacts DEF QList, CListOk
<1>4. nodes[tail.ptr].next.ptr \in CIn \cup {Null}
  BY <1>3, QueueFacts
<1>5. NextOf(nodes)[tail.ptr] # Null => NextOf(nodes)[NextOf(nodes)[tail.ptr]] = Null
  BY <1>1, <1>2, <1>3, <1>4
<1> QED
  BY <1>1, <1>2, <1>3, <1>5 DEF Lined

LEMMA QueueOrder ==
    ASSUME QInv, head.ptr # Null
    PROVE  /\ QOrder = Before(head.ptr, tail.ptr, NextOf(nodes))
           /\ QOrder \in Seq(CIn) /\ Elements(QOrder) \subseteq CIn /\ tail.ptr \notin Elements(QOrder)
           /\ head.ptr = tail.ptr => QOrder = <<>>
           /\ head.ptr # tail.ptr => QOrder # <<>> /\ QOrder[1] = head.ptr
           /\ \A n \in CIn : n = tail.ptr \/ n = nodes[tail.ptr].next.ptr \/ n \in Elements(QOrder)
<1>1. /\ Lined(CIn, head.ptr, tail.ptr, NextOf(nodes))
      /\ DOMAIN NextOf(nodes) = 1 .. Len(nodes) /\ Len(nodes) \in Nat
      /\ NextOf(nodes)[tail.ptr] = nodes[tail.ptr].next.ptr
  BY QueueLined, QueueFacts
<1>2. QOrder = Before(head.ptr, tail.ptr, NextOf(nodes))
  BY DEF QOrder
<1> QED
  BY <1>1, <1>2, BeforeFacts

(* The nodes that pops are taking have left the list. *)
LEMMA QueueTaking ==
    ASSUME QInv, QHeld, head.ptr # Null
    PROVE  QTaking \in SUBSET QFilled
<1> SUFFICES ASSUME NEW t \in Threads, pc[t] = "take" PROVE old[t].ptr \in QFilled
  BY DEF QTaking
<1>1. old[t].ptr \in Full(nodes)
  BY DEF QHeld, QFull, FilledOk
<1>2. old[t].ptr \notin CIn
  BY QueueFacts DEF QRead, ReadOk, HeadGone
<1> QED
  BY <1>1, <1>2, QueueOrder DEF QFilled

(* The nodes before tail are the same when they lead on as before. *)
LEMMA QueueOrderStays ==
    ASSUME QInv, head.ptr # Null, head'.ptr = head.ptr, tail'.ptr = tail.ptr,
           nodes' \in Seq(QueueNode),
           \A n \in CIn : n \in DOMAIN nodes' /\ (n # tail.ptr => nodes'[n].next = nodes[n].next)
    PROVE  QOrder' = QOrder
<1> DEFINE succ == NextOf(nodes)
           succ2 == NextOf(nodes')
<1>1. /\ Lined(CIn, head.ptr, tail.ptr, succ)
      /\ DOMAIN succ = 1 .. Len(nodes) /\ Len(nodes) \in Nat
      /\ \A n \in CIn : succ[n] = nodes[n].next.ptr
  BY QueueLined
<1>2. DOMAIN succ2 = 1 .. Len(nodes') /\ Len(nodes') \in Nat
  BY DEF NextOf
<1>3. \A m \in CIn : m \in DOMAIN succ2 /\ (m # tail.ptr => succ2[m] = succ[m])
  BY <1>1 DEF NextOf
<1> HIDE DEF succ, succ2
<1>4. Before(head.ptr, tail.ptr, succ2) = Before(head.ptr, tail.ptr, succ)
  BY <1>1, <1>2, <1>3, BeforeSame
<1> QED
  BY <1>4 DEF QOrder, succ, succ2

(* What is still to be done, after a step of one thread. *)
LEMMA QueueRest ==
    ASSUME QType, RestOk(todo, Program), NEW t \in Threads, Moves(t),
           \/ todo' = todo /\ (QStores(t)' <=> QStores(t))
           \/ /\ todo' = Done(todo, t) /\ ~QStores(t)' /\ todo[t] # <<>>
              /\ QStores(t) \/ Head(todo[t]) \notin Value
    PROVE  /\ RestOk(todo, Program)'
           /\ \/ QRest' = QRest
              \/ QRest' = Done(QRest, t) /\ QRest[t] # <<>> /\ Head(QRest[t]) \notin Value
<1>1. \A u \in Threads : u # t => (QStores(u)' <=> QStores(u)) /\ todo'[u] = todo[u]
  BY DEF QStores, Moves
<1>2. \A u \in Threads : u # t => QRest'[u] = QRest[u]
  BY <1>1 DEF QRest
<1>3. QRest = [u \in Threads |-> QRest[u]] /\ QRest' = [u \in Threads |-> QRest'[u]]
  BY DEF QRest
<1>4. QRest[t] = (IF QStores(t) THEN Tail(todo[t]) ELSE todo[t])
  BY DEF QRest
<1>5. QRest'[t] = (IF QStores(t)' THEN Tail(todo'[t]) ELSE todo'[t])
  BY DEF QRest
<1>6. CASE todo' = todo /\ (QStores(t)' <=> QStores(t))
  <2>1. QRest'[t] = QRest[t]
    BY <1>4, <1>5, <1>6
  <2>2. QRest' = QRest
    BY <1>2, <1>3, <2>1
  <2> QED
    BY <1>6, <2>2
<1>7. CASE /\ todo' = Done(todo, t) /\ ~QStores(t)' /\ todo[t] # <<>>
           /\ QStores(t) \/ Head(todo[t]) \notin Value
  <2>1. RestOk(todo', Program)
    BY <1>7, RestTail
  <2>2. todo'[t] = Tail(todo[t])
    BY <1>7 DEF Done, QType
  <2>3. CASE QStores(t)
    <3>1. QRest'[t] = QRest[t]
      BY <1>4, <1>5, <1>7, <2>2, <2>3
    <3>2. QRest' = QRest
      BY <1>2, <1>3, <3>1
    <3> QED
      BY <2>1, <3>2
  <2>4. CASE ~QStores(t)
    <3>1. QRest[t] = todo[t] /\ QRest'[t] = Tail(QRest[t])
      BY <1>4, <1>5, <1>7, <2>2, <2>4
    <3>2. QRest' = Done(QRest, t)
      BY <1>2, <1>3, <3>1 DEF Done
    <3> QED
      BY <1>7, <2>1, <2>4, <3>1, <3>2
  <2> QED
    BY <2>3, <2>4
<1> QED
  BY <1>6, <1>7

(* What is known of the other threads. *)
LEMMA FilledStays ==
    ASSUME QFull, NEW t \in Threads, Moves(t), FilledOk(t)', head'.ptr = head.ptr,
           \A u \in Threads : u # t =>
               /\ pc[u] = "take" => old[u].ptr \in Full(nodes')
               /\ pc[u] \in {"link", "help", "compare"} /\ old[u].ptr = tail'.ptr
                     => tail'.ptr = tail.ptr /\ (tail.ptr \in Full(nodes) => tail.ptr \in Full(nodes'))
    PROVE  \A u \in Threads : FilledOk(u)'
<1> SUFFICES ASSUME NEW u \in Threads, u # t PROVE FilledOk(u)'
  OBVIOUS
<1>1. pc'[u] = pc[u] /\ old'[u] = old[u]
  BY DEF Moves
<1>2. FilledOk(u)
  BY DEF QFull
<1> QED
  BY <1>1, <1>2 DEF FilledOk

(* A step that moves no data; it may find the queue empty. *)
LEMMA QueueHeldStays ==
    ASSUME QInv, QHeld, head.ptr # Null, NEW t \in Threads, Moves(t),
           head'.ptr = head.ptr, tail'.ptr = tail.ptr, popped' = popped,
           nodes' \in Seq(QueueNode), SameData(nodes, nodes'),
           \A n \in CIn : n \in DOMAIN nodes' /\ (n # tail.ptr => nodes'[n].next = nodes[n].next),
           nodes'[tail.ptr].next.ptr # Null => tail.ptr \in Full(nodes),
           \/ todo' = todo /\ (QStores(t)' <=> QStores(t))
           \/ /\ todo' = Done(todo, t) /\ ~QStores(t)' /\ todo[t] # <<>>
              /\ QStores(t) \/ Head(todo[t]) \notin Value,
           pc[t] # "take", pc'[t] # "take",
           pc'[t] \in {"link", "help"} /\ old'[t].ptr = tail.ptr => tail.ptr \in Full(nodes),
           pc'[t] = "compare" /\ old'[t].ptr = tail.ptr => head.ptr = tail.ptr,
           empties' = empties \/ (head.ptr = tail.ptr /\ empties' = empties + 1)
    PROVE  QHeld' /\ QChange
<1>1. QType /\ RestOk(todo, Program) /\ QFull /\ Held(nodes, popped, QRest, Program, QOrder, QFilled)
  BY DEF QInv, QHeld
<1>2. QOrder' = QOrder
  BY QueueOrderStays
<1>3. QTaking' = QTaking
  BY DEF QTaking, Moves
<1>4. QTaking \in SUBSET QFilled
  BY QueueTaking
<1>5. empties' = empties \/ (QOrder = <<>> /\ empties' = empties + 1)
  BY QueueOrder
<1>6. Held(nodes', popped, QRest, Program, QOrder, QFilled)
  BY <1>1, <1>4, <1>5, LineStays
<1>7. Change(TRUE, Values(QOrder, nodes), OutOf(QTaking, popped, nodes), empties,
             Values(QOrder, nodes'), OutOf(QTaking, popped, nodes'), empties')
  BY <1>1, <1>4, <1>5, <1>6, LineStays
<1>8. /\ RestOk(todo, Program)'
      /\ \/ QRest' = QRest
         \/ QRest' = Done(QRest, t) /\ QRest[t] # <<>> /\ Head(QRest[t]) \notin Value
  BY <1>1, QueueRest
<1>9. Held(nodes', popped, QRest', Program, QOrder, QFilled)
  BY <1>6, <1>8, HeldReturn
<1>10. Full(nodes') = Full(nodes) /\ QFilled' = QFilled
  BY <1>2 DEF QFilled, SameData
<1>11. QFull'
  <2>1. FilledOk(t)'
    BY <1>10 DEF FilledOk
  <2>2. ASSUME NEW u \in Threads, u # t
        PROVE  /\ pc[u] = "take" => old[u].ptr \in Full(nodes')
               /\ pc[u] \in {"link", "help", "compare"} /\ old[u].ptr = tail'.ptr
                     => tail'.ptr = tail.ptr /\ (tail.ptr \in Full(nodes) => tail.ptr \in Full(nodes'))
    BY <1>1, <1>10 DEF QFull, FilledOk
  <2>3. \A u \in Threads : FilledOk(u)'
    BY <1>1, <2>1, <2>2, FilledStays
  <2> QED
    BY <1>10, <2>3 DEF QFull
<1> QED
  BY <1>2, <1>3, <1>7, <1>8, <1>9, <1>10, <1>11 DEF QHeld, QChange

(* The data of the nodes is not touched when one of them is linked or       *)
(* dropped, nor when one is made.                                           *)
LEMMA OtherFields ==
    ASSUME nodes \in Seq(QueueNode), NEW n \in DOMAIN nodes, NEW made,
           (\E x \in CountedPtr : made = [nodes EXCEPT ![n].next = x]) \/ made = Dropped(nodes, n)
    PROVE  /\ DOMAIN made = DOMAIN nodes /\ made \in Seq(QueueNode)
           /\ \A m \in DOMAIN nodes : made[m].data = nodes[m].data
           /\ \A m \in DOMAIN nodes : m # n \/ made = Dropped(nodes, n) => made[m].next = nodes[m].next
<1>1. nodes[n] \in QueueNode
  BY ElementOfSeq, LenProperties
<1>2. \E y : /\ y \in QueueNode /\ y.data = nodes[n].data /\ made = [nodes EXCEPT ![n] = y]
             /\ made = Dropped(nodes, n) => y.next = nodes[n].next
  <2>1. CASE made # Dropped(nodes, n)
    <3>1. PICK x \in CountedPtr : made = [nodes EXCEPT ![n].next = x]
      BY <2>1
    <3>2. PICK y : y = [nodes[n] EXCEPT !.next = x]
      OBVIOUS
    <3>3. y \in QueueNode /\ y.data = nodes[n].data
      BY <1>1, <3>2 DEF QueueNode
    <3>4. made = [nodes EXCEPT ![n] = y]
      BY <3>1, <3>2
    <3> QED
      BY <2>1, <3>3, <3>4
  <2>2. CASE made = Dropped(nodes, n)
    <3>1. PICK y : y = [nodes[n] EXCEPT !.alive = FALSE]
      OBVIOUS
    <3>2. y \in QueueNode /\ y.data = nodes[n].data /\ y.next = nodes[n].next
      BY <1>1, <3>1 DEF QueueNode
    <3>3. made = [nodes EXCEPT ![n] = y]
      BY <2>2, <3>1 DEF Dropped
    <3> QED
      BY <3>2, <3>3
  <2> QED
    BY <2>1, <2>2
<1>3. PICK y : /\ y \in QueueNode /\ y.data = nodes[n].data /\ made = [nodes EXCEPT ![n] = y]
               /\ made = Dropped(nodes, n) => y.next = nodes[n].next
  BY <1>2
<1>4. /\ made \in Seq(QueueNode) /\ DOMAIN made = DOMAIN nodes /\ made[n] = y
      /\ \A m \in DOMAIN nodes : m # n => made[m] = nodes[m]
  BY <1>3, Changed
<1> QED
  BY <1>3, <1>4

LEMMA MadeData ==
    ASSUME NEW s \in Seq(QueueNode), NEW made, made = Append(s, Queue!Node)
    PROVE  /\ made \in Seq(QueueNode) /\ Len(made) \in Nat /\ SameData(s, made)
           /\ \A n \in DOMAIN s : n \in DOMAIN made /\ made[n] = s[n]
<1>1. /\ made \in Seq(QueueNode) /\ Len(made) \in Nat /\ Len(made) \notin DOMAIN s /\ DOMAIN made = DOMAIN s \cup {Len(made)}
      /\ made[Len(made)] = Queue!Node /\ \A n \in DOMAIN s : made[n] = s[n]
  BY AddedNode
<1>2. Queue!Node.data = NoData
  BY QueueSame DEF Queue!Node
<1>3. Full(made) = Full(s)
  BY <1>1, <1>2 DEF Full
<1>4. \A n \in Full(s) : n \in DOMAIN s
  BY DEF Full
<1>5. SameData(s, made)
  BY <1>1, <1>3, <1>4 DEF SameData
<1> QED
  BY <1>1, <1>5

(* A node made by a push is not yet in the list. *)
LEMMA QueueHeldStart ==
    ASSUME QInv, QHeld, NEW t \in Threads, Queue!PushStart(t)
    PROVE  QHeld' /\ QChange
<1>1. /\ pc[t] = "idle" /\ todo[t] # <<>> /\ pc' = [pc EXCEPT ![t] = "push"]
      /\ nodes' = Append(nodes, Queue!Node) /\ new' = [new EXCEPT ![t] = Queue!Counted(Len(nodes'))]
      /\ UNCHANGED <<head, tail, todo, old, to, next, popped, empties>>
  BY DEF Queue!PushStart, Queue!Calls, Queue!Goto
<1>2. head.ptr # Null /\ QType
  BY <1>1, QueueBusy DEF QInv
<1>3. /\ nodes' \in Seq(QueueNode) /\ Len(nodes') \in Nat /\ SameData(nodes, nodes')
      /\ \A n \in DOMAIN nodes : n \in DOMAIN nodes' /\ nodes'[n] = nodes[n]
  <2>1. nodes \in Seq(QueueNode)
    BY <1>2 DEF QType
  <2> QED
    BY <1>1, <2>1, MadeData
<1>4. Moves(t) /\ pc'[t] = "push"
  <2>1. "push" \in QueuePlaces
    BY DEF QueuePlaces
  <2>2. Queue!Counted(Len(nodes')) \in CountedPtr
    BY <1>3, QueueSame
  <2> QED
    BY <1>1, <1>2, <2>1, <2>2, QueueMoves
<1>5. ~QStores(t) /\ ~QStores(t)'
  BY <1>1, <1>4 DEF QStores
<1>6. \A n \in CIn : n \in DOMAIN nodes' /\ (n # tail.ptr => nodes'[n].next = nodes[n].next)
  BY <1>2, <1>3, QueueLined
<1>7. nodes'[tail.ptr].next.ptr # Null => tail.ptr \in Full(nodes)
  BY <1>2, <1>3, QueueFacts, QueueLined DEF QHeld, QFull
<1> QED
  BY <1>1, <1>2, <1>3, <1>4, <1>5, <1>6, <1>7, QueueHeldStays

(* The steps that change no node. *)
LEMMA QueueHeldReads ==
    ASSUME QInv, QHeld, NEW t \in Threads,
           \/ Queue!PushAcquire(t)
           \/ Queue!PopAcquire(t)
           \/ Queue!PopCompare(t)
           \/ Queue!PopNext(t)
           \/ Queue!PushData(t) /\ nodes[old[t].ptr].data # NoData
           \/ Queue!MoveTail(t) /\ tail.ptr # old[t].ptr
           \/ Queue!PopExchange(t) /\ head # old[t]
    PROVE  QHeld' /\ QChange
<1>1. nodes' = nodes /\ todo' = todo /\ popped' = popped
  BY QueueSame DEF Queue!PushAcquire, Queue!PopAcquire, Queue!PopCompare, Queue!PopNext, Queue!PushData,
                   Queue!MoveTail, Queue!PopExchange
<1>2. pc[t] # "idle" \/ todo[t] # <<>>
  BY DEF Queue!PushAcquire, Queue!PopAcquire, Queue!PopCompare, Queue!PopNext, Queue!PushData,
         Queue!MoveTail, Queue!PopExchange, Queue!Calls
<1>3. head.ptr # Null /\ QType /\ todo[t] # <<>> /\ OpsOk(t) /\ ReadOk(t) /\ QFull
  BY <1>2, QueueBusy DEF QInv, QHeld
<1>4. /\ nodes' \in Seq(QueueNode) /\ SameData(nodes, nodes')
      /\ \A n \in CIn : n \in DOMAIN nodes' /\ (n # tail.ptr => nodes'[n].next = nodes[n].next)
      /\ nodes'[tail.ptr].next.ptr # Null => tail.ptr \in Full(nodes)
  BY <1>1, <1>3, QueueLined DEF QType, SameData, QFull
<1>5. \A p : Queue!Goto(t, p) => pc' = [pc EXCEPT ![t] = p]
  BY DEF Queue!Goto
<1>6. CASE Queue!PushAcquire(t)
  <2>1. /\ pc[t] = "push" /\ pc' = [pc EXCEPT ![t] = "data"] /\ tail' = [tail EXCEPT !.ext = @ + 1]
        /\ old' = [old EXCEPT ![t] = tail'] /\ UNCHANGED <<head, todo, new, to, next, popped, empties>>
    BY <1>5, <1>6 DEF Queue!PushAcquire
  <2>2. tail' \in CountedPtr /\ tail'.ptr = tail.ptr
    BY <1>3, <2>1 DEF QType, CountedPtr
  <2>3. Moves(t) /\ pc'[t] = "data"
    <3>1. "data" \in QueuePlaces
      BY DEF QueuePlaces
    <3> QED
      BY <1>3, <2>1, <2>2, <3>1, QueueMoves
  <2>4. ~QStores(t) /\ ~QStores(t)'
    BY <2>1, <2>3 DEF QStores
  <2> QED
    BY <1>1, <1>3, <1>4, <2>1, <2>2, <2>3, <2>4, QueueHeldStays
<1>7. CASE Queue!PopAcquire(t)
  <2>1. /\ pc[t] \in {"idle", "pop"} /\ pc' = [pc EXCEPT ![t] = "compare"] /\ head' = [head EXCEPT !.ext = @ + 1]
        /\ old' = [old EXCEPT ![t] = head'] /\ UNCHANGED <<tail, todo, new, to, next, popped, empties>>
    BY <1>5, <1>7 DEF Queue!PopAcquire, Queue!Calls
  <2>2. head' \in CountedPtr /\ head'.ptr = head.ptr
    BY <1>3, <2>1 DEF QType, CountedPtr
  <2>3. Moves(t) /\ pc'[t] = "compare"
    <3>1. "compare" \in QueuePlaces
      BY DEF QueuePlaces
    <3> QED
      BY <1>3, <2>1, <2>2, <3>1, QueueMoves
  <2>4. ~QStores(t) /\ ~QStores(t)'
    BY <2>1, <2>3 DEF QStores
  <2>5. old'[t] = head'
    BY <1>3, <2>1 DEF QType
  <2> QED
    BY <1>1, <1>3, <1>4, <2>1, <2>2, <2>3, <2>4, <2>5, QueueHeldStays
<1>8. CASE Queue!PopCompare(t)
  <2>1. /\ pc[t] = "compare" /\ UNCHANGED <<head, tail, todo, old, new, to, popped>>
        /\ \/ /\ old[t].ptr = tail.ptr /\ empties' = empties + 1 /\ next' = [next EXCEPT ![t] = "done"]
              /\ pc' = [pc EXCEPT ![t] = "release"]
           \/ empties' = empties /\ next' = next /\ pc' = [pc EXCEPT ![t] = "next"]
    BY <1>5, <1>8 DEF Queue!PopCompare
  <2>2. PICK p \in {"release", "next"} : pc' = [pc EXCEPT ![t] = p]
    BY <2>1
  <2>3. Moves(t) /\ pc'[t] = p
    <3>1. p \in QueuePlaces
      BY DEF QueuePlaces
    <3> QED
      BY <1>3, <2>1, <2>2, <3>1, QueueMoves
  <2>4. ~QStores(t) /\ ~QStores(t)'
    <3>1. Head(todo[t]) \notin Value
      BY <1>3, <2>1, QueueSame DEF OpsOk
    <3> QED
      BY <2>1, <3>1 DEF QStores
  <2>5. empties' = empties \/ (head.ptr = tail.ptr /\ empties' = empties + 1)
    BY <1>3, <2>1 DEF QFull, FilledOk
  <2> QED
    BY <1>1, <1>3, <1>4, <2>1, <2>2, <2>3, <2>4, <2>5, QueueHeldStays
<1>9. CASE Queue!PopNext(t)
  <2>1. /\ pc[t] = "next" /\ pc' = [pc EXCEPT ![t] = "exchange"] /\ new' = [new EXCEPT ![t] = nodes[old[t].ptr].next]
        /\ UNCHANGED <<head, tail, todo, old, to, next, popped, empties>>
    BY <1>5, <1>9 DEF Queue!PopNext
  <2>2. nodes[old[t].ptr].next \in CountedPtr
    BY <1>3, <2>1, QueueFacts DEF QUse, Uses, Copying
  <2>3. Moves(t) /\ pc'[t] = "exchange"
    <3>1. "exchange" \in QueuePlaces
      BY DEF QueuePlaces
    <3> QED
      BY <1>3, <2>1, <2>2, <3>1, QueueMoves
  <2>4. ~QStores(t) /\ ~QStores(t)'
    BY <2>1, <2>3 DEF QStores
  <2> QED
    BY <1>1, <1>3, <1>4, <2>1, <2>3, <2>4, QueueHeldStays
<1>10. CASE Queue!PushData(t) /\ nodes[old[t].ptr].data # NoData
  <2>1. /\ pc[t] = "data" /\ pc' = [pc EXCEPT ![t] = "help"]
        /\ UNCHANGED <<head, tail, todo, old, new, to, next, popped, empties>>
    BY <1>5, <1>10, QueueSame DEF Queue!PushData
  <2>2. Moves(t) /\ pc'[t] = "help"
    <3>1. "help" \in QueuePlaces
      BY DEF QueuePlaces
    <3> QED
      BY <1>3, <2>1, <3>1, QueueMoves
  <2>3. ~QStores(t) /\ ~QStores(t)'
    BY <2>1, <2>2 DEF QStores
  <2>4. old'[t].ptr = tail.ptr => tail.ptr \in Full(nodes)
    BY <1>3, <1>10, <2>1, QueueFacts DEF Full
  <2> QED
    BY <1>1, <1>3, <1>4, <2>1, <2>2, <2>3, <2>4, QueueHeldStays
<1>11. CASE Queue!MoveTail(t) /\ tail.ptr # old[t].ptr
  <2>1. /\ pc[t] = "move" /\ pc' = [pc EXCEPT ![t] = "release"]
        /\ UNCHANGED <<head, tail, todo, old, new, to, next, popped, empties>>
    BY <1>5, <1>11 DEF Queue!MoveTail
  <2>2. Moves(t) /\ pc'[t] = "release"
    <3>1. "release" \in QueuePlaces
      BY DEF QueuePlaces
    <3> QED
      BY <1>3, <2>1, <3>1, QueueMoves
  <2>3. QStores(t)' <=> QStores(t)
    BY <2>1, <2>2 DEF QStores
  <2> QED
    BY <1>1, <1>3, <1>4, <2>1, <2>2, <2>3, QueueHeldStays
<1>12. CASE Queue!PopExchange(t) /\ head # old[t]
  <2>1. /\ pc[t] = "exchange" /\ pc' = [pc EXCEPT ![t] = "release"] /\ next' = [next EXCEPT ![t] = "pop"]
        /\ UNCHANGED <<head, tail, todo, old, new, to, popped, empties>>
    BY <1>5, <1>12 DEF Queue!PopExchange
  <2>2. Moves(t) /\ pc'[t] = "release"
    <3>1. "release" \in QueuePlaces
      BY DEF QueuePlaces
    <3> QED
      BY <1>3, <2>1, <3>1, QueueMoves
  <2>3. ~QStores(t) /\ ~QStores(t)'
    <3>1. next'[t] = "pop"
      BY <1>3, <2>1 DEF QType
    <3> QED
      BY <2>1, <2>2, <3>1 DEF QStores
  <2> QED
    BY <1>1, <1>3, <1>4, <2>1, <2>2, <2>3, QueueHeldStays
<1> QED
  BY <1>6, <1>7, <1>8, <1>9, <1>10, <1>11, <1>12

(* The steps that give a node up. *)
LEMMA QueueHeldGives ==
    ASSUME QInv, QHeld, NEW t \in Threads, Queue!FreeExternal(t) \/ Queue!ReleaseRef(t)
    PROVE  QHeld' /\ QChange
<1>1. /\ pc[t] \in {"free", "release"} /\ Queue!Continue(t)
      /\ UNCHANGED <<head, tail, old, new, to, next, popped, empties>>
      /\ \/ nodes' = Queue!GiveUp(old[t].ptr, 1, old[t].ext - 2)
         \/ nodes' = Queue!GiveUp(old[t].ptr, 0, -1)
  BY DEF Queue!FreeExternal, Queue!ReleaseRef
<1>2. /\ Moves(t) /\ head.ptr # Null /\ QType /\ old[t].ptr \in Alive /\ ~Uses(t)'
      /\ todo[t] # <<>> /\ OpsOk(t) /\ QFull
  BY <1>1, QueueFinish, QueueBusy DEF QHeld
<1>3. /\ nodes' \in Seq(QueueNode) /\ DOMAIN nodes' = DOMAIN nodes
      /\ \A m \in DOMAIN nodes : nodes'[m].next = nodes[m].next /\ nodes'[m].data = nodes[m].data
  <2>1. PICK n : n = old[t].ptr
    OBVIOUS
  <2>2. /\ nodes[n].internal \in Int /\ nodes[n].external \in Int /\ n \in DOMAIN nodes
    BY <1>2, <2>1, QueueFacts
  <2>3. old[t].ext \in Int
    BY <1>2 DEF QType, CountedPtr
  <2>4. PICK j \in Int, k \in Int : nodes' = Queue!GiveUp(n, j, k)
    <3>1. PICK k \in Int : k = old[t].ext - 2
      BY <2>3
    <3>2. PICK k2 \in Int : k2 = -1
      OBVIOUS
    <3>3. nodes' = Queue!GiveUp(n, 1, k) \/ nodes' = Queue!GiveUp(n, 0, k2)
      BY <1>1, <2>1, <3>1, <3>2
    <3>4. 1 \in Int /\ 0 \in Int
      OBVIOUS
    <3> QED
      BY <3>3, <3>4
  <2>5. PICK i \in Int : i = nodes[n].internal + k
    BY <2>2, <2>4
  <2>6. PICK e \in Int : e = nodes[n].external - j
    BY <2>2, <2>4
  <2>7. nodes' = SetCounts(nodes, n, i, e)
    BY <2>4, <2>5, <2>6 DEF Queue!GiveUp, SetCounts
  <2>8. /\ nodes' \in Seq(QueueNode) /\ DOMAIN nodes' = DOMAIN nodes
        /\ \A m \in DOMAIN nodes : m # n => nodes'[m] = nodes[m]
        /\ nodes'[n].data = nodes[n].data /\ nodes'[n].next = nodes[n].next
    <3>1. nodes \in Seq(QueueNode)
      BY <1>2 DEF QType
    <3>2. n \in DOMAIN nodes
      BY <2>2
    <3> QED
      BY <2>7, <3>1, <3>2, GivenUp
  <2> QED
    BY <2>8
<1>4. SameData(nodes, nodes')
  BY <1>3, DataFacts
<1>5. /\ \A n \in CIn : n \in DOMAIN nodes' /\ (n # tail.ptr => nodes'[n].next = nodes[n].next)
      /\ nodes'[tail.ptr].next.ptr # Null => tail.ptr \in Full(nodes)
  BY <1>2, <1>3, QueueLined, QueueFacts DEF QFull
<1>6. ~QStores(t)' /\ pc'[t] \in {"idle", "push", "pop"}
  <2>1. pc'[t] \in {"idle", "push", "pop"}
    <3>1. pc'[t] \in {"idle", next[t]}
      BY <1>1, <1>2 DEF Queue!Continue, Queue!Return, Queue!Goto, QType
    <3> QED
      BY <1>1, <1>2, <3>1 DEF Uses, Copying, Moves, QueuePlaces, QType
  <2> QED
    BY <2>1 DEF QStores
<1>7. \/ todo' = todo /\ ~QStores(t)
      \/ todo' = Done(todo, t) /\ (QStores(t) \/ Head(todo[t]) \notin Value)
  <2>1. CASE next[t] = "done"
    <3>1. todo' = Done(todo, t)
      BY <1>1, <2>1 DEF Queue!Continue, Queue!Return, Done
    <3> QED
      BY <1>1, <2>1, <3>1 DEF QStores
  <2>2. CASE next[t] # "done"
    BY <1>1, <2>2 DEF Queue!Continue, QStores
  <2> QED
    BY <2>1, <2>2
<1> QED
  BY <1>1, <1>2, <1>3, <1>4, <1>5, <1>6, <1>7, QueueHeldStays

(* A node is linked behind tail, by the thread that has stored its data     *)
(* there or by a helper; or it has been already.                            *)
LEMMA QueueHeldLinks ==
    ASSUME QInv, QHeld, NEW t \in Threads, Queue!PushLink(t) \/ Queue!PushHelp(t)
    PROVE  QHeld' /\ QChange
<1>1. /\ pc[t] \in {"link", "help"} /\ pc' = [pc EXCEPT ![t] = "move"]
      /\ UNCHANGED <<head, tail, todo, old, popped, empties>>
      /\ \/ pc[t] = "link" /\ next' = [next EXCEPT ![t] = "done"]
         \/ pc[t] = "help" /\ next' = [next EXCEPT ![t] = "push"]
  BY DEF Queue!PushLink, Queue!PushHelp, Queue!Goto
<1>2. head.ptr # Null /\ QType /\ todo[t] # <<>> /\ OpsOk(t) /\ ReadOk(t) /\ QFull
  BY <1>1, QueueBusy DEF QInv, QHeld
<1>3. PICK n : n = old[t].ptr
  OBVIOUS
<1>4. n \in DOMAIN nodes /\ nodes[n].next \in CountedPtr
  BY <1>1, <1>2, <1>3, QueueFacts DEF QUse, Uses, Copying
<1>5. new[t] \in CountedPtr /\ new[t].ptr \in DOMAIN nodes
  BY <1>1, <1>2, QueueFacts DEF QOwn, OwnOk, Owns, QType
<1>6. PICK linked : linked = [nodes EXCEPT ![n].next = new[t]]
  OBVIOUS
<1>7. /\ DOMAIN linked = DOMAIN nodes /\ linked \in Seq(QueueNode) /\ SameData(nodes, linked)
      /\ \A m \in DOMAIN nodes : m # n => linked[m].next = nodes[m].next
  <2>1. nodes \in Seq(QueueNode)
    BY <1>2 DEF QType
  <2>2. \E x \in CountedPtr : linked = [nodes EXCEPT ![n].next = x]
    BY <1>5, <1>6
  <2>3. /\ DOMAIN linked = DOMAIN nodes /\ linked \in Seq(QueueNode)
        /\ \A m \in DOMAIN nodes : linked[m].data = nodes[m].data
        /\ \A m \in DOMAIN nodes : m # n => linked[m].next = nodes[m].next
    BY <1>4, <2>1, <2>2, OtherFields
  <2>4. SameData(nodes, linked)
    BY <2>3, DataFacts
  <2> QED
    BY <2>3, <2>4
<1>8. PICK m : m = new[t].ptr
  OBVIOUS
<1>9. \/ nodes[n].next # Queue!NoNode /\ nodes' = nodes /\ new' = new /\ to' = [to EXCEPT ![t] = nodes[n].next]
      \/ /\ nodes[n].next # Queue!NoNode /\ nodes' = Dropped(nodes, m) /\ new' = new
         /\ to' = [to EXCEPT ![t] = nodes[n].next]
      \/ nodes[n].next = Queue!NoNode /\ nodes' = linked /\ new' = new /\ to' = [to EXCEPT ![t] = new[t]]
      \/ /\ nodes[n].next = Queue!NoNode /\ nodes' = Append(linked, Queue!Node)
         /\ new' = [new EXCEPT ![t].ptr = Len(nodes')] /\ to' = [to EXCEPT ![t] = new[t]]
  BY <1>3, <1>6, <1>8 DEF Queue!PushLink, Queue!PushHelp, Dropped
<1>10. /\ nodes' \in Seq(QueueNode) /\ Len(nodes') \in Nat /\ SameData(nodes, nodes')
       /\ \A k \in DOMAIN nodes : k \in DOMAIN nodes' /\
             (k # n \/ nodes[n].next # Queue!NoNode => nodes'[k].next = nodes[k].next)
  <2>1. nodes \in Seq(QueueNode)
    BY <1>2 DEF QType
  <2>2. CASE nodes[n].next # Queue!NoNode /\ nodes' = nodes
    BY <2>1, <2>2 DEF SameData
  <2>3. CASE nodes[n].next # Queue!NoNode /\ nodes' = Dropped(nodes, m)
    <3>1. /\ DOMAIN nodes' = DOMAIN nodes /\ nodes' \in Seq(QueueNode)
          /\ \A k \in DOMAIN nodes : nodes'[k].data = nodes[k].data /\ nodes'[k].next = nodes[k].next
      BY <1>5, <1>8, <2>1, <2>3, OtherFields
    <3>2. SameData(nodes, nodes')
      BY <3>1, DataFacts
    <3> QED
      BY <3>1, <3>2
  <2>4. CASE nodes[n].next = Queue!NoNode /\ nodes' = linked
    BY <1>7, <2>4
  <2>5. CASE nodes[n].next = Queue!NoNode /\ nodes' = Append(linked, Queue!Node)
    <3>1. linked \in Seq(QueueNode)
      BY <1>7
    <3>2. /\ nodes' \in Seq(QueueNode) /\ Len(nodes') \in Nat /\ SameData(linked, nodes')
          /\ \A k \in DOMAIN linked : k \in DOMAIN nodes' /\ nodes'[k] = linked[k]
      BY <2>5, <3>1, MadeData
    <3>3. SameData(nodes, nodes')
      BY <1>7, <3>2 DEF SameData
    <3> QED
      BY <1>7, <2>5, <3>2, <3>3
  <2> QED
    BY <1>9, <2>2, <2>3, <2>4, <2>5
<1>11. Moves(t) /\ pc'[t] = "move"
  <2>1. "move" \in QueuePlaces
    BY DEF QueuePlaces
  <2>2. \E x \in CountedPtr : to' = [to EXCEPT ![t] = x]
    BY <1>4, <1>5, <1>9
  <2>3. new' = new \/ \E x \in CountedPtr : new' = [new EXCEPT ![t] = x]
    <3>1. PICK x : x = [new[t] EXCEPT !.ptr = Len(nodes')]
      OBVIOUS
    <3>2. x \in CountedPtr
      BY <1>5, <1>10, <3>1 DEF CountedPtr
    <3> QED
      BY <1>9, <3>1, <3>2
  <2>4. next' = next \/ \E x \in {"done", "push", "pop"} : next' = [next EXCEPT ![t] = x]
    BY <1>1
  <2> QED
    BY <1>1, <1>2, <2>1, <2>2, <2>3, <2>4, QueueMoves
<1>12. QStores(t)' <=> QStores(t)
  <2>1. pc[t] = "link" => next'[t] = "done"
    BY <1>1, <1>2 DEF QType
  <2>2. pc[t] = "help" => next'[t] = "push"
    BY <1>1, <1>2 DEF QType
  <2> QED
    BY <1>1, <1>11, <2>1, <2>2 DEF QStores
<1>13. nodes[n].next = Queue!NoNode => n = tail.ptr
  BY <1>1, <1>2, <1>3, QueueSame DEF ReadOk
<1>14. \A k \in CIn : k \in DOMAIN nodes' /\ (k # tail.ptr => nodes'[k].next = nodes[k].next)
  BY <1>2, <1>10, <1>13, QueueLined
<1>15. nodes'[tail.ptr].next.ptr # Null => tail.ptr \in Full(nodes)
  <2>1. CASE n = tail.ptr
    BY <1>1, <1>2, <1>3, <2>1 DEF QFull, FilledOk
  <2>2. CASE n # tail.ptr
    BY <1>2, <1>10, <2>2, QueueFacts, QueueLined DEF QFull
  <2> QED
    BY <2>1, <2>2
<1> QED
  BY <1>1, <1>2, <1>10, <1>11, <1>12, <1>14, <1>15, QueueHeldStays

(* A push stores its data: in tail, or in a node that has left the queue.   *)
LEMMA QueueHeldData ==
    ASSUME QInv, QHeld, NEW t \in Threads, Queue!PushData(t), nodes[old[t].ptr].data = NoData
    PROVE  QHeld' /\ QChange
<1>1. PICK n : n = old[t].ptr
  OBVIOUS
<1>2. /\ pc[t] = "data" /\ pc' = [pc EXCEPT ![t] = "link"]
      /\ UNCHANGED <<head, tail, todo, old, new, to, next, popped, empties>>
      /\ nodes' = [nodes EXCEPT ![n].data = Head(todo[t])]
  BY <1>1, QueueSame DEF Queue!PushData, Queue!Goto
<1>3. head.ptr # Null /\ QType /\ todo[t] # <<>> /\ Head(todo[t]) \in Value /\ QFull /\ RestOk(todo, Program)
  BY <1>2, QueueBusy, QueueSame DEF QInv, QHeld, OpsOk
<1>4. n \in DOMAIN nodes /\ nodes[n].data = NoData
  BY <1>1, <1>2, <1>3, QueueFacts DEF QUse, Uses, Copying
<1>5. Moves(t) /\ pc'[t] = "link"
  <2>1. "link" \in QueuePlaces
    BY DEF QueuePlaces
  <2> QED
    BY <1>2, <1>3, <2>1, QueueMoves
<1>6. /\ nodes' \in Seq(QueueNode) /\ DOMAIN nodes' = DOMAIN nodes /\ nodes'[n].data = Head(todo[t])
      /\ \A m \in DOMAIN nodes : nodes'[m].next = nodes[m].next /\ (m # n => nodes'[m].data = nodes[m].data)
  <2>1. PICK v \in Value : v = Head(todo[t])
    BY <1>3
  <2>2. PICK x : x = [nodes[n] EXCEPT !.data = v]
    OBVIOUS
  <2>3. nodes \in Seq(QueueNode)
    BY <1>3 DEF QType
  <2>4. nodes[n] \in QueueNode
    BY <1>4, <2>3, ElementOfSeq, LenProperties
  <2>5. x \in QueueNode /\ x.data = v /\ x.next = nodes[n].next
    BY <2>2, <2>4 DEF QueueNode
  <2>6. nodes' = [nodes EXCEPT ![n] = x]
    BY <1>2, <2>1, <2>2
  <2>7. /\ nodes' \in Seq(QueueNode) /\ DOMAIN nodes' = DOMAIN nodes /\ nodes'[n] = x
        /\ \A m \in DOMAIN nodes : m # n => nodes'[m] = nodes[m]
    BY <1>4, <2>3, <2>5, <2>6, Changed
  <2> QED
    BY <2>1, <2>5, <2>7
<1>7. QOrder' = QOrder
  <2>1. \A m \in CIn : m \in DOMAIN nodes' /\ (m # tail.ptr => nodes'[m].next = nodes[m].next)
    BY <1>3, <1>6, QueueLined
  <2> QED
    BY <1>2, <1>3, <1>6, <2>1, QueueOrderStays
<1>8. QTaking' = QTaking
  BY <1>2, <1>5 DEF QTaking, Moves
<1>9. ~QStores(t) /\ QStores(t)'
  BY <1>2, <1>3, <1>5 DEF QStores
<1>10. QRest[t] = todo[t] /\ QRest' = Done(QRest, t)
  <2>1. \A u \in Threads : u # t => (QStores(u)' <=> QStores(u))
    BY <1>5 DEF QStores, Moves
  <2>2. \A u \in Threads : u # t => QRest'[u] = QRest[u]
    BY <1>2, <2>1 DEF QRest
  <2>3. QRest[t] = todo[t] /\ QRest'[t] = Tail(todo[t])
    BY <1>2, <1>9 DEF QRest
  <2>4. QRest = [u \in Threads |-> QRest[u]] /\ QRest' = [u \in Threads |-> QRest'[u]]
    BY DEF QRest
  <2> QED
    BY <2>2, <2>3, <2>4 DEF Done
<1>11. Stored(nodes, nodes', n, Head(QRest[t]))
  <2>1. Head(todo[t]) # NoData
    BY <1>3, ThreadsAssumption
  <2>2. n \notin Full(nodes)
    BY <1>4 DEF Full
  <2>3. \A m : m \in Full(nodes') <=> m \in Full(nodes) \/ m = n
    BY <1>4, <1>6, <2>1 DEF Full
  <2>4. \A m \in Full(nodes) : nodes'[m].data = nodes[m].data
    BY <1>6, <2>2 DEF Full
  <2> QED
    BY <1>6, <1>10, <2>2, <2>3, <2>4 DEF Stored
<1>12. Held(nodes, popped, QRest, Program, QOrder, QFilled) /\ QTaking \in SUBSET QFilled
  BY <1>3, QueueTaking DEF QHeld
<1>13. QRest[t] # <<>> /\ Head(QRest[t]) \in Value
  BY <1>3, <1>10
<1>14. Held(nodes', popped, QRest', Program, QOrder, QFilled \cup {n})
  BY <1>10, <1>11, <1>12, <1>13, LinePut
<1>15. Change(TRUE, Values(QOrder, nodes), OutOf(QTaking, popped, nodes), empties,
              Values(QOrder, nodes'), OutOf(QTaking, popped, nodes'), empties)
  BY <1>10, <1>11, <1>12, <1>13, <1>14, LinePut
<1>16. Held(nodes', popped, QRest', Program, QOrder, Full(nodes') \ Elements(QOrder))
  BY <1>14, HeldFilled
<1>17. QFull'
  <2>1. Full(nodes') = Full(nodes) \cup {n}
    BY <1>11 DEF Stored
  <2>2. FilledOk(t)'
    BY <1>1, <1>2, <1>5, <2>1 DEF FilledOk
  <2>3. ASSUME NEW u \in Threads, u # t
        PROVE  /\ pc[u] = "take" => old[u].ptr \in Full(nodes')
               /\ pc[u] \in {"link", "help", "compare"} /\ old[u].ptr = tail'.ptr
                     => tail'.ptr = tail.ptr /\ (tail.ptr \in Full(nodes) => tail.ptr \in Full(nodes'))
    BY <1>2, <1>3, <2>1 DEF QFull, FilledOk
  <2>4. \A u \in Threads : FilledOk(u)'
    BY <1>2, <1>3, <1>5, <2>2, <2>3, FilledStays
  <2>5. nodes'[tail.ptr].next = nodes[tail.ptr].next
    BY <1>3, <1>6, QueueFacts
  <2> QED
    BY <1>2, <1>3, <2>1, <2>4, <2>5 DEF QFull
<1> QED
  BY <1>2, <1>3, <1>7, <1>8, <1>15, <1>16, <1>17 DEF QHeld, QChange, QFilled

(* The data of a node is taken out; its counts may be given up before.      *)
Cleared(s, n) == [s EXCEPT ![n].data = NoData]

LEMMA DataTaken ==
    ASSUME NEW s \in Seq(QueueNode), NEW n \in DOMAIN s, NEW made, made = Cleared(s, n)
    PROVE  /\ made \in Seq(QueueNode) /\ DOMAIN made = DOMAIN s /\ Emptied(s, made, n)
           /\ \A m \in DOMAIN s : made[m].next = s[m].next
<1>1. s[n] \in QueueNode
  BY ElementOfSeq, LenProperties
<1>2. PICK x : x = [s[n] EXCEPT !.data = NoData]
  OBVIOUS
<1>3. x \in QueueNode /\ x.data = NoData /\ x.next = s[n].next
  BY <1>1, <1>2 DEF QueueNode
<1>4. made = [s EXCEPT ![n] = x]
  BY <1>2 DEF Cleared
<1>5. /\ made \in Seq(QueueNode) /\ DOMAIN made = DOMAIN s /\ made[n] = x
      /\ \A m \in DOMAIN s : m # n => made[m] = s[m]
  BY <1>3, <1>4, Changed
<1>6. Emptied(s, made, n)
  <2>1. \A m \in DOMAIN s : m # n => made[m].data = s[m].data
    BY <1>5
  <2> QED
    BY <1>3, <1>5, <2>1, DataFacts
<1> QED
  BY <1>3, <1>5, <1>6

(* One of the pushes moves tail on, and the node it moves on from is now in *)
(* the queue.                                                               *)
LEMMA QueueHeldMove ==
    ASSUME QInv, QHeld, NEW t \in Threads, Queue!MoveTail(t), tail.ptr = old[t].ptr
    PROVE  QHeld' /\ QChange
<1>1. /\ pc[t] = "move" /\ pc' = [pc EXCEPT ![t] = "free"]
      /\ tail' = to[t] /\ old' = [old EXCEPT ![t] = tail]
      /\ UNCHANGED <<nodes, head, todo, new, to, next, popped, empties>>
  BY DEF Queue!MoveTail, Queue!Goto
<1>2. head.ptr # Null /\ QType /\ ReadOk(t) /\ QFull /\ RestOk(todo, Program)
  BY <1>1, QueueBusy DEF QInv, QHeld
<1>3. Moves(t) /\ pc'[t] = "free"
  <2>1. "free" \in QueuePlaces /\ tail \in CountedPtr
    BY <1>2 DEF QueuePlaces, QType
  <2> QED
    BY <1>1, <1>2, <2>1, QueueMoves
<1>4. /\ tail'.ptr = nodes[tail.ptr].next.ptr /\ tail'.ptr # Null /\ tail'.ptr # tail.ptr
      /\ nodes[tail'.ptr].next.ptr = Null
  BY <1>1, <1>2, QueueFacts DEF ReadOk, QList
<1>5. QOrder' = Append(QOrder, tail.ptr)
  <2>1. /\ Lined(CIn, head.ptr, tail.ptr, NextOf(nodes))
        /\ DOMAIN NextOf(nodes) = 1 .. Len(nodes) /\ Len(nodes) \in Nat
        /\ NextOf(nodes)[tail.ptr] = tail'.ptr
    BY <1>2, <1>4, QueueLined, QueueFacts
  <2>2. Before(head.ptr, tail'.ptr, NextOf(nodes)) = Append(Before(head.ptr, tail.ptr, NextOf(nodes)), tail.ptr)
    BY <1>4, <2>1, BeforeAdded
  <2> QED
    BY <1>1, <1>2, <2>2 DEF QOrder
<1>6. QTaking' = QTaking
  BY <1>1, <1>3 DEF QTaking, Moves
<1>7. QRest' = QRest
  <2>1. \A u \in Threads : QStores(u)' <=> QStores(u)
    BY <1>1, <1>3 DEF QStores, Moves
  <2> QED
    BY <1>1, <2>1 DEF QRest
<1>8. tail.ptr \in QFilled
  BY <1>2, <1>4, QueueOrder DEF QFull, QFilled
<1>9. Held(nodes, popped, QRest, Program, QOrder, QFilled)
  BY DEF QHeld
<1>10. Held(nodes, popped, QRest, Program, Append(QOrder, tail.ptr), QFilled \ {tail.ptr})
  BY <1>8, <1>9, LineAdded
<1>11. Change(TRUE, Values(QOrder, nodes), OutOf(QTaking, popped, nodes), empties,
              Values(Append(QOrder, tail.ptr), nodes), OutOf(QTaking, popped, nodes), empties)
  BY <1>8, <1>9, <1>10, LineAdded
<1>12. Held(nodes, popped, QRest, Program, Append(QOrder, tail.ptr), Full(nodes) \ Elements(Append(QOrder, tail.ptr)))
  BY <1>10, HeldFilled
<1>13. QFull'
  <2>1. FilledOk(t)'
    BY <1>3 DEF FilledOk
  <2>2. ASSUME NEW u \in Threads, u # t
        PROVE  /\ pc[u] = "take" => old[u].ptr \in Full(nodes')
               /\ pc[u] \in {"link", "help", "compare"} /\ old[u].ptr = tail'.ptr
                     => tail'.ptr = tail.ptr /\ (tail.ptr \in Full(nodes) => tail.ptr \in Full(nodes'))
    <3>1. FilledOk(u) /\ ReadOk(u)
      BY <1>2, QueueFacts DEF QFull, QRead
    <3>2. pc[u] \in {"link", "help", "compare"} => old[u].ptr # tail'.ptr
      BY <1>4, <3>1 DEF ReadOk
    <3> QED
      BY <1>1, <3>1, <3>2 DEF FilledOk
  <2>3. \A u \in Threads : FilledOk(u)'
    BY <1>1, <1>2, <1>3, <2>1, <2>2, FilledStays
  <2> QED
    BY <1>1, <1>4, <2>3 DEF QFull
<1> QED
  BY <1>1, <1>2, <1>5, <1>6, <1>7, <1>11, <1>12, <1>13 DEF QHeld, QChange, QFilled

(* A pop moves head on, and is going to take the data of the node it leaves.*)
LEMMA QueueHeldExchange ==
    ASSUME QInv, QHeld, NEW t \in Threads, Queue!PopExchange(t), head = old[t]
    PROVE  QHeld' /\ QChange
<1>1. /\ pc[t] = "exchange" /\ pc' = [pc EXCEPT ![t] = "take"] /\ head' = new[t]
      /\ UNCHANGED <<nodes, tail, todo, old, new, to, next, popped, empties>>
  BY DEF Queue!PopExchange, Queue!Goto
<1>2. head.ptr # Null /\ QType /\ ReadOk(t) /\ QFull /\ RestOk(todo, Program)
  BY <1>1, QueueBusy DEF QInv, QHeld
<1>3. Moves(t) /\ pc'[t] = "take"
  <2>1. "take" \in QueuePlaces
    BY DEF QueuePlaces
  <2> QED
    BY <1>1, <1>2, <2>1, QueueMoves
<1>4. head'.ptr = nodes[head.ptr].next.ptr /\ head'.ptr # Null /\ head.ptr # tail.ptr
  BY <1>1, <1>2 DEF ReadOk
<1>5. QOrder # <<>> /\ QOrder[1] = head.ptr /\ QOrder' = Tail(QOrder)
  <2>1. /\ Lined(CIn, head.ptr, tail.ptr, NextOf(nodes))
        /\ DOMAIN NextOf(nodes) = 1 .. Len(nodes) /\ Len(nodes) \in Nat
        /\ NextOf(nodes)[head.ptr] = head'.ptr
    BY <1>2, <1>4, QueueLined, QueueFacts
  <2>2. Before(head'.ptr, tail.ptr, NextOf(nodes)) = Tail(Before(head.ptr, tail.ptr, NextOf(nodes)))
    BY <1>4, <2>1, BeforeTaken
  <2>3. QOrder' = Before(head'.ptr, tail.ptr, NextOf(nodes))
    BY <1>1, <1>4 DEF QOrder
  <2> QED
    BY <1>2, <1>4, <2>2, <2>3, QueueOrder
<1>6. QTaking' = QTaking \cup {QOrder[1]}
  <2>1. \A u \in Threads : u # t => pc'[u] = pc[u]
    BY <1>3 DEF Moves
  <2>2. old' = old /\ old[t].ptr = QOrder[1]
    BY <1>1, <1>5
  <2> QED
    BY <1>1, <1>3, <2>1, <2>2 DEF QTaking
<1>7. QRest' = QRest
  <2>1. \A u \in Threads : QStores(u)' <=> QStores(u)
    BY <1>1, <1>3 DEF QStores, Moves
  <2> QED
    BY <1>1, <2>1 DEF QRest
<1>8. Held(nodes, popped, QRest, Program, QOrder, QFilled) /\ QTaking \in SUBSET QFilled
  BY <1>2, QueueTaking DEF QHeld
<1>9. Held(nodes, popped, QRest, Program, Tail(QOrder), QFilled \cup {QOrder[1]})
  BY <1>5, <1>8, LineTaken
<1>10. Change(TRUE, Values(QOrder, nodes), OutOf(QTaking, popped, nodes), empties,
              Values(Tail(QOrder), nodes), OutOf(QTaking \cup {QOrder[1]}, popped, nodes), empties)
  BY <1>5, <1>8, <1>9, LineTaken
<1>11. Held(nodes, popped, QRest, Program, Tail(QOrder), Full(nodes) \ Elements(Tail(QOrder)))
  BY <1>9, HeldFilled
<1>12. head.ptr \in Full(nodes)
  <2>1. QOrder \in Seq(CIn) /\ Elements(QOrder) \subseteq Full(nodes)
    BY <1>2, <1>8, QueueOrder DEF Held
  <2>2. QOrder[1] \in Elements(QOrder)
    BY <1>5, <2>1, TakeFirst
  <2> QED
    BY <1>5, <2>1, <2>2
<1>13. QFull'
  <2>1. ASSUME NEW u \in Threads PROVE FilledOk(u)'
    <3>1. FilledOk(u)
      BY <1>2 DEF QFull
    <3>2. u # t => pc'[u] = pc[u]
      BY <1>3 DEF Moves
    <3> QED
      BY <1>1, <1>3, <1>4, <1>12, <3>1, <3>2 DEF FilledOk
  <2> QED
    BY <1>1, <1>2, <2>1 DEF QFull
<1> QED
  BY <1>1, <1>2, <1>5, <1>6, <1>7, <1>10, <1>11, <1>13 DEF QHeld, QChange, QFilled

(* It takes the data. *)
LEMMA QueueHeldTake ==
    ASSUME QInv, QHeld, NEW t \in Threads, Queue!PopTake(t)
    PROVE  QHeld' /\ QChange
<1>1. PICK n : n = old[t].ptr
  OBVIOUS
<1>2. PICK r : r = [by |-> t, nth |-> Len(todo[t]), val |-> nodes[n].data]
  OBVIOUS
<1>3. /\ pc[t] = "take" /\ pc' = [pc EXCEPT ![t] = "free"] /\ next' = [next EXCEPT ![t] = "done"]
      /\ UNCHANGED <<head, tail, todo, old, new, to, empties>>
      /\ nodes' = [nodes EXCEPT ![n].data = NoData] /\ popped' = popped \cup {r}
  BY <1>1, <1>2, QueueSame DEF Queue!PopTake, Queue!Goto, Queue!Result
<1>4. head.ptr # Null /\ QType /\ OpsOk(t) /\ ReadOk(t) /\ QFull /\ RestOk(todo, Program)
  BY <1>3, QueueBusy DEF QInv, QHeld
<1>5. Moves(t) /\ pc'[t] = "free"
  <2>1. "free" \in QueuePlaces
    BY DEF QueuePlaces
  <2> QED
    BY <1>3, <1>4, <2>1, QueueMoves
<1>6. n \in DOMAIN nodes /\ n \in Full(nodes) /\ n \notin CIn /\ n \in QTaking
  <2>1. n \in QTaking /\ n \in Full(nodes) /\ n \notin CIn
    BY <1>1, <1>3, <1>4 DEF QTaking, QFull, FilledOk, ReadOk, HeadGone
  <2> QED
    BY <2>1 DEF Full
<1>7. /\ nodes' \in Seq(QueueNode) /\ DOMAIN nodes' = DOMAIN nodes /\ Emptied(nodes, nodes', n)
      /\ \A m \in DOMAIN nodes : nodes'[m].next = nodes[m].next
  <2>1. nodes \in Seq(QueueNode)
    BY <1>4 DEF QType
  <2>2. n \in DOMAIN nodes
    BY <1>6
  <2>3. nodes' = Cleared(nodes, n)
    BY <1>3 DEF Cleared
  <2> QED
    BY <2>1, <2>2, <2>3, DataTaken
<1>8. QOrder' = QOrder
  <2>1. \A m \in CIn : m \in DOMAIN nodes' /\ (m # tail.ptr => nodes'[m].next = nodes[m].next)
    BY <1>4, <1>7, QueueLined
  <2> QED
    BY <1>3, <1>4, <1>7, <2>1, QueueOrderStays
<1>9. ASSUME NEW u \in Threads, u # t, pc[u] = "take" PROVE old[u].ptr # n
  BY <1>1, <1>3, <1>4, <1>9, QueueFacts DEF QOnce, Differ, HeadGone
<1>10. QTaking' = QTaking \ {n}
  <2>1. \A u \in Threads : u # t => pc'[u] = pc[u]
    BY <1>5 DEF Moves
  <2> QED
    BY <1>1, <1>3, <1>5, <1>9, <2>1 DEF QTaking
<1>11. QRest' = QRest
  <2>1. Head(todo[t]) \notin Value
    BY <1>3, <1>4, QueueSame DEF OpsOk
  <2>2. \A u \in Threads : QStores(u)' <=> QStores(u)
    BY <1>3, <1>5, <2>1 DEF QStores, Moves
  <2> QED
    BY <1>3, <2>2 DEF QRest
<1>12. /\ Held(nodes, popped, QRest, Program, QOrder, QFilled) /\ QTaking \in SUBSET QFilled
       /\ n \in QFilled /\ r.val = nodes[n].data
  BY <1>2, <1>4, <1>6, QueueTaking DEF QHeld
<1>13. Held(nodes', popped \cup {r}, QRest, Program, QOrder, QFilled \ {n})
  BY <1>6, <1>7, <1>12, LineOut
<1>14. Change(TRUE, Values(QOrder, nodes), OutOf(QTaking, popped, nodes), empties,
              Values(QOrder, nodes'), OutOf(QTaking \ {n}, popped \cup {r}, nodes'), empties)
  BY <1>6, <1>7, <1>12, <1>13, LineOut
<1>15. Held(nodes', popped \cup {r}, QRest, Program, QOrder, Full(nodes') \ Elements(QOrder))
  BY <1>13, HeldFilled
<1>16. QFull'
  <2>1. Full(nodes') = Full(nodes) \ {n} /\ n # tail.ptr
    BY <1>4, <1>6, <1>7, QueueFacts DEF Emptied
  <2>2. FilledOk(t)'
    BY <1>5 DEF FilledOk
  <2>3. ASSUME NEW u \in Threads, u # t
        PROVE  /\ pc[u] = "take" => old[u].ptr \in Full(nodes')
               /\ pc[u] \in {"link", "help", "compare"} /\ old[u].ptr = tail'.ptr
                     => tail'.ptr = tail.ptr /\ (tail.ptr \in Full(nodes) => tail.ptr \in Full(nodes'))
    BY <1>3, <1>4, <1>9, <2>1, <2>3 DEF QFull, FilledOk
  <2>4. \A u \in Threads : FilledOk(u)'
    BY <1>3, <1>4, <1>5, <2>2, <2>3, FilledStays
  <2>5. nodes'[tail.ptr].next = nodes[tail.ptr].next
    BY <1>4, <1>7, QueueFacts
  <2> QED
    BY <1>3, <1>4, <2>1, <2>4, <2>5 DEF QFull
<1> QED
  BY <1>3, <1>4, <1>8, <1>10, <1>11, <1>14, <1>15, <1>16 DEF QHeld, QChange, QFilled

(* The destructor takes the first node out and its data with it ...         *)
LEMMA QueueHeldDestroyPop ==
    ASSUME QInv, QHeld, Queue!DestroyPop
    PROVE  QHeld' /\ QChange
<1>1. PICK n : n = head.ptr
  OBVIOUS
<1>2. PICK r : r = [by |-> "destructor", nth |-> n, val |-> nodes[n].data]
  OBVIOUS
<1>3. /\ Queue!AllReturned /\ head.ptr # Null /\ head.ptr # tail.ptr
      /\ UNCHANGED <<pc, todo, old, new, to, next, tail, empties>>
      /\ nodes' = [Queue!GiveUp(n, 1, head.ext + 1 - 2) EXCEPT ![n].data = NoData]
      /\ head' = nodes[n].next /\ popped' = popped \cup {r}
  BY <1>1, <1>2, QueueSame DEF Queue!DestroyPop, Queue!queueVars
<1>4. QType /\ QFull /\ RestOk(todo, Program) /\ \A t \in Threads : pc[t] = "idle"
  BY <1>3, QueueReturned DEF QInv, QHeld
<1>5. /\ n \in DOMAIN nodes /\ n \in CIn /\ nodes[n].internal \in Int /\ nodes[n].external \in Int
      /\ head.ext \in Int /\ n # tail.ptr /\ nodes[n].next.ptr # Null /\ nodes[tail.ptr].next.ptr = Null
  <2>1. n \in CIn /\ n \in DOMAIN nodes /\ nodes[n].internal \in Int /\ nodes[n].external \in Int
    BY <1>1, <1>3, QueueFacts
  <2>2. head.ext \in Int
    BY <1>4 DEF QType, CountedPtr
  <2>3. (nodes[n].next.ptr = Null => n = tail.ptr) /\ nodes[tail.ptr].next.ptr = Null
    BY <1>3, <1>4, <2>1, QueueIdle
  <2> QED
    BY <1>1, <1>3, <2>1, <2>2, <2>3
<1>6. /\ nodes' \in Seq(QueueNode) /\ DOMAIN nodes' = DOMAIN nodes /\ Emptied(nodes, nodes', n)
      /\ \A m \in DOMAIN nodes : nodes'[m].next = nodes[m].next
  <2>1. PICK i \in Int : i = nodes[n].internal + (head.ext + 1 - 2)
    BY <1>5
  <2>2. PICK e \in Int : e = nodes[n].external - 1
    BY <1>5
  <2>3. PICK g : g = SetCounts(nodes, n, i, e)
    OBVIOUS
  <2>4. nodes \in Seq(QueueNode)
    BY <1>4 DEF QType
  <2>5. n \in DOMAIN nodes
    BY <1>5
  <2>6. /\ g \in Seq(QueueNode) /\ DOMAIN g = DOMAIN nodes
        /\ \A m \in DOMAIN nodes : m # n => g[m] = nodes[m]
        /\ g[n].data = nodes[n].data /\ g[n].next = nodes[n].next
    BY <2>3, <2>4, <2>5, GivenUp
  <2>7. nodes' = Cleared(g, n)
    <3>1. g = Queue!GiveUp(n, 1, head.ext + 1 - 2)
      BY <2>1, <2>2, <2>3 DEF Queue!GiveUp, SetCounts
    <3> QED
      BY <1>3, <3>1 DEF Cleared
  <2>8. g \in Seq(QueueNode)
    BY <2>6
  <2>9. n \in DOMAIN g
    BY <2>5, <2>6
  <2>10. /\ nodes' \in Seq(QueueNode) /\ DOMAIN nodes' = DOMAIN g /\ Emptied(g, nodes', n)
         /\ \A m \in DOMAIN g : nodes'[m].next = g[m].next
    BY <2>7, <2>8, <2>9, DataTaken
  <2>11. \A m \in DOMAIN nodes : g[m].data = nodes[m].data /\ g[m].next = nodes[m].next
    BY <2>6
  <2>12. SameData(nodes, g)
    BY <2>6, <2>11, DataFacts
  <2>13. Emptied(nodes, nodes', n)
    BY <2>10, <2>12 DEF Emptied, SameData
  <2> QED
    BY <2>6, <2>10, <2>11, <2>13
<1>7. QOrder # <<>> /\ QOrder[1] = n /\ QOrder' = Tail(QOrder)
  <2> DEFINE succ == NextOf(nodes)
             succ2 == NextOf(nodes')
  <2>1. /\ Lined(CIn, head.ptr, tail.ptr, succ)
        /\ DOMAIN succ = 1 .. Len(nodes) /\ Len(nodes) \in Nat
        /\ \A m \in DOMAIN nodes : succ[m] = nodes[m].next.ptr
    BY <1>3, QueueLined
  <2>2. succ[head.ptr] = head'.ptr
    BY <1>1, <1>3, <1>5, <2>1
  <2>3. succ2 = succ
    BY <1>6 DEF NextOf
  <2> HIDE DEF succ, succ2
  <2>4. Before(head'.ptr, tail.ptr, succ) = Tail(Before(head.ptr, tail.ptr, succ))
    BY <1>3, <2>1, <2>2, BeforeTaken
  <2>5. QOrder' = Before(head'.ptr, tail.ptr, succ2)
    BY <1>3, <1>5 DEF QOrder, succ2
  <2>6. QOrder = Before(head.ptr, tail.ptr, succ)
    BY <1>3 DEF QOrder, succ
  <2> QED
    BY <1>1, <1>3, <2>3, <2>4, <2>5, <2>6, QueueOrder
<1>8. QTaking = {} /\ QTaking' = {}
  BY <1>3, <1>4 DEF QTaking
<1>9. QRest' = QRest
  BY <1>3 DEF QRest, QStores
<1>10. /\ Held(nodes, popped, QRest, Program, QOrder, QFilled) /\ r.val = nodes[QOrder[1]].data
       /\ Emptied(nodes, nodes', QOrder[1]) /\ {} \in SUBSET QFilled
  BY <1>2, <1>6, <1>7 DEF QHeld
<1>11. Held(nodes', popped \cup {r}, QRest, Program, Tail(QOrder), QFilled)
  BY <1>7, <1>10, LineTakeOut
<1>12. Change(TRUE, Values(QOrder, nodes), OutOf({}, popped, nodes), empties,
              Values(Tail(QOrder), nodes'), OutOf({}, popped \cup {r}, nodes'), empties)
  BY <1>7, <1>10, <1>11, LineTakeOut
<1>13. Held(nodes', popped \cup {r}, QRest, Program, Tail(QOrder), Full(nodes') \ Elements(Tail(QOrder)))
  BY <1>11, HeldFilled
<1>14. QFull'
  <2>1. \A t \in Threads : FilledOk(t)'
    BY <1>3, <1>4 DEF FilledOk
  <2>2. nodes'[tail.ptr].next = nodes[tail.ptr].next
    BY <1>3, <1>6, QueueFacts
  <2> QED
    BY <1>3, <1>5, <2>1, <2>2 DEF QFull
<1> QED
  BY <1>3, <1>4, <1>7, <1>8, <1>9, <1>12, <1>13, <1>14 DEF QHeld, QChange, QFilled

(* ... and deletes the last, which has none.                                *)
LEMMA QueueHeldDestroyLast ==
    ASSUME QInv, QHeld, Queue!DestroyLast
    PROVE  QHeld' /\ QChange
<1>1. PICK n : n = head.ptr
  OBVIOUS
<1>2. /\ Queue!AllReturned /\ head.ptr # Null /\ head.ptr = tail.ptr /\ head'.ptr = Null
      /\ UNCHANGED <<pc, todo, old, new, to, next, tail, popped, empties>>
      /\ nodes' = Dropped(nodes, n)
  BY <1>1, QueueSame DEF Queue!DestroyLast, Queue!queueVars, Dropped
<1>3. QType /\ RestOk(todo, Program) /\ \A t \in Threads : pc[t] = "idle"
  BY <1>2, QueueReturned DEF QInv, QHeld
<1>4. n \in DOMAIN nodes
  BY <1>1, <1>2, QueueFacts
<1>5. SameData(nodes, nodes')
  <2>1. nodes \in Seq(QueueNode)
    BY <1>3 DEF QType
  <2>2. DOMAIN nodes' = DOMAIN nodes /\ \A m \in DOMAIN nodes : nodes'[m].data = nodes[m].data
    BY <1>2, <1>4, <2>1, OtherFields
  <2> QED
    BY <2>2, DataFacts
<1>6. QOrder = <<>> /\ QOrder' = <<>>
  <2>1. QOrder = <<>>
    BY <1>2, QueueOrder
  <2> QED
    BY <1>2, <2>1 DEF QOrder
<1>7. QTaking = {} /\ QTaking' = {}
  BY <1>2, <1>3 DEF QTaking
<1>8. QRest' = QRest
  BY <1>2 DEF QRest, QStores
<1>9. Held(nodes, popped, QRest, Program, QOrder, QFilled) /\ {} \in SUBSET QFilled
  BY DEF QHeld
<1>10. Held(nodes', popped, QRest, Program, QOrder, QFilled)
  BY <1>5, <1>9, LineStays
<1>11. Change(TRUE, Values(QOrder, nodes), OutOf({}, popped, nodes), empties,
              Values(QOrder, nodes'), OutOf({}, popped, nodes'), empties)
  BY <1>5, <1>9, <1>10, LineStays
<1>12. Held(nodes', popped, QRest, Program, QOrder, Full(nodes') \ Elements(QOrder))
  BY <1>10, HeldFilled
<1> QED
  BY <1>2, <1>3, <1>6, <1>7, <1>8, <1>11, <1>12 DEF QHeld, QChange, QFilled

LEMMA QueueHeldStep ==
    ASSUME QInv, QHeld, (\E t \in Threads : Queue!Step(t)) \/ Queue!Destroy
    PROVE  QHeld' /\ QChange
<1>1. CASE Queue!Destroy
  BY <1>1, QueueHeldDestroyPop, QueueHeldDestroyLast DEF Queue!Destroy
<1>2. ASSUME NEW t \in Threads, Queue!Step(t) PROVE QHeld' /\ QChange
  <2>1. CASE Queue!PushStart(t)
    BY <2>1, QueueHeldStart
  <2>2. CASE Queue!PushAcquire(t) \/ Queue!PopAcquire(t) \/ Queue!PopCompare(t) \/ Queue!PopNext(t)
    BY <2>2, QueueHeldReads
  <2>3. CASE Queue!PushData(t)
    BY <2>3, QueueHeldReads, QueueHeldData
  <2>4. CASE Queue!PushLink(t) \/ Queue!PushHelp(t)
    BY <2>4, QueueHeldLinks
  <2>5. CASE Queue!MoveTail(t)
    BY <2>5, QueueHeldReads, QueueHeldMove
  <2>6. CASE Queue!PopExchange(t)
    BY <2>6, QueueHeldReads, QueueHeldExchange
  <2>7. CASE Queue!PopTake(t)
    BY <2>7, QueueHeldTake
  <2>8. CASE Queue!FreeExternal(t) \/ Queue!ReleaseRef(t)
    BY <2>8, QueueHeldGives
  <2> QED
    BY <1>2, <2>1, <2>2, <2>3, <2>4, <2>5, <2>6, <2>7, <2>8 DEF Queue!Step, Queue!Push, Queue!PopOp
<1> QED
  BY <1>1, <1>2

LEMMA QueueHeldInit == Queue!Init => QHeld
<1> SUFFICES ASSUME Queue!Init PROVE QHeld
  OBVIOUS
<1>1. /\ nodes = <<Queue!Node>> /\ head = Queue!Counted(1) /\ tail = Queue!Counted(1) /\ todo = Program
      /\ pc = [t \in Threads |-> "idle"] /\ next = [t \in Threads |-> "idle"] /\ popped = {}
  BY DEF Queue!Init, Queue!ThreadsInit
<1>2. QInv
  BY QueueInit
<1>3. head.ptr # Null /\ head.ptr = 1 /\ tail.ptr = 1
  BY <1>1, QueueSame DEF Null
<1>4. QOrder = <<>>
  BY <1>2, <1>3, QueueOrder
<1>5. DOMAIN nodes = {1} /\ nodes[1] = Queue!Node /\ Queue!Node.data = NoData /\ Queue!Node.next.ptr = Null
  BY <1>1, QueueSame DEF Queue!Node
<1>6. Full(nodes) = {} /\ QFilled = {}
  BY <1>5 DEF Full, QFilled
<1>7. Program \in [Threads -> Seq(Value \cup Others)] /\ PushedOnce(Program)
  BY ThreadsAssumption, OnceAssumption
<1>8. QRest = Program
  BY <1>1, <1>7 DEF QRest, QStores
<1>9. Held(nodes, {}, Program, Program, <<>>, {})
  BY <1>6, <1>7, HeldInit
<1>10. RestOk(todo, Program)
  BY <1>1, <1>7, RestInit
<1>11. QFull
  BY <1>1, <1>3, <1>5 DEF QFull, FilledOk
<1> QED
  BY <1>1, <1>4, <1>6, <1>8, <1>9, <1>10, <1>11 DEF QHeld

-----------------------------------------------------------------------------
(* What is held where, as ExactlyOnce says it. *)
LEMMA OnceHeld ==
    ASSUME NEW rest, NEW prog, NEW L, NEW X, Held(nodes, popped, rest, prog, L, X),
           Holding \in SUBSET DOMAIN nodes,
           \A v \in Value : Entered(v) <=> v \in Brought(rest, prog),
           \A v \in Value : v \in Lost <=> \E n \in Full(nodes) \ Holding : nodes[n].data = v
    PROVE  ExactlyOnce
<1>1. ASSUME NEW v \in Value
      PROVE  Copies(Holding, nodes, popped, v) = IF Entered(v) /\ v \notin Lost THEN 1 ELSE 0
  <2>1. Copies(Holding, nodes, popped, v)
        = IF v \in Brought(rest, prog) /\ ~Elsewhere(Holding, nodes, v) THEN 1 ELSE 0
    BY HeldCount
  <2>2. v \in Lost <=> Elsewhere(Holding, nodes, v)
    BY DEF Elsewhere
  <2> QED
    BY <2>1, <2>2
<1>2. \A r \in popped : r.val # NoData
  BY ThreadsAssumption DEF Held, Once
<1> QED
  BY <1>1, <1>2 DEF ExactlyOnce, Copies

(* A value has been pushed when its push has returned or, the thread being *)
(* one of those given, has stored it: each value is pushed by one operation.*)
Enters(v, prog, stored) == \E t \in Threads :
                              /\ \E i \in DOMAIN prog[t] : prog[t][i] = v
                              /\ \/ \A i \in DOMAIN todo[t] : todo[t][i] # v
                                 \/ Head(todo[t]) = v /\ t \in stored

Unstored(stored) == [t \in Threads |-> IF t \in stored THEN Tail(todo[t]) ELSE todo[t]]

LEMMA Entering ==
    ASSUME NEW prog, PushedOnce(prog), RestOk(todo, prog), NEW stored \in SUBSET Threads,
           \A t \in stored : todo[t] # <<>>, NEW v \in Value
    PROVE  v \in Brought(Unstored(stored), prog) <=> Enters(v, prog, stored)
<1> DEFINE rest == Unstored(stored)
<1> USE DEF Unstored
<1> DEFINE By(t) == \E i \in DOMAIN prog[t] : prog[t][i] = v
           Left(t) == \E i \in DOMAIN todo[t] : todo[t][i] = v
<1>1. \A t, u \in Threads : By(t) /\ By(u) => t = u
  BY DEF PushedOnce
<1>2. \A t \in Threads : Left(t) => By(t)
  <2>1. \A t \in Threads : v \in Elements(todo[t]) => v \in Elements(prog[t])
    BY DEF RestOk
  <2> QED
    BY <2>1 DEF Elements
<1>3. \A t \in Threads : t \notin stored => (v \in Elements(rest[t]) <=> Left(t))
  BY DEF Elements
<1>4. ASSUME NEW t \in stored
      PROVE  v \in Elements(rest[t]) <=> Left(t) /\ Head(todo[t]) # v
  <2>1. PICK s \in Seq(Value \cup Others) : s = todo[t] /\ s # <<>>
    BY DEF RestOk
  <2>2. rest[t] = Tail(s)
    BY <2>1
  <2>3. /\ DOMAIN Tail(s) = 1 .. Len(s) - 1 /\ Len(s) \in Nat /\ Len(s) > 0 /\ DOMAIN s = 1 .. Len(s)
        /\ Head(s) = s[1] /\ \A i \in 1 .. Len(s) - 1 : Tail(s)[i] = s[i + 1]
    BY <2>1
  <2>4. \A i, j \in DOMAIN s : s[i] = v /\ s[j] = v => i = j
    BY <2>1 DEF RestOk, PushedOnce
  <2>5. ASSUME v \in Elements(rest[t]) PROVE Left(t) /\ Head(s) # v
    <3>1. PICK i \in 1 .. Len(s) - 1 : Tail(s)[i] = v
      BY <2>2, <2>3, <2>5 DEF Elements
    <3>2. i + 1 \in DOMAIN s /\ i + 1 # 1 /\ 1 \in DOMAIN s /\ s[i + 1] = v
      BY <2>3, <3>1
    <3> QED
      BY <2>1, <2>3, <2>4, <3>2
  <2>6. ASSUME Left(t), Head(s) # v PROVE v \in Elements(rest[t])
    <3>1. PICK i \in DOMAIN s : s[i] = v
      BY <2>1, <2>6
    <3>2. i - 1 \in 1 .. Len(s) - 1 /\ (i - 1) + 1 = i
      BY <2>3, <2>6, <3>1
    <3>3. Tail(s)[i - 1] = v /\ i - 1 \in DOMAIN Tail(s)
      BY <2>3, <3>1, <3>2
    <3> QED
      BY <2>2, <3>3 DEF Elements
  <2> QED
    BY <2>1, <2>5, <2>6
<1>5. v \in Brought(rest, prog) <=> (\E t \in Threads : By(t)) /\ \A t \in Threads : v \notin Elements(rest[t])
  BY DEF Brought, Elements
<1> HIDE DEF By, Left
<1>6. v \in Brought(rest, prog)
      <=> \E t \in Threads : By(t) /\ (~Left(t) \/ (Head(todo[t]) = v /\ t \in stored))
  BY <1>1, <1>2, <1>3, <1>4, <1>5
<1> QED
  BY <1>6 DEF By, Left, Enters

(* The same of the stacks, whose pushes are one step. *)
LEMMA EnteredAll ==
    ASSUME NEW v \in Value
    PROVE  StackEntered(v) <=> v \in Brought(todo, StackProgram)
BY DEF StackEntered, Brought, Elements

(* The nodes in their order and those that are being taken, of each kind. *)
Listing == Of(QOrder, COrder, Order, Order, LOrder)
Leaving == Of(QTaking, CTaking, HTaking, PTaking, {})

Shown == Items = Values(Listing, nodes) /\ Taking = Leaving

LEMMA StackOnce ==
    ASSUME kind \in {"count", "hazard", "pending"}, Chain = Listing, Taking = Leaving,
           Held(nodes, popped, todo, StackProgram, Listing, Leaving)
    PROVE  ExactlyOnce /\ Shown
<1>1. Items = StackItems /\ Lost = {} /\ \A v : Entered(v) <=> StackEntered(v)
  BY DEF Items, Lost, Entered, Of
<1>2. Items = Values(Listing, nodes)
  BY <1>1 DEF StackItems, Values
<1>3. Holding = Full(nodes)
  BY DEF Holding, Held, Elements
<1>4. Holding \in SUBSET DOMAIN nodes
  BY <1>3 DEF Full
<1>5. \A v \in Value : Entered(v) <=> v \in Brought(todo, StackProgram)
  BY <1>1, EnteredAll
<1>6. \A v \in Value : v \in Lost <=> \E n \in Full(nodes) \ Holding : nodes[n].data = v
  BY <1>1, <1>3
<1> QED
  BY <1>2, <1>4, <1>5, <1>6, OnceHeld DEF Shown

LEMMA HazardOnce == ASSUME kind = "hazard", StackHeld(HTaking) PROVE ExactlyOnce /\ Shown
<1>1. Listing = Order /\ Leaving = HTaking
  BY DEF Listing, Leaving, Of
<1>2. Chain = Hazard!Chain /\ Taking = Hazard!Taking
  BY DEF Chain, Taking, Of
<1>3. Hazard!Chain = Order
  BY HazardSame DEF Hazard!Chain, Order, SuccOf
<1>4. Hazard!Taking = HTaking
  BY HazardSame DEF Hazard!Taking, HTaking
<1> QED
  BY <1>1, <1>2, <1>3, <1>4, StackOnce DEF StackHeld

LEMMA PendingOnce == ASSUME kind = "pending", StackHeld(PTaking) PROVE ExactlyOnce /\ Shown
<1>1. Listing = Order /\ Leaving = PTaking
  BY DEF Listing, Leaving, Of
<1>2. Chain = Pending!Chain /\ Taking = Pending!Taking
  BY DEF Chain, Taking, Of
<1>3. Pending!Chain = Order
  BY PendingSame DEF Pending!Chain, Order
<1>4. Pending!Taking = PTaking
  BY DEF Pending!Taking, PTaking
<1> QED
  BY <1>1, <1>2, <1>3, <1>4, StackOnce DEF StackHeld

LEMMA CountOnce == ASSUME kind = "count", CountHeld PROVE ExactlyOnce /\ Shown
<1>1. Listing = COrder /\ Leaving = CTaking
  BY DEF Listing, Leaving, Of
<1>2. Chain = Count!Chain /\ Taking = Count!Taking
  BY DEF Chain, Taking, Of
<1>3. Count!Chain = COrder
  BY CountSame DEF COrder
<1>4. Count!Taking = CTaking
  BY DEF Count!Taking, CTaking
<1> QED
  BY <1>1, <1>2, <1>3, <1>4, StackOnce DEF CountHeld

(* The two-lock queue: a node that has data is in the list, even when tail *)
(* has still to move on to it.                                             *)
LEMMA LocksOnce == ASSUME kind = "locks", LInv, LHeld PROVE ExactlyOnce /\ Shown
<1>1. /\ Listing = LOrder /\ Leaving = {} /\ Chain = TwoLock!Chain /\ Taking = {} /\ Items = TwoLock!Items
      /\ Lost = {} /\ \A v : Entered(v) <=> TwoLock!Entered(v)
  BY DEF Listing, Leaving, Chain, Taking, Items, Lost, Entered, Of, TwoLock!Taking
<1>2. PICK succ : succ = SuccOf(nodes)
  OBVIOUS
<1>3. /\ Lined(In, head, tail, succ) /\ DOMAIN succ = 1 .. Len(nodes) /\ Len(nodes) \in Nat
  BY <1>2, LocksLined
<1>4. Chain = ListFrom(head, succ)
  <2>1. \A f, s : TwoLock!ListFrom(f, s) = ListFrom(f, s)
    BY DEF TwoLock!ListFrom, ListFrom, TwoLock!Null, Null
  <2> QED
    BY <1>1, <1>2, <2>1 DEF TwoLock!Chain, SuccOf
<1>5. Sorted(Chain, In, head, succ)
  BY <1>3, <1>4, ListSorted DEF Lined
<1>6. PICK U : U = UpTo(head, tail, succ)
  OBVIOUS
<1>7. /\ U # <<>> /\ U[Len(U)] = tail
      /\ \A i \in 1 .. Len(U) : i \in DOMAIN Chain /\ Chain[i] = U[i]
      /\ U \in Seq(In \ {succ[tail]})
  <2>1. Sorted(U, In \ {succ[tail]}, head, Cut(tail, succ))
    BY <1>3, <1>6, UpToSorted
  <2>2. Line(U, head, tail, succ)
    BY <1>3, <1>6, UpToSorted
  <2> QED
    BY <1>4, <2>1, <2>2 DEF Sorted, Line, Starts
<1>8. LOrder = Front(U)
  BY <1>2, <1>6 DEF LOrder, Before
<1>9. Items = Values(LOrder, nodes)
  <2>1. Len(U) \in Nat /\ Len(U) > 0
    BY <1>7
  <2>2. \A i \in DOMAIN Chain : Chain[i] = tail <=> i = Len(U)
    <3>1. Len(U) \in DOMAIN Chain /\ Chain[Len(U)] = tail
      BY <1>7, <2>1
    <3> QED
      BY <1>5, <3>1 DEF Sorted, Distinct
  <2>3. (CHOOSE i \in DOMAIN Chain : Chain[i] = tail) = Len(U)
    BY <1>7, <2>1, <2>2
  <2>4. Items = [i \in 1 .. Len(U) - 1 |-> nodes[Chain[i]].data]
    BY <1>1, <2>3 DEF TwoLock!Items
  <2>5. DOMAIN LOrder = 1 .. Len(U) - 1 /\ \A i \in 1 .. Len(U) - 1 : LOrder[i] = U[i]
    BY <1>7, <1>8, FrontFacts
  <2>6. \A i \in 1 .. Len(U) - 1 : LOrder[i] = Chain[i]
    BY <1>7, <2>1, <2>5
  <2>7. Values(LOrder, nodes) = [i \in 1 .. Len(U) - 1 |-> nodes[LOrder[i]].data]
    BY <2>5 DEF Values
  <2>8. [i \in 1 .. Len(U) - 1 |-> nodes[LOrder[i]].data] = [i \in 1 .. Len(U) - 1 |-> nodes[Chain[i]].data]
    BY <2>6
  <2> QED
    BY <2>4, <2>7, <2>8
<1>10. Holding = In
  BY <1>1, <1>5 DEF Holding, Sorted, Elements
<1>11. In \subseteq DOMAIN nodes /\ tail \in In
  BY LocksFacts
<1>12. Full(nodes) \subseteq In
  <2>1. Elements(LOrder) \subseteq In
    <3>1. Elements(Before(head, tail, succ)) = (In \ {succ[tail]}) \ {tail}
      BY <1>3, BeforeFacts
    <3> QED
      BY <1>2, <3>1 DEF LOrder
  <2>2. LFilled \subseteq In
    BY <1>11 DEF LFilled
  <2>3. Full(nodes) = Elements(LOrder) \cup LFilled
    BY DEF LHeld, Held
  <2> QED
    BY <2>1, <2>2, <2>3
<1>13. \A v \in Value : Entered(v) <=> v \in Brought(LRest, LockProgram)
  <2> SUFFICES ASSUME NEW v \in Value PROVE TwoLock!Entered(v) <=> v \in Brought(LRest, LockProgram)
    BY <1>1
  <2>1. PICK stored \in SUBSET Threads : stored = {t \in Threads : pc[t] \in {"move", "notify"}}
    OBVIOUS
  <2>2. PushedOnce(LockProgram) /\ RestOk(todo, LockProgram) /\ \A t \in stored : todo[t] # <<>>
    BY <2>1, OnceAssumption DEF LHeld, LRestOk, LOpsOk
  <2>3. LRest = Unstored(stored)
    BY <2>1 DEF LRest, Unstored
  <2>4. v \in Brought(LRest, LockProgram) <=> Enters(v, LockProgram, stored)
    BY <2>2, <2>3, Entering
  <2> QED
    BY <2>1, <2>4 DEF Enters, TwoLock!Entered, TwoLock!Operation
<1>14. \A v \in Value : v \in Lost <=> \E n \in Full(nodes) \ Holding : nodes[n].data = v
  BY <1>1, <1>10, <1>12
<1>15. Held(nodes, popped, LRest, LockProgram, LOrder, LFilled) /\ Holding \in SUBSET DOMAIN nodes
  BY <1>10, <1>11 DEF LHeld
<1>16. ExactlyOnce
  BY <1>13, <1>14, <1>15, OnceHeld
<1> QED
  BY <1>1, <1>9, <1>16 DEF Shown

(* The lock-free queue: its list as far as tail, and the nodes of the items. *)
LEMMA QueueChain ==
    ASSUME QInv
    PROVE  /\ Elements(Queue!Chain) \subseteq DOMAIN nodes
           /\ Queue!Items = Values(QOrder, nodes)
<1>1. PICK succ, cut : succ = NextOf(nodes) /\ cut = Cut(tail.ptr, succ)
  OBVIOUS
<1>2. Queue!Chain = ListFrom(head.ptr, cut)
  <2>1. cut = [n \in DOMAIN nodes |-> IF n = tail.ptr THEN Null ELSE nodes[n].next.ptr]
    BY <1>1 DEF Cut, NextOf
  <2> QED
    BY <2>1, QueueSame DEF Queue!Chain
<1>3. DOMAIN succ = 1 .. Len(nodes) /\ Len(nodes) \in Nat /\ DOMAIN succ = DOMAIN nodes
  <2>1. DOMAIN nodes = 1 .. Len(nodes) /\ Len(nodes) \in Nat
    BY DEF QInv, QType
  <2> QED
    BY <1>1, <2>1 DEF NextOf
<1>4. DOMAIN cut = DOMAIN succ
  BY <1>1 DEF Cut
<1>5. CASE head.ptr = Null
  <2>1. IsChain({}, Null, cut)
    BY ChainEmpty
  <2>2. ListFrom(Null, cut) = <<>>
    BY <1>3, <1>4, <2>1, ListNodes
  <2>3. Queue!Chain = <<>> /\ QOrder = <<>>
    BY <1>2, <1>5, <2>2 DEF QOrder
  <2>4. Elements(Queue!Chain) = {}
    BY <2>3 DEF Elements
  <2>5. Queue!Items = Values(QOrder, nodes)
    BY <2>3 DEF Queue!Items, Values
  <2> QED
    BY <2>4, <2>5
<1>6. CASE head.ptr # Null
  <2>1. PICK f, e : f = head.ptr /\ e = tail.ptr
    OBVIOUS
  <2>2. Lined(CIn, f, e, succ)
    BY <1>1, <1>6, <2>1, QueueLined
  <2>3. PICK U : U = UpTo(f, e, succ)
    OBVIOUS
  <2>4. Queue!Chain = U
    BY <1>1, <1>2, <2>1, <2>3 DEF UpTo
  <2>5. Sorted(U, CIn \ {succ[e]}, f, cut)
    BY <1>1, <1>3, <2>1, <2>2, <2>3, UpToSorted
  <2>6. U # <<>>
    BY <1>3, <2>2, <2>3, UpToSorted DEF Line
  <2>7. CIn \subseteq DOMAIN nodes
    BY <1>6, QueueFacts
  <2>8. Elements(U) \subseteq DOMAIN nodes /\ U \in Seq(CIn \ {succ[e]})
    BY <2>5, <2>7 DEF Sorted
  <2>9. QOrder = Front(U)
    BY <1>1, <1>6, <2>1, <2>3 DEF QOrder, Before
  <2>10. DOMAIN QOrder = 1 .. Len(U) - 1 /\ \A i \in 1 .. Len(U) - 1 : QOrder[i] = U[i]
    BY <2>6, <2>8, <2>9, FrontFacts
  <2>11. Queue!Items = Values(QOrder, nodes)
    BY <2>4, <2>10 DEF Queue!Items, Values
  <2> QED
    BY <2>4, <2>8, <2>11
<1> QED
  BY <1>5, <1>6

(* A node that has data and is neither in the list nor being taken is lost. *)
LEMMA QueueOnce == ASSUME kind = "queue", QInv, QHeld PROVE ExactlyOnce /\ Shown
<1>1. /\ Listing = QOrder /\ Leaving = QTaking /\ Chain = Queue!Chain /\ Taking = Queue!Taking
      /\ Items = Queue!Items /\ Lost = Queue!Lost /\ \A v : Entered(v) <=> Queue!Entered(v)
  BY DEF Listing, Leaving, Chain, Taking, Items, Lost, Entered, Of
<1>2. Taking = QTaking
  BY <1>1 DEF Queue!Taking, QTaking
<1>3. Items = Values(QOrder, nodes) /\ Elements(Chain) \subseteq DOMAIN nodes
  BY <1>1, QueueChain
<1>4. QTaking \subseteq DOMAIN nodes
  <2>1. CASE head.ptr = Null
    <3>1. \A t \in Threads : todo[t] = <<>> /\ OpsOk(t)
      BY <2>1 DEF QInv, QGone, QOps
    <3>2. \A t \in Threads : pc[t] = "idle"
      BY <3>1 DEF OpsOk
    <3> QED
      BY <3>2 DEF QTaking
  <2>2. CASE head.ptr # Null
    BY <2>2, QueueTaking DEF QFilled, Full
  <2> QED
    BY <2>1, <2>2
<1>5. Holding = Elements(Chain) \cup QTaking
  BY <1>2 DEF Holding, Elements
<1>6. \A v \in Value : v \in Lost <=> \E n \in Full(nodes) \ Holding : nodes[n].data = v
  <2>1. Lost = {nodes[n].data : n \in DOMAIN nodes \ Holding} \ {NoData}
    BY <1>1, QueueSame DEF Queue!Lost, Holding
  <2>2. \A v \in Value : v # NoData
    BY ThreadsAssumption
  <2> QED
    BY <2>1, <2>2 DEF Full
<1>7. \A v \in Value : Entered(v) <=> v \in Brought(QRest, Program)
  <2> SUFFICES ASSUME NEW v \in Value PROVE Queue!Entered(v) <=> v \in Brought(QRest, Program)
    BY <1>1
  <2>1. PICK stored \in SUBSET Threads : stored = {t \in Threads : QStores(t)}
    OBVIOUS
  <2>2. \A t \in stored : todo[t] # <<>>
    BY <2>1 DEF QStores, QInv, QOps, OpsOk
  <2>3. PushedOnce(Program) /\ RestOk(todo, Program)
    BY OnceAssumption DEF QHeld
  <2>4. QRest = Unstored(stored)
    BY <2>1 DEF QRest, Unstored
  <2>5. v \in Brought(QRest, Program) <=> Enters(v, Program, stored)
    BY <2>2, <2>3, <2>4, Entering
  <2>6. \A t \in Threads : Queue!Operation(t) = Head(todo[t])
    BY QueueSame
  <2>7. \A t \in Threads : Head(todo[t]) = v
           => (t \in stored <=> pc[t] = "link" \/ (next[t] = "done" /\ pc[t] \in {"move", "free", "release"}))
    BY <2>1 DEF QStores
  <2> QED
    BY <2>5, <2>6, <2>7 DEF Enters, Queue!Entered
<1>8. Held(nodes, popped, QRest, Program, QOrder, QFilled) /\ Holding \in SUBSET DOMAIN nodes
  BY <1>3, <1>4, <1>5 DEF QHeld
<1>9. ExactlyOnce
  BY <1>6, <1>7, <1>8, OnceHeld
<1> QED
  BY <1>1, <1>2, <1>3, <1>9 DEF Shown

-----------------------------------------------------------------------------
(* What holds of the container there is, and what one of its steps does.   *)
KindHeld ==
    /\ kind \in {"queue", "count", "hazard", "pending", "locks"}
    /\ kind = "queue" => QInv /\ QHeld
    /\ kind = "count" => CInv /\ CountHeld
    /\ kind = "hazard" => HInv /\ StackHeld(HTaking)
    /\ kind = "pending" => PInv /\ StackHeld(PTaking)
    /\ kind = "locks" => LInv /\ LHeld

Changes(fifo) ==
    Change(fifo, Values(Listing, nodes), OutOf(Leaving, popped, nodes), empties,
           Values(Listing', nodes'), OutOf(Leaving', popped', nodes'), empties')

ChangesAsQueue == Changes(TRUE)
ChangesAsStack == Changes(FALSE)

KindChange == /\ kind \in {"queue", "locks"} => ChangesAsQueue
              /\ kind \notin {"queue", "locks"} => ChangesAsStack

LEMMA KindOnce == ASSUME KindHeld PROVE ExactlyOnce /\ Shown
BY QueueOnce, CountOnce, HazardOnce, PendingOnce, LocksOnce DEF KindHeld

LEMMA KindInit == Init => KindHeld
<1> SUFFICES ASSUME Init PROVE KindHeld
  OBVIOUS
<1>1. CASE kind = "queue"
  BY <1>1, QueueInit, QueueHeldInit DEF Init, KindHeld
<1>2. CASE kind = "count"
  BY <1>2, CountInit, CountHeldInit DEF Init, KindHeld
<1>3. CASE kind = "hazard"
  BY <1>3, HazardInit, HazardHeldInit DEF Init, KindHeld
<1>4. CASE kind = "pending"
  BY <1>4, PendingInit, PendingHeldInit DEF Init, KindHeld
<1>5. CASE kind = "locks"
  BY <1>5, LocksInit, LocksHeldInit DEF Init, KindHeld
<1> QED
  BY <1>1, <1>2, <1>3, <1>4, <1>5 DEF Init

LEMMA KindStep == ASSUME KindHeld, Next PROVE KindHeld' /\ KindChange
<1>1. kind' = kind
  BY SameKind DEF allVars
<1>2. CASE kind = "queue"
  <2>1. (\E t \in Threads : Queue!Step(t)) \/ Queue!Destroy
    BY <1>2 DEF Next, Step, Destroy
  <2>2. QInv /\ QHeld
    BY <1>2 DEF KindHeld
  <2>3. QInv'
    BY <2>1, <2>2, QueueStep, QueueDestroyPop, QueueDestroyLast DEF Queue!Destroy
  <2>4. QHeld' /\ QChange
    BY <2>1, <2>2, QueueHeldStep
  <2>5. Listing = QOrder /\ Leaving = QTaking /\ Listing' = QOrder' /\ Leaving' = QTaking'
    BY <1>1, <1>2 DEF Listing, Leaving, Of
  <2>6. KindChange
    <3>1. ChangesAsQueue
      BY <2>4, <2>5, Zenon DEF ChangesAsQueue, Changes, QChange
    <3> QED
      BY <1>2, <3>1 DEF KindChange
  <2> QED
    BY <1>1, <1>2, <2>3, <2>4, <2>6 DEF KindHeld
<1>3. CASE kind = "count"
  <2>1. (\E t \in Threads : Count!Step(t)) \/ Count!Destroy
    BY <1>3 DEF Next, Step, Destroy
  <2>2. CInv /\ CountHeld
    BY <1>3 DEF KindHeld
  <2>3. CInv'
    BY <2>1, <2>2, CountStep, CountDestroy
  <2>4. CountHeld' /\ CountChange
    BY <2>1, <2>2, CountHeldStep
  <2>5. Listing = COrder /\ Leaving = CTaking /\ Listing' = COrder' /\ Leaving' = CTaking'
    BY <1>1, <1>3 DEF Listing, Leaving, Of
  <2>6. KindChange
    <3>1. ChangesAsStack
      BY <2>4, <2>5, Zenon DEF ChangesAsStack, Changes, CountChange
    <3> QED
      BY <1>3, <3>1 DEF KindChange
  <2> QED
    BY <1>1, <1>3, <2>3, <2>4, <2>6 DEF KindHeld
<1>4. CASE kind = "hazard"
  <2>1. \E t \in Threads : Hazard!Step(t)
    BY <1>4 DEF Next, Step, Destroy
  <2>2. HInv /\ StackHeld(HTaking)
    BY <1>4 DEF KindHeld
  <2>3. HInv'
    BY <2>1, <2>2, HazardStep
  <2>4. StackHeld(HTaking)' /\ StackChange(HTaking, HTaking')
    BY <2>1, <2>2, HazardHeldStep
  <2>5. Listing = Order /\ Leaving = HTaking /\ Listing' = Order' /\ Leaving' = HTaking'
    BY <1>1, <1>4 DEF Listing, Leaving, Of
  <2>6. KindChange
    <3>1. ChangesAsStack
      BY <2>4, <2>5, Zenon DEF ChangesAsStack, Changes, StackChange
    <3> QED
      BY <1>4, <3>1 DEF KindChange
  <2> QED
    BY <1>1, <1>4, <2>3, <2>4, <2>6 DEF KindHeld
<1>5. CASE kind = "pending"
  <2>1. \E t \in Threads : Pending!Step(t)
    BY <1>5 DEF Next, Step, Destroy
  <2>2. PInv /\ StackHeld(PTaking)
    BY <1>5 DEF KindHeld
  <2>3. PInv'
    BY <2>1, <2>2, PendingStep
  <2>4. StackHeld(PTaking)' /\ StackChange(PTaking, PTaking')
    BY <2>1, <2>2, PendingHeldStep
  <2>5. Listing = Order /\ Leaving = PTaking /\ Listing' = Order' /\ Leaving' = PTaking'
    BY <1>1, <1>5 DEF Listing, Leaving, Of
  <2>6. KindChange
    <3>1. ChangesAsStack
      BY <2>4, <2>5, Zenon DEF ChangesAsStack, Changes, StackChange
    <3> QED
      BY <1>5, <3>1 DEF KindChange
  <2> QED
    BY <1>1, <1>5, <2>3, <2>4, <2>6 DEF KindHeld
<1>6. CASE kind = "locks"
  <2>1. \E t \in Threads : TwoLock!Step(t)
    BY <1>6 DEF Next, Step, Destroy
  <2>2. LInv /\ LHeld
    BY <1>6 DEF KindHeld
  <2>3. LInv'
    BY <2>1, <2>2, LocksStep
  <2>4. LHeld' /\ LChange
    BY <2>1, <2>2, LocksHeldStep
  <2>5. Listing = LOrder /\ Leaving = {} /\ Listing' = LOrder' /\ Leaving' = {}
    BY <1>1, <1>6 DEF Listing, Leaving, Of
  <2>6. KindChange
    <3>1. ChangesAsQueue
      BY <2>4, <2>5, Zenon DEF ChangesAsQueue, Changes, LChange
    <3> QED
      BY <1>6, <3>1 DEF KindChange
  <2> QED
    BY <1>1, <1>6, <2>3, <2>4, <2>6 DEF KindHeld
<1> QED
  BY <1>2, <1>3, <1>4, <1>5, <1>6 DEF KindHeld

LEMMA KindStutter == ASSUME KindHeld, UNCHANGED allVars PROVE KindHeld' /\ KindChange
<1>1. /\ kind' = kind /\ nodes' = nodes /\ head' = head /\ pc' = pc /\ todo' = todo /\ old' = old
      /\ popped' = popped /\ empties' = empties /\ tail' = tail /\ new' = new /\ to' = to /\ next' = next
      /\ tail_mutex' = tail_mutex
  BY DEF allVars, vars, qVars, lVars
<1>2. Order' = Order /\ HTaking' = HTaking /\ PTaking' = PTaking /\ (PopsOk <=> PopsOk')
  BY <1>1 DEF Order, SuccOf, HTaking, PTaking, PopsOk
<1>3. COrder' = COrder /\ CTaking' = CTaking
  BY <1>1 DEF COrder, NextOf, CTaking
<1>4. LOrder' = LOrder /\ LFilled' = LFilled /\ LRest' = LRest /\ (LRestOk <=> LRestOk')
  BY <1>1 DEF LOrder, SuccOf, LFilled, LRest, LRestOk, LOpsOk
<1>5. QOrder' = QOrder
  BY <1>1 DEF QOrder, NextOf
<1>6. QFilled' = QFilled /\ QTaking' = QTaking /\ QRest' = QRest /\ (QFull <=> QFull')
  BY <1>1, <1>5 DEF QFilled, QTaking, QStores, QRest, QFull, FilledOk
<1>7. Listing' = Listing /\ Leaving' = Leaving
  BY <1>1, <1>2, <1>3, <1>4, <1>5, <1>6 DEF Listing, Leaving, Of
<1>8. KindChange
  BY <1>1, <1>7 DEF KindChange, ChangesAsQueue, ChangesAsStack, Changes, Change
<1>9. ASSUME NEW taking, NEW taking2, StackHeld(taking), taking2 = taking
      PROVE  PopsOk' /\ Held(nodes', popped', todo', StackProgram, Order', taking2)
  BY <1>1, <1>2, <1>9 DEF StackHeld
<1>10. kind = "queue" => QInv' /\ QHeld'
  BY <1>1, <1>5, <1>6, QueueStutter DEF KindHeld, QHeld
<1>11. kind = "count" => CInv' /\ CountHeld'
  BY <1>1, <1>2, <1>3, CountStutter DEF KindHeld, CountHeld
<1>12. kind = "hazard" => HInv' /\ StackHeld(HTaking)'
  BY <1>1, <1>2, <1>9, HazardStutter DEF KindHeld, StackHeld
<1>13. kind = "pending" => PInv' /\ StackHeld(PTaking)'
  BY <1>1, <1>2, <1>9, PendingStutter DEF KindHeld, StackHeld
<1>14. kind = "locks" => LInv' /\ LHeld'
  BY <1>1, <1>4, LocksStutter DEF KindHeld, LHeld
<1> QED
  BY <1>1, <1>8, <1>10, <1>11, <1>12, <1>13, <1>14 DEF KindHeld

(* A step of the container is a step of Container, or none. *)
LEMMA AbstractStep ==
    ASSUME NEW fifo \in BOOLEAN, fifo <=> kind \in {"queue", "locks"}, kind' = kind,
           Shown, Shown', Changes(fifo)
    PROVE  [Abstract!Next]_(Abstract!vars)
<1>1. PICK i, o : i = Items /\ o = OutOf(Taking, popped, nodes)
  OBVIOUS
<1>2. PICK i2, o2 : i2 = Items' /\ o2 = OutOf(Taking', popped', nodes')
  OBVIOUS
<1>3. Change(fifo, i, o, empties, i2, o2, empties')
  BY <1>1, <1>2 DEF Changes, Shown
<1>4. PICK r, r2 : /\ r = (IF kind \in {"queue", "locks"} THEN "fifo" ELSE "lifo")
                   /\ r2 = (IF kind' \in {"queue", "locks"} THEN "fifo" ELSE "lifo")
  OBVIOUS
<1>5. r2 = r /\ (r = "fifo" <=> fifo)
  BY <1>4
<1>6. /\ {nodes[n].data : n \in Taking} \cup {x.val : x \in popped} = o
      /\ {nodes'[n].data : n \in Taking'} \cup {x.val : x \in popped'} = o2
  BY <1>1, <1>2 DEF OutOf
<1>7. CASE i2 = i /\ o2 = o /\ empties' = empties
  <2>1. UNCHANGED Abstract!vars
    BY <1>1, <1>2, <1>4, <1>5, <1>6, <1>7 DEF Abstract!vars
  <2> QED
    BY <2>1
<1>8. CASE (\E v \in Value : i2 = IF fifo THEN Append(i, v) ELSE <<v>> \o i) /\ o2 = o /\ empties' = empties
  <2>1. Abstract!Insert
    BY <1>1, <1>2, <1>4, <1>5, <1>6, <1>8 DEF Abstract!Insert
  <2> QED
    BY <1>4, <1>5, <2>1 DEF Abstract!Next
<1>9. CASE Leaves(1, i, o, i2, o2) /\ empties' = empties
  <2>1. Abstract!Take
    BY <1>1, <1>2, <1>6, <1>9 DEF Abstract!Take, Abstract!Leave, Leaves
  <2> QED
    BY <1>4, <1>5, <2>1 DEF Abstract!Next
<1>10. CASE fifo /\ Leaves(Len(i), i, o, i2, o2) /\ empties' = empties
  <2>1. Abstract!Steal
    BY <1>1, <1>2, <1>4, <1>5, <1>6, <1>10 DEF Abstract!Steal, Abstract!Leave, Leaves
  <2> QED
    BY <1>4, <1>5, <2>1 DEF Abstract!Next
<1>11. CASE i = <<>> /\ i2 = i /\ o2 = o /\ empties' = empties + 1
  <2>1. Abstract!ReportEmpty
    BY <1>1, <1>2, <1>6, <1>11 DEF Abstract!ReportEmpty
  <2> QED
    BY <1>4, <1>5, <2>1 DEF Abstract!Next
<1> QED
  BY <1>3, <1>7, <1>8, <1>9, <1>10, <1>11 DEF Change

(* In the beginning no node has data. *)
LEMMA AbstractInit == ASSUME Init PROVE Abstract!Init
<1>1. KindHeld /\ Shown /\ popped = {} /\ empties = 0
  <2>1. KindHeld
    BY KindInit
  <2>2. popped = {} /\ empties = 0
    BY DEF Init, Queue!Init, Queue!ThreadsInit, Count!Init, Count!ThreadsInit, Hazard!Init,
       Hazard!ThreadsInit, Pending!Init, Pending!ThreadsInit, TwoLock!Init, TwoLock!ThreadsInit
  <2> QED
    BY <2>1, <2>2, KindOnce
<1>2. Full(nodes) = {}
  <2>1. CASE kind = "queue"
    <3>1. nodes = <<Queue!Node>>
      BY <2>1 DEF Init, Queue!Init
    <3>2. DOMAIN nodes = {1} /\ nodes[1].data = NoData
      BY <3>1, QueueSame DEF Queue!Node
    <3> QED
      BY <3>2 DEF Full
  <2>2. CASE kind = "locks"
    <3>1. nodes = <<TwoLock!EmptyNode(Null)>>
      BY <2>2 DEF Init, TwoLock!Init, TwoLock!Null, Null
    <3>2. DOMAIN nodes = {1} /\ nodes[1].data = NoData
      BY <3>1 DEF TwoLock!EmptyNode, TwoLock!NoData, NoData
    <3> QED
      BY <3>2 DEF Full
  <2>3. CASE kind \in {"count", "hazard", "pending"}
    <3>1. nodes = <<>>
      BY <2>3 DEF Init, Count!Init, Hazard!Init, Pending!Init
    <3> QED
      BY <3>1 DEF Full
  <2> QED
    BY <1>1, <2>1, <2>2, <2>3 DEF KindHeld
<1>3. Listing \in Seq(Full(nodes))
  BY <1>1 DEF KindHeld, Listing, Of, QHeld, CountHeld, StackHeld, LHeld, Held
<1>4. Listing = <<>>
  BY <1>2, <1>3
<1>5. Items = <<>>
  BY <1>1, <1>4 DEF Shown, Values
<1>6. Taking = {}
  <2>1. \A t \in Threads : pc[t] = "idle"
    BY DEF Init, Queue!Init, Queue!ThreadsInit, Count!Init, Count!ThreadsInit, Hazard!Init,
       Hazard!ThreadsInit, Pending!Init, Pending!ThreadsInit, TwoLock!Init, TwoLock!ThreadsInit
  <2>2. QTaking = {} /\ CTaking = {} /\ HTaking = {} /\ PTaking = {}
    BY <2>1 DEF QTaking, CTaking, HTaking, PTaking
  <2>3. Leaving = {}
    BY <1>1, <2>2 DEF Leaving, Of, KindHeld
  <2> QED
    BY <1>1, <2>3 DEF Shown
<1> QED
  BY <1>1, <1>5, <1>6 DEF Abstract!Init

-----------------------------------------------------------------------------
(* Every value whose push has stored it is in the container or was returned *)
(* by one pop, and by one only, whatever the threads do and wherever they   *)
(* stop; the queue loses a value only where a push stores it in a node that *)
(* has left the list (its data pointer is null again: the comparison of     *)
(* push cannot tell).                                                       *)
THEOREM EachValueOnce == FairSpec => []ExactlyOnce
<1>1. Init => KindHeld
  BY KindInit
<1>2. KindHeld /\ [Next]_allVars => KindHeld'
  BY KindStep, KindStutter
<1>3. KindHeld => ExactlyOnce
  BY KindOnce
<1> QED
  BY <1>1, <1>2, <1>3, PTL DEF FairSpec

(* The containers do what Container promises: the values leave in the order *)
(* of a queue, or of a stack, each once, and a pop that finds nothing finds *)
(* it when there is nothing.                                                *)
THEOREM ContainersImplement == FairSpec => ImplementsContainer
<1>1. Init => KindHeld /\ Abstract!Init
  BY KindInit, AbstractInit
<1>2. KindHeld /\ [Next]_allVars => KindHeld' /\ [Abstract!Next]_(Abstract!vars)
  <2> SUFFICES ASSUME KindHeld, [Next]_allVars PROVE KindHeld' /\ [Abstract!Next]_(Abstract!vars)
    OBVIOUS
  <2>1. KindHeld' /\ KindChange
    BY KindStep, KindStutter
  <2>2. Shown /\ kind' = kind
    BY KindOnce, SameKind
  <2>4. Shown'
    BY <2>1, KindOnce, PTL
  <2>5. CASE kind \in {"queue", "locks"}
    <3>1. ChangesAsQueue
      BY <2>1, <2>5 DEF KindChange
    <3> QED
      BY <2>1, <2>2, <2>4, <2>5, <3>1, AbstractStep DEF ChangesAsQueue
  <2>6. CASE kind \notin {"queue", "locks"}
    <3>1. ChangesAsStack
      BY <2>1, <2>6 DEF KindChange
    <3> QED
      BY <2>1, <2>2, <2>4, <2>6, <3>1, AbstractStep DEF ChangesAsStack
  <2> QED
    BY <2>5, <2>6
<1> QED
  BY <1>1, <1>2, PTL DEF FairSpec, ImplementsContainer, Abstract!Spec
=============================================================================
