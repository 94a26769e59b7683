-------------------------- MODULE Containers_proofs --------------------------
(***************************************************************************)
(* Proofs about the containers, for any threads, values and programs of    *)
(* operations: no thread uses a node that was deleted, and when nobody is  *)
(* in an operation no node is left behind.                                 *)
(*                                                                         *)
(* The list a container is, is a set of nodes that succ leads through in   *)
(* some order without repetition (IsChain); ListFrom finds exactly that    *)
(* set (ChainFound), and an action takes its first node, adds one before   *)
(* it, adds one after its last, cuts or joins it (ChainPop, ChainPush,     *)
(* ChainAppend, ChainCut, ChainJoin).  Each container then says where the  *)
(* nodes that exist are: in the list, put aside, or in the hands of one    *)
(* thread, and in one of these places only (Apart); and what keeps a node  *)
(* from being deleted while another thread has it:                         *)
(*   - HazardPointerStack: a node read from head and published is, while   *)
(*     it is in the list or nobody's scan is past the pointer, safe        *)
(*     (HScan, HPublished);                                                *)
(*   - PendingStack: the pops in progress are counted, and a node in a     *)
(*     grabbed list is not one another pop has read (PRead);               *)
(*   - RefCountStack: the internal count of a node and the threads that    *)
(*     hold it add up (Due, CCounts);                                      *)
(*   - TwoLockQueue: a mutex has at most one holder, and a pop that got    *)
(*     past its test finds a node before tail (LMutex, LTake);             *)
(*   - LockFreeQueue: the threads that have copied a pointer to a node and *)
(*     not finished (Keepers), what the node has counted and what the two  *)
(*     pointers to it have counted add up (Sums); the external count is    *)
(*     the number of the two that still lead to it (QExternal); and what a *)
(*     thread has read of a node stays true until it acts on it (QRead).   *)
(***************************************************************************)
EXTENDS Containers, FiniteSetTheorems, SequenceTheorems, WellFoundedInduction, TLAPS

(* L gives the k nodes of S, each once, in the order of the list. *)
InOrder(k, L, S, f, succ) ==
    /\ k \in Nat /\ L \in [1 .. k -> S]
    /\ \A n \in S : \E i \in 1 .. k : L[i] = n
    /\ \A i, j \in 1 .. k : L[i] = L[j] => i = j
    /\ (k = 0 => f = Null) /\ (k > 0 => f = L[1] /\ succ[L[k]] = Null)
    /\ \A i \in 1 .. k - 1 : succ[L[i]] = L[i + 1]

(* S is the set of the nodes of the list from f on, as succ leads on.      *)
IsChain(S, f, succ) ==
    /\ S \subseteq DOMAIN succ /\ Null \notin S
    /\ \E k, L : InOrder(k, L, S, f, succ)

(* The nodes that ListFrom finds. *)
Linked(f, succ) == {ListFrom(f, succ)[i] : i \in DOMAIN ListFrom(f, succ)}

Less == {p \in Nat \X Nat : p[1] < p[2]}

(* A set of numbers that is not empty has a least one. *)
LEMMA LeastOne ==
    ASSUME NEW T, T \subseteq Nat, T # {}
    PROVE  \E n \in T : \A m \in T : n <= m
<1>1. IsWellFoundedOn(Less, Nat)
  BY NatLessThanWellFounded, Zenon DEF OpToRel, Less
<1>2. PICK n \in T : \A m \in T : ~(<<m, n>> \in Less)
  BY <1>1, WFMin, Zenon
<1>3. ASSUME NEW m \in T, m < n PROVE FALSE
  <2>1. <<m, n>> \in Nat \X Nat /\ <<m, n>>[1] = m /\ <<m, n>>[2] = n
    OBVIOUS
  <2>2. <<m, n>> \in Less
    BY <1>3, <2>1 DEF Less
  <2> QED
    BY <1>2, <2>2
<1> QED
  BY <1>3

(* An empty list. *)
LEMMA ChainEmpty ==
    ASSUME NEW succ
    PROVE  IsChain({}, Null, succ)
<1>1. InOrder(0, [i \in 1 .. 0 |-> Null], {}, Null, succ)
  BY DEF InOrder
<1> QED
  BY <1>1 DEF IsChain

(* What is known of the first node, and of the successors. *)
LEMMA ChainFacts ==
    ASSUME NEW S, NEW f, NEW succ, IsChain(S, f, succ)
    PROVE  /\ Null \notin S
           /\ f = Null => S = {}
           /\ f # Null => f \in S
           /\ \A n \in S : n \in DOMAIN succ /\ succ[n] \in S \cup {Null} /\ succ[n] # n
           /\ \A n \in S : succ[n] # Null => succ[n] # f
           /\ \A n, m \in S : succ[n] = succ[m] => n = m
           /\ S # {} => \E n \in S : succ[n] = Null
<1>0. PICK k, L : InOrder(k, L, S, f, succ)
  BY DEF IsChain
<1>1. /\ k \in Nat /\ L \in [1 .. k -> S]
      /\ \A n \in S : \E i \in 1 .. k : L[i] = n
      /\ \A i, j \in 1 .. k : L[i] = L[j] => i = j
      /\ (k = 0 => f = Null) /\ (k > 0 => f = L[1] /\ succ[L[k]] = Null)
      /\ \A i \in 1 .. k - 1 : succ[L[i]] = L[i + 1]
  BY <1>0 DEF InOrder
<1>2. S \subseteq DOMAIN succ /\ Null \notin S
  BY DEF IsChain
<1>3. \A i \in 1 .. k : L[i] \in S /\ L[i] # Null
  BY <1>1, <1>2
<1>4. f = Null => S = {}
  <2>1. k > 0 => f \in S
    BY <1>1
  <2>2. k = 0 => S = {}
    BY <1>1
  <2> QED
    BY <1>1, <1>2, <2>1, <2>2
<1>5. f # Null => f \in S
  BY <1>1
<1>6. \A n \in S : succ[n] \in S \cup {Null} /\ succ[n] # n
  <2> SUFFICES ASSUME NEW n \in S PROVE succ[n] \in S \cup {Null} /\ succ[n] # n
    OBVIOUS
  <2>1. PICK i \in 1 .. k : L[i] = n
    BY <1>1
  <2>2. CASE i = k
    BY <1>1, <1>2, <2>1, <2>2
  <2>3. CASE i # k
    <3>1. i \in 1 .. k - 1 /\ i + 1 \in 1 .. k /\ succ[n] = L[i + 1]
      BY <1>1, <2>1, <2>3
    <3>2. L[i + 1] # L[i]
      BY <1>1, <3>1
    <3> QED
      BY <1>1, <2>1, <3>1, <3>2
  <2> QED
    BY <2>2, <2>3
<1>7. \A n \in S : succ[n] # Null => succ[n] # f
  <2> SUFFICES ASSUME NEW n \in S, succ[n] # Null, succ[n] = f PROVE FALSE
    OBVIOUS
  <2>1. PICK i \in 1 .. k : L[i] = n
    BY <1>1
  <2>2. i # k
    BY <1>1, <2>1
  <2>3. i \in 1 .. k - 1 /\ i + 1 \in 1 .. k /\ L[i + 1] = L[1] /\ 1 \in 1 .. k
    BY <1>1, <2>1, <2>2
  <2>4. i + 1 = 1
    BY <1>1, <2>3
  <2> QED
    BY <2>4
<1>8. \A n, m \in S : succ[n] = succ[m] => n = m
  <2> SUFFICES ASSUME NEW n \in S, NEW m \in S, succ[n] = succ[m] PROVE n = m
    OBVIOUS
  <2>1. PICK i \in 1 .. k : L[i] = n
    BY <1>1
  <2>2. PICK j \in 1 .. k : L[j] = m
    BY <1>1
  <2>3. i # k => i \in 1 .. k - 1 /\ i + 1 \in 1 .. k /\ succ[n] = L[i + 1]
    BY <1>1, <2>1
  <2>4. j # k => j \in 1 .. k - 1 /\ j + 1 \in 1 .. k /\ succ[m] = L[j + 1]
    BY <1>1, <2>2
  <2>5. (i = k => succ[n] = Null) /\ (j = k => succ[m] = Null)
    BY <1>1, <2>1, <2>2
  <2>6. i # k => succ[n] # Null
    BY <1>3, <2>3
  <2>7. j # k => succ[m] # Null
    BY <1>3, <2>4
  <2>8. CASE i = k
    BY <2>1, <2>2, <2>5, <2>7, <2>8
  <2>9. CASE i # k
    <3>1. j # k
      BY <2>5, <2>6, <2>9
    <3>2. i + 1 = j + 1
      BY <1>1, <2>3, <2>4, <2>9, <3>1
    <3> QED
      BY <2>1, <2>2, <3>2
  <2> QED
    BY <2>8, <2>9
<1>9. S # {} => \E n \in S : succ[n] = Null
  <2> SUFFICES ASSUME S # {} PROVE \E n \in S : succ[n] = Null
    OBVIOUS
  <2>1. k \in 1 .. k /\ k > 0
    BY <1>1
  <2> QED
    BY <1>1, <2>1
<1> QED
  BY <1>2, <1>4, <1>5, <1>6, <1>7, <1>8, <1>9

(* A list depends on the successors of its own nodes only. *)
LEMMA ChainSame ==
    ASSUME NEW S, NEW f, NEW succ, IsChain(S, f, succ), NEW succ2,
           \A n \in S : n \in DOMAIN succ2 /\ succ2[n] = succ[n]
    PROVE  IsChain(S, f, succ2)
<1>0. PICK k, L : InOrder(k, L, S, f, succ)
  BY DEF IsChain
<1>1. /\ k \in Nat /\ L \in [1 .. k -> S]
      /\ \A n \in S : \E i \in 1 .. k : L[i] = n
      /\ \A i, j \in 1 .. k : L[i] = L[j] => i = j
      /\ (k = 0 => f = Null) /\ (k > 0 => f = L[1] /\ succ[L[k]] = Null)
      /\ \A i \in 1 .. k - 1 : succ[L[i]] = L[i + 1]
  BY <1>0 DEF InOrder
<1>2. S \subseteq DOMAIN succ /\ Null \notin S
  BY DEF IsChain
<1>3. \A i \in 1 .. k : L[i] \in S /\ succ2[L[i]] = succ[L[i]]
  BY <1>1
<1>4. (k > 0 => succ2[L[k]] = Null) /\ \A i \in 1 .. k - 1 : succ2[L[i]] = L[i + 1]
  BY <1>1, <1>3
<1>5. InOrder(k, L, S, f, succ2)
  BY <1>1, <1>4 DEF InOrder
<1> QED
  BY <1>2, <1>5 DEF IsChain

(* The first node of a list taken away. *)
LEMMA ChainPop ==
    ASSUME NEW S, NEW f, NEW succ, IsChain(S, f, succ), f # Null
    PROVE  f \in S /\ IsChain(S \ {f}, succ[f], succ)
<1>0. PICK k, L : InOrder(k, L, S, f, succ)
  BY DEF IsChain
<1>1. /\ k \in Nat /\ L \in [1 .. k -> S]
      /\ \A n \in S : \E i \in 1 .. k : L[i] = n
      /\ \A i, j \in 1 .. k : L[i] = L[j] => i = j
      /\ (k = 0 => f = Null) /\ (k > 0 => f = L[1] /\ succ[L[k]] = Null)
      /\ \A i \in 1 .. k - 1 : succ[L[i]] = L[i + 1]
  BY <1>0 DEF InOrder
<1>2. S \subseteq DOMAIN succ /\ Null \notin S
  BY DEF IsChain
<1>3. k \in Nat /\ k > 0 /\ k - 1 \in Nat /\ 1 \in 1 .. k /\ f = L[1] /\ f \in S
  BY <1>1
<1> DEFINE M == [i \in 1 .. k - 1 |-> L[i + 1]]
<1>4. M \in [1 .. k - 1 -> S \ {f}]
  <2>1. ASSUME NEW i \in 1 .. k - 1 PROVE L[i + 1] \in S \ {f}
    <3>1. i + 1 \in 1 .. k /\ i + 1 # 1
      BY <1>3
    <3> QED
      BY <1>1, <1>3, <3>1
  <2> QED
    BY <2>1
<1>5. \A n \in S \ {f} : \E i \in 1 .. k - 1 : M[i] = n
  <2> SUFFICES ASSUME NEW n \in S, n # f PROVE \E i \in 1 .. k - 1 : M[i] = n
    OBVIOUS
  <2>1. PICK i \in 1 .. k : L[i] = n
    BY <1>1
  <2>2. i - 1 \in 1 .. k - 1 /\ M[i - 1] = n
    BY <1>3, <2>1
  <2> QED
    BY <2>2
<1>6. \A i, j \in 1 .. k - 1 : M[i] = M[j] => i = j
  <2> SUFFICES ASSUME NEW i \in 1 .. k - 1, NEW j \in 1 .. k - 1, L[i + 1] = L[j + 1]
               PROVE i = j
    OBVIOUS
  <2>1. i + 1 \in 1 .. k /\ j + 1 \in 1 .. k
    BY <1>3
  <2>2. i + 1 = j + 1
    BY <1>1, <2>1
  <2> QED
    BY <2>2
<1>7. /\ k - 1 = 0 => succ[f] = Null
      /\ k - 1 > 0 => succ[f] = M[1] /\ succ[M[k - 1]] = Null
  <2>1. k - 1 = 0 => succ[f] = Null
    BY <1>1, <1>3
  <2>2. ASSUME k - 1 > 0 PROVE succ[f] = M[1] /\ succ[M[k - 1]] = Null
    <3>1. 1 \in 1 .. k - 1 /\ k - 1 \in 1 .. k - 1 /\ M[k - 1] = L[k] /\ M[1] = L[2]
      BY <1>3, <2>2
    <3>2. succ[L[1]] = L[1 + 1]
      BY <1>1, <3>1
    <3> QED
      BY <1>1, <1>3, <3>1, <3>2
  <2> QED
    BY <2>1, <2>2
<1>8. \A i \in 1 .. (k - 1) - 1 : succ[M[i]] = M[i + 1]
  <2> SUFFICES ASSUME NEW i \in 1 .. (k - 1) - 1 PROVE succ[M[i]] = M[i + 1]
    OBVIOUS
  <2>1. /\ i + 1 \in 1 .. k - 1 /\ i \in 1 .. k - 1
        /\ M[i] = L[i + 1] /\ M[i + 1] = L[(i + 1) + 1]
    BY <1>3
  <2>2. succ[L[i + 1]] = L[(i + 1) + 1]
    BY <1>1, <2>1
  <2> QED
    BY <2>1, <2>2
<1> HIDE DEF M
<1>9. InOrder(k - 1, M, S \ {f}, succ[f], succ)
  BY <1>3, <1>4, <1>5, <1>6, <1>7, <1>8 DEF InOrder
<1> QED
  BY <1>2, <1>3, <1>9 DEF IsChain

(* Two lists joined: the last node of the first leads to the second. *)
LEMMA ChainJoin ==
    ASSUME NEW S, NEW f, NEW succ, IsChain(S, f, succ),
           NEW T, NEW g, IsChain(T, g, succ), S \cap T = {},
           NEW last \in S, succ[last] = Null,
           NEW succ2, succ2[last] = g,
           \A n \in S \cup T : n \in DOMAIN succ2 /\ (n # last => succ2[n] = succ[n])
    PROVE  IsChain(S \cup T, f, succ2)
<1>0. PICK k, L : InOrder(k, L, S, f, succ)
  BY DEF IsChain
<1>1. /\ k \in Nat /\ L \in [1 .. k -> S]
      /\ \A n \in S : \E i \in 1 .. k : L[i] = n
      /\ \A i, j \in 1 .. k : L[i] = L[j] => i = j
      /\ (k = 0 => f = Null) /\ (k > 0 => f = L[1] /\ succ[L[k]] = Null)
      /\ \A i \in 1 .. k - 1 : succ[L[i]] = L[i + 1]
  BY <1>0 DEF InOrder
<1>2. S \subseteq DOMAIN succ /\ Null \notin S
  BY DEF IsChain
<1>3. PICK l, M : InOrder(l, M, T, g, succ)
  BY DEF IsChain
<1>4. /\ l \in Nat /\ M \in [1 .. l -> T]
      /\ \A n \in T : \E i \in 1 .. l : M[i] = n
      /\ \A i, j \in 1 .. l : M[i] = M[j] => i = j
      /\ (l = 0 => g = Null) /\ (l > 0 => g = M[1] /\ succ[M[l]] = Null)
      /\ \A i \in 1 .. l - 1 : succ[M[i]] = M[i + 1]
  BY <1>3 DEF InOrder
<1>5. T \subseteq DOMAIN succ /\ Null \notin T
  BY DEF IsChain
<1>6. k > 0 /\ k \in 1 .. k /\ L[k] = last
  <2>1. PICK i \in 1 .. k : L[i] = last
    BY <1>1
  <2>2. CASE i = k
    BY <2>1, <2>2
  <2>3. CASE i # k
    <3>1. i \in 1 .. k - 1 /\ i + 1 \in 1 .. k
      BY <1>1, <2>3
    <3>2. L[i + 1] = Null /\ L[i + 1] \in S
      BY <1>1, <2>1, <3>1
    <3> QED
      BY <1>2, <3>2
  <2> QED
    BY <2>2, <2>3
<1> DEFINE J == [i \in 1 .. k + l |-> IF i <= k THEN L[i] ELSE M[i - k]]
<1>7. k + l \in Nat /\ k + l > 0
  BY <1>1, <1>4, <1>6
<1>8. /\ \A i \in 1 .. k : i \in 1 .. k + l /\ J[i] = L[i] /\ L[i] \in S
      /\ \A i \in 1 .. l : k + i \in 1 .. k + l /\ J[k + i] = M[i] /\ M[i] \in T
  BY <1>1, <1>4
<1>9. \A i \in 1 .. k + l : i \in 1 .. k \/ (i - k \in 1 .. l /\ i = k + (i - k))
  BY <1>1, <1>4
<1>10. J \in [1 .. k + l -> S \cup T]
  BY <1>1, <1>4
<1> HIDE DEF J
<1>11. \A n \in S \cup T : \E i \in 1 .. k + l : J[i] = n
  <2>1. ASSUME NEW n \in S PROVE \E i \in 1 .. k + l : J[i] = n
    <3>1. PICK i \in 1 .. k : L[i] = n
      BY <1>1
    <3> QED
      BY <1>8, <3>1
  <2>2. ASSUME NEW n \in T PROVE \E i \in 1 .. k + l : J[i] = n
    <3>1. PICK i \in 1 .. l : M[i] = n
      BY <1>4
    <3> QED
      BY <1>8, <3>1
  <2> QED
    BY <2>1, <2>2
<1>12. \A i, j \in 1 .. k + l : J[i] = J[j] => i = j
  <2> SUFFICES ASSUME NEW i \in 1 .. k + l, NEW j \in 1 .. k + l, J[i] = J[j] PROVE i = j
    OBVIOUS
  <2>1. CASE i \in 1 .. k /\ j \in 1 .. k
    BY <1>1, <1>8, <2>1
  <2>2. CASE i \notin 1 .. k /\ j \notin 1 .. k
    <3>1. /\ i - k \in 1 .. l /\ i = k + (i - k)
          /\ j - k \in 1 .. l /\ j = k + (j - k)
      BY <1>9, <2>2
    <3>2. M[i - k] = M[j - k]
      BY <1>8, <3>1
    <3>3. i - k = j - k
      BY <1>4, <3>1, <3>2
    <3> QED
      BY <1>1, <3>3
  <2>3. CASE i \in 1 .. k /\ j \notin 1 .. k
    <3>1. j - k \in 1 .. l /\ j = k + (j - k)
      BY <1>9, <2>3
    <3>2. J[i] \in S /\ J[j] \in T
      BY <1>8, <2>3, <3>1
    <3> QED
      BY <3>2
  <2>4. CASE i \notin 1 .. k /\ j \in 1 .. k
    <3>1. i - k \in 1 .. l /\ i = k + (i - k)
      BY <1>9, <2>4
    <3>2. J[j] \in S /\ J[i] \in T
      BY <1>8, <2>4, <3>1
    <3> QED
      BY <3>2
  <2> QED
    BY <2>1, <2>2, <2>3, <2>4
<1>13. f = J[1]
  <2>1. 1 \in 1 .. k
    BY <1>1, <1>6
  <2> QED
    BY <1>1, <1>8, <2>1
<1>14. \A i \in 1 .. k - 1 : succ2[L[i]] = L[i + 1]
  <2> SUFFICES ASSUME NEW i \in 1 .. k - 1 PROVE succ2[L[i]] = L[i + 1]
    OBVIOUS
  <2>1. i \in 1 .. k /\ i # k
    BY <1>1
  <2>2. L[i] # last
    BY <1>1, <1>6, <2>1
  <2> QED
    BY <1>1, <1>8, <2>1, <2>2
<1>15. \A n \in T : n # last /\ succ2[n] = succ[n]
  OBVIOUS
<1>16. succ2[J[k + l]] = Null
  <2>1. CASE l = 0
    BY <1>1, <1>4, <1>6, <1>8, <2>1
  <2>2. CASE l > 0
    <3>1. l \in 1 .. l
      BY <1>4, <2>2
    <3> QED
      BY <1>4, <1>8, <1>15, <2>2, <3>1
  <2> QED
    BY <1>4, <2>1, <2>2
<1>17. \A i \in 1 .. (k + l) - 1 : succ2[J[i]] = J[i + 1]
  <2> SUFFICES ASSUME NEW i \in 1 .. (k + l) - 1 PROVE succ2[J[i]] = J[i + 1]
    OBVIOUS
  <2>1. CASE i < k
    <3>1. i \in 1 .. k - 1 /\ i \in 1 .. k /\ i + 1 \in 1 .. k
      BY <1>1, <2>1
    <3> QED
      BY <1>8, <1>14, <3>1
  <2>2. CASE i = k
    <3>1. l > 0 /\ 1 \in 1 .. l
      BY <1>1, <1>4, <2>2
    <3>2. J[k + 1] = M[1] /\ J[k] = last
      BY <1>6, <1>8, <3>1
    <3> QED
      BY <1>4, <2>2, <3>1, <3>2
  <2>3. CASE i > k
    <3>1. i - k \in 1 .. l - 1 /\ i - k \in 1 .. l /\ (i - k) + 1 \in 1 .. l
      BY <1>1, <1>4, <2>3
    <3>2. i = k + (i - k) /\ i + 1 = k + ((i - k) + 1)
      BY <1>1, <2>3
    <3>3. J[i] = M[i - k] /\ J[i + 1] = M[(i - k) + 1] /\ J[i] \in T
      BY <1>8, <3>1, <3>2
    <3> QED
      BY <1>4, <1>15, <3>1, <3>3
  <2> QED
    BY <1>1, <2>1, <2>2, <2>3
<1>18. InOrder(k + l, J, S \cup T, f, succ2)
  BY <1>7, <1>10, <1>11, <1>12, <1>13, <1>16, <1>17 DEF InOrder
<1> QED
  BY <1>2, <1>5, <1>18 DEF IsChain

(* A list of one node. *)
LEMMA ChainOne ==
    ASSUME NEW succ, NEW n \in DOMAIN succ, n # Null, succ[n] = Null
    PROVE  IsChain({n}, n, succ)
<1>1. InOrder(1, [i \in 1 .. 1 |-> n], {n}, n, succ)
  BY DEF InOrder
<1> QED
  BY <1>1 DEF IsChain

(* A node put before a list. *)
LEMMA ChainPush ==
    ASSUME NEW S, NEW f, NEW succ, IsChain(S, f, succ),
           NEW succ2, NEW n \in DOMAIN succ2, n # Null, n \notin S, succ2[n] = f,
           \A m \in S : m \in DOMAIN succ2 /\ succ2[m] = succ[m]
    PROVE  IsChain(S \cup {n}, n, succ2)
<1> DEFINE succ1 == [m \in DOMAIN succ2 |-> IF m = n THEN Null ELSE succ2[m]]
<1>1. succ1[n] = Null /\ n \in DOMAIN succ1
  OBVIOUS
<1>2. \A m \in S : m \in DOMAIN succ1 /\ succ1[m] = succ[m]
  OBVIOUS
<1>3. \A m \in {n} \cup S : m \in DOMAIN succ2 /\ (m # n => succ2[m] = succ1[m])
  OBVIOUS
<1> HIDE DEF succ1
<1>4. IsChain({n}, n, succ1)
  BY <1>1, ChainOne
<1>5. IsChain(S, f, succ1)
  BY <1>2, ChainSame
<1>6. {n} \cap S = {} /\ n \in {n}
  OBVIOUS
<1>7. IsChain({n} \cup S, n, succ2)
  BY <1>1, <1>3, <1>4, <1>5, <1>6, ChainJoin
<1>8. {n} \cup S = S \cup {n}
  OBVIOUS
<1> QED
  BY <1>7, <1>8

(* A node put after the last of a list. *)
LEMMA ChainAppend ==
    ASSUME NEW S, NEW f, NEW succ, IsChain(S, f, succ),
           NEW last \in S, succ[last] = Null,
           NEW succ2, NEW n \in DOMAIN succ2, n # Null, n \notin S,
           succ2[last] = n, succ2[n] = Null,
           \A m \in S : m \in DOMAIN succ2 /\ (m # last => succ2[m] = succ[m])
    PROVE  IsChain(S \cup {n}, f, succ2)
<1> DEFINE succ1 == [m \in DOMAIN succ2 |-> IF m = last THEN Null ELSE succ2[m]]
<1>1. succ1[n] = Null /\ n \in DOMAIN succ1 /\ succ1[last] = Null
  OBVIOUS
<1>2. \A m \in S : m \in DOMAIN succ1 /\ succ1[m] = succ[m]
  OBVIOUS
<1>3. \A m \in S \cup {n} : m \in DOMAIN succ2 /\ (m # last => succ2[m] = succ1[m])
  OBVIOUS
<1> HIDE DEF succ1
<1>4. IsChain({n}, n, succ1)
  BY <1>1, ChainOne
<1>5. IsChain(S, f, succ1)
  BY <1>2, ChainSame
<1>6. S \cap {n} = {}
  OBVIOUS
<1> QED
  BY <1>1, <1>3, <1>4, <1>5, <1>6, ChainJoin

(* The last node of a list of more than one taken away. *)
LEMMA ChainCut ==
    ASSUME NEW S, NEW f, NEW succ, IsChain(S, f, succ),
           NEW last \in S, succ[last] = Null, NEW p \in S, succ[p] = last,
           NEW succ2, succ2[p] = Null,
           \A m \in S : m \in DOMAIN succ2 /\ (m # p /\ m # last => succ2[m] = succ[m])
    PROVE  IsChain(S \ {last}, f, succ2)
<1>0. PICK k, L : InOrder(k, L, S, f, succ)
  BY DEF IsChain
<1>1. /\ k \in Nat /\ L \in [1 .. k -> S]
      /\ \A n \in S : \E i \in 1 .. k : L[i] = n
      /\ \A i, j \in 1 .. k : L[i] = L[j] => i = j
      /\ (k = 0 => f = Null) /\ (k > 0 => f = L[1] /\ succ[L[k]] = Null)
      /\ \A i \in 1 .. k - 1 : succ[L[i]] = L[i + 1]
  BY <1>0 DEF InOrder
<1>2. S \subseteq DOMAIN succ /\ Null \notin S
  BY DEF IsChain
<1>3. PICK q \in 1 .. k : L[q] = p
  BY <1>1
<1>4. q \in 1 .. k - 1 /\ q + 1 \in 1 .. k /\ L[q + 1] = last
  <2>1. q # k
    BY <1>1, <1>2, <1>3
  <2>2. q \in 1 .. k - 1
    BY <1>1, <2>1
  <2> QED
    BY <1>1, <1>3, <2>2
<1>5. q + 1 = k
  <2> SUFFICES ASSUME q + 1 # k PROVE FALSE
    OBVIOUS
  <2>1. q + 1 \in 1 .. k - 1 /\ (q + 1) + 1 \in 1 .. k
    BY <1>1, <1>4
  <2>2. L[(q + 1) + 1] = Null
    BY <1>1, <1>4, <2>1
  <2> QED
    BY <1>1, <1>2, <2>1, <2>2
<1>6. k - 1 \in Nat /\ k - 1 > 0 /\ q = k - 1 /\ L[k - 1] = p /\ L[k] = last /\ k \in 1 .. k
  BY <1>1, <1>3, <1>4, <1>5
<1> DEFINE M == [i \in 1 .. k - 1 |-> L[i]]
<1>7. \A i \in 1 .. k - 1 : i \in 1 .. k /\ M[i] = L[i] /\ L[i] \in S \ {last}
  BY <1>1, <1>6
<1>8. M \in [1 .. k - 1 -> S \ {last}]
  BY <1>7
<1> HIDE DEF M
<1>9. \A n \in S \ {last} : \E i \in 1 .. k - 1 : M[i] = n
  <2> SUFFICES ASSUME NEW n \in S, n # last PROVE \E i \in 1 .. k - 1 : M[i] = n
    OBVIOUS
  <2>1. PICK i \in 1 .. k : L[i] = n
    BY <1>1
  <2>2. i # k
    BY <1>6, <2>1
  <2>3. i \in 1 .. k - 1
    BY <1>1, <2>2
  <2> QED
    BY <1>7, <2>1, <2>3
<1>10. \A i, j \in 1 .. k - 1 : M[i] = M[j] => i = j
  BY <1>1, <1>7
<1>11. f = M[1] /\ succ2[M[k - 1]] = Null
  <2>1. 1 \in 1 .. k - 1 /\ k - 1 \in 1 .. k - 1
    BY <1>6
  <2> QED
    BY <1>1, <1>6, <1>7, <2>1
<1>12. \A i \in 1 .. (k - 1) - 1 : succ2[M[i]] = M[i + 1]
  <2> SUFFICES ASSUME NEW i \in 1 .. (k - 1) - 1 PROVE succ2[M[i]] = M[i + 1]
    OBVIOUS
  <2>1. i \in 1 .. k - 1 /\ i + 1 \in 1 .. k - 1 /\ k - 1 \in 1 .. k /\ i # k - 1
    BY <1>6
  <2>2. L[i] # p /\ L[i] # last
    BY <1>1, <1>6, <1>7, <2>1
  <2>3. succ2[L[i]] = L[i + 1]
    BY <1>1, <1>7, <2>1, <2>2
  <2> QED
    BY <1>7, <2>1, <2>3
<1>13. InOrder(k - 1, M, S \ {last}, f, succ2)
  BY <1>6, <1>8, <1>9, <1>10, <1>11, <1>12 DEF InOrder
<1>14. S \ {last} \subseteq DOMAIN succ2 /\ Null \notin S \ {last}
  BY <1>2
<1> QED
  BY <1>13, <1>14 DEF IsChain

(* ListFrom finds the nodes of a list in their order. *)
LEMMA ListIs ==
    ASSUME NEW N \in Nat, NEW succ, DOMAIN succ = 1 .. N, NEW S, NEW f,
           S \subseteq DOMAIN succ, NEW k, NEW L, InOrder(k, L, S, f, succ)
    PROVE  ListFrom(f, succ) = L /\ L \in Seq(S) /\ Len(L) = k
<1>1. /\ k \in Nat /\ L \in [1 .. k -> S]
      /\ \A n \in S : \E i \in 1 .. k : L[i] = n
      /\ \A i, j \in 1 .. k : L[i] = L[j] => i = j
      /\ (k = 0 => f = Null) /\ (k > 0 => f = L[1] /\ succ[L[k]] = Null)
      /\ \A i \in 1 .. k - 1 : succ[L[i]] = L[i + 1]
  BY DEF InOrder
<1>2. S \subseteq DOMAIN succ /\ Null \notin S
  BY DEF Null
<1>3. k <= N
  <2>1. IsFiniteSet(1 .. N) /\ Cardinality(1 .. N) = N
    BY FS_Interval
  <2>2. IsFiniteSet(1 .. k) /\ Cardinality(1 .. k) = k
    BY <1>1, FS_Interval
  <2>3. IsFiniteSet(S) /\ Cardinality(S) <= N
    BY <1>2, <2>1, FS_Subset
  <2>4. \A i \in 1 .. k : L[i] \in S
    BY <1>1
  <2>5. L \in Injection(1 .. k, S)
    BY <1>1 DEF Injection, IsInjective
  <2>6. Cardinality(1 .. k) <= Cardinality(S)
    BY <2>2, <2>3, <2>5, FS_Injection
  <2> QED
    BY <1>1, <2>2, <2>3, <2>6, FS_CardinalityType
<1> DEFINE Rule(at) == [i \in DOMAIN succ |-> IF i = 1 THEN f
                                  ELSE IF at[i - 1] = Null THEN Null ELSE succ[at[i - 1]]]
           g == [i \in 1 .. N |-> IF i <= k THEN L[i] ELSE Null]
           at == CHOOSE a : a = Rule(a)
<1>4. \A i \in 1 .. N : (i <= k => i \in 1 .. k /\ g[i] = L[i] /\ g[i] # Null) /\ (i > k => g[i] = Null)
  BY <1>1, <1>2
<1>5. \A i \in 1 .. N : g[i] = IF i = 1 THEN f
                                 ELSE IF g[i - 1] = Null THEN Null ELSE succ[g[i - 1]]
  <2> SUFFICES ASSUME NEW i \in 1 .. N
               PROVE g[i] = IF i = 1 THEN f
                            ELSE IF g[i - 1] = Null THEN Null ELSE succ[g[i - 1]]
    OBVIOUS
  <2>1. CASE i = 1
    <3>1. k = 0 => g[i] = f
      BY <1>1, <1>4, <2>1
    <3>2. k > 0 => g[i] = f
      BY <1>1, <1>4, <2>1
    <3> QED
      BY <1>1, <2>1, <3>1, <3>2
  <2>2. CASE i # 1
    <3>1. i - 1 \in 1 .. N /\ i = (i - 1) + 1
      BY <2>2
    <3>2. CASE i <= k
      <4>1. i - 1 \in 1 .. k - 1 /\ i - 1 <= k
        BY <1>1, <3>1, <3>2
      <4>2. succ[L[i - 1]] = L[i]
        BY <1>1, <3>1, <4>1
      <4> QED
        BY <1>4, <2>2, <3>1, <3>2, <4>1, <4>2
    <3>3. CASE i = k + 1
      <4>1. i - 1 = k /\ k > 0 /\ i - 1 <= k
        BY <1>1, <3>1, <3>3
      <4>2. succ[L[i - 1]] = Null
        BY <1>1, <4>1
      <4>3. g[i] = Null
        BY <1>1, <1>4, <3>3
      <4> QED
        BY <1>4, <2>2, <3>1, <4>1, <4>2, <4>3
    <3>4. CASE i > k + 1
      <4>1. i > k /\ i - 1 > k
        BY <1>1, <3>4
      <4> QED
        BY <1>4, <2>2, <3>1, <4>1
    <3> QED
      BY <1>1, <3>2, <3>3, <3>4
  <2> QED
    BY <2>1, <2>2
<1>6. g = Rule(g)
  BY <1>5
<1>7. at = Rule(at)
  BY <1>6
<1> HIDE DEF g, at
<1>8. \A i \in 1 .. N : at[i] = IF i = 1 THEN f
                                  ELSE IF at[i - 1] = Null THEN Null ELSE succ[at[i - 1]]
  BY <1>7
<1>9. \A i \in 1 .. N : at[i] = g[i]
  <2> SUFFICES ASSUME NEW j \in 1 .. N, at[j] # g[j] PROVE FALSE
    OBVIOUS
  <2>1. PICK i \in {m \in 1 .. N : at[m] # g[m]} : \A m \in {n \in 1 .. N : at[n] # g[n]} : i <= m
    <3>1. {m \in 1 .. N : at[m] # g[m]} \subseteq Nat /\ {m \in 1 .. N : at[m] # g[m]} # {}
      OBVIOUS
    <3> QED
      BY <3>1, LeastOne
  <2>2. i # 1
    BY <1>5, <1>8, <2>1
  <2>3. i - 1 \in 1 .. N
    BY <2>1, <2>2
  <2>4. at[i - 1] = g[i - 1]
    BY <2>1, <2>3
  <2> QED
    BY <1>5, <1>8, <2>1, <2>2, <2>4
<1>10. ListFrom(f, succ) = [i \in {j \in DOMAIN succ : at[j] # Null} |-> at[i]]
  BY DEF ListFrom, at
<1>11. DOMAIN ListFrom(f, succ) = 1 .. k
  <2>0. /\ \A j \in 1 .. k : j \in 1 .. N /\ at[j] # Null
        /\ \A j \in 1 .. N : at[j] # Null => j \in 1 .. k
    <3>1. k \in Nat
      BY <1>1
    <3> QED
      BY <1>3, <1>4, <1>9, <3>1
  <2>1. {j \in DOMAIN succ : at[j] # Null} \subseteq 1 .. k
    BY <2>0
  <2>2. 1 .. k \subseteq {j \in DOMAIN succ : at[j] # Null}
    BY <2>0
  <2> QED
    BY <1>10, <2>1, <2>2
<1>12. \A i \in 1 .. k : ListFrom(f, succ)[i] = L[i]
  BY <1>1, <1>3, <1>4, <1>9, <1>10, <1>11
<1>13. ListFrom(f, succ) \in [1 .. k -> S]
  <2> DEFINE list == ListFrom(f, succ)
  <2>1. list = [i \in DOMAIN list |-> list[i]]
    BY <1>10
  <2>2. DOMAIN list = 1 .. k /\ \A i \in 1 .. k : list[i] \in S
    BY <1>1, <1>11, <1>12
  <2> HIDE DEF list
  <2>3. list \in [1 .. k -> S]
    BY <2>1, <2>2
  <2> QED
    BY <2>3 DEF list
<1>14. ListFrom(f, succ) = L
  <2> DEFINE list == ListFrom(f, succ)
  <2>1. list \in [1 .. k -> S] /\ L \in [1 .. k -> S] /\ \A i \in 1 .. k : list[i] = L[i]
    BY <1>1, <1>12, <1>13
  <2> HIDE DEF list
  <2>2. list = [i \in 1 .. k |-> list[i]] /\ L = [i \in 1 .. k |-> L[i]]
    BY <2>1
  <2>3. list = L
    BY <2>1, <2>2
  <2> QED
    BY <2>3 DEF list
<1>15. L \in Seq(S)
  BY <1>1, SeqDef
<1>16. DOMAIN L = 1 .. Len(L) /\ Len(L) \in Nat /\ DOMAIN L = 1 .. k
  BY <1>1, <1>15
<1>17. (k > 0 => k \in 1 .. Len(L)) /\ (Len(L) > 0 => Len(L) \in 1 .. k)
  BY <1>1, <1>16
<1>18. k \in Nat /\ Len(L) \in Nat
  BY <1>1, <1>16
<1>19. Len(L) = k
  BY <1>17, <1>18
<1> QED
  BY <1>14, <1>15, <1>19

(* ListFrom finds the nodes of a list, all of them and no other.           *)
LEMMA ChainFound ==
    ASSUME NEW N \in Nat, NEW succ, DOMAIN succ = 1 .. N,
           NEW S, NEW f, IsChain(S, f, succ)
    PROVE  /\ Linked(f, succ) = S
           /\ f # Null => /\ ListFrom(f, succ)[Len(ListFrom(f, succ))] \in S
                          /\ succ[ListFrom(f, succ)[Len(ListFrom(f, succ))]] = Null
<1>0. PICK k, L : InOrder(k, L, S, f, succ)
  BY DEF IsChain
<1>1. S \subseteq DOMAIN succ
  BY DEF IsChain
<1>2. ListFrom(f, succ) = L /\ L \in Seq(S) /\ Len(L) = k
  BY <1>0, <1>1, ListIs
<1>3. /\ k \in Nat /\ L \in [1 .. k -> S] /\ DOMAIN L = 1 .. k
      /\ \A n \in S : \E i \in 1 .. k : L[i] = n
      /\ (k = 0 => f = Null) /\ (k > 0 => succ[L[k]] = Null)
  BY <1>0 DEF InOrder
<1>4. {L[i] : i \in DOMAIN L} = S
  BY <1>3
<1>5. f # Null => k \in 1 .. k /\ L[k] \in S /\ succ[L[k]] = Null
  BY <1>3
<1> QED
  BY <1>2, <1>4, <1>5 DEF Linked

-----------------------------------------------------------------------------
Elements(s) == {s[i] : i \in DOMAIN s}

Distinct(s) == \A i, j \in DOMAIN s : s[i] = s[j] => i = j

(* A sequence with an element put before it. *)
LEMMA PutFirst ==
    ASSUME NEW X, NEW s \in Seq(X), NEW n \in X
    PROVE  /\ <<n>> \o s \in Seq(X) /\ <<n>> \o s # <<>>
           /\ Elements(<<n>> \o s) = Elements(s) \cup {n}
           /\ Distinct(s) /\ n \notin Elements(s) => Distinct(<<n>> \o s)
<1> DEFINE r == <<n>> \o s
<1>1. r \in Seq(X) /\ Len(r) = Len(s) + 1 /\ r[1] = n /\ DOMAIN r = 1 .. Len(r) /\ r # <<>>
  OBVIOUS
<1>2. DOMAIN s = 1 .. Len(s) /\ Len(s) \in Nat
  OBVIOUS
<1>3. \A i \in 2 .. Len(r) : r[i] = s[i - 1]
  OBVIOUS
<1> HIDE DEF r
<1>4. Elements(r) \subseteq Elements(s) \cup {n}
  <2> SUFFICES ASSUME NEW i \in DOMAIN r PROVE r[i] \in Elements(s) \cup {n}
    BY DEF Elements
  <2>1. CASE i = 1
    BY <1>1, <2>1
  <2>2. CASE i # 1
    <3>1. i \in 2 .. Len(r) /\ i - 1 \in DOMAIN s
      BY <1>1, <1>2, <2>2
    <3> QED
      BY <1>3, <3>1 DEF Elements
  <2> QED
    BY <2>1, <2>2
<1>5. Elements(s) \cup {n} \subseteq Elements(r)
  <2>1. n \in Elements(r)
    <3>1. 1 \in DOMAIN r
      BY <1>1, <1>2
    <3> QED
      BY <1>1, <3>1 DEF Elements
  <2>2. ASSUME NEW i \in DOMAIN s PROVE s[i] \in Elements(r)
    <3>1. i + 1 \in DOMAIN r /\ i + 1 \in 2 .. Len(r) /\ (i + 1) - 1 = i
      BY <1>1, <1>2
    <3>2. r[i + 1] = s[i]
      BY <1>3, <3>1
    <3> QED
      BY <3>1, <3>2 DEF Elements
  <2> QED
    BY <2>1, <2>2 DEF Elements
<1>6. ASSUME Distinct(s), n \notin Elements(s) PROVE Distinct(r)
  <2> SUFFICES ASSUME NEW i \in DOMAIN r, NEW j \in DOMAIN r, r[i] = r[j] PROVE i = j
    BY DEF Distinct
  <2>1. \A k \in DOMAIN r : k # 1 => k \in 2 .. Len(r) /\ k - 1 \in DOMAIN s /\ r[k] = s[k - 1]
    BY <1>1, <1>2, <1>3
  <2>2. \A k \in DOMAIN r : k # 1 => r[k] # n
    BY <1>6, <2>1 DEF Elements
  <2>3. CASE i = 1 \/ j = 1
    BY <1>1, <2>2, <2>3
  <2>4. CASE i # 1 /\ j # 1
    <3>1. i - 1 = j - 1
      BY <1>6, <2>1, <2>4 DEF Distinct
    <3> QED
      BY <1>1, <3>1
  <2> QED
    BY <2>3, <2>4
<1> QED
  BY <1>1, <1>4, <1>5, <1>6 DEF r

(* A sequence whose first element is taken away. *)
LEMMA TakeFirst ==
    ASSUME NEW X, NEW s \in Seq(X), s # <<>>
    PROVE  /\ Head(s) \in X /\ Tail(s) \in Seq(X) /\ Head(s) \in Elements(s) /\ Head(s) = s[1]
           /\ Elements(Tail(s)) \subseteq Elements(s)
           /\ Distinct(s) => /\ Elements(Tail(s)) = Elements(s) \ {Head(s)}
                             /\ Distinct(Tail(s))
<1> DEFINE r == Tail(s)
<1>1. r \in Seq(X) /\ Len(r) = Len(s) - 1 /\ DOMAIN r = 1 .. Len(r) /\ Len(s) >= 1
  OBVIOUS
<1>2. DOMAIN s = 1 .. Len(s) /\ Len(s) \in Nat /\ 1 \in DOMAIN s /\ Head(s) = s[1]
  OBVIOUS
<1>3. \A i \in DOMAIN r : r[i] = s[i + 1]
  OBVIOUS
<1> HIDE DEF r
<1>4. \A i \in DOMAIN r : i + 1 \in DOMAIN s /\ i + 1 # 1
  BY <1>1, <1>2
<1>5. Elements(r) \subseteq Elements(s)
  BY <1>3, <1>4 DEF Elements
<1>6. s[1] \in Elements(s) /\ s[1] \in X
  BY <1>2 DEF Elements
<1>7. ASSUME Distinct(s) PROVE Elements(r) = Elements(s) \ {Head(s)} /\ Distinct(r)
  <2>1. Distinct(r)
    <3> SUFFICES ASSUME NEW i \in DOMAIN r, NEW j \in DOMAIN r, r[i] = r[j] PROVE i = j
      BY DEF Distinct
    <3>1. i + 1 = j + 1
      BY <1>3, <1>4, <1>7 DEF Distinct
    <3> QED
      BY <1>1, <3>1
  <2>2. \A i \in DOMAIN r : r[i] # s[1]
    BY <1>2, <1>3, <1>4, <1>7 DEF Distinct
  <2>3. ASSUME NEW i \in DOMAIN s, s[i] # s[1] PROVE s[i] \in Elements(r)
    <3>1. i - 1 \in DOMAIN r /\ (i - 1) + 1 = i
      BY <1>1, <1>2, <2>3
    <3> QED
      BY <1>3, <3>1 DEF Elements
  <2>4. Elements(r) = Elements(s) \ {s[1]}
    BY <1>5, <2>2, <2>3 DEF Elements
  <2> QED
    BY <1>2, <2>1, <2>4
<1> QED
  BY <1>1, <1>2, <1>5, <1>6, <1>7 DEF r

(* The address of a new node is that of no node there is. *)
LEMMA AddressIsFree ==
    ASSUME NEW T, nodes \in Seq(T)
    PROVE  Address \in 1 .. Len(nodes) + 1 /\ Address \notin Alive
<1>1. Len(nodes) \in Nat /\ DOMAIN nodes = 1 .. Len(nodes)
  OBVIOUS
<1> DEFINE Free == {n \in 1 .. Len(nodes) + 1 : n \notin Alive}
<1>2. Len(nodes) + 1 \in Free
  BY <1>1 DEF Alive
<1>3. PICK n \in Free : \A m \in Free : n <= m
  <2>1. Free \subseteq Nat /\ Free # {}
    BY <1>1, <1>2
  <2> HIDE DEF Free
  <2> QED
    BY <2>1, LeastOne
<1>4. n \in 1 .. Len(nodes) + 1 /\ n \notin Alive /\ \A m \in 1 .. n - 1 : m \in Alive
  <2>1. ASSUME NEW m \in 1 .. n - 1, m \notin Alive PROVE FALSE
    <3>1. m \in Free /\ m < n
      BY <1>1, <1>3, <2>1
    <3> QED
      BY <1>1, <1>3, <3>1
  <2> QED
    BY <1>3, <2>1
<1> QED
  BY <1>4 DEF Address

(* The nodes after one has been put at an address. *)
LEMMA Placed ==
    ASSUME NEW T, nodes \in Seq(T), NEW n \in 1 .. Len(nodes) + 1, NEW node \in T
    PROVE  Place(n, node) \in Seq(T)
<1>1. Len(nodes) \in Nat /\ DOMAIN nodes = 1 .. Len(nodes)
  OBVIOUS
<1>2. PICK k \in Nat : DOMAIN nodes \cup {n} = 1 .. k
  <2>1. CASE n = Len(nodes) + 1
    <3>1. DOMAIN nodes \cup {n} = 1 .. Len(nodes) + 1 /\ Len(nodes) + 1 \in Nat
      BY <1>1, <2>1
    <3> QED
      BY <3>1
  <2>2. CASE n # Len(nodes) + 1
    <3>1. DOMAIN nodes \cup {n} = 1 .. Len(nodes)
      BY <1>1, <2>2
    <3> QED
      BY <1>1, <3>1
  <2> QED
    BY <2>1, <2>2
<1>3. Place(n, node) \in [1 .. k -> T]
  BY <1>1, <1>2 DEF Place
<1> QED
  BY <1>2, <1>3, SeqDef

-----------------------------------------------------------------------------
(* The nodes of HazardPointerStack and PendingStack. *)
StackNode == [data : Value \cup {NoData}, next : Nat, alive : BOOLEAN]

SuccOf(ns) == [n \in DOMAIN ns |-> ns[n].next]

(* The nodes of the stack, and that they are a list. *)
In == Linked(head, SuccOf(nodes))

ListOk == IsChain(In, head, SuccOf(nodes))

(* The nodes of a list are those that Linked finds. *)
LEMMA FoundIn ==
    ASSUME NEW T, NEW ns \in Seq(T), NEW S, NEW f, IsChain(S, f, SuccOf(ns))
    PROVE  Linked(f, SuccOf(ns)) = S
<1>1. DOMAIN SuccOf(ns) = 1 .. Len(ns) /\ Len(ns) \in Nat
  BY DEF SuccOf
<1> QED
  BY <1>1, ChainFound

(* What is known of the nodes of the stack. *)
LEMMA InFacts ==
    ASSUME ListOk
    PROVE  /\ In \subseteq DOMAIN nodes /\ Null \notin In
           /\ head = Null => In = {}
           /\ head # Null => head \in In
<1>1. DOMAIN SuccOf(nodes) = DOMAIN nodes
  BY DEF SuccOf
<1>2. \A n \in In : n \in DOMAIN SuccOf(nodes)
  BY ChainFacts DEF ListOk
<1>3. Null \notin In /\ (head = Null => In = {}) /\ (head # Null => head \in In)
  BY ChainFacts DEF ListOk
<1> QED
  BY <1>1, <1>2, <1>3

(* The stack does not change when its nodes lead on as before. *)
LEMMA SameStack ==
    ASSUME NEW T, nodes' \in Seq(T), ListOk, head' = head,
           \A n \in In : n \in DOMAIN nodes' /\ nodes'[n].next = nodes[n].next
    PROVE  In' = In /\ ListOk'
<1>1. In \subseteq DOMAIN nodes
  BY InFacts
<1>2. \A n \in In : n \in DOMAIN SuccOf(nodes') /\ SuccOf(nodes')[n] = SuccOf(nodes)[n]
  BY <1>1 DEF SuccOf
<1>3. IsChain(In, head, SuccOf(nodes'))
  BY <1>2, ChainSame DEF ListOk
<1>4. Linked(head, SuccOf(nodes')) = In
  BY <1>3, FoundIn
<1> QED
  BY <1>3, <1>4 DEF In, ListOk

(* push puts a new node before the others. *)
LEMMA PushedNode ==
    ASSUME nodes \in Seq(StackNode), ListOk, In \subseteq Alive, NEW v \in Value,
           nodes' = Place(Address, [data |-> v, next |-> head, alive |-> TRUE]),
           head' = Address
    PROVE  /\ nodes' \in Seq(StackNode) /\ head' \notin Alive /\ head' # Null
           /\ In' = In \cup {head'} /\ ListOk'
           /\ Alive' = Alive \cup {head'}
           /\ \A m \in Alive : m \in DOMAIN nodes' /\ nodes'[m] = nodes[m]
<1> DEFINE n == Address
           node == [data |-> v, next |-> head, alive |-> TRUE]
<1>1. n \in 1 .. Len(nodes) + 1 /\ n \notin Alive
  BY AddressIsFree
<1>2. n # Null /\ DOMAIN nodes = 1 .. Len(nodes) /\ Len(nodes) \in Nat
  BY <1>1 DEF Null
<1>3. In \subseteq DOMAIN nodes /\ head \in Nat
  BY <1>2, InFacts DEF Null
<1>4. node \in StackNode
  BY <1>3 DEF StackNode
<1> HIDE DEF n
<1>5. /\ nodes' \in Seq(StackNode) /\ DOMAIN nodes' = DOMAIN nodes \cup {n} /\ nodes'[n] = node
      /\ \A m \in DOMAIN nodes : m # n => nodes'[m] = nodes[m]
  <2>1. nodes' = Place(n, node)
    BY DEF n
  <2> HIDE DEF node
  <2>2. Place(n, node) \in Seq(StackNode)
    BY <1>1, <1>4, Placed, Zenon
  <2>3. /\ DOMAIN Place(n, node) = DOMAIN nodes \cup {n}
        /\ Place(n, node)[n] = node
        /\ \A m \in DOMAIN nodes : m # n => Place(n, node)[m] = nodes[m]
    BY DEF Place
  <2> QED
    BY <2>1, <2>2, <2>3
<1>6. Alive' = Alive \cup {n}
  <2>1. nodes'[n].alive /\ n \in DOMAIN nodes'
    BY <1>5
  <2> HIDE DEF node
  <2>2. \A m : m \in Alive' <=> m \in Alive \/ m = n
    BY <1>5, <2>1 DEF Alive
  <2> QED
    BY <2>2
<1>7. \A m \in Alive : m \in DOMAIN nodes' /\ nodes'[m] = nodes[m]
  BY <1>1, <1>5 DEF Alive
<1>8. IsChain(In \cup {n}, n, SuccOf(nodes'))
  <2>1. n \in DOMAIN SuccOf(nodes') /\ SuccOf(nodes')[n] = head
    BY <1>5 DEF SuccOf
  <2>2. \A m \in In : m \in DOMAIN SuccOf(nodes') /\ SuccOf(nodes')[m] = SuccOf(nodes)[m]
    BY <1>3, <1>7 DEF SuccOf
  <2>3. n \notin In
    BY <1>1
  <2> QED
    BY <1>2, <2>1, <2>2, <2>3, ChainPush DEF ListOk
<1>9. Linked(n, SuccOf(nodes')) = In \cup {n}
  BY <1>5, <1>8, FoundIn
<1>10. head' = n
  BY DEF n
<1> QED
  BY <1>1, <1>2, <1>5, <1>6, <1>7, <1>8, <1>9, <1>10 DEF In, ListOk

(* The exchange of head takes the first node out of the stack. *)
LEMMA PoppedNode ==
    ASSUME NEW T, nodes \in Seq(T), ListOk, head # Null,
           nodes' = nodes, head' = nodes[head].next
    PROVE  head \in In /\ In' = In \ {head} /\ ListOk'
<1>1. head \in In /\ IsChain(In \ {head}, SuccOf(nodes)[head], SuccOf(nodes))
  BY ChainPop DEF ListOk
<1>2. SuccOf(nodes)[head] = head'
  BY <1>1, InFacts DEF SuccOf
<1>3. IsChain(In \ {head}, head', SuccOf(nodes'))
  BY <1>1, <1>2
<1>4. Linked(head', SuccOf(nodes')) = In \ {head}
  BY <1>3, FoundIn
<1> QED
  BY <1>1, <1>3, <1>4 DEF In, ListOk

(* The nodes alive are those of two sets and of the threads, each in one.  *)
Apart(alive, inside, deferred, own) ==
    /\ alive = inside \cup deferred \cup UNION {own[t] : t \in Threads}
    /\ inside \cap deferred = {}
    /\ \A t \in Threads : own[t] \cap (inside \cup deferred) = {}
    /\ \A t, u \in Threads : t # u => own[t] \cap own[u] = {}

(* Thread t moves nodes between the two sets and its own, makes or deletes *)
(* some: what it had before, it leaves in one place.                       *)
LEMMA ApartMoved ==
    ASSUME NEW a, NEW i, NEW d, NEW own, Apart(a, i, d, own),
           NEW a2, NEW i2, NEW d2, NEW own2, NEW t \in Threads,
           \A u \in Threads : u # t => own2[u] = own[u],
           i2 \cap d2 = {}, own2[t] \cap (i2 \cup d2) = {},
           a2 = (a \ (i \cup d \cup own[t])) \cup (i2 \cup d2 \cup own2[t]),
           (i2 \cup d2 \cup own2[t]) \cap (a \ (i \cup d \cup own[t])) = {}
    PROVE  Apart(a2, i2, d2, own2)
<1>1. /\ a = i \cup d \cup UNION {own[u] : u \in Threads}
      /\ \A u \in Threads : own[u] \cap (i \cup d) = {}
      /\ \A u, v \in Threads : u # v => own[u] \cap own[v] = {}
  BY DEF Apart
<1>2. \A n : n \in a <=> n \in i \/ n \in d \/ \E u \in Threads : n \in own[u]
  BY <1>1
<1>3. \A n : n \in a \ (i \cup d \cup own[t]) <=> \E u \in Threads : u # t /\ n \in own[u]
  <2> SUFFICES ASSUME NEW n
               PROVE  n \in a \ (i \cup d \cup own[t]) <=> \E u \in Threads : u # t /\ n \in own[u]
    OBVIOUS
  <2>1. ASSUME n \in a \ (i \cup d \cup own[t])
        PROVE  \E u \in Threads : u # t /\ n \in own[u]
    <3>1. PICK u \in Threads : n \in own[u]
      BY <1>2, <2>1
    <3>2. u # t
      BY <2>1, <3>1
    <3> QED
      BY <3>1, <3>2
  <2>2. ASSUME NEW u \in Threads, u # t, n \in own[u]
        PROVE  n \in a \ (i \cup d \cup own[t])
    <3>1. n \in a
      BY <1>2, <2>2
    <3>2. n \notin i \cup d /\ n \notin own[t]
      BY <1>1, <2>2
    <3> QED
      BY <3>1, <3>2
  <2> QED
    BY <2>1, <2>2
<1>4. \A u \in Threads : u # t => /\ own2[u] \subseteq a \ (i \cup d \cup own[t])
                                  /\ own2[u] \cap (i2 \cup d2 \cup own2[t]) = {}
  <2> SUFFICES ASSUME NEW u \in Threads, u # t
               PROVE  /\ own2[u] \subseteq a \ (i \cup d \cup own[t])
                      /\ own2[u] \cap (i2 \cup d2 \cup own2[t]) = {}
    OBVIOUS
  <2>1. own2[u] = own[u]
    OBVIOUS
  <2>2. own[u] \subseteq a \ (i \cup d \cup own[t])
    BY <1>3
  <2> QED
    BY <2>1, <2>2
<1>5. \A n : n \in a2 <=> n \in i2 \/ n \in d2 \/ \E u \in Threads : n \in own2[u]
  <2> SUFFICES ASSUME NEW n
               PROVE  n \in a2 <=> n \in i2 \/ n \in d2 \/ \E u \in Threads : n \in own2[u]
    OBVIOUS
  <2>1. n \in a2 <=> n \in a \ (i \cup d \cup own[t]) \/ n \in i2 \/ n \in d2 \/ n \in own2[t]
    OBVIOUS
  <2>2. n \in a \ (i \cup d \cup own[t]) <=> \E u \in Threads : u # t /\ n \in own2[u]
    BY <1>3
  <2> QED
    BY <2>1, <2>2
<1>6. a2 = i2 \cup d2 \cup UNION {own2[u] : u \in Threads}
  BY <1>5
<1>7. \A u, v \in Threads : u # v => own2[u] \cap own2[v] = {}
  <2> SUFFICES ASSUME NEW u \in Threads, NEW v \in Threads, u # v PROVE own2[u] \cap own2[v] = {}
    OBVIOUS
  <2>1. CASE u # t /\ v # t
    BY <1>1, <2>1
  <2>2. CASE u = t \/ v = t
    BY <1>4, <2>2
  <2> QED
    BY <2>1, <2>2
<1>8. \A u \in Threads : own2[u] \cap (i2 \cup d2) = {}
  BY <1>4
<1> QED
  BY <1>6, <1>7, <1>8 DEF Apart

(* A node that loses its data, or is deleted. *)
LEMMA ChangedNode ==
    ASSUME nodes \in Seq(StackNode), NEW n \in DOMAIN nodes,
           \/ nodes' = [nodes EXCEPT ![n].data = NoData]
           \/ nodes' = [nodes EXCEPT ![n].alive = FALSE]
    PROVE  /\ nodes' \in Seq(StackNode) /\ DOMAIN nodes' = DOMAIN nodes
           /\ \A m \in DOMAIN nodes : nodes'[m].next = nodes[m].next
           /\ \A m \in DOMAIN nodes : m # n => nodes'[m] = nodes[m]
           /\ nodes' = [nodes EXCEPT ![n].data = NoData] => nodes'[n].alive = nodes[n].alive
           /\ nodes' = [nodes EXCEPT ![n].alive = FALSE] => nodes'[n].alive = FALSE
<1>1. DOMAIN nodes = 1 .. Len(nodes) /\ Len(nodes) \in Nat /\ \A m \in DOMAIN nodes : nodes[m] \in StackNode
  OBVIOUS
<1>2. [nodes[n] EXCEPT !.data = NoData] \in StackNode /\ [nodes[n] EXCEPT !.alive = FALSE] \in StackNode
  BY <1>1 DEF StackNode
<1>3. /\ [nodes[n] EXCEPT !.data = NoData].next = nodes[n].next
      /\ [nodes[n] EXCEPT !.data = NoData].alive = nodes[n].alive
      /\ [nodes[n] EXCEPT !.alive = FALSE].next = nodes[n].next
      /\ [nodes[n] EXCEPT !.alive = FALSE].alive = FALSE
  BY <1>1 DEF StackNode
<1>4. CASE nodes' = [nodes EXCEPT ![n].data = NoData]
  <2>1. nodes' = [m \in DOMAIN nodes |-> IF m = n THEN [nodes[n] EXCEPT !.data = NoData] ELSE nodes[m]]
    BY <1>4
  <2>2. nodes' \in [1 .. Len(nodes) -> StackNode]
    BY <1>1, <1>2, <2>1
  <2>3. nodes' \in Seq(StackNode)
    BY <1>1, <2>2, SeqDef
  <2>4. DOMAIN nodes' = DOMAIN nodes /\ nodes'[n] = [nodes[n] EXCEPT !.data = NoData]
        /\ \A m \in DOMAIN nodes : m # n => nodes'[m] = nodes[m]
    BY <2>1
  <2>5. nodes'[n].alive = nodes[n].alive /\ \A m \in DOMAIN nodes : nodes'[m].next = nodes[m].next
    BY <1>3, <2>4
  <2>6. ASSUME nodes' = [nodes EXCEPT ![n].alive = FALSE] PROVE nodes'[n].alive = FALSE
    BY <1>1, <2>6 DEF StackNode
  <2> QED
    BY <2>3, <2>4, <2>5, <2>6
<1>5. CASE nodes' = [nodes EXCEPT ![n].alive = FALSE]
  <2>1. nodes' = [m \in DOMAIN nodes |-> IF m = n THEN [nodes[n] EXCEPT !.alive = FALSE] ELSE nodes[m]]
    BY <1>5
  <2>2. nodes' \in [1 .. Len(nodes) -> StackNode]
    BY <1>1, <1>2, <2>1
  <2>3. nodes' \in Seq(StackNode)
    BY <1>1, <2>2, SeqDef
  <2>4. DOMAIN nodes' = DOMAIN nodes /\ nodes'[n] = [nodes[n] EXCEPT !.alive = FALSE]
        /\ \A m \in DOMAIN nodes : m # n => nodes'[m] = nodes[m]
    BY <2>1
  <2>5. nodes'[n].alive = FALSE /\ \A m \in DOMAIN nodes : nodes'[m].next = nodes[m].next
    BY <1>3, <2>4
  <2>6. ASSUME nodes' = [nodes EXCEPT ![n].data = NoData] PROVE nodes'[n].alive = nodes[n].alive
    BY <1>1, <2>6 DEF StackNode
  <2> QED
    BY <2>3, <2>4, <2>5, <2>6
<1> QED
  BY <1>4, <1>5

-----------------------------------------------------------------------------
(* HazardPointerStack.  Every node that is not deleted is in one place: in *)
(* the stack, on the list, or with the pop that has taken it.              *)

(* The node whose data a pop takes, and those it is going through. *)
HOwn(t) == (IF pc[t] = "clear" THEN {old[t]} \ {Null} ELSE {}) \cup Elements(work[t])

HType ==
    /\ nodes \in Seq(StackNode)
    /\ pc \in [Threads -> {"idle", "publish", "check", "exchange", "clear", "scan", "sweep"}]
    /\ old \in [Threads -> Nat] /\ hp \in [Threads -> Nat]
    /\ reclaim \in Seq(Nat) /\ Distinct(reclaim)
    /\ work \in [Threads -> Seq(Nat)] /\ \A t \in Threads : Distinct(work[t])
    /\ unread \in [Threads -> SUBSET Threads]

HPlaces == Apart(Alive, In, Elements(reclaim), [t \in Threads |-> HOwn(t)])

(* Where a thread is, it has nodes to go through, and the pointers of all  *)
(* the others to read before the first.                                    *)
HScan ==
    \A t \in Threads :
       /\ pc[t] \notin {"scan", "sweep"} => work[t] = <<>>
       /\ pc[t] \in {"scan", "sweep"} /\ work[t] = <<>> => unread[t] = Threads \ {t}

(* A node that has been published and found to be the head once more is    *)
(* not deleted: who has it as the first node to deal with has still to     *)
(* read the pointer.                                                       *)
HPublished ==
    \A t \in Threads :
       /\ pc[t] \in {"check", "exchange"} => hp[t] = old[t]
       /\ pc[t] = "exchange" =>
             /\ old[t] \in Alive
             /\ \A u \in Threads : work[u] # <<>> /\ work[u][1] = old[t] => t \in unread[u]

HInv == HType /\ ListOk /\ HPlaces /\ HScan /\ HPublished

(* The definitions that the instance shares with this module. *)
LEMMA HazardSame ==
    /\ Hazard!Address = Address
    /\ Hazard!Alive = Alive
    /\ \A n, node : Hazard!Place(n, node) = Place(n, node)
    /\ \A f, succ : Hazard!ListFrom(f, succ) = ListFrom(f, succ)
    /\ Hazard!Null = Null /\ Hazard!NoData = NoData
<1>1. Hazard!Null = Null /\ Hazard!NoData = NoData
  BY DEF Hazard!Null, Hazard!NoData, Null, NoData
<1>2. Hazard!Alive = Alive
  BY DEF Hazard!Alive, Alive
<1>3. Hazard!Address = Address
  BY <1>2 DEF Hazard!Address, Address
<1>4. \A n, node : Hazard!Place(n, node) = Place(n, node)
  BY DEF Hazard!Place, Place
<1>5. \A f, succ : Hazard!ListFrom(f, succ) = ListFrom(f, succ)
  BY DEF Hazard!ListFrom, ListFrom, Hazard!Null, Null
<1> QED
  BY <1>1, <1>2, <1>3, <1>4, <1>5

(* The stack begins empty. *)
LEMMA HazardInit == Hazard!Init => HInv
<1> SUFFICES ASSUME Hazard!Init PROVE HInv
  OBVIOUS
<1> USE DEF Hazard!Init, Hazard!ThreadsInit
<1>1. HType
  BY HazardSame DEF HType, Distinct, Null
<1>2. In = {} /\ ListOk
  <2>1. head = Null /\ nodes = <<>>
    BY HazardSame
  <2>2. IsChain({}, Null, SuccOf(nodes))
    BY ChainEmpty
  <2>3. <<>> \in Seq({})
    OBVIOUS
  <2>4. Linked(Null, SuccOf(nodes)) = {}
    BY <2>1, <2>2, <2>3, FoundIn
  <2> QED
    BY <2>1, <2>2, <2>4 DEF In, ListOk
<1>3. Alive = {} /\ Elements(reclaim) = {} /\ \A t \in Threads : HOwn(t) = {}
  BY DEF Alive, Elements, HOwn
<1>4. HPlaces
  BY <1>2, <1>3 DEF HPlaces, Apart
<1>5. HScan /\ HPublished
  BY DEF HScan, HPublished
<1> QED
  BY <1>1, <1>2, <1>4, <1>5 DEF HInv

(* Which nodes a thread has, and that all of them are alive. *)
LEMMA HazardFacts ==
    ASSUME HInv
    PROVE  /\ \A u \in Threads : /\ pc[u] = "clear" => HOwn(u) = {old[u]} \ {Null}
                                 /\ pc[u] # "clear" => HOwn(u) = Elements(work[u])
                                 /\ HOwn(u) \subseteq Alive
                                 /\ HOwn(u) \cap In = {} /\ HOwn(u) \cap Elements(reclaim) = {}
                                 /\ \A v \in Threads : u # v => HOwn(u) \cap HOwn(v) = {}
           /\ Alive \subseteq DOMAIN nodes /\ DOMAIN nodes \subseteq Nat /\ Null \notin DOMAIN nodes
           /\ In \subseteq Alive /\ Elements(reclaim) \subseteq Alive /\ In \cap Elements(reclaim) = {}
           /\ head = Null => In = {}
           /\ head # Null => head \in In
           /\ head \in Nat
<1>1. \A u \in Threads : /\ pc[u] = "clear" => HOwn(u) = {old[u]} \ {Null}
                         /\ pc[u] # "clear" => HOwn(u) = Elements(work[u])
  <2>1. Elements(<<>>) = {}
    BY DEF Elements
  <2> QED
    BY <2>1 DEF HInv, HScan, HOwn
<1>2. Alive \subseteq DOMAIN nodes /\ DOMAIN nodes \subseteq Nat /\ Null \notin DOMAIN nodes
  <2>1. DOMAIN nodes = 1 .. Len(nodes) /\ Len(nodes) \in Nat
    BY DEF HInv, HType
  <2> QED
    BY <2>1 DEF Alive, Null
<1>3. /\ Alive = In \cup Elements(reclaim) \cup UNION {HOwn(t) : t \in Threads}
      /\ In \cap Elements(reclaim) = {}
      /\ \A t \in Threads : HOwn(t) \cap (In \cup Elements(reclaim)) = {}
      /\ \A t, u \in Threads : t # u => HOwn(t) \cap HOwn(u) = {}
  BY DEF HInv, HPlaces, Apart
<1>4. \A u \in Threads : /\ HOwn(u) \subseteq Alive
                         /\ HOwn(u) \cap In = {} /\ HOwn(u) \cap Elements(reclaim) = {}
                         /\ \A v \in Threads : u # v => HOwn(u) \cap HOwn(v) = {}
  BY <1>3
<1>5. head = Null => In = {}
  BY InFacts DEF HInv
<1>6. head # Null => head \in In
  BY InFacts DEF HInv
<1>7. In \subseteq Alive /\ Elements(reclaim) \subseteq Alive /\ In \cap Elements(reclaim) = {}
  BY <1>3
<1>8. head \in Nat
  BY <1>2, <1>6, <1>7 DEF Null
<1> QED
  BY <1>1, <1>2, <1>4, <1>5, <1>6, <1>7, <1>8

(* A step of thread t that moves nodes to or from the stack and the list. *)
LEMMA HazardMoved ==
    ASSUME HInv, NEW t \in Threads, \A u \in Threads : u # t => HOwn(u)' = HOwn(u),
           In' \cap Elements(reclaim)' = {},
           HOwn(t)' \cap (In' \cup Elements(reclaim)') = {},
           Alive' = (Alive \ (In \cup Elements(reclaim) \cup HOwn(t)))
                        \cup (In' \cup Elements(reclaim)' \cup HOwn(t)'),
           (In' \cup Elements(reclaim)' \cup HOwn(t)')
              \cap (Alive \ (In \cup Elements(reclaim) \cup HOwn(t))) = {}
    PROVE  HPlaces'
<1> DEFINE own == [u \in Threads |-> HOwn(u)]
           own2 == [u \in Threads |-> HOwn(u)']
<1>1. own2[t] = HOwn(t)' /\ own[t] = HOwn(t) /\ \A u \in Threads : u # t => own2[u] = own[u]
  OBVIOUS
<1>2. Apart(Alive, In, Elements(reclaim), own)
  BY DEF HInv, HPlaces
<1> HIDE DEF own, own2
<1>3. Apart(Alive', In', Elements(reclaim)', own2)
  BY <1>1, <1>2, ApartMoved
<1> QED
  BY <1>3 DEF HPlaces, own2

(* A step of thread t after which every node is where it was. *)
LEMMA HazardStays ==
    ASSUME HInv, NEW t \in Threads, UNCHANGED <<nodes, head, reclaim>>,
           \A u \in Threads : HOwn(u)' = HOwn(u)
    PROVE  HPlaces' /\ ListOk' /\ In' = In /\ Alive' = Alive
<1>1. In' = In /\ Alive' = Alive /\ Elements(reclaim)' = Elements(reclaim)
  BY DEF In, Alive
<1>2. HPlaces'
  <2>1. [u \in Threads |-> HOwn(u)'] = [u \in Threads |-> HOwn(u)]
    OBVIOUS
  <2>2. Apart(Alive', In', Elements(reclaim)', [u \in Threads |-> HOwn(u)'])
    BY <1>1, <2>1, Zenon DEF HInv, HPlaces
  <2> QED
    BY <2>2 DEF HPlaces
<1>3. ListOk'
  BY <1>1 DEF HInv, ListOk
<1> QED
  BY <1>1, <1>2, <1>3

(* push. *)
LEMMA HazardPush == ASSUME HInv, NEW t \in Threads, Hazard!Push(t) PROVE HInv'
<1> USE DEF HInv
<1>1. /\ pc[t] = "idle" /\ Hazard!Operation(t) \in Value
      /\ nodes' = Place(Address, [data |-> Hazard!Operation(t), next |-> head, alive |-> TRUE])
      /\ head' = Address
      /\ pc' = [pc EXCEPT ![t] = "idle"]
      /\ UNCHANGED <<old, hp, reclaim, work, unread>>
  BY HazardSame DEF Hazard!Push, Hazard!Calls, Hazard!Return, Hazard!Goto, Hazard!hpVars
<1>2. nodes \in Seq(StackNode) /\ ListOk /\ In \subseteq Alive
  BY HazardFacts DEF HType
<1>3. /\ nodes' \in Seq(StackNode) /\ head' \notin Alive /\ head' # Null
      /\ In' = In \cup {head'} /\ ListOk'
      /\ Alive' = Alive \cup {head'}
      /\ \A m \in Alive : m \in DOMAIN nodes' /\ nodes'[m] = nodes[m]
  BY <1>1, <1>2, PushedNode
<1>4. \A u \in Threads : pc'[u] = pc[u] /\ HOwn(u)' = HOwn(u)
  BY <1>1 DEF HType, HOwn
<1>5. HType'
  BY <1>1, <1>3 DEF HType
<1>6. HPlaces'
  <2>1. Elements(reclaim)' = Elements(reclaim) /\ HOwn(t)' = HOwn(t)
    BY <1>1, <1>4
  <2>2. /\ HOwn(t) \subseteq Alive /\ HOwn(t) \cap In = {} /\ HOwn(t) \cap Elements(reclaim) = {}
        /\ In \subseteq Alive /\ Elements(reclaim) \subseteq Alive /\ In \cap Elements(reclaim) = {}
    BY HazardFacts
  <2>3. In' \cap Elements(reclaim)' = {} /\ HOwn(t)' \cap (In' \cup Elements(reclaim)') = {}
    BY <1>3, <2>1, <2>2
  <2>4. /\ Alive' = (Alive \ (In \cup Elements(reclaim) \cup HOwn(t)))
                        \cup (In' \cup Elements(reclaim)' \cup HOwn(t)')
        /\ (In' \cup Elements(reclaim)' \cup HOwn(t)')
              \cap (Alive \ (In \cup Elements(reclaim) \cup HOwn(t))) = {}
    BY <1>3, <2>1, <2>2
  <2> QED
    BY <1>4, <2>3, <2>4, HazardMoved
<1>7. HScan' /\ HPublished'
  BY <1>1, <1>3, <1>4 DEF HScan, HPublished
<1> QED
  BY <1>3, <1>5, <1>6, <1>7

(* pop reads head. *)
LEMMA HazardPopLoad == ASSUME HInv, NEW t \in Threads, Hazard!PopLoad(t) PROVE HInv'
<1> USE DEF HInv
<1>1. /\ pc[t] = "idle" /\ old' = [old EXCEPT ![t] = head] /\ pc' = [pc EXCEPT ![t] = "publish"]
      /\ UNCHANGED <<nodes, head, hp, reclaim, work, unread>>
  BY DEF Hazard!PopLoad, Hazard!Calls, Hazard!Goto, Hazard!hpVars
<1>2. HType'
  BY <1>1, HazardFacts DEF HType
<1>3. \A u \in Threads : HOwn(u)' = HOwn(u)
  BY <1>1 DEF HType, HOwn
<1>4. HPlaces' /\ ListOk' /\ In' = In /\ Alive' = Alive
  BY <1>1, <1>3, HazardStays
<1>5. HScan' /\ HPublished'
  BY <1>1, <1>4 DEF HType, HScan, HPublished
<1> QED
  BY <1>2, <1>4, <1>5

(* pop publishes the head it has read. *)
LEMMA HazardPopPublish == ASSUME HInv, NEW t \in Threads, Hazard!PopPublish(t) PROVE HInv'
<1> USE DEF HInv
<1>1. /\ pc[t] = "publish" /\ hp' = [hp EXCEPT ![t] = old[t]] /\ pc' = [pc EXCEPT ![t] = "check"]
      /\ UNCHANGED <<nodes, head, old, reclaim, work, unread>>
  BY DEF Hazard!PopPublish, Hazard!Goto
<1>2. HType'
  BY <1>1, HazardFacts DEF HType
<1>3. \A u \in Threads : HOwn(u)' = HOwn(u)
  BY <1>1 DEF HType, HOwn
<1>4. HPlaces' /\ ListOk' /\ In' = In /\ Alive' = Alive
  BY <1>1, <1>3, HazardStays
<1>5. HScan' /\ HPublished'
  BY <1>1, <1>4 DEF HType, HScan, HPublished
<1> QED
  BY <1>2, <1>4, <1>5

(* pop reads head again: what it has published is in the stack. *)
LEMMA HazardPopCheck == ASSUME HInv, NEW t \in Threads, Hazard!PopCheck(t) PROVE HInv'
<1> USE DEF HInv
<1>1. /\ pc[t] = "check" /\ old' = [old EXCEPT ![t] = head]
      /\ \/ head # old[t] /\ pc' = [pc EXCEPT ![t] = "publish"]
         \/ head = old[t] /\ head = Null /\ pc' = [pc EXCEPT ![t] = "clear"]
         \/ head = old[t] /\ head # Null /\ pc' = [pc EXCEPT ![t] = "exchange"]
      /\ UNCHANGED <<nodes, head, hp, reclaim, work, unread>>
  BY HazardSame DEF Hazard!PopCheck, Hazard!Goto, Hazard!hpVars
<1>2. HType'
  BY <1>1, HazardFacts DEF HType
<1>3. \A u \in Threads : HOwn(u)' = HOwn(u)
  BY <1>1 DEF HType, HOwn
<1>4. HPlaces' /\ ListOk' /\ In' = In /\ Alive' = Alive
  BY <1>1, <1>3, HazardStays
<1>5. HScan'
  BY <1>1 DEF HType, HScan
<1>6. HPublished'
  <2> SUFFICES ASSUME NEW v \in Threads
               PROVE  /\ pc'[v] \in {"check", "exchange"} => hp'[v] = old'[v]
                      /\ pc'[v] = "exchange" =>
                            /\ old'[v] \in Alive
                            /\ \A u \in Threads : work[u] # <<>> /\ work[u][1] = old'[v] => v \in unread[u]
    BY <1>1, <1>4 DEF HPublished
  <2>1. CASE v # t
    BY <1>1, <2>1 DEF HType, HPublished
  <2>2. CASE v = t
    <3>1. pc'[t] = "exchange" => head # Null /\ head = old[t]
      BY <1>1 DEF HType
    <3>2. pc'[t] # "check" /\ old'[t] = head /\ hp'[t] = hp[t] /\ hp[t] = old[t]
      BY <1>1 DEF HType, HPublished
    <3>3. ASSUME head # Null, NEW u \in Threads, work[u] # <<>>, work[u][1] = head PROVE FALSE
      <4>1. head \in In
        BY <3>3, HazardFacts
      <4>2. head \in Elements(work[u])
        BY <3>3 DEF HType, Elements
      <4>3. Elements(work[u]) \cap In = {}
        <5>1. Elements(work[u]) \subseteq HOwn(u)
          BY DEF HOwn
        <5> QED
          BY <5>1, HazardFacts
      <4> QED
        BY <4>1, <4>2, <4>3
    <3>4. head # Null => head \in Alive
      BY HazardFacts
    <3> QED
      BY <2>2, <3>1, <3>2, <3>3, <3>4
  <2> QED
    BY <2>1, <2>2
<1> QED
  BY <1>2, <1>4, <1>5, <1>6

(* pop exchanges head: the first node is its own now. *)
LEMMA HazardPopExchange == ASSUME HInv, NEW t \in Threads, Hazard!PopExchange(t) PROVE HInv'
<1> USE DEF HInv
<1>1. pc[t] = "exchange" /\ UNCHANGED <<nodes, hp, reclaim, work, unread>>
  BY DEF Hazard!PopExchange, Hazard!hpVars
<1>2. old[t] \in Alive /\ old[t] # Null /\ work[t] = <<>>
  BY <1>1, HazardFacts DEF HPublished, HScan
<1>3. CASE head = old[t]
  <2>1. head' = nodes[head].next /\ pc' = [pc EXCEPT ![t] = "clear"] /\ old' = old
    BY <1>1, <1>3 DEF Hazard!PopExchange, Hazard!Goto
  <2>2. head \in In /\ In' = In \ {head} /\ ListOk'
    <3>1. nodes \in Seq(StackNode) /\ head # Null
      BY <1>2, <1>3 DEF HType
    <3> QED
      BY <1>1, <2>1, <3>1, PoppedNode
  <2>3. HType'
    BY <1>1, <2>1, HazardFacts DEF HType
  <2>4. Alive' = Alive /\ Elements(reclaim)' = Elements(reclaim)
    BY <1>1 DEF Alive
  <2>5. HOwn(t) = {} /\ HOwn(t)' = {head} /\ \A u \in Threads : u # t => HOwn(u)' = HOwn(u)
    <3>1. Elements(work[t]) = {}
      BY <1>2 DEF Elements
    <3> QED
      BY <1>1, <1>2, <1>3, <2>1, <3>1 DEF HOwn, HType
  <2>6. HPlaces'
    <3>1. In \subseteq Alive /\ Elements(reclaim) \subseteq Alive /\ In \cap Elements(reclaim) = {}
      BY HazardFacts
    <3>2. In' \cap Elements(reclaim)' = {} /\ HOwn(t)' \cap (In' \cup Elements(reclaim)') = {}
      BY <2>2, <2>4, <2>5, <3>1
    <3>3. /\ Alive' = (Alive \ (In \cup Elements(reclaim) \cup HOwn(t)))
                          \cup (In' \cup Elements(reclaim)' \cup HOwn(t)')
          /\ (In' \cup Elements(reclaim)' \cup HOwn(t)')
                \cap (Alive \ (In \cup Elements(reclaim) \cup HOwn(t))) = {}
      BY <2>2, <2>4, <2>5, <3>1
    <3> QED
      BY <2>5, <3>2, <3>3, HazardMoved
  <2>7. HScan' /\ HPublished'
    BY <1>1, <1>2, <2>1, <2>4 DEF HType, HScan, HPublished
  <2> QED
    BY <2>2, <2>3, <2>6, <2>7
<1>4. CASE head # old[t]
  <2>1. head' = head /\ pc' = [pc EXCEPT ![t] = "publish"] /\ old' = [old EXCEPT ![t] = head]
    BY <1>1, <1>4 DEF Hazard!PopExchange, Hazard!Goto
  <2>2. HType'
    BY <1>1, <2>1, HazardFacts DEF HType
  <2>3. \A u \in Threads : HOwn(u)' = HOwn(u)
    BY <1>1, <2>1 DEF HType, HOwn
  <2>4. HPlaces' /\ ListOk' /\ In' = In /\ Alive' = Alive
    BY <1>1, <2>1, <2>3, HazardStays
  <2>5. HScan' /\ HPublished'
    BY <1>1, <2>1, <2>4 DEF HType, HScan, HPublished
  <2> QED
    BY <2>2, <2>4, <2>5
<1> QED
  BY <1>3, <1>4

(* pop takes the data of its node, which is the first it has to deal with. *)
LEMMA HazardPopClear == ASSUME HInv, NEW t \in Threads, Hazard!PopClear(t) PROVE HInv'
<1> USE DEF HInv
<1>1. /\ pc[t] = "clear" /\ hp' = [hp EXCEPT ![t] = Null] /\ UNCHANGED <<head, old, reclaim>>
      /\ work[t] = <<>>
  BY HazardSame DEF Hazard!PopClear, HScan
<1>2. CASE old[t] = Null
  <2>1. pc' = [pc EXCEPT ![t] = "idle"] /\ UNCHANGED <<nodes, work, unread>>
    BY <1>1, <1>2, HazardSame DEF Hazard!PopClear, Hazard!Return, Hazard!Goto
  <2>2. HType'
    BY <1>1, <2>1 DEF HType, Null
  <2>3. \A u \in Threads : HOwn(u)' = HOwn(u)
    BY <1>1, <1>2, <2>1 DEF HType, HOwn
  <2>4. HPlaces' /\ ListOk' /\ In' = In /\ Alive' = Alive
    BY <1>1, <2>1, <2>3, HazardStays
  <2>5. HScan' /\ HPublished'
    BY <1>1, <2>1, <2>4 DEF HType, HScan, HPublished
  <2> QED
    BY <2>2, <2>4, <2>5
<1>3. CASE old[t] # Null
  <2>1. /\ nodes' = [nodes EXCEPT ![old[t]].data = NoData]
        /\ work' = [work EXCEPT ![t] = <<old[t]>>]
        /\ unread' = [unread EXCEPT ![t] = Threads \ {t}]
        /\ pc' = [pc EXCEPT ![t] = "scan"]
    BY <1>1, <1>3, HazardSame DEF Hazard!PopClear, Hazard!Goto
  <2>2. HOwn(t) = {old[t]} /\ old[t] \in Alive /\ old[t] \in DOMAIN nodes
    BY <1>1, <1>3, HazardFacts
  <2>3. /\ nodes' \in Seq(StackNode) /\ DOMAIN nodes' = DOMAIN nodes
        /\ \A m \in DOMAIN nodes : nodes'[m].next = nodes[m].next /\ nodes'[m].alive = nodes[m].alive
    <3>1. nodes \in Seq(StackNode)
      BY DEF HType
    <3> QED
      BY <2>1, <2>2, <3>1, ChangedNode
  <2>4. Alive' = Alive
    BY <2>3 DEF Alive
  <2>5. In' = In /\ ListOk'
    BY <1>1, <2>3, HazardFacts, SameStack
  <2>6. HType'
    <3>1. <<old[t]>> \in Seq(Nat) /\ Distinct(<<old[t]>>)
      BY DEF HType, Distinct
    <3> QED
      BY <1>1, <2>1, <2>3, <3>1 DEF HType, Null
  <2>7. \A u \in Threads : HOwn(u)' = HOwn(u)
    <3>1. Elements(<<old[t]>>) = {old[t]}
      BY DEF Elements
    <3> QED
      BY <1>1, <2>1, <2>2, <3>1 DEF HType, HOwn
  <2>8. HPlaces'
    <3>1. HOwn(t)' = HOwn(t) /\ Elements(reclaim)' = Elements(reclaim)
      BY <1>1, <2>7
    <3>2. /\ HOwn(t) \subseteq Alive /\ HOwn(t) \cap In = {} /\ HOwn(t) \cap Elements(reclaim) = {}
          /\ In \subseteq Alive /\ Elements(reclaim) \subseteq Alive /\ In \cap Elements(reclaim) = {}
      BY HazardFacts
    <3>3. In' \cap Elements(reclaim)' = {} /\ HOwn(t)' \cap (In' \cup Elements(reclaim)') = {}
      BY <2>5, <3>1, <3>2
    <3>4. /\ Alive' = (Alive \ (In \cup Elements(reclaim) \cup HOwn(t)))
                          \cup (In' \cup Elements(reclaim)' \cup HOwn(t)')
          /\ (In' \cup Elements(reclaim)' \cup HOwn(t)')
                \cap (Alive \ (In \cup Elements(reclaim) \cup HOwn(t))) = {}
      BY <2>4, <2>5, <3>1, <3>2
    <3> QED
      BY <2>7, <3>3, <3>4, HazardMoved
  <2>9. HScan'
    BY <1>1, <2>1 DEF HType, HScan
  <2>10. HPublished'
    BY <1>1, <2>1, <2>4 DEF HType, HPublished
  <2> QED
    BY <2>5, <2>6, <2>8, <2>9, <2>10
<1> QED
  BY <1>2, <1>3

(* The first of the nodes a pop goes through is its own; the others stay. *)
LEMMA HazardFirst ==
    ASSUME HInv, NEW t \in Threads, pc[t] \in {"scan", "sweep"}, work[t] # <<>>
    PROVE  /\ Head(work[t]) = work[t][1] /\ Head(work[t]) \in Alive /\ Head(work[t]) \in Nat
           /\ HOwn(t) = Elements(work[t]) /\ Head(work[t]) \in HOwn(t)
           /\ Tail(work[t]) \in Seq(Nat) /\ Distinct(Tail(work[t]))
           /\ Elements(Tail(work[t])) = HOwn(t) \ {Head(work[t])}
<1>1. work[t] \in Seq(Nat) /\ Distinct(work[t])
  BY DEF HInv, HType
<1>2. /\ Head(work[t]) \in Nat /\ Tail(work[t]) \in Seq(Nat) /\ Head(work[t]) \in Elements(work[t])
      /\ Head(work[t]) = work[t][1]
      /\ Elements(Tail(work[t])) = Elements(work[t]) \ {Head(work[t])} /\ Distinct(Tail(work[t]))
  BY <1>1, TakeFirst
<1>3. HOwn(t) = Elements(work[t]) /\ HOwn(t) \subseteq Alive
  BY HazardFacts
<1> QED
  BY <1>2, <1>3

(* A pop that goes through nodes compares a hazard pointer with the first, *)
(* puts the first on the list or deletes it.                               *)
LEMMA HazardPopScan == ASSUME HInv, NEW t \in Threads, Hazard!PopScan(t) PROVE HInv'
<1> USE DEF HInv
<1> DEFINE n == Head(work[t])
<1>1. /\ pc[t] \in {"scan", "sweep"} /\ work[t] # <<>>
      /\ UNCHANGED <<head, pc, old, hp>>
      /\ \/ \E u \in unread[t] : hp[u] = n /\ Hazard!NextWork(t) /\ reclaim' = <<n>> \o reclaim
                                 /\ nodes' = nodes
         \/ \E u \in unread[t] : hp[u] # n /\ unread' = [unread EXCEPT ![t] = @ \ {u}]
                                 /\ UNCHANGED <<nodes, reclaim, work>>
         \/ unread[t] = {} /\ nodes' = [nodes EXCEPT ![n].alive = FALSE] /\ Hazard!NextWork(t)
            /\ reclaim' = reclaim
  BY DEF Hazard!PopScan
<1>2. /\ n = work[t][1] /\ n \in Alive /\ n \in Nat /\ n \in HOwn(t)
      /\ HOwn(t) = Elements(work[t])
      /\ Tail(work[t]) \in Seq(Nat) /\ Distinct(Tail(work[t]))
      /\ Elements(Tail(work[t])) = HOwn(t) \ {n}
  BY <1>1, HazardFirst
<1> HIDE DEF n
<1>3. /\ HOwn(t) \subseteq Alive /\ HOwn(t) \cap In = {} /\ HOwn(t) \cap Elements(reclaim) = {}
      /\ In \subseteq Alive /\ Elements(reclaim) \subseteq Alive /\ In \cap Elements(reclaim) = {}
      /\ Alive \subseteq DOMAIN nodes
  BY HazardFacts
<1>4. ASSUME Hazard!NextWork(t)
      PROVE  /\ work' = [work EXCEPT ![t] = Tail(@)]
             /\ unread' = [unread EXCEPT ![t] = Threads \ {t}]
             /\ HOwn(t)' = HOwn(t) \ {n}
             /\ \A u \in Threads : u # t => HOwn(u)' = HOwn(u)
             /\ HScan'
  <2>1. work' = [work EXCEPT ![t] = Tail(@)] /\ unread' = [unread EXCEPT ![t] = Threads \ {t}]
    BY <1>4 DEF Hazard!NextWork
  <2>2. work'[t] = Tail(work[t]) /\ \A u \in Threads : u # t => work'[u] = work[u]
    BY <2>1 DEF HType
  <2>3. HOwn(t)' = HOwn(t) \ {n}
    BY <1>1, <1>2, <2>2 DEF HOwn
  <2>4. \A u \in Threads : u # t => HOwn(u)' = HOwn(u)
    BY <1>1, <2>2 DEF HOwn
  <2>5. HScan'
    BY <1>1, <2>1, <2>2 DEF HType, HScan
  <2> QED
    BY <2>1, <2>3, <2>4, <2>5
<1>5. ASSUME NEW u \in unread[t], Hazard!NextWork(t), reclaim' = <<n>> \o reclaim,
             nodes' = nodes
      PROVE  HInv'
  <2>0. /\ work' = [work EXCEPT ![t] = Tail(@)]
        /\ unread' = [unread EXCEPT ![t] = Threads \ {t}]
        /\ HOwn(t)' = HOwn(t) \ {n}
        /\ \A w \in Threads : w # t => HOwn(w)' = HOwn(w)
        /\ HScan'
    BY <1>4, <1>5
  <2>1. Elements(reclaim)' = Elements(reclaim) \cup {n} /\ Distinct(reclaim') /\ reclaim' \in Seq(Nat)
    <3>1. n \notin Elements(reclaim) /\ Distinct(reclaim) /\ reclaim \in Seq(Nat)
      BY <1>2, <1>3 DEF HType
    <3>2. /\ <<n>> \o reclaim \in Seq(Nat) /\ Elements(<<n>> \o reclaim) = Elements(reclaim) \cup {n}
          /\ Distinct(<<n>> \o reclaim)
      BY <1>2, <3>1, PutFirst
    <3> QED
      BY <1>5, <3>2
  <2>2. HType'
    BY <1>1, <1>2, <1>5, <2>0, <2>1 DEF HType
  <2>3. In' = In /\ ListOk' /\ Alive' = Alive
    BY <1>1, <1>5 DEF In, ListOk, Alive
  <2>4. HPlaces'
    <3>1. In' \cap Elements(reclaim)' = {} /\ HOwn(t)' \cap (In' \cup Elements(reclaim)') = {}
      BY <1>2, <1>3, <1>5, <2>0, <2>1, <2>3
    <3>2. /\ Alive' = (Alive \ (In \cup Elements(reclaim) \cup HOwn(t)))
                          \cup (In' \cup Elements(reclaim)' \cup HOwn(t)')
          /\ (In' \cup Elements(reclaim)' \cup HOwn(t)')
                \cap (Alive \ (In \cup Elements(reclaim) \cup HOwn(t))) = {}
      BY <1>2, <1>3, <1>5, <2>0, <2>1, <2>3
    <3> QED
      BY <1>5, <2>0, <3>1, <3>2, HazardMoved
  <2>5. HPublished'
    BY <1>1, <1>5, <2>0, <2>3 DEF HType, HPublished
  <2> QED
    BY <1>5, <2>0, <2>2, <2>3, <2>4, <2>5
<1>6. ASSUME NEW u \in unread[t], hp[u] # n, unread' = [unread EXCEPT ![t] = @ \ {u}],
             UNCHANGED <<nodes, reclaim, work>>
      PROVE  HInv'
  <2>1. HType'
    BY <1>1, <1>6 DEF HType
  <2>2. \A w \in Threads : HOwn(w)' = HOwn(w)
    BY <1>1, <1>6 DEF HOwn
  <2>3. HPlaces' /\ ListOk' /\ In' = In /\ Alive' = Alive
    BY <1>1, <1>6, <2>2, HazardStays
  <2>4. HScan'
    BY <1>1, <1>6 DEF HType, HScan
  <2>5. HPublished'
    BY <1>1, <1>2, <1>6, <2>3 DEF HType, HPublished
  <2> QED
    BY <2>1, <2>3, <2>4, <2>5
<1>7. ASSUME unread[t] = {}, nodes' = [nodes EXCEPT ![n].alive = FALSE], Hazard!NextWork(t),
             reclaim' = reclaim
      PROVE  HInv'
  <2>0. /\ work' = [work EXCEPT ![t] = Tail(@)]
        /\ unread' = [unread EXCEPT ![t] = Threads \ {t}]
        /\ HOwn(t)' = HOwn(t) \ {n}
        /\ \A u \in Threads : u # t => HOwn(u)' = HOwn(u)
        /\ HScan'
    BY <1>4, <1>7
  <2>1. /\ nodes' \in Seq(StackNode) /\ DOMAIN nodes' = DOMAIN nodes
        /\ nodes'[n].alive = FALSE
        /\ \A m \in DOMAIN nodes : nodes'[m].next = nodes[m].next
        /\ \A m \in DOMAIN nodes : m # n => nodes'[m].alive = nodes[m].alive
    <3>1. nodes \in Seq(StackNode) /\ n \in DOMAIN nodes
      BY <1>2, <1>3 DEF HType
    <3> QED
      BY <1>7, <3>1, ChangedNode
  <2>2. Alive' = Alive \ {n}
    BY <2>1 DEF Alive
  <2>3. In' = In /\ ListOk'
    BY <1>1, <1>3, <2>1, SameStack
  <2>4. HType'
    BY <1>1, <1>2, <1>7, <2>0, <2>1 DEF HType
  <2>5. Elements(reclaim)' = Elements(reclaim)
    BY <1>7
  <2>6. HPlaces'
    <3>1. In' \cap Elements(reclaim)' = {} /\ HOwn(t)' \cap (In' \cup Elements(reclaim)') = {}
      BY <1>3, <1>7, <2>0, <2>3, <2>5
    <3>2. /\ Alive' = (Alive \ (In \cup Elements(reclaim) \cup HOwn(t)))
                          \cup (In' \cup Elements(reclaim)' \cup HOwn(t)')
          /\ (In' \cup Elements(reclaim)' \cup HOwn(t)')
                \cap (Alive \ (In \cup Elements(reclaim) \cup HOwn(t))) = {}
      BY <1>2, <1>3, <1>7, <2>0, <2>2, <2>3, <2>5
    <3> QED
      BY <1>7, <2>0, <3>1, <3>2, HazardMoved
  <2>7. HPublished'
    BY <1>1, <1>2, <1>7, <2>0, <2>2 DEF HType, HPublished
  <2> QED
    BY <1>7, <2>0, <2>3, <2>4, <2>6, <2>7
<1> QED
  BY <1>1, <1>5, <1>6, <1>7

(* A pop takes the list to go through it, and returns when it has. *)
LEMMA HazardPopSweep == ASSUME HInv, NEW t \in Threads, Hazard!PopSweep(t) PROVE HInv'
<1> USE DEF HInv
<1>1. pc[t] \in {"scan", "sweep"} /\ work[t] = <<>> /\ UNCHANGED <<nodes, head, old, hp, unread>>
  BY DEF Hazard!PopSweep
<1>2. HOwn(t) = {} /\ Elements(<<>>) = {} /\ Distinct(<<>>)
  BY <1>1, HazardFacts DEF Elements, Distinct
<1>3. CASE pc[t] = "scan"
  <2>1. /\ work' = [work EXCEPT ![t] = reclaim] /\ reclaim' = <<>>
        /\ pc' = [pc EXCEPT ![t] = "sweep"]
    BY <1>1, <1>3 DEF Hazard!PopSweep, Hazard!Goto
  <2>2. HType'
    <3>1. <<>> \in Seq(Nat)
      OBVIOUS
    <3> QED
      BY <1>1, <1>2, <2>1, <3>1 DEF HType
  <2>3. In' = In /\ ListOk' /\ Alive' = Alive
    BY <1>1 DEF In, ListOk, Alive
  <2>4. HOwn(t)' = Elements(reclaim) /\ \A u \in Threads : u # t => HOwn(u)' = HOwn(u)
    BY <1>1, <2>1 DEF HType, HOwn
  <2>5. Elements(reclaim)' = {}
    BY <1>2, <2>1
  <2>6. HPlaces'
    <3>1. In \subseteq Alive /\ Elements(reclaim) \subseteq Alive /\ In \cap Elements(reclaim) = {}
      BY HazardFacts
    <3>2. In' \cap Elements(reclaim)' = {} /\ HOwn(t)' \cap (In' \cup Elements(reclaim)') = {}
      BY <2>3, <2>4, <2>5, <3>1
    <3>3. /\ Alive' = (Alive \ (In \cup Elements(reclaim) \cup HOwn(t)))
                          \cup (In' \cup Elements(reclaim)' \cup HOwn(t)')
          /\ (In' \cup Elements(reclaim)' \cup HOwn(t)')
                \cap (Alive \ (In \cup Elements(reclaim) \cup HOwn(t))) = {}
      BY <1>2, <2>3, <2>4, <2>5, <3>1
    <3> QED
      BY <2>4, <3>2, <3>3, HazardMoved
  <2>7. HScan'
    BY <1>1, <2>1 DEF HType, HScan
  <2>8. HPublished'
    BY <1>1, <1>3, <2>1, <2>3 DEF HType, HScan, HPublished
  <2> QED
    BY <2>2, <2>3, <2>6, <2>7, <2>8
<1>4. CASE pc[t] = "sweep"
  <2>1. pc' = [pc EXCEPT ![t] = "idle"] /\ UNCHANGED <<work, reclaim>>
    BY <1>1, <1>4 DEF Hazard!PopSweep, Hazard!Return, Hazard!Goto
  <2>2. HType'
    BY <1>1, <2>1 DEF HType
  <2>3. \A u \in Threads : HOwn(u)' = HOwn(u)
    BY <1>1, <1>4, <2>1 DEF HType, HOwn
  <2>4. HPlaces' /\ ListOk' /\ In' = In /\ Alive' = Alive
    BY <1>1, <2>1, <2>3, HazardStays
  <2>5. HScan' /\ HPublished'
    BY <1>1, <2>1, <2>4 DEF HType, HScan, HPublished
  <2> QED
    BY <2>2, <2>4, <2>5
<1> QED
  BY <1>1, <1>3, <1>4

(* A step of the composition that is none of the stack's. *)
LEMMA HazardStutter == ASSUME HInv, UNCHANGED allVars PROVE HInv'
<1>1. UNCHANGED <<nodes, head, pc, old, hp, reclaim, work, unread>>
  BY DEF allVars, vars, hVars
<1>2. In' = In /\ Alive' = Alive
  BY <1>1 DEF In, Alive
<1>3. [u \in Threads |-> HOwn(u)'] = [u \in Threads |-> HOwn(u)]
  BY <1>1 DEF HOwn
<1>4. HPlaces'
  <2>1. Apart(Alive', In', Elements(reclaim)', [u \in Threads |-> HOwn(u)'])
    BY <1>1, <1>2, <1>3, Zenon DEF HInv, HPlaces
  <2> QED
    BY <2>1 DEF HPlaces
<1>5. HType' /\ ListOk'
  BY <1>1, <1>2 DEF HInv, HType, ListOk
<1>6. HScan' /\ HPublished'
  BY <1>1, <1>2 DEF HInv, HScan, HPublished
<1> QED
  BY <1>4, <1>5, <1>6 DEF HInv

(* Any operation of the stack. *)
LEMMA HazardStep == ASSUME HInv, NEW t \in Threads, Hazard!Step(t) PROVE HInv'
<1>1. CASE Hazard!Push(t)
  BY <1>1, HazardPush
<1>2. CASE Hazard!PopLoad(t)
  BY <1>2, HazardPopLoad
<1>3. CASE Hazard!PopPublish(t)
  BY <1>3, HazardPopPublish
<1>4. CASE Hazard!PopCheck(t)
  BY <1>4, HazardPopCheck
<1>5. CASE Hazard!PopExchange(t)
  BY <1>5, HazardPopExchange
<1>6. CASE Hazard!PopClear(t)
  BY <1>6, HazardPopClear
<1>7. CASE Hazard!PopScan(t)
  BY <1>7, HazardPopScan
<1>8. CASE Hazard!PopSweep(t)
  BY <1>8, HazardPopSweep
<1> QED
  BY <1>1, <1>2, <1>3, <1>4, <1>5, <1>6, <1>7, <1>8 DEF Hazard!Step

(* What the threads are going to use exists, and what is left when none is *)
(* at work is in the stack or on the list.                                 *)
LEMMA HazardSafe == ASSUME HInv, kind = "hazard" PROVE NoUseAfterFree /\ NoLeak
<1>1. Chain = Hazard!Chain /\ Needed = Hazard!Needed /\ Deferred = Hazard!Deferred
  BY DEF Chain, Needed, Deferred, Of
<1>2. {Chain[i] : i \in DOMAIN Chain} = In
  <2>1. Hazard!Chain = ListFrom(head, SuccOf(nodes))
    BY HazardSame DEF Hazard!Chain, SuccOf
  <2> QED
    BY <1>1, <2>1 DEF In, Linked
<1>3. Deferred = Elements(reclaim)
  BY <1>1 DEF Hazard!Deferred, Elements
<1>4. Hazard!Taking \subseteq UNION {HOwn(t) : t \in Threads}
  <2>1. ASSUME NEW t \in Threads, pc[t] = "clear", old[t] # Null PROVE old[t] \in HOwn(t)
    BY <2>1, HazardFacts
  <2> QED
    BY <2>1, HazardSame DEF Hazard!Taking
<1>5. UNION {{work[t][i] : i \in DOMAIN work[t]} : t \in Threads} \subseteq UNION {HOwn(t) : t \in Threads}
  BY DEF HOwn, Elements
<1>6. {old[t] : t \in {u \in Threads : pc[u] = "exchange"}} \subseteq Alive
  BY DEF HInv, HPublished
<1>7. /\ Alive = In \cup Elements(reclaim) \cup UNION {HOwn(t) : t \in Threads}
  BY DEF HInv, HPlaces, Apart
<1>8. Needed \subseteq Alive
  BY <1>1, <1>4, <1>5, <1>6, <1>7 DEF Hazard!Needed
<1>9. NoUseAfterFree
  BY <1>2, <1>7, <1>8 DEF NoUseAfterFree
<1>10. ASSUME \A t \in Threads : pc[t] = "idle" PROVE \A t \in Threads : HOwn(t) = {}
  BY <1>10, HazardFacts DEF HInv, HScan, Elements
<1>11. NoLeak
  BY <1>2, <1>3, <1>7, <1>10 DEF NoLeak
<1> QED
  BY <1>9, <1>11

-----------------------------------------------------------------------------
(* PendingStack.  Every node that is not deleted is in one place: in the   *)
(* stack, among the nodes to be deleted, or with a pop.                    *)

(* The nodes that are to be deleted, and those of them a pop has grabbed. *)
Del == Linked(to_be_deleted, SuccOf(nodes))

DelOk == IsChain(Del, to_be_deleted, SuccOf(nodes))

Grabbed(t) == IF pc[t] \in {"last", "rechain"} THEN Linked(mine[t], SuccOf(nodes)) ELSE {}

GrabbedOk(t) == pc[t] \in {"last", "rechain"} => IsChain(Grabbed(t), mine[t], SuccOf(nodes))

(* The node that a pop has taken out of the stack. *)
Taken(t) == IF pc[t] \in {"take", "chain", "grab", "last", "rechain", "delete"} THEN {old[t]} ELSE {}

POwn(t) == Taken(t) \cup Grabbed(t)

(* The pops that threads_in_pop counts. *)
Popping == {t \in Threads : pc[t] \notin {"idle", "rechain", "delete"}}

PType ==
    /\ nodes \in Seq(StackNode)
    /\ pc \in [Threads -> {"idle", "load", "exchange", "take", "chain", "leave", "grab",
                           "last", "rechain", "delete"}]
    /\ old \in [Threads -> Nat] /\ mine \in [Threads -> Nat]
    /\ IsFiniteSet(Popping) /\ threads_in_pop = Cardinality(Popping)

PPlaces ==
    /\ Apart(Alive, In, Del, [t \in Threads |-> POwn(t)])
    /\ \A t \in Threads : GrabbedOk(t) /\ Taken(t) \cap Grabbed(t) = {}
    /\ \A t \in Threads : pc[t] = "rechain" => mine[t] # Null

(* A node whose next a pop is going to read is not deleted, and will not   *)
(* be: a pop deletes its own node without the others only if it was alone  *)
(* after it had taken the node out.                                        *)
PRead ==
    \A t \in Threads : pc[t] = "exchange" =>
       /\ old[t] \in Alive
       /\ \A u \in Threads : pc[u] \in {"grab", "last", "rechain", "delete"} => old[u] # old[t]

PInv == PType /\ ListOk /\ DelOk /\ PPlaces /\ PRead

(* The definitions that the instance shares with this module. *)
LEMMA PendingSame ==
    /\ Pending!Address = Address
    /\ \A n, node : Pending!Place(n, node) = Place(n, node)
    /\ \A n : Pending!Listed(n) = ListFrom(n, SuccOf(nodes))
    /\ \A t : Pending!Mine(t) = Linked(mine[t], SuccOf(nodes))
    /\ Pending!Null = Null /\ Pending!NoData = NoData
<1>1. Pending!Null = Null /\ Pending!NoData = NoData
  BY DEF Pending!Null, Pending!NoData, Null, NoData
<1>2. Pending!Address = Address
  BY DEF Pending!Address, Pending!Alive, Alive, Address
<1>3. \A n, node : Pending!Place(n, node) = Place(n, node)
  BY DEF Pending!Place, Place
<1>4. \A f, succ : Pending!ListFrom(f, succ) = ListFrom(f, succ)
  BY DEF Pending!ListFrom, ListFrom, Pending!Null, Null
<1>5. \A n : Pending!Listed(n) = ListFrom(n, SuccOf(nodes))
  BY <1>4 DEF Pending!Listed, SuccOf
<1>6. \A t : Pending!Mine(t) = Linked(mine[t], SuccOf(nodes))
  BY <1>5 DEF Pending!Mine, Linked
<1> QED
  BY <1>1, <1>2, <1>3, <1>5, <1>6

(* The empty list. *)
LEMMA NoneLinked ==
    ASSUME NEW T, NEW ns \in Seq(T)
    PROVE  Linked(Null, SuccOf(ns)) = {} /\ IsChain({}, Null, SuccOf(ns))
<1>1. IsChain({}, Null, SuccOf(ns))
  BY ChainEmpty
<1> QED
  BY <1>1, FoundIn

(* A list none of whose nodes is changed. *)
LEMMA SameList ==
    ASSUME NEW T, NEW ns \in Seq(T), NEW ns2 \in Seq(T), NEW f,
           IsChain(Linked(f, SuccOf(ns)), f, SuccOf(ns)),
           \A n \in Linked(f, SuccOf(ns)) : n \in DOMAIN ns2 /\ ns2[n].next = ns[n].next
    PROVE  /\ Linked(f, SuccOf(ns2)) = Linked(f, SuccOf(ns))
           /\ IsChain(Linked(f, SuccOf(ns2)), f, SuccOf(ns2))
<1> DEFINE S == Linked(f, SuccOf(ns))
<1>1. IsChain(S, f, SuccOf(ns)) /\ \A n \in S : n \in DOMAIN ns2 /\ ns2[n].next = ns[n].next
  OBVIOUS
<1> HIDE DEF S
<1>2. \A n \in S : n \in DOMAIN SuccOf(ns)
  BY <1>1, ChainFacts
<1>3. \A n \in S : n \in DOMAIN SuccOf(ns2) /\ SuccOf(ns2)[n] = SuccOf(ns)[n]
  BY <1>1, <1>2 DEF SuccOf
<1>4. IsChain(S, f, SuccOf(ns2))
  BY <1>1, <1>3, ChainSame
<1>5. Linked(f, SuccOf(ns2)) = S
  BY <1>4, FoundIn
<1> QED
  BY <1>4, <1>5 DEF S

(* The stack begins empty. *)
LEMMA PendingInit == Pending!Init => PInv
<1> SUFFICES ASSUME Pending!Init PROVE PInv
  OBVIOUS
<1> USE DEF Pending!Init, Pending!ThreadsInit
<1>1. /\ nodes = <<>> /\ nodes \in Seq(StackNode) /\ head = Null /\ to_be_deleted = Null
      /\ \A t \in Threads : pc[t] = "idle"
  BY PendingSame
<1>2. In = {} /\ ListOk /\ Del = {} /\ DelOk
  BY <1>1, NoneLinked DEF In, ListOk, Del, DelOk
<1>3. PType
  <2>1. Popping = {}
    BY <1>1 DEF Popping
  <2> QED
    BY <1>1, <2>1, PendingSame, FS_EmptySet DEF PType, Null
<1>4. Alive = {} /\ \A t \in Threads : POwn(t) = {} /\ Taken(t) = {} /\ GrabbedOk(t)
  BY <1>1 DEF Alive, POwn, Taken, Grabbed, GrabbedOk
<1>5. PPlaces
  BY <1>1, <1>2, <1>4 DEF PPlaces, Apart
<1>6. PRead
  BY <1>1 DEF PRead
<1> QED
  BY <1>2, <1>3, <1>5, <1>6 DEF PInv

(* What the places are, and that all the nodes there are alive. *)
LEMMA PendingFacts ==
    ASSUME PInv
    PROVE  /\ \A u \in Threads :
                 /\ POwn(u) = Taken(u) \cup Grabbed(u) /\ POwn(u) \subseteq Alive
                 /\ POwn(u) \cap In = {} /\ POwn(u) \cap Del = {}
                 /\ \A v \in Threads : u # v => POwn(u) \cap POwn(v) = {}
           /\ Alive \subseteq DOMAIN nodes /\ DOMAIN nodes \subseteq Nat /\ Null \notin DOMAIN nodes
           /\ In \subseteq Alive /\ Del \subseteq Alive /\ In \cap Del = {}
           /\ head = Null => In = {}
           /\ head # Null => head \in In
           /\ head \in Nat /\ to_be_deleted \in Nat
           /\ to_be_deleted = Null => Del = {}
<1>1. Alive \subseteq DOMAIN nodes /\ DOMAIN nodes \subseteq Nat /\ Null \notin DOMAIN nodes
  <2>1. DOMAIN nodes = 1 .. Len(nodes) /\ Len(nodes) \in Nat
    BY DEF PInv, PType
  <2> QED
    BY <2>1 DEF Alive, Null
<1>2. /\ Alive = In \cup Del \cup UNION {POwn(t) : t \in Threads}
      /\ In \cap Del = {}
      /\ \A t \in Threads : POwn(t) \cap (In \cup Del) = {}
      /\ \A t, u \in Threads : t # u => POwn(t) \cap POwn(u) = {}
  BY DEF PInv, PPlaces, Apart
<1>3. \A u \in Threads : /\ POwn(u) \subseteq Alive
                         /\ POwn(u) \cap In = {} /\ POwn(u) \cap Del = {}
                         /\ \A v \in Threads : u # v => POwn(u) \cap POwn(v) = {}
  BY <1>2
<1>4. (head = Null => In = {}) /\ (head # Null => head \in In)
  BY InFacts DEF PInv
<1>5. (to_be_deleted = Null => Del = {}) /\ (to_be_deleted # Null => to_be_deleted \in Del)
  BY ChainFacts DEF PInv, DelOk
<1>6. In \subseteq Alive /\ Del \subseteq Alive /\ In \cap Del = {}
  BY <1>2
<1>7. head \in Nat /\ to_be_deleted \in Nat
  BY <1>1, <1>4, <1>5, <1>6 DEF Null
<1> QED
  BY <1>1, <1>3, <1>4, <1>5, <1>6, <1>7 DEF POwn

(* A step of thread t that moves nodes between the three places. *)
LEMMA PendingMoved ==
    ASSUME PInv, NEW t \in Threads, \A u \in Threads : u # t => POwn(u)' = POwn(u),
           In' \cap Del' = {},
           POwn(t)' \cap (In' \cup Del') = {},
           Alive' = (Alive \ (In \cup Del \cup POwn(t))) \cup (In' \cup Del' \cup POwn(t)'),
           (In' \cup Del' \cup POwn(t)') \cap (Alive \ (In \cup Del \cup POwn(t))) = {}
    PROVE  Apart(Alive', In', Del', [u \in Threads |-> POwn(u)'])
<1> DEFINE own == [u \in Threads |-> POwn(u)]
           own2 == [u \in Threads |-> POwn(u)']
<1>1. own2[t] = POwn(t)' /\ own[t] = POwn(t) /\ \A u \in Threads : u # t => own2[u] = own[u]
  OBVIOUS
<1>2. Apart(Alive, In, Del, own)
  BY DEF PInv, PPlaces
<1> HIDE DEF own, own2
<1>3. Apart(Alive', In', Del', own2)
  BY <1>1, <1>2, ApartMoved
<1> QED
  BY <1>3 DEF own2

(* A step of thread t changes the successors of its own nodes at most: the *)
(* nodes of the others stay theirs, and so do the two lists unless t moves *)
(* their first node.                                                       *)
LEMMA PendingOthers ==
    ASSUME PInv, NEW t \in Threads, nodes' \in Seq(StackNode),
           \A n \in Alive : n \notin POwn(t) => n \in DOMAIN nodes' /\ nodes'[n].next = nodes[n].next,
           \A u \in Threads : u # t => pc'[u] = pc[u] /\ old'[u] = old[u] /\ mine'[u] = mine[u]
    PROVE  /\ \A u \in Threads : u # t => /\ POwn(u)' = POwn(u) /\ GrabbedOk(u)'
                                          /\ Taken(u)' \cap Grabbed(u)' = {}
                                          /\ pc'[u] = "rechain" => mine'[u] # Null
           /\ head' = head => In' = In /\ ListOk'
           /\ to_be_deleted' = to_be_deleted => Del' = Del /\ DelOk'
<1>1. nodes \in Seq(StackNode)
  BY DEF PInv, PType
<1>2. ASSUME NEW u \in Threads, u # t
      PROVE  /\ POwn(u)' = POwn(u) /\ GrabbedOk(u)' /\ Taken(u)' \cap Grabbed(u)' = {}
             /\ pc'[u] = "rechain" => mine'[u] # Null
  <2>1. Taken(u)' = Taken(u)
    BY <1>2 DEF Taken
  <2>2. Grabbed(u)' = Grabbed(u) /\ GrabbedOk(u)'
    <3>1. CASE pc[u] \in {"last", "rechain"}
      <4>1. Grabbed(u) = Linked(mine[u], SuccOf(nodes))
        BY <3>1 DEF Grabbed
      <4>2. IsChain(Linked(mine[u], SuccOf(nodes)), mine[u], SuccOf(nodes))
        BY <3>1, <4>1 DEF PInv, PPlaces, GrabbedOk
      <4>3. \A n \in Linked(mine[u], SuccOf(nodes)) : n \in DOMAIN nodes' /\ nodes'[n].next = nodes[n].next
        BY <1>2, <4>1, PendingFacts
      <4>4. /\ Linked(mine[u], SuccOf(nodes')) = Linked(mine[u], SuccOf(nodes))
            /\ IsChain(Linked(mine[u], SuccOf(nodes')), mine[u], SuccOf(nodes'))
        BY <1>1, <4>2, <4>3, SameList
      <4>5. pc'[u] \in {"last", "rechain"} /\ mine'[u] = mine[u]
        BY <1>2, <3>1
      <4>6. Grabbed(u)' = Linked(mine[u], SuccOf(nodes'))
        BY <4>5 DEF Grabbed
      <4> QED
        BY <4>1, <4>4, <4>5, <4>6 DEF GrabbedOk
    <3>2. CASE pc[u] \notin {"last", "rechain"}
      BY <1>2, <3>2 DEF Grabbed, GrabbedOk
    <3> QED
      BY <3>1, <3>2
  <2>3. Taken(u) \cap Grabbed(u) = {} /\ (pc[u] = "rechain" => mine[u] # Null)
    BY DEF PInv, PPlaces
  <2> QED
    BY <1>2, <2>1, <2>2, <2>3 DEF POwn
<1>3. ASSUME head' = head PROVE In' = In /\ ListOk'
  <2>1. \A n \in In : n \in DOMAIN nodes' /\ nodes'[n].next = nodes[n].next
    BY PendingFacts
  <2> QED
    BY <1>3, <2>1, SameStack DEF PInv
<1>4. ASSUME to_be_deleted' = to_be_deleted PROVE Del' = Del /\ DelOk'
  <2>1. \A n \in Del : n \in DOMAIN nodes' /\ nodes'[n].next = nodes[n].next
    BY PendingFacts
  <2>2. /\ Linked(to_be_deleted, SuccOf(nodes')) = Linked(to_be_deleted, SuccOf(nodes))
        /\ IsChain(Linked(to_be_deleted, SuccOf(nodes')), to_be_deleted, SuccOf(nodes'))
    BY <1>1, <2>1, SameList DEF PInv, DelOk, Del
  <2> QED
    BY <1>4, <2>2 DEF Del, DelOk
<1> QED
  BY <1>2, <1>3, <1>4

(* A step of thread t that leaves every node where it is. *)
LEMMA PendingStays ==
    ASSUME PInv, NEW t \in Threads, UNCHANGED <<nodes, head, to_be_deleted>>,
           \A u \in Threads : u # t => pc'[u] = pc[u] /\ old'[u] = old[u] /\ mine'[u] = mine[u],
           Taken(t)' = Taken(t), Grabbed(t)' = Grabbed(t), GrabbedOk(t)',
           pc'[t] = "rechain" => mine'[t] # Null
    PROVE  PPlaces' /\ ListOk' /\ DelOk' /\ Alive' = Alive /\ In' = In
<1>1. nodes' \in Seq(StackNode) /\ \A n \in Alive : n \in DOMAIN nodes' /\ nodes'[n].next = nodes[n].next
  BY PendingFacts DEF PInv, PType
<1>2. /\ \A u \in Threads : u # t => /\ POwn(u)' = POwn(u) /\ GrabbedOk(u)'
                                     /\ Taken(u)' \cap Grabbed(u)' = {}
                                     /\ pc'[u] = "rechain" => mine'[u] # Null
      /\ In' = In /\ ListOk' /\ Del' = Del /\ DelOk'
  BY <1>1, PendingOthers
<1>3. POwn(t)' = POwn(t) /\ Taken(t)' \cap Grabbed(t)' = {}
  BY DEF POwn, PInv, PPlaces
<1>4. Alive' = Alive
  BY DEF Alive
<1>5. Apart(Alive', In', Del', [u \in Threads |-> POwn(u)'])
  <2>1. [u \in Threads |-> POwn(u)'] = [u \in Threads |-> POwn(u)]
    BY <1>2, <1>3
  <2> QED
    BY <1>2, <1>4, <2>1, Zenon DEF PInv, PPlaces
<1>6. PPlaces'
  BY <1>2, <1>3, <1>5 DEF PPlaces
<1> QED
  BY <1>2, <1>4, <1>6

(* The pops counted, when thread t begins or ends one or does neither. *)
LEMMA PendingCount ==
    ASSUME PInv, NEW t \in Threads, pc' \in [Threads -> {"idle", "load", "exchange", "take",
              "chain", "leave", "grab", "last", "rechain", "delete"}],
           \A u \in Threads : u # t => pc'[u] = pc[u],
           \/ t \in Popping /\ t \in Popping' /\ threads_in_pop' = threads_in_pop
           \/ t \notin Popping /\ t \notin Popping' /\ threads_in_pop' = threads_in_pop
           \/ t \notin Popping /\ t \in Popping' /\ threads_in_pop' = threads_in_pop + 1
           \/ t \in Popping /\ t \notin Popping' /\ threads_in_pop' = threads_in_pop - 1
    PROVE  IsFiniteSet(Popping') /\ threads_in_pop' = Cardinality(Popping')
<1>1. IsFiniteSet(Popping) /\ threads_in_pop = Cardinality(Popping)
  BY DEF PInv, PType
<1>2. \A u \in Threads : u # t => (u \in Popping' <=> u \in Popping)
  BY DEF Popping
<1>3. Popping \subseteq Threads /\ Popping' \subseteq Threads
  BY DEF Popping
<1>4. CASE (t \in Popping <=> t \in Popping') /\ threads_in_pop' = threads_in_pop
  <2>1. Popping' = Popping
    BY <1>2, <1>3, <1>4
  <2> QED
    BY <1>1, <1>4, <2>1
<1>5. CASE t \notin Popping /\ t \in Popping' /\ threads_in_pop' = threads_in_pop + 1
  <2>1. Popping' = Popping \cup {t}
    BY <1>2, <1>3, <1>5
  <2>2. IsFiniteSet(Popping \cup {t}) /\ Cardinality(Popping \cup {t}) = Cardinality(Popping) + 1
    BY <1>1, <1>5, FS_AddElement
  <2> QED
    BY <1>1, <1>5, <2>1, <2>2
<1>6. CASE t \in Popping /\ t \notin Popping' /\ threads_in_pop' = threads_in_pop - 1
  <2>1. Popping' = Popping \ {t}
    BY <1>2, <1>3, <1>6
  <2>2. IsFiniteSet(Popping \ {t}) /\ Cardinality(Popping \ {t}) = Cardinality(Popping) - 1
    BY <1>1, <1>6, FS_RemoveElement
  <2> QED
    BY <1>1, <1>6, <2>1, <2>2
<1> QED
  BY <1>4, <1>5, <1>6

(* When one pop is counted, there is no other. *)
LEMMA PendingAlone ==
    ASSUME PInv, NEW t \in Threads, t \in Popping, threads_in_pop = 1
    PROVE  \A u \in Threads : u # t => pc[u] \in {"idle", "rechain", "delete"}
<1>1. IsFiniteSet(Popping) /\ Cardinality(Popping) = 1
  BY DEF PInv, PType
<1>2. IsFiniteSet(Popping \ {t}) /\ Cardinality(Popping \ {t}) = 0
  BY <1>1, FS_RemoveElement
<1>3. Popping \ {t} = {}
  BY <1>2, FS_EmptySet
<1> QED
  BY <1>3 DEF Popping

(* push. *)
LEMMA PendingPush == ASSUME PInv, NEW t \in Threads, Pending!Push(t) PROVE PInv'
<1> USE DEF PInv
<1>1. /\ pc[t] = "idle" /\ Pending!Operation(t) \in Value
      /\ nodes' = Place(Address, [data |-> Pending!Operation(t), next |-> head, alive |-> TRUE])
      /\ head' = Address
      /\ pc' = [pc EXCEPT ![t] = "idle"]
      /\ UNCHANGED <<old, threads_in_pop, to_be_deleted, mine>>
  BY PendingSame DEF Pending!Push, Pending!Calls, Pending!Return, Pending!Goto, Pending!pendingVars
<1>2. nodes \in Seq(StackNode) /\ ListOk /\ In \subseteq Alive
  BY PendingFacts DEF PType
<1>3. /\ nodes' \in Seq(StackNode) /\ head' \notin Alive /\ head' # Null
      /\ In' = In \cup {head'} /\ ListOk'
      /\ Alive' = Alive \cup {head'}
      /\ \A m \in Alive : m \in DOMAIN nodes' /\ nodes'[m] = nodes[m]
  BY <1>1, <1>2, PushedNode
<1>4. pc' = pc
  BY <1>1 DEF PType
<1>5. PType'
  BY <1>1, <1>3, <1>4 DEF PType, Popping
<1>6. /\ \A u \in Threads : u # t => /\ POwn(u)' = POwn(u) /\ GrabbedOk(u)'
                                     /\ Taken(u)' \cap Grabbed(u)' = {}
                                     /\ pc'[u] = "rechain" => mine'[u] # Null
      /\ Del' = Del /\ DelOk'
  BY <1>1, <1>3, <1>4, PendingOthers
<1>7. /\ Taken(t) = {} /\ Taken(t)' = {} /\ Grabbed(t) = {} /\ Grabbed(t)' = {}
      /\ POwn(t) = {} /\ POwn(t)' = {} /\ GrabbedOk(t)' /\ pc'[t] # "rechain"
  BY <1>1, <1>4 DEF POwn, Taken, Grabbed, GrabbedOk
<1>8. Apart(Alive', In', Del', [u \in Threads |-> POwn(u)'])
  <2>1. In \subseteq Alive /\ Del \subseteq Alive /\ In \cap Del = {}
    BY PendingFacts
  <2>2. In' \cap Del' = {} /\ POwn(t)' \cap (In' \cup Del') = {}
    BY <1>3, <1>6, <1>7, <2>1
  <2>3. /\ Alive' = (Alive \ (In \cup Del \cup POwn(t))) \cup (In' \cup Del' \cup POwn(t)')
        /\ (In' \cup Del' \cup POwn(t)') \cap (Alive \ (In \cup Del \cup POwn(t))) = {}
    BY <1>3, <1>6, <1>7, <2>1
  <2> QED
    BY <1>6, <2>2, <2>3, PendingMoved
<1>9. PPlaces'
  BY <1>6, <1>7, <1>8 DEF PPlaces
<1>10. PRead'
  BY <1>1, <1>3, <1>4 DEF PRead
<1> QED
  BY <1>3, <1>5, <1>6, <1>9, <1>10

(* pop counts itself. *)
LEMMA PendingPopEnter == ASSUME PInv, NEW t \in Threads, Pending!PopEnter(t) PROVE PInv'
<1> USE DEF PInv
<1>1. /\ pc[t] = "idle" /\ threads_in_pop' = threads_in_pop + 1 /\ pc' = [pc EXCEPT ![t] = "load"]
      /\ UNCHANGED <<nodes, head, old, to_be_deleted, mine>>
  BY DEF Pending!PopEnter, Pending!Calls, Pending!Goto
<1>2. pc'[t] = "load" /\ \A u \in Threads : u # t => pc'[u] = pc[u]
  BY <1>1 DEF PType
<1>3. PType'
  <2>1. t \notin Popping /\ t \in Popping'
    BY <1>1, <1>2 DEF Popping
  <2>2. pc' \in [Threads -> {"idle", "load", "exchange", "take", "chain", "leave", "grab",
                             "last", "rechain", "delete"}]
    BY <1>1 DEF PType
  <2>3. IsFiniteSet(Popping') /\ threads_in_pop' = Cardinality(Popping')
    BY <1>1, <1>2, <2>1, <2>2, PendingCount
  <2> QED
    BY <1>1, <2>2, <2>3 DEF PType
<1>4. PPlaces' /\ ListOk' /\ DelOk' /\ Alive' = Alive
  <2>1. Taken(t)' = Taken(t) /\ Grabbed(t)' = Grabbed(t) /\ GrabbedOk(t)'
    BY <1>1, <1>2 DEF Taken, Grabbed, GrabbedOk
  <2> QED
    BY <1>1, <1>2, <2>1, PendingStays
<1>5. PRead'
  BY <1>1, <1>2, <1>4 DEF PRead
<1> QED
  BY <1>3, <1>4, <1>5

(* pop reads head: no other pop has that node. *)
LEMMA PendingPopLoad == ASSUME PInv, NEW t \in Threads, Pending!PopLoad(t) PROVE PInv'
<1> USE DEF PInv
<1>1. /\ pc[t] = "load" /\ old' = [old EXCEPT ![t] = head]
      /\ \/ head = Null /\ pc' = [pc EXCEPT ![t] = "leave"]
         \/ head # Null /\ pc' = [pc EXCEPT ![t] = "exchange"]
      /\ UNCHANGED <<nodes, head, threads_in_pop, to_be_deleted, mine>>
  BY PendingSame DEF Pending!PopLoad, Pending!Goto, Pending!pendingVars
<1>2. /\ pc'[t] \in {"leave", "exchange"} /\ old'[t] = head
      /\ pc'[t] = "exchange" => head # Null
      /\ \A u \in Threads : u # t => pc'[u] = pc[u] /\ old'[u] = old[u]
  BY <1>1 DEF PType
<1>3. PType'
  <2>1. t \in Popping /\ t \in Popping'
    BY <1>1, <1>2 DEF Popping
  <2>2. pc' \in [Threads -> {"idle", "load", "exchange", "take", "chain", "leave", "grab",
                             "last", "rechain", "delete"}]
    BY <1>1 DEF PType
  <2>3. IsFiniteSet(Popping') /\ threads_in_pop' = Cardinality(Popping')
    BY <1>1, <1>2, <2>1, <2>2, PendingCount
  <2> QED
    BY <1>1, <2>2, <2>3, PendingFacts DEF PType
<1>4. PPlaces' /\ ListOk' /\ DelOk' /\ Alive' = Alive
  <2>1. Taken(t)' = Taken(t) /\ Grabbed(t)' = Grabbed(t) /\ GrabbedOk(t)' /\ pc'[t] # "rechain"
    BY <1>1, <1>2 DEF Taken, Grabbed, GrabbedOk
  <2> QED
    BY <1>1, <1>2, <2>1, PendingStays
<1>5. PRead'
  <2>1. head # Null => head \in Alive
    BY PendingFacts
  <2>2. ASSUME NEW u \in Threads, u # t, pc[u] \in {"grab", "last", "rechain", "delete"}, head # Null
        PROVE  old[u] # head
    <3>1. old[u] \in POwn(u)
      BY <2>2 DEF POwn, Taken
    <3> QED
      BY <2>2, <3>1, PendingFacts
  <2>3. ASSUME NEW v \in Threads, pc'[v] = "exchange"
        PROVE  /\ old'[v] \in Alive
               /\ \A u \in Threads : pc'[u] \in {"grab", "last", "rechain", "delete"} => old'[u] # old'[v]
    <3>1. CASE v = t
      BY <1>2, <2>1, <2>2, <2>3, <3>1
    <3>2. CASE v # t
      BY <1>2, <2>3, <3>2 DEF PRead
    <3> QED
      BY <3>1, <3>2
  <2> QED
    BY <1>4, <2>3 DEF PRead
<1> QED
  BY <1>3, <1>4, <1>5

(* pop exchanges head: the first node is its own now. *)
LEMMA PendingPopExchange == ASSUME PInv, NEW t \in Threads, Pending!PopExchange(t) PROVE PInv'
<1> USE DEF PInv
<1>1. pc[t] = "exchange" /\ UNCHANGED <<nodes, old, threads_in_pop, to_be_deleted, mine>>
  BY DEF Pending!PopExchange, Pending!pendingVars
<1>2. old[t] \in Alive /\ old[t] # Null /\ POwn(t) = {} /\ Taken(t) = {} /\ Grabbed(t) = {}
  BY <1>1, PendingFacts DEF PRead, POwn, Taken, Grabbed
<1>3. /\ head = old[t] => head' = nodes[head].next /\ pc' = [pc EXCEPT ![t] = "take"]
      /\ head # old[t] => head' = head /\ pc' = [pc EXCEPT ![t] = "load"]
  BY DEF Pending!PopExchange, Pending!Goto
<1>4. /\ head = old[t] => pc'[t] = "take"
      /\ head # old[t] => pc'[t] = "load"
      /\ \A u \in Threads : u # t => pc'[u] = pc[u]
  BY <1>3 DEF PType
<1>5. PType'
  <2>1. t \in Popping /\ t \in Popping'
    BY <1>1, <1>4 DEF Popping
  <2>2. pc' \in [Threads -> {"idle", "load", "exchange", "take", "chain", "leave", "grab",
                             "last", "rechain", "delete"}]
    BY <1>3 DEF PType
  <2>3. IsFiniteSet(Popping') /\ threads_in_pop' = Cardinality(Popping')
    BY <1>1, <1>4, <2>1, <2>2, PendingCount
  <2> QED
    BY <1>1, <2>2, <2>3 DEF PType
<1>6. Alive' = Alive
  BY <1>1 DEF Alive
<1>7. PRead'
  <2>1. pc'[t] \notin {"exchange", "grab", "last", "rechain", "delete"}
    BY <1>4
  <2> QED
    BY <1>1, <1>4, <1>6, <2>1 DEF PRead
<1>8. CASE head = old[t]
  <2>1. head \in In /\ In' = In \ {head} /\ ListOk'
    <3>1. nodes \in Seq(StackNode) /\ head # Null
      BY <1>2, <1>8 DEF PType
    <3> QED
      BY <1>1, <1>3, <1>8, <3>1, PoppedNode
  <2>2. Taken(t)' = {head} /\ Grabbed(t)' = {} /\ POwn(t)' = {head} /\ GrabbedOk(t)' /\ pc'[t] # "rechain"
    BY <1>1, <1>4, <1>8 DEF Taken, Grabbed, POwn, GrabbedOk
  <2>3. nodes' \in Seq(StackNode) /\ \A n \in Alive : n \in DOMAIN nodes' /\ nodes'[n].next = nodes[n].next
    BY <1>1, PendingFacts DEF PType
  <2>4. /\ \A u \in Threads : u # t => /\ POwn(u)' = POwn(u) /\ GrabbedOk(u)'
                                       /\ Taken(u)' \cap Grabbed(u)' = {}
                                       /\ pc'[u] = "rechain" => mine'[u] # Null
        /\ Del' = Del /\ DelOk'
    BY <1>1, <1>4, <2>3, PendingOthers
  <2>5. Apart(Alive', In', Del', [u \in Threads |-> POwn(u)'])
    <3>1. In \subseteq Alive /\ Del \subseteq Alive /\ In \cap Del = {}
      BY PendingFacts
    <3>2. In' \cap Del' = {} /\ POwn(t)' \cap (In' \cup Del') = {}
      BY <2>1, <2>2, <2>4, <3>1
    <3>3. /\ Alive' = (Alive \ (In \cup Del \cup POwn(t))) \cup (In' \cup Del' \cup POwn(t)')
          /\ (In' \cup Del' \cup POwn(t)') \cap (Alive \ (In \cup Del \cup POwn(t))) = {}
      BY <1>2, <1>6, <2>1, <2>2, <2>4, <3>1
    <3> QED
      BY <2>4, <3>2, <3>3, PendingMoved
  <2>6. PPlaces'
    BY <2>2, <2>4, <2>5 DEF PPlaces
  <2> QED
    BY <1>5, <1>7, <2>1, <2>4, <2>6
<1>9. CASE head # old[t]
  <2>1. Taken(t)' = Taken(t) /\ Grabbed(t)' = Grabbed(t) /\ GrabbedOk(t)' /\ pc'[t] # "rechain"
    BY <1>2, <1>4, <1>9 DEF Taken, Grabbed, GrabbedOk
  <2>2. PPlaces' /\ ListOk' /\ DelOk'
    BY <1>1, <1>3, <1>4, <1>9, <2>1, PendingStays
  <2> QED
    BY <1>5, <1>7, <2>2
<1> QED
  BY <1>8, <1>9

(* pop takes the data: if it is alone now, no pop has read its node. *)
LEMMA PendingPopTake == ASSUME PInv, NEW t \in Threads, Pending!PopTake(t) PROVE PInv'
<1> USE DEF PInv
<1>1. /\ pc[t] = "take" /\ nodes' = [nodes EXCEPT ![old[t]].data = NoData]
      /\ \/ threads_in_pop = 1 /\ pc' = [pc EXCEPT ![t] = "grab"]
         \/ threads_in_pop # 1 /\ pc' = [pc EXCEPT ![t] = "chain"]
      /\ UNCHANGED <<head, old, threads_in_pop, to_be_deleted, mine>>
  BY PendingSame DEF Pending!PopTake, Pending!Goto, Pending!pendingVars
<1>2. /\ pc'[t] \in {"grab", "chain"} /\ (pc'[t] = "grab" => threads_in_pop = 1)
      /\ \A u \in Threads : u # t => pc'[u] = pc[u]
  BY <1>1 DEF PType
<1>3. /\ Taken(t) = {old[t]} /\ Grabbed(t) = {} /\ Taken(t)' = {old[t]} /\ Grabbed(t)' = {}
      /\ POwn(t) = {old[t]} /\ POwn(t)' = {old[t]} /\ GrabbedOk(t)' /\ pc'[t] # "rechain"
  BY <1>1, <1>2 DEF Taken, Grabbed, POwn, GrabbedOk
<1>4. old[t] \in Alive /\ old[t] \in DOMAIN nodes
  BY <1>3, PendingFacts
<1>5. /\ nodes' \in Seq(StackNode) /\ DOMAIN nodes' = DOMAIN nodes
      /\ \A m \in DOMAIN nodes : nodes'[m].next = nodes[m].next /\ nodes'[m].alive = nodes[m].alive
  <2>1. nodes \in Seq(StackNode)
    BY DEF PType
  <2> QED
    BY <1>1, <1>4, <2>1, ChangedNode
<1>6. Alive' = Alive
  BY <1>5 DEF Alive
<1>7. PType'
  <2>1. t \in Popping /\ t \in Popping'
    BY <1>1, <1>2 DEF Popping
  <2>2. pc' \in [Threads -> {"idle", "load", "exchange", "take", "chain", "leave", "grab",
                             "last", "rechain", "delete"}]
    BY <1>1 DEF PType
  <2>3. IsFiniteSet(Popping') /\ threads_in_pop' = Cardinality(Popping')
    BY <1>1, <1>2, <2>1, <2>2, PendingCount
  <2> QED
    BY <1>1, <1>5, <2>2, <2>3 DEF PType
<1>8. /\ \A u \in Threads : u # t => /\ POwn(u)' = POwn(u) /\ GrabbedOk(u)'
                                     /\ Taken(u)' \cap Grabbed(u)' = {}
                                     /\ pc'[u] = "rechain" => mine'[u] # Null
      /\ In' = In /\ ListOk' /\ Del' = Del /\ DelOk'
  <2>1. \A n \in Alive : n \notin POwn(t) => n \in DOMAIN nodes' /\ nodes'[n].next = nodes[n].next
    BY <1>5, PendingFacts
  <2> QED
    BY <1>1, <1>2, <1>5, <2>1, PendingOthers
<1>9. PPlaces'
  <2>1. \A u \in Threads : POwn(u)' = POwn(u)
    BY <1>3, <1>8
  <2>2. [u \in Threads |-> POwn(u)'] = [u \in Threads |-> POwn(u)]
    BY <2>1
  <2>3. Apart(Alive', In', Del', [u \in Threads |-> POwn(u)'])
    BY <1>6, <1>8, <2>2, Zenon DEF PPlaces
  <2> QED
    BY <1>3, <1>8, <2>3 DEF PPlaces
<1>10. PRead'
  <2>1. CASE pc'[t] = "grab"
    <3>1. \A u \in Threads : u # t => pc[u] \in {"idle", "rechain", "delete"}
      <4>1. t \in Popping
        BY <1>1 DEF Popping
      <4> QED
        BY <1>2, <2>1, <4>1, PendingAlone
    <3>2. \A u \in Threads : pc'[u] # "exchange"
      BY <1>2, <2>1, <3>1
    <3> QED
      BY <3>2 DEF PRead
  <2>2. CASE pc'[t] = "chain"
    BY <1>1, <1>2, <1>6, <2>2 DEF PRead
  <2> QED
    BY <1>2, <2>1, <2>2
<1> QED
  BY <1>7, <1>8, <1>9, <1>10

(* A node whose successor is another one. *)
LEMMA RelinkedNode ==
    ASSUME nodes \in Seq(StackNode), NEW n \in DOMAIN nodes, NEW x \in Nat,
           nodes' = [nodes EXCEPT ![n].next = x]
    PROVE  /\ nodes' \in Seq(StackNode) /\ DOMAIN nodes' = DOMAIN nodes
           /\ nodes'[n].next = x
           /\ \A m \in DOMAIN nodes : m # n => nodes'[m].next = nodes[m].next
           /\ Alive' = Alive
<1>1. DOMAIN nodes = 1 .. Len(nodes) /\ Len(nodes) \in Nat /\ \A m \in DOMAIN nodes : nodes[m] \in StackNode
  OBVIOUS
<1>2. /\ [nodes[n] EXCEPT !.next = x] \in StackNode
      /\ [nodes[n] EXCEPT !.next = x].next = x
      /\ [nodes[n] EXCEPT !.next = x].alive = nodes[n].alive
  BY <1>1 DEF StackNode
<1>3. nodes' = [m \in DOMAIN nodes |-> IF m = n THEN [nodes[n] EXCEPT !.next = x] ELSE nodes[m]]
  OBVIOUS
<1>4. nodes' \in [1 .. Len(nodes) -> StackNode]
  BY <1>1, <1>2, <1>3
<1>5. nodes' \in Seq(StackNode)
  BY <1>1, <1>4, SeqDef
<1>6. /\ DOMAIN nodes' = DOMAIN nodes /\ nodes'[n] = [nodes[n] EXCEPT !.next = x]
      /\ \A m \in DOMAIN nodes : m # n => nodes'[m] = nodes[m]
  BY <1>3
<1>7. nodes'[n].next = x /\ nodes'[n].alive = nodes[n].alive
  BY <1>2, <1>6
<1>8. Alive' = Alive
  BY <1>6, <1>7 DEF Alive
<1> QED
  BY <1>5, <1>6, <1>7, <1>8

(* Nodes that are deleted. *)
LEMMA DeletedNodes ==
    ASSUME nodes \in Seq(StackNode), NEW S,
           nodes' = [n \in DOMAIN nodes |-> [nodes[n] EXCEPT !.alive = @ /\ n \notin S]]
    PROVE  /\ nodes' \in Seq(StackNode) /\ DOMAIN nodes' = DOMAIN nodes
           /\ \A m \in DOMAIN nodes : nodes'[m].next = nodes[m].next
           /\ Alive' = Alive \ S
<1>1. DOMAIN nodes = 1 .. Len(nodes) /\ Len(nodes) \in Nat /\ \A m \in DOMAIN nodes : nodes[m] \in StackNode
  OBVIOUS
<1>2. ASSUME NEW n \in DOMAIN nodes
      PROVE  /\ nodes'[n] \in StackNode /\ nodes'[n].next = nodes[n].next
             /\ nodes'[n].alive <=> nodes[n].alive /\ n \notin S
  <2>1. nodes'[n] = [nodes[n] EXCEPT !.alive = @ /\ n \notin S]
    OBVIOUS
  <2>2. nodes[n] \in StackNode
    BY <1>1
  <2> QED
    BY <2>1, <2>2 DEF StackNode
<1>3. DOMAIN nodes' = DOMAIN nodes
  OBVIOUS
<1>4. nodes' \in [1 .. Len(nodes) -> StackNode]
  BY <1>1, <1>2, <1>3
<1>5. nodes' \in Seq(StackNode)
  BY <1>1, <1>4, SeqDef
<1>6. Alive' = Alive \ S
  BY <1>2, <1>3 DEF Alive
<1> QED
  BY <1>2, <1>3, <1>5, <1>6

(* A pop that is not alone puts its node among those to be deleted. *)
LEMMA PendingPopChain == ASSUME PInv, NEW t \in Threads, Pending!PopChain(t) PROVE PInv'
<1> USE DEF PInv
<1>1. /\ pc[t] = "chain" /\ nodes' = [nodes EXCEPT ![old[t]].next = to_be_deleted]
      /\ to_be_deleted' = old[t] /\ pc' = [pc EXCEPT ![t] = "leave"]
      /\ UNCHANGED <<head, old, threads_in_pop, mine>>
  BY DEF Pending!PopChain, Pending!Chained, Pending!Goto
<1>2. pc'[t] = "leave" /\ \A u \in Threads : u # t => pc'[u] = pc[u]
  BY <1>1 DEF PType
<1>3. /\ POwn(t) = {old[t]}
      /\ Taken(t)' = {} /\ Grabbed(t)' = {} /\ POwn(t)' = {} /\ GrabbedOk(t)' /\ pc'[t] # "rechain"
  BY <1>1, <1>2 DEF Taken, Grabbed, POwn, GrabbedOk
<1>4. /\ old[t] \in Alive /\ old[t] \in DOMAIN nodes /\ old[t] # Null
      /\ old[t] \notin Del /\ old[t] \notin In /\ Del \subseteq DOMAIN nodes
      /\ In \subseteq Alive /\ Del \subseteq Alive /\ In \cap Del = {}
  BY <1>3, PendingFacts
<1>5. /\ nodes' \in Seq(StackNode) /\ DOMAIN nodes' = DOMAIN nodes
      /\ nodes'[old[t]].next = to_be_deleted
      /\ \A m \in DOMAIN nodes : m # old[t] => nodes'[m].next = nodes[m].next
      /\ Alive' = Alive
  <2>1. nodes \in Seq(StackNode) /\ to_be_deleted \in Nat
    BY PendingFacts DEF PType
  <2> QED
    BY <1>1, <1>4, <2>1, RelinkedNode
<1>6. PType'
  <2>1. t \in Popping /\ t \in Popping'
    BY <1>1, <1>2 DEF Popping
  <2>2. pc' \in [Threads -> {"idle", "load", "exchange", "take", "chain", "leave", "grab",
                             "last", "rechain", "delete"}]
    BY <1>1 DEF PType
  <2>3. IsFiniteSet(Popping') /\ threads_in_pop' = Cardinality(Popping')
    BY <1>1, <1>2, <2>1, <2>2, PendingCount
  <2> QED
    BY <1>1, <1>5, <2>2, <2>3 DEF PType
<1>7. /\ \A u \in Threads : u # t => /\ POwn(u)' = POwn(u) /\ GrabbedOk(u)'
                                     /\ Taken(u)' \cap Grabbed(u)' = {}
                                     /\ pc'[u] = "rechain" => mine'[u] # Null
      /\ In' = In /\ ListOk'
  <2>1. \A n \in Alive : n \notin POwn(t) => n \in DOMAIN nodes' /\ nodes'[n].next = nodes[n].next
    BY <1>3, <1>5, PendingFacts
  <2> QED
    BY <1>1, <1>2, <1>5, <2>1, PendingOthers
<1>8. Del' = Del \cup {old[t]} /\ DelOk'
  <2>1. IsChain(Del, to_be_deleted, SuccOf(nodes))
    BY DEF DelOk
  <2>2. old[t] \in DOMAIN SuccOf(nodes') /\ SuccOf(nodes')[old[t]] = to_be_deleted
    BY <1>4, <1>5 DEF SuccOf
  <2>3. \A m \in Del : m \in DOMAIN SuccOf(nodes') /\ SuccOf(nodes')[m] = SuccOf(nodes)[m]
    BY <1>4, <1>5 DEF SuccOf
  <2>4. IsChain(Del \cup {old[t]}, old[t], SuccOf(nodes'))
    BY <1>4, <2>1, <2>2, <2>3, ChainPush
  <2>5. Linked(old[t], SuccOf(nodes')) = Del \cup {old[t]}
    BY <1>5, <2>4, FoundIn
  <2> QED
    BY <1>1, <2>4, <2>5 DEF Del, DelOk
<1>9. Apart(Alive', In', Del', [u \in Threads |-> POwn(u)'])
  <2>1. In' \cap Del' = {} /\ POwn(t)' \cap (In' \cup Del') = {}
    BY <1>3, <1>4, <1>7, <1>8
  <2>2. /\ Alive' = (Alive \ (In \cup Del \cup POwn(t))) \cup (In' \cup Del' \cup POwn(t)')
        /\ (In' \cup Del' \cup POwn(t)') \cap (Alive \ (In \cup Del \cup POwn(t))) = {}
    BY <1>3, <1>4, <1>5, <1>7, <1>8
  <2> QED
    BY <1>7, <2>1, <2>2, PendingMoved
<1>10. PPlaces'
  BY <1>3, <1>7, <1>9 DEF PPlaces
<1>11. PRead'
  BY <1>1, <1>2, <1>5 DEF PRead
<1> QED
  BY <1>6, <1>7, <1>8, <1>10, <1>11

(* A pop that has nothing to delete counts itself out. *)
LEMMA PendingPopLeave == ASSUME PInv, NEW t \in Threads, Pending!PopLeave(t) PROVE PInv'
<1> USE DEF PInv
<1>1. /\ pc[t] = "leave" /\ threads_in_pop' = threads_in_pop - 1 /\ pc' = [pc EXCEPT ![t] = "idle"]
      /\ UNCHANGED <<nodes, head, old, to_be_deleted, mine>>
  BY DEF Pending!PopLeave, Pending!Return, Pending!Goto
<1>2. pc'[t] = "idle" /\ \A u \in Threads : u # t => pc'[u] = pc[u]
  BY <1>1 DEF PType
<1>3. PType'
  <2>1. t \in Popping /\ t \notin Popping'
    BY <1>1, <1>2 DEF Popping
  <2>2. pc' \in [Threads -> {"idle", "load", "exchange", "take", "chain", "leave", "grab",
                             "last", "rechain", "delete"}]
    BY <1>1 DEF PType
  <2>3. IsFiniteSet(Popping') /\ threads_in_pop' = Cardinality(Popping')
    BY <1>1, <1>2, <2>1, <2>2, PendingCount
  <2> QED
    BY <1>1, <2>2, <2>3 DEF PType
<1>4. PPlaces' /\ ListOk' /\ DelOk' /\ Alive' = Alive
  <2>1. Taken(t)' = Taken(t) /\ Grabbed(t)' = Grabbed(t) /\ GrabbedOk(t)' /\ pc'[t] # "rechain"
    BY <1>1, <1>2 DEF Taken, Grabbed, GrabbedOk
  <2> QED
    BY <1>1, <1>2, <2>1, PendingStays
<1>5. PRead'
  BY <1>1, <1>2, <1>4 DEF PRead
<1> QED
  BY <1>3, <1>4, <1>5

(* A pop that was alone takes all the nodes to be deleted. *)
LEMMA PendingPopGrab == ASSUME PInv, NEW t \in Threads, Pending!PopGrab(t) PROVE PInv'
<1> USE DEF PInv
<1>1. /\ pc[t] = "grab" /\ mine' = [mine EXCEPT ![t] = to_be_deleted]
      /\ to_be_deleted' = Null /\ pc' = [pc EXCEPT ![t] = "last"]
      /\ UNCHANGED <<nodes, head, old, threads_in_pop>>
  BY PendingSame DEF Pending!PopGrab, Pending!Goto
<1>2. /\ pc'[t] = "last" /\ mine'[t] = to_be_deleted
      /\ \A u \in Threads : u # t => pc'[u] = pc[u] /\ mine'[u] = mine[u]
  BY <1>1 DEF PType
<1>3. /\ POwn(t) = {old[t]} /\ Taken(t)' = {old[t]} /\ Grabbed(t)' = Del /\ POwn(t)' = Del \cup {old[t]}
      /\ GrabbedOk(t)' /\ pc'[t] # "rechain"
  <2>1. Taken(t) = {old[t]} /\ Grabbed(t) = {} /\ Taken(t)' = {old[t]}
    BY <1>1, <1>2 DEF Taken, Grabbed
  <2>2. Grabbed(t)' = Linked(to_be_deleted, SuccOf(nodes))
    BY <1>1, <1>2 DEF Grabbed
  <2>3. Grabbed(t)' = Del
    BY <2>2 DEF Del
  <2>4. IsChain(Del, to_be_deleted, SuccOf(nodes))
    BY DEF DelOk
  <2>5. GrabbedOk(t)'
    BY <1>1, <1>2, <2>3, <2>4 DEF GrabbedOk
  <2> QED
    BY <1>2, <2>1, <2>3, <2>5 DEF POwn
<1>4. /\ old[t] \in Alive /\ old[t] \notin Del /\ old[t] \notin In
      /\ In \subseteq Alive /\ Del \subseteq Alive /\ In \cap Del = {}
  BY <1>3, PendingFacts
<1>5. nodes' \in Seq(StackNode) /\ \A n \in Alive : n \in DOMAIN nodes' /\ nodes'[n].next = nodes[n].next
  BY <1>1, PendingFacts DEF PType
<1>6. PType'
  <2>1. t \in Popping /\ t \in Popping'
    BY <1>1, <1>2 DEF Popping
  <2>2. pc' \in [Threads -> {"idle", "load", "exchange", "take", "chain", "leave", "grab",
                             "last", "rechain", "delete"}]
    BY <1>1 DEF PType
  <2>3. IsFiniteSet(Popping') /\ threads_in_pop' = Cardinality(Popping')
    BY <1>1, <1>2, <2>1, <2>2, PendingCount
  <2> QED
    BY <1>1, <1>5, <2>2, <2>3, PendingFacts DEF PType
<1>7. /\ \A u \in Threads : u # t => /\ POwn(u)' = POwn(u) /\ GrabbedOk(u)'
                                     /\ Taken(u)' \cap Grabbed(u)' = {}
                                     /\ pc'[u] = "rechain" => mine'[u] # Null
      /\ In' = In /\ ListOk'
  BY <1>1, <1>2, <1>5, PendingOthers
<1>8. Del' = {} /\ DelOk' /\ Alive' = Alive
  BY <1>1, <1>5, NoneLinked DEF Del, DelOk, Alive
<1>9. Apart(Alive', In', Del', [u \in Threads |-> POwn(u)'])
  <2>1. In' \cap Del' = {} /\ POwn(t)' \cap (In' \cup Del') = {}
    BY <1>3, <1>4, <1>7, <1>8
  <2>2. /\ Alive' = (Alive \ (In \cup Del \cup POwn(t))) \cup (In' \cup Del' \cup POwn(t)')
        /\ (In' \cup Del' \cup POwn(t)') \cap (Alive \ (In \cup Del \cup POwn(t))) = {}
    BY <1>3, <1>4, <1>7, <1>8
  <2> QED
    BY <1>7, <2>1, <2>2, PendingMoved
<1>10. PPlaces'
  BY <1>3, <1>4, <1>7, <1>9 DEF PPlaces
<1>11. PRead'
  BY <1>1, <1>2, <1>8 DEF PRead
<1> QED
  BY <1>6, <1>7, <1>8, <1>10, <1>11

(* A pop deletes all the nodes it has, and returns. *)
LEMMA PendingDeleted ==
    ASSUME PInv, NEW t \in Threads, nodes' = Pending!Deleted(POwn(t)),
           pc' = [pc EXCEPT ![t] = "idle"], UNCHANGED <<head, old, to_be_deleted, mine>>,
           \A u \in Threads : u # t /\ pc[u] = "exchange" => old[u] \notin POwn(t)
    PROVE  nodes' \in Seq(StackNode) /\ ListOk' /\ DelOk' /\ PPlaces' /\ PRead'
<1> USE DEF PInv
<1>1. pc'[t] = "idle" /\ \A u \in Threads : u # t => pc'[u] = pc[u]
  BY DEF PType
<1>2. /\ nodes' \in Seq(StackNode) /\ DOMAIN nodes' = DOMAIN nodes
      /\ \A m \in DOMAIN nodes : nodes'[m].next = nodes[m].next
      /\ Alive' = Alive \ POwn(t)
  <2>1. nodes \in Seq(StackNode)
    BY DEF PType
  <2>2. nodes' = [n \in DOMAIN nodes |-> [nodes[n] EXCEPT !.alive = @ /\ n \notin POwn(t)]]
    BY DEF Pending!Deleted
  <2> QED
    BY <2>1, <2>2, DeletedNodes
<1>3. Taken(t)' = {} /\ Grabbed(t)' = {} /\ POwn(t)' = {} /\ GrabbedOk(t)'
  BY <1>1 DEF Taken, Grabbed, POwn, GrabbedOk
<1>4. /\ \A u \in Threads : u # t => /\ POwn(u)' = POwn(u) /\ GrabbedOk(u)'
                                     /\ Taken(u)' \cap Grabbed(u)' = {}
                                     /\ pc'[u] = "rechain" => mine'[u] # Null
      /\ In' = In /\ ListOk' /\ Del' = Del /\ DelOk'
  <2>1. \A n \in Alive : n \notin POwn(t) => n \in DOMAIN nodes' /\ nodes'[n].next = nodes[n].next
    BY <1>2, PendingFacts
  <2> QED
    BY <1>1, <1>2, <2>1, PendingOthers
<1>5. Apart(Alive', In', Del', [u \in Threads |-> POwn(u)'])
  <2>1. /\ POwn(t) \cap In = {} /\ POwn(t) \cap Del = {}
        /\ In \subseteq Alive /\ Del \subseteq Alive /\ In \cap Del = {}
    BY PendingFacts
  <2>2. In' \cap Del' = {} /\ POwn(t)' \cap (In' \cup Del') = {}
    BY <1>3, <1>4, <2>1
  <2>3. /\ Alive' = (Alive \ (In \cup Del \cup POwn(t))) \cup (In' \cup Del' \cup POwn(t)')
        /\ (In' \cup Del' \cup POwn(t)') \cap (Alive \ (In \cup Del \cup POwn(t))) = {}
    BY <1>2, <1>3, <1>4, <2>1
  <2> QED
    BY <1>4, <2>2, <2>3, PendingMoved
<1>6. PPlaces'
  BY <1>1, <1>3, <1>4, <1>5 DEF PPlaces
<1>7. PRead'
  BY <1>1, <1>2 DEF PRead
<1> QED
  BY <1>2, <1>4, <1>6, <1>7

(* A pop counts itself out: if it is still alone, no pop reads a node.     *)
LEMMA PendingPopLast == ASSUME PInv, NEW t \in Threads, Pending!PopLast(t) PROVE PInv'
<1> USE DEF PInv
<1>1. /\ pc[t] = "last" /\ threads_in_pop' = threads_in_pop - 1
      /\ UNCHANGED <<head, old, to_be_deleted, mine>>
      /\ \/ /\ threads_in_pop = 1 /\ nodes' = Pending!Deleted(Pending!Mine(t) \cup {old[t]})
            /\ pc' = [pc EXCEPT ![t] = "idle"]
         \/ /\ mine[t] = Null /\ nodes' = Pending!Deleted({old[t]})
            /\ pc' = [pc EXCEPT ![t] = "idle"]
         \/ mine[t] # Null /\ nodes' = nodes /\ pc' = [pc EXCEPT ![t] = "rechain"]
  BY PendingSame DEF Pending!PopLast, Pending!Return, Pending!Goto
<1>2. /\ Taken(t) = {old[t]} /\ Grabbed(t) = Linked(mine[t], SuccOf(nodes))
      /\ POwn(t) = {old[t]} \cup Grabbed(t)
  BY <1>1 DEF Taken, Grabbed, POwn
<1>3. Pending!Mine(t) = Grabbed(t)
  BY <1>2, PendingSame
<1>4. mine[t] = Null => Grabbed(t) = {}
  <2>1. IsChain(Grabbed(t), mine[t], SuccOf(nodes))
    BY <1>1 DEF PPlaces, GrabbedOk
  <2> QED
    BY <2>1, ChainFacts
<1>5. t \in Popping
  BY <1>1 DEF Popping
<1>6. ASSUME nodes' \in Seq(StackNode), t \notin Popping',
             \E place \in {"idle", "rechain"} : pc' = [pc EXCEPT ![t] = place]
      PROVE  PType'
  <2>1. pc' \in [Threads -> {"idle", "load", "exchange", "take", "chain", "leave", "grab",
                             "last", "rechain", "delete"}]
    BY <1>6 DEF PType
  <2>2. \A u \in Threads : u # t => pc'[u] = pc[u]
    BY <1>6 DEF PType
  <2>3. IsFiniteSet(Popping') /\ threads_in_pop' = Cardinality(Popping')
    BY <1>1, <1>5, <1>6, <2>1, <2>2, PendingCount
  <2> QED
    BY <1>1, <1>6, <2>1, <2>3 DEF PType
<1>7. ASSUME nodes' = Pending!Deleted(POwn(t)), pc' = [pc EXCEPT ![t] = "idle"],
             \A u \in Threads : u # t /\ pc[u] = "exchange" => old[u] \notin POwn(t)
      PROVE  PInv'
  <2>1. nodes' \in Seq(StackNode) /\ ListOk' /\ DelOk' /\ PPlaces' /\ PRead'
    BY <1>1, <1>7, PendingDeleted
  <2>2. t \notin Popping'
    BY <1>7 DEF PType, Popping
  <2> QED
    BY <1>6, <1>7, <2>1, <2>2
<1>8. CASE threads_in_pop = 1 /\ nodes' = Pending!Deleted(Pending!Mine(t) \cup {old[t]})
           /\ pc' = [pc EXCEPT ![t] = "idle"]
  <2>1. Pending!Mine(t) \cup {old[t]} = POwn(t)
    BY <1>2, <1>3
  <2>2. \A u \in Threads : u # t => pc[u] # "exchange"
    BY <1>5, <1>8, PendingAlone
  <2> QED
    BY <1>7, <1>8, <2>1, <2>2
<1>9. CASE mine[t] = Null /\ nodes' = Pending!Deleted({old[t]}) /\ pc' = [pc EXCEPT ![t] = "idle"]
  <2>1. {old[t]} = POwn(t)
    BY <1>2, <1>4, <1>9
  <2>2. \A u \in Threads : u # t /\ pc[u] = "exchange" => old[u] # old[t]
    BY <1>1 DEF PRead
  <2> QED
    BY <1>7, <1>9, <2>1, <2>2
<1>10. CASE mine[t] # Null /\ nodes' = nodes /\ pc' = [pc EXCEPT ![t] = "rechain"]
  <2>1. pc'[t] = "rechain" /\ \A u \in Threads : u # t => pc'[u] = pc[u]
    BY <1>10 DEF PType
  <2>2. PType'
    <3>1. t \notin Popping' /\ nodes' \in Seq(StackNode)
      BY <1>10, <2>1 DEF Popping, PType
    <3> QED
      BY <1>6, <1>10, <3>1
  <2>3. PPlaces' /\ ListOk' /\ DelOk' /\ Alive' = Alive
    <3>1. Taken(t)' = Taken(t) /\ Grabbed(t)' = Grabbed(t)
      BY <1>1, <1>10, <2>1 DEF Taken, Grabbed
    <3>2. GrabbedOk(t)'
      <4>1. IsChain(Grabbed(t), mine[t], SuccOf(nodes))
        BY <1>1 DEF PPlaces, GrabbedOk
      <4> QED
        BY <1>1, <1>10, <3>1, <4>1 DEF GrabbedOk
    <3> QED
      BY <1>1, <1>10, <2>1, <3>1, <3>2, PendingStays
  <2>4. PRead'
    BY <1>1, <2>1, <2>3 DEF PRead
  <2> QED
    BY <2>2, <2>3, <2>4
<1> QED
  BY <1>1, <1>8, <1>9, <1>10

(* A pop that was not alone any more puts the nodes it grabbed back.       *)
LEMMA PendingPopRechain == ASSUME PInv, NEW t \in Threads, Pending!PopRechain(t) PROVE PInv'
<1> USE DEF PInv
<1> DEFINE list == ListFrom(mine[t], SuccOf(nodes))
           last == list[Len(list)]
<1>1. /\ pc[t] = "rechain" /\ nodes' = [nodes EXCEPT ![last].next = to_be_deleted]
      /\ to_be_deleted' = mine[t] /\ pc' = [pc EXCEPT ![t] = "delete"]
      /\ UNCHANGED <<head, old, threads_in_pop, mine>>
  BY PendingSame DEF Pending!PopRechain, Pending!Chained, Pending!Goto
<1>2. pc'[t] = "delete" /\ \A u \in Threads : u # t => pc'[u] = pc[u]
  BY <1>1 DEF PType
<1>3. /\ Taken(t) = {old[t]} /\ POwn(t) = {old[t]} \cup Grabbed(t) /\ old[t] \notin Grabbed(t)
      /\ Taken(t)' = {old[t]} /\ Grabbed(t)' = {} /\ POwn(t)' = {old[t]} /\ GrabbedOk(t)'
      /\ pc'[t] # "rechain" /\ mine[t] # Null
  BY <1>1, <1>2 DEF Taken, Grabbed, POwn, GrabbedOk, PPlaces
<1>4. IsChain(Grabbed(t), mine[t], SuccOf(nodes)) /\ Grabbed(t) = Linked(mine[t], SuccOf(nodes))
  BY <1>1 DEF PPlaces, GrabbedOk, Grabbed
<1>5. last \in Grabbed(t) /\ SuccOf(nodes)[last] = Null
  <2>1. DOMAIN SuccOf(nodes) = 1 .. Len(nodes) /\ Len(nodes) \in Nat
    BY DEF PType, SuccOf
  <2> QED
    BY <1>3, <1>4, <2>1, ChainFound
<1> HIDE DEF last, list
<1>6. /\ POwn(t) \subseteq Alive /\ Alive \subseteq DOMAIN nodes
      /\ POwn(t) \cap Del = {} /\ POwn(t) \cap In = {}
      /\ In \subseteq Alive /\ Del \subseteq Alive /\ In \cap Del = {}
  BY PendingFacts
<1>7. /\ nodes' \in Seq(StackNode) /\ DOMAIN nodes' = DOMAIN nodes
      /\ nodes'[last].next = to_be_deleted
      /\ \A m \in DOMAIN nodes : m # last => nodes'[m].next = nodes[m].next
      /\ Alive' = Alive
  <2>1. nodes \in Seq(StackNode) /\ to_be_deleted \in Nat /\ last \in DOMAIN nodes
    BY <1>3, <1>5, <1>6, PendingFacts DEF PType
  <2> QED
    BY <1>1, <2>1, RelinkedNode
<1>8. PType'
  <2>1. t \notin Popping /\ t \notin Popping'
    BY <1>1, <1>2 DEF Popping
  <2>2. pc' \in [Threads -> {"idle", "load", "exchange", "take", "chain", "leave", "grab",
                             "last", "rechain", "delete"}]
    BY <1>1 DEF PType
  <2>3. IsFiniteSet(Popping') /\ threads_in_pop' = Cardinality(Popping')
    BY <1>1, <1>2, <2>1, <2>2, PendingCount
  <2> QED
    BY <1>1, <1>7, <2>2, <2>3 DEF PType
<1>9. /\ \A u \in Threads : u # t => /\ POwn(u)' = POwn(u) /\ GrabbedOk(u)'
                                     /\ Taken(u)' \cap Grabbed(u)' = {}
                                     /\ pc'[u] = "rechain" => mine'[u] # Null
      /\ In' = In /\ ListOk'
  <2>1. \A n \in Alive : n \notin POwn(t) => n \in DOMAIN nodes' /\ nodes'[n].next = nodes[n].next
    BY <1>3, <1>5, <1>6, <1>7
  <2> QED
    BY <1>1, <1>2, <1>7, <2>1, PendingOthers
<1>10. Del' = Grabbed(t) \cup Del /\ DelOk'
  <2>1. IsChain(Del, to_be_deleted, SuccOf(nodes)) /\ Grabbed(t) \cap Del = {}
    BY <1>3, <1>6 DEF DelOk
  <2>2. Grabbed(t) \cup Del \subseteq DOMAIN nodes
    BY <1>3, <1>6
  <2>3. SuccOf(nodes')[last] = to_be_deleted
    BY <1>5, <1>7, <2>2 DEF SuccOf
  <2>4. \A n \in Grabbed(t) \cup Del : /\ n \in DOMAIN SuccOf(nodes')
                                       /\ n # last => SuccOf(nodes')[n] = SuccOf(nodes)[n]
    BY <1>7, <2>2 DEF SuccOf
  <2>5. IsChain(Grabbed(t) \cup Del, mine[t], SuccOf(nodes'))
    BY <1>4, <1>5, <2>1, <2>3, <2>4, ChainJoin
  <2>6. Linked(mine[t], SuccOf(nodes')) = Grabbed(t) \cup Del
    BY <1>7, <2>5, FoundIn
  <2> QED
    BY <1>1, <2>5, <2>6 DEF Del, DelOk
<1>11. Apart(Alive', In', Del', [u \in Threads |-> POwn(u)'])
  <2>1. In' \cap Del' = {} /\ POwn(t)' \cap (In' \cup Del') = {}
    BY <1>3, <1>6, <1>9, <1>10
  <2>2. /\ Alive' = (Alive \ (In \cup Del \cup POwn(t))) \cup (In' \cup Del' \cup POwn(t)')
        /\ (In' \cup Del' \cup POwn(t)') \cap (Alive \ (In \cup Del \cup POwn(t))) = {}
    BY <1>3, <1>6, <1>7, <1>9, <1>10
  <2> QED
    BY <1>9, <2>1, <2>2, PendingMoved
<1>12. PPlaces'
  BY <1>3, <1>9, <1>11 DEF PPlaces
<1>13. PRead'
  BY <1>1, <1>2, <1>7 DEF PRead
<1> QED
  BY <1>8, <1>9, <1>10, <1>12, <1>13

(* ... and deletes its own. *)
LEMMA PendingPopDelete == ASSUME PInv, NEW t \in Threads, Pending!PopDelete(t) PROVE PInv'
<1> USE DEF PInv
<1>1. /\ pc[t] = "delete" /\ nodes' = Pending!Deleted({old[t]}) /\ pc' = [pc EXCEPT ![t] = "idle"]
      /\ UNCHANGED <<head, old, threads_in_pop, to_be_deleted, mine>>
  BY DEF Pending!PopDelete, Pending!Return, Pending!Goto, Pending!pendingVars
<1>2. POwn(t) = {old[t]}
  BY <1>1 DEF POwn, Taken, Grabbed
<1>3. \A u \in Threads : u # t /\ pc[u] = "exchange" => old[u] \notin POwn(t)
  BY <1>1, <1>2 DEF PRead
<1>4. nodes' \in Seq(StackNode) /\ ListOk' /\ DelOk' /\ PPlaces' /\ PRead'
  BY <1>1, <1>2, <1>3, PendingDeleted
<1>5. PType'
  <2>1. pc' \in [Threads -> {"idle", "load", "exchange", "take", "chain", "leave", "grab",
                             "last", "rechain", "delete"}]
        /\ pc'[t] = "idle" /\ \A u \in Threads : u # t => pc'[u] = pc[u]
    BY <1>1 DEF PType
  <2>2. t \notin Popping /\ t \notin Popping'
    BY <1>1, <2>1 DEF Popping
  <2>3. IsFiniteSet(Popping') /\ threads_in_pop' = Cardinality(Popping')
    BY <1>1, <2>1, <2>2, PendingCount
  <2> QED
    BY <1>1, <1>4, <2>1, <2>3 DEF PType
<1> QED
  BY <1>4, <1>5

(* A step of the composition that is none of the stack's. *)
LEMMA PendingStutter == ASSUME PInv, UNCHANGED allVars PROVE PInv'
<1>1. UNCHANGED <<nodes, head, pc, old, threads_in_pop, to_be_deleted, mine>>
  BY DEF allVars, vars, pVars
<1>2. In' = In /\ Alive' = Alive /\ Del' = Del
  BY <1>1 DEF In, Alive, Del
<1>3. \A u \in Threads : /\ POwn(u)' = POwn(u) /\ Taken(u)' = Taken(u)
                         /\ Grabbed(u)' = Grabbed(u) /\ (GrabbedOk(u) => GrabbedOk(u)')
  BY <1>1 DEF POwn, Taken, Grabbed, GrabbedOk
<1>4. PPlaces'
  <2>1. [u \in Threads |-> POwn(u)'] = [u \in Threads |-> POwn(u)]
    BY <1>3
  <2>2. Apart(Alive', In', Del', [u \in Threads |-> POwn(u)'])
    BY <1>2, <2>1, Zenon DEF PInv, PPlaces
  <2> QED
    BY <1>1, <1>3, <2>2 DEF PInv, PPlaces
<1>5. PType'
  <2>1. Popping' = Popping
    BY <1>1 DEF Popping
  <2> QED
    BY <1>1, <2>1 DEF PInv, PType
<1>6. ListOk' /\ DelOk' /\ PRead'
  BY <1>1, <1>2 DEF PInv, ListOk, DelOk, PRead
<1> QED
  BY <1>4, <1>5, <1>6 DEF PInv

(* Any operation of the stack. *)
LEMMA PendingStep == ASSUME PInv, NEW t \in Threads, Pending!Step(t) PROVE PInv'
<1>1. CASE Pending!Push(t)
  BY <1>1, PendingPush
<1>2. CASE Pending!PopEnter(t)
  BY <1>2, PendingPopEnter
<1>3. CASE Pending!PopLoad(t)
  BY <1>3, PendingPopLoad
<1>4. CASE Pending!PopExchange(t)
  BY <1>4, PendingPopExchange
<1>5. CASE Pending!PopTake(t)
  BY <1>5, PendingPopTake
<1>6. CASE Pending!PopChain(t)
  BY <1>6, PendingPopChain
<1>7. CASE Pending!PopLeave(t)
  BY <1>7, PendingPopLeave
<1>8. CASE Pending!PopGrab(t)
  BY <1>8, PendingPopGrab
<1>9. CASE Pending!PopLast(t)
  BY <1>9, PendingPopLast
<1>10. CASE Pending!PopRechain(t)
  BY <1>10, PendingPopRechain
<1>11. CASE Pending!PopDelete(t)
  BY <1>11, PendingPopDelete
<1> QED
  BY <1>1, <1>2, <1>3, <1>4, <1>5, <1>6, <1>7, <1>8, <1>9, <1>10, <1>11 DEF Pending!Step

(* What the threads are going to use exists, and what is left when none is *)
(* at work is in the stack or to be deleted.                               *)
LEMMA PendingSafe == ASSUME PInv, kind = "pending" PROVE NoUseAfterFree /\ NoLeak
<1>1. Chain = Pending!Chain /\ Needed = Pending!Needed /\ Deferred = Pending!Deferred
  BY DEF Chain, Needed, Deferred, Of
<1>2. {Chain[i] : i \in DOMAIN Chain} = In
  BY <1>1, PendingSame DEF Pending!Chain, In, Linked
<1>3. Deferred = Del
  BY <1>1, PendingSame DEF Pending!Deferred, Del, Linked
<1>4. ASSUME NEW t \in Threads,
             pc[t] \in {"exchange", "take", "chain", "grab", "last", "rechain", "delete"}
      PROVE  old[t] \in Alive
  <2>1. CASE pc[t] = "exchange"
    BY <2>1 DEF PInv, PRead
  <2>2. CASE pc[t] # "exchange"
    <3>1. old[t] \in POwn(t)
      BY <1>4, <2>2 DEF POwn, Taken
    <3> QED
      BY <3>1, PendingFacts
  <2> QED
    BY <2>1, <2>2
<1>5. ASSUME NEW t \in Threads, pc[t] \in {"last", "rechain"} PROVE Pending!Mine(t) \subseteq Alive
  <2>1. Pending!Mine(t) \subseteq POwn(t)
    BY <1>5, PendingSame DEF POwn, Grabbed
  <2> QED
    BY <2>1, PendingFacts
<1>6. Needed \subseteq Alive
  BY <1>1, <1>4, <1>5 DEF Pending!Needed
<1>7. NoUseAfterFree
  BY <1>2, <1>6, PendingFacts DEF NoUseAfterFree
<1>8. ASSUME \A t \in Threads : pc[t] = "idle" PROVE \A t \in Threads : POwn(t) = {}
  BY <1>8 DEF POwn, Taken, Grabbed
<1>9. Alive = In \cup Del \cup UNION {POwn(t) : t \in Threads}
  BY DEF PInv, PPlaces, Apart
<1>10. NoLeak
  BY <1>2, <1>3, <1>8, <1>9 DEF NoLeak
<1> QED
  BY <1>7, <1>10

-----------------------------------------------------------------------------
(* RefCountStack.  What a counted pointer has to say of a node: how many   *)
(* threads have copied it and not yet finished.                            *)
CountedPtr == [ext : Int, ptr : Nat]

CountNode == [data : Value \cup {NoData}, next : CountedPtr, internal : Int, alive : BOOLEAN]

NextOf(ns) == [n \in DOMAIN ns |-> ns[n].next.ptr]

(* The nodes of the stack. *)
CIn == Linked(head.ptr, NextOf(nodes))

CListOk == IsChain(CIn, head.ptr, NextOf(nodes))

(* The pops that have copied a head leading to node n. *)
Holders(n) == {t \in Threads : pc[t] \in {"exchange", "release"} /\ old[t].ptr = n}

(* The pops that still have it or have given it up before the pointer is   *)
(* accounted for: the count of the node goes down for each of them.        *)
Due == [n \in Nat |-> Cardinality(Holders(n)) - nodes[n].internal]

CType ==
    /\ nodes \in Seq(CountNode) /\ head \in CountedPtr
    /\ pc \in [Threads -> {"idle", "pop", "exchange", "take", "release"}]
    /\ old \in [Threads -> CountedPtr]
    /\ DOMAIN todo = Threads /\ \A t \in Threads : pc[t] # "idle" => todo[t] # <<>>
    /\ \A n \in Nat : IsFiniteSet(Holders(n))

CPlaces ==
    /\ CIn \subseteq Alive
    /\ \A t \in Threads : pc[t] \in {"exchange", "release", "take"} => old[t].ptr \in Alive
    /\ \A t \in Threads : pc[t] = "take" => old[t].ptr \notin CIn
    /\ \A t, u \in Threads : pc[t] = "take" /\ pc[u] = "take" /\ t # u => old[t].ptr # old[u].ptr

(* The pointer that leads to a node counts what is due of it, and one for  *)
(* itself (two at the pop that has taken the node out, which has copied it *)
(* as well); when it is gone, the node counts the pops left.               *)
CCounts ==
    /\ head.ptr # Null => head.ext = Due[head.ptr] + 1
    /\ \A n \in CIn : nodes[n].next.ptr # Null => nodes[n].next.ext = Due[nodes[n].next.ptr] + 1
    /\ \A t \in Threads : pc[t] = "take" => old[t].ext = Due[old[t].ptr] + 2
    /\ \A n \in CIn : nodes[n].internal <= 0
    /\ \A t \in Threads : pc[t] = "take" => nodes[old[t].ptr].internal <= 0
    /\ \A n \in Alive : n \notin CIn /\ (\A t \in Threads : pc[t] = "take" => old[t].ptr # n)
                           => Due[n] = 0 /\ nodes[n].internal # 0

CInv == CType /\ CListOk /\ CPlaces /\ CCounts

(* The definitions that the instance shares with this module. *)
LEMMA CountSame ==
    /\ Count!Address = Address
    /\ \A n, node : Count!Place(n, node) = Place(n, node)
    /\ Count!Chain = ListFrom(head.ptr, NextOf(nodes))
    /\ Count!Null = Null /\ Count!NoData = NoData
<1>1. Count!Null = Null /\ Count!NoData = NoData
  BY DEF Count!Null, Count!NoData, Null, NoData
<1>2. Count!Address = Address
  BY DEF Count!Address, Count!Alive, Alive, Address
<1>3. \A n, node : Count!Place(n, node) = Place(n, node)
  BY DEF Count!Place, Place
<1>4. \A f, succ : Count!ListFrom(f, succ) = ListFrom(f, succ)
  BY DEF Count!ListFrom, ListFrom, Count!Null, Null
<1>5. Count!Chain = ListFrom(head.ptr, NextOf(nodes))
  BY <1>4 DEF Count!Chain, NextOf
<1> QED
  BY <1>1, <1>2, <1>3, <1>5

(* The nodes of a list are those that Linked finds. *)
LEMMA FoundNext ==
    ASSUME NEW T, NEW ns \in Seq(T), NEW S, NEW f, IsChain(S, f, NextOf(ns))
    PROVE  Linked(f, NextOf(ns)) = S
<1>1. DOMAIN NextOf(ns) = 1 .. Len(ns) /\ Len(ns) \in Nat
  BY DEF NextOf
<1> QED
  BY <1>1, ChainFound

(* What is known of the nodes and of the pointers. *)
LEMMA CountFacts ==
    ASSUME CInv
    PROVE  /\ Alive \subseteq DOMAIN nodes /\ DOMAIN nodes \subseteq Nat /\ Null \notin DOMAIN nodes
           /\ CIn \subseteq Alive
           /\ head.ptr = Null => CIn = {}
           /\ head.ptr # Null => head.ptr \in CIn
           /\ \A n \in CIn : nodes[n].next.ptr \in CIn \cup {Null} /\ nodes[n].next.ptr # n
           /\ \A n \in CIn : nodes[n].next.ptr # Null => nodes[n].next.ptr # head.ptr
           /\ \A n, m \in CIn : nodes[n].next.ptr = nodes[m].next.ptr => n = m
           /\ \A n \in DOMAIN nodes : nodes[n] \in CountNode
           /\ \A n \in Nat : IsFiniteSet(Holders(n)) /\ Cardinality(Holders(n)) \in Nat
<1>1. Alive \subseteq DOMAIN nodes /\ DOMAIN nodes \subseteq Nat /\ Null \notin DOMAIN nodes
      /\ \A n \in DOMAIN nodes : nodes[n] \in CountNode
  <2>1. DOMAIN nodes = 1 .. Len(nodes) /\ Len(nodes) \in Nat /\ nodes \in Seq(CountNode)
    BY DEF CInv, CType
  <2> QED
    BY <2>1 DEF Alive, Null
<1>2. CIn \subseteq Alive
  BY DEF CInv, CPlaces
<1>3. /\ head.ptr = Null => CIn = {}
      /\ head.ptr # Null => head.ptr \in CIn
      /\ \A n \in CIn : NextOf(nodes)[n] \in CIn \cup {Null} /\ NextOf(nodes)[n] # n
      /\ \A n \in CIn : NextOf(nodes)[n] # Null => NextOf(nodes)[n] # head.ptr
      /\ \A n, m \in CIn : NextOf(nodes)[n] = NextOf(nodes)[m] => n = m
  BY ChainFacts DEF CInv, CListOk
<1>4. \A n \in CIn : NextOf(nodes)[n] = nodes[n].next.ptr
  BY <1>1, <1>2 DEF NextOf
<1>5. \A n \in Nat : IsFiniteSet(Holders(n)) /\ Cardinality(Holders(n)) \in Nat
  BY FS_CardinalityType DEF CInv, CType
<1> QED
  BY <1>1, <1>2, <1>3, <1>4, <1>5

(* The stack begins empty. *)
LEMMA CountInit == Count!Init => CInv
<1> SUFFICES ASSUME Count!Init PROVE CInv
  OBVIOUS
<1> USE DEF Count!Init, Count!ThreadsInit
<1>1. /\ nodes = <<>> /\ nodes \in Seq(CountNode) /\ head = Count!NoNode /\ todo = StackProgram
      /\ pc = [t \in Threads |-> "idle"] /\ old = [t \in Threads |-> Count!NoNode]
  OBVIOUS
<1>2. head.ptr = Null /\ head \in CountedPtr
  BY <1>1, CountSame DEF Count!NoNode, CountedPtr, Null
<1>3. CIn = {} /\ CListOk
  <2>1. IsChain({}, Null, NextOf(nodes))
    BY ChainEmpty
  <2>2. Linked(Null, NextOf(nodes)) = {}
    BY <1>1, <2>1, FoundNext
  <2> QED
    BY <1>2, <2>1, <2>2 DEF CIn, CListOk
<1>4. \A n : Holders(n) = {}
  BY <1>1 DEF Holders
<1>5. CType
  <2>1. DOMAIN todo = Threads
    BY <1>1, ProgramsAssumption
  <2> QED
    BY <1>1, <1>2, <1>4, <2>1, FS_EmptySet DEF CType
<1>6. Alive = {}
  BY <1>1 DEF Alive
<1>7. CPlaces /\ CCounts
  BY <1>1, <1>2, <1>3, <1>6 DEF CPlaces, CCounts
<1> QED
  BY <1>3, <1>5, <1>7 DEF CInv

(* push puts a new node before the others. *)
LEMMA CountPush == ASSUME CInv, NEW t \in Threads, Count!Push(t) PROVE CInv'
<1> USE DEF CInv
<1>0. PICK n : n = Address
  OBVIOUS
<1> DEFINE node == [data |-> Count!Operation(t), next |-> head, internal |-> 0, alive |-> TRUE]
<1>1. /\ pc[t] = "idle" /\ Count!Operation(t) \in Value
      /\ nodes' = Place(n, node) /\ head' = [ext |-> 1, ptr |-> n]
      /\ pc' = [pc EXCEPT ![t] = "idle"] /\ todo' = [todo EXCEPT ![t] = Tail(@)]
      /\ old' = old
  BY <1>0, CountSame DEF Count!Push, Count!Calls, Count!Return, Count!Goto
<1>2. n \in 1 .. Len(nodes) + 1 /\ n \notin Alive /\ Len(nodes) \in Nat
  BY <1>0, AddressIsFree DEF CType
<1>3. n \in Nat /\ n # Null
  BY <1>2 DEF Null
<1>4. node \in CountNode
  BY <1>1 DEF CType, CountNode
<1>5. /\ node.next = head /\ node.internal = 0 /\ node.alive
      /\ head'.ptr = n /\ head'.ext = 1 /\ head' \in CountedPtr
  BY <1>1, <1>3 DEF CountedPtr
<1> HIDE DEF node
<1>6. /\ nodes' \in Seq(CountNode) /\ DOMAIN nodes' = DOMAIN nodes \cup {n} /\ nodes'[n] = node
      /\ \A m \in DOMAIN nodes : m # n => nodes'[m] = nodes[m]
  <2>1. Place(n, node) \in Seq(CountNode)
    <3>1. nodes \in Seq(CountNode)
      BY DEF CType
    <3> QED
      BY <1>2, <1>4, <3>1, Placed, Zenon
  <2>2. /\ DOMAIN Place(n, node) = DOMAIN nodes \cup {n} /\ Place(n, node)[n] = node
        /\ \A m \in DOMAIN nodes : m # n => Place(n, node)[m] = nodes[m]
    BY DEF Place
  <2> QED
    BY <1>1, <2>1, <2>2
<1>7. \A m \in Alive : m # n /\ m \in DOMAIN nodes /\ m \in DOMAIN nodes' /\ nodes'[m] = nodes[m]
  BY <1>2, <1>6, CountFacts
<1>8. Alive' = Alive \cup {n}
  <2>1. \A m : m \in Alive' <=> m \in Alive \/ m = n
    BY <1>5, <1>6 DEF Alive
  <2> QED
    BY <2>1
<1>9. CIn' = CIn \cup {n} /\ CListOk'
  <2>1. n \in DOMAIN NextOf(nodes') /\ NextOf(nodes')[n] = head.ptr
    BY <1>5, <1>6 DEF NextOf
  <2>2. \A m \in CIn : m \in DOMAIN NextOf(nodes') /\ NextOf(nodes')[m] = NextOf(nodes)[m]
    BY <1>7, CountFacts DEF NextOf
  <2>3. n \notin CIn /\ IsChain(CIn, head.ptr, NextOf(nodes))
    BY <1>2, CountFacts DEF CListOk
  <2>4. IsChain(CIn \cup {n}, n, NextOf(nodes'))
    BY <1>3, <2>1, <2>2, <2>3, ChainPush
  <2>5. Linked(n, NextOf(nodes')) = CIn \cup {n}
    BY <1>6, <2>4, FoundNext
  <2> QED
    BY <1>5, <2>4, <2>5 DEF CIn, CListOk
<1>10. pc' = pc /\ \A m : Holders(m)' = Holders(m)
  BY <1>1 DEF CType, Holders
<1>11. CType'
  BY <1>1, <1>5, <1>6, <1>10 DEF CType
<1>12. CPlaces'
  BY <1>1, <1>2, <1>8, <1>9, <1>10 DEF CPlaces
<1>13. \A m \in Alive : Due'[m] = Due[m]
  <2>1. \A m \in Nat : Due[m] = Cardinality(Holders(m)) - nodes[m].internal
    BY DEF Due
  <2>2. \A m \in Nat : Due'[m] = Cardinality(Holders(m)') - nodes'[m].internal
    BY DEF Due
  <2> QED
    BY <1>7, <1>10, <2>1, <2>2, CountFacts
<1>14. Due'[n] = 0
  <2>1. Holders(n) = {}
    BY <1>2 DEF Holders, CPlaces
  <2>2. Due'[n] = Cardinality(Holders(n)') - nodes'[n].internal
    BY <1>3 DEF Due
  <2>3. Holders(n)' = {}
    BY <1>1, <1>10, <2>1
  <2> QED
    BY <1>5, <1>6, <2>2, <2>3, FS_EmptySet
<1>15. CCounts'
  <2>1. head'.ptr # Null => head'.ext = Due'[head'.ptr] + 1
    BY <1>5, <1>14
  <2>2. \A m \in CIn' : nodes'[m].next.ptr # Null => nodes'[m].next.ext = Due'[nodes'[m].next.ptr] + 1
    <3>1. ASSUME head.ptr # Null PROVE head.ext = Due'[head.ptr] + 1
      BY <1>13, <3>1, CountFacts DEF CCounts
    <3>2. ASSUME NEW m \in CIn, nodes[m].next.ptr # Null
          PROVE  nodes'[m].next.ext = Due'[nodes[m].next.ptr] + 1
      BY <1>7, <1>13, <3>2, CountFacts DEF CCounts
    <3>3. \A m \in CIn : nodes'[m] = nodes[m]
      BY <1>7, CountFacts
    <3> QED
      BY <1>5, <1>6, <1>9, <3>1, <3>2, <3>3
  <2>3. \A u \in Threads : pc'[u] = "take" => old'[u].ext = Due'[old'[u].ptr] + 2
    BY <1>1, <1>10, <1>13 DEF CPlaces, CCounts
  <2>4. \A m \in CIn' : nodes'[m].internal <= 0
    BY <1>5, <1>6, <1>7, <1>9, CountFacts DEF CCounts
  <2>5. \A u \in Threads : pc'[u] = "take" => nodes'[old'[u].ptr].internal <= 0
    BY <1>1, <1>7, <1>10 DEF CPlaces, CCounts
  <2>6. \A m \in Alive' : m \notin CIn' /\ (\A u \in Threads : pc'[u] = "take" => old'[u].ptr # m)
                             => Due'[m] = 0 /\ nodes'[m].internal # 0
    BY <1>1, <1>7, <1>8, <1>9, <1>10, <1>13 DEF CCounts
  <2> QED
    BY <2>1, <2>2, <2>3, <2>4, <2>5, <2>6 DEF CCounts
<1> QED
  BY <1>9, <1>11, <1>12, <1>15

(* The counts of the nodes, before and after a step. *)
LEMMA DueFacts ==
    ASSUME CInv
    PROVE  /\ \A n \in Nat : Due[n] = Cardinality(Holders(n)) - nodes[n].internal
           /\ \A n \in Nat : Due'[n] = Cardinality(Holders(n)') - nodes'[n].internal
           /\ \A n \in DOMAIN nodes : Due[n] \in Int
<1>1. \A n \in Nat : Due[n] = Cardinality(Holders(n)) - nodes[n].internal
  BY DEF Due
<1>2. \A n \in Nat : Due'[n] = Cardinality(Holders(n)') - nodes'[n].internal
  BY DEF Due
<1>3. \A n \in DOMAIN nodes : Due[n] \in Int
  BY <1>1, CountFacts DEF CountNode
<1> QED
  BY <1>1, <1>2, <1>3

(* pop copies head, and counts itself. *)
LEMMA CountPopCount == ASSUME CInv, NEW t \in Threads, Count!PopCount(t) PROVE CInv'
<1> USE DEF CInv
<1>1. /\ pc[t] \in {"idle", "pop"} /\ todo[t] # <<>>
      /\ head' = [head EXCEPT !.ext = @ + 1] /\ old' = [old EXCEPT ![t] = head']
      /\ \/ /\ head.ptr = Null /\ pc' = [pc EXCEPT ![t] = "idle"]
            /\ todo' = [todo EXCEPT ![t] = Tail(@)]
         \/ head.ptr # Null /\ pc' = [pc EXCEPT ![t] = "exchange"] /\ todo' = todo
      /\ nodes' = nodes
  BY CountSame DEF Count!PopCount, Count!Calls, Count!Return, Count!Goto, CType
<1>2. /\ head'.ptr = head.ptr /\ head'.ext = head.ext + 1 /\ head' \in CountedPtr
      /\ old'[t] = head' /\ old'[t].ptr = head.ptr
      /\ \A u \in Threads : u # t => old'[u] = old[u] /\ pc'[u] = pc[u] /\ todo'[u] = todo[u]
      /\ head.ptr = Null => pc'[t] = "idle"
      /\ head.ptr # Null => pc'[t] = "exchange"
  <2>1. head'.ptr = head.ptr /\ head'.ext = head.ext + 1 /\ head' \in CountedPtr
    <3>1. head \in [ext : Int, ptr : Nat]
      BY DEF CType, CountedPtr
    <3>2. head' = [head EXCEPT !.ext = @ + 1]
      BY <1>1
    <3>3. head' \in [ext : Int, ptr : Nat]
      BY <3>1, <3>2
    <3>4. head'.ptr = head.ptr /\ head'.ext = head.ext + 1
      BY <3>1, <3>2
    <3> QED
      BY <3>3, <3>4 DEF CountedPtr
  <2>2. old'[t] = head' /\ \A u \in Threads : u # t => old'[u] = old[u]
    BY <1>1 DEF CType
  <2>3. \A u \in Threads : u # t => pc'[u] = pc[u] /\ todo'[u] = todo[u]
    BY <1>1 DEF CType
  <2>4. /\ head.ptr = Null => pc'[t] = "idle"
        /\ head.ptr # Null => pc'[t] = "exchange"
    BY <1>1 DEF CType
  <2> QED
    BY <2>1, <2>2, <2>3, <2>4
<1>3. CIn' = CIn /\ CListOk' /\ Alive' = Alive
  BY <1>1, <1>2 DEF CIn, CListOk, Alive
<1>4. ASSUME head.ptr # Null
      PROVE  \A n \in Nat : n = head.ptr => Holders(n)' = Holders(n) \cup {t} /\ t \notin Holders(n)
  BY <1>1, <1>2, <1>4 DEF Holders
<1>5. \A n \in Nat : n # head.ptr \/ head.ptr = Null => Holders(n)' = Holders(n)
  <2> SUFFICES ASSUME NEW n \in Nat, n # head.ptr \/ head.ptr = Null PROVE Holders(n)' = Holders(n)
    OBVIOUS
  <2>1. \A u \in Threads : u \in Holders(n)' <=> u \in Holders(n)
    BY <1>1, <1>2 DEF Holders
  <2> QED
    BY <2>1 DEF Holders
<1>6. \A n \in Nat : n = head.ptr /\ head.ptr # Null =>
           IsFiniteSet(Holders(n)') /\ Cardinality(Holders(n)') = Cardinality(Holders(n)) + 1
  <2> SUFFICES ASSUME NEW n \in Nat, n = head.ptr, head.ptr # Null
               PROVE  IsFiniteSet(Holders(n)') /\ Cardinality(Holders(n)') = Cardinality(Holders(n)) + 1
    OBVIOUS
  <2>1. Holders(n)' = Holders(n) \cup {t} /\ t \notin Holders(n) /\ IsFiniteSet(Holders(n))
    BY <1>4, CountFacts
  <2> QED
    BY <2>1, FS_AddElement
<1>7. CType'
  <2>1. \A n \in Nat : IsFiniteSet(Holders(n)')
    BY <1>5, <1>6, CountFacts
  <2>2. pc' \in [Threads -> {"idle", "pop", "exchange", "take", "release"}] /\ old' \in [Threads -> CountedPtr]
    BY <1>1, <1>2 DEF CType
  <2>3. DOMAIN todo' = Threads /\ \A u \in Threads : pc'[u] # "idle" => todo'[u] # <<>>
    BY <1>1, <1>2 DEF CType
  <2> QED
    BY <1>1, <1>2, <2>1, <2>2, <2>3 DEF CType
<1>8. CPlaces'
  <2>1. head.ptr # Null => head.ptr \in Alive
    BY CountFacts
  <2>2. pc'[t] # "take"
    BY <1>2
  <2> QED
    BY <1>1, <1>2, <1>3, <2>1, <2>2 DEF CPlaces
<1>9. /\ \A n \in Nat : n # head.ptr \/ head.ptr = Null => Due'[n] = Due[n]
      /\ \A n \in Nat : n = head.ptr /\ head.ptr # Null => Due'[n] = Due[n] + 1
  <2>1. \A n \in Nat : n # head.ptr \/ head.ptr = Null => Due'[n] = Due[n]
    BY <1>1, <1>5, DueFacts
  <2>2. ASSUME head.ptr # Null, NEW n \in Nat, n = head.ptr PROVE Due'[n] = Due[n] + 1
    <3>1. n \in DOMAIN nodes /\ nodes[n].internal \in Int /\ Cardinality(Holders(n)) \in Nat
      BY <2>2, CountFacts DEF CountNode
    <3>2. Cardinality(Holders(n)') = Cardinality(Holders(n)) + 1
      BY <1>6, <2>2
    <3> QED
      BY <1>1, <3>1, <3>2, DueFacts
  <2> QED
    BY <2>1, <2>2
<1>10. CCounts'
  <2>1. head'.ptr # Null => head'.ext = Due'[head'.ptr] + 1
    <3>1. ASSUME head.ptr # Null PROVE head.ext + 1 = Due'[head.ptr] + 1
      <4>1. head.ptr \in Nat /\ head.ptr \in DOMAIN nodes
        BY <3>1, CountFacts
      <4>2. Due[head.ptr] \in Int /\ head.ext = Due[head.ptr] + 1
        BY <3>1, <4>1, DueFacts DEF CCounts
      <4> QED
        BY <1>9, <3>1, <4>1, <4>2
    <3> QED
      BY <1>2, <3>1
  <2>2. \A n \in CIn : nodes[n].next.ptr # Null => nodes[n].next.ext = Due'[nodes[n].next.ptr] + 1
    <3> SUFFICES ASSUME NEW n \in CIn, nodes[n].next.ptr # Null
                 PROVE  nodes[n].next.ext = Due'[nodes[n].next.ptr] + 1
      OBVIOUS
    <3>1. nodes[n].next.ptr # head.ptr /\ nodes[n].next.ptr \in Nat
      BY CountFacts
    <3> QED
      BY <1>9, <3>1 DEF CCounts
  <2>3. \A u \in Threads : pc[u] = "take" => old[u].ptr # head.ptr /\ old[u].ptr \in Nat
    BY CountFacts DEF CPlaces
  <2>4. \A u \in Threads : pc'[u] = "take" => pc[u] = "take" /\ u # t /\ old'[u] = old[u]
    BY <1>2
  <2>5. \A u \in Threads : pc'[u] = "take" => old'[u].ext = Due'[old'[u].ptr] + 2
    BY <1>9, <2>3, <2>4 DEF CCounts
  <2>6. \A n \in Alive : n \notin CIn /\ (\A u \in Threads : pc'[u] = "take" => old'[u].ptr # n)
                             => Due'[n] = 0 /\ nodes[n].internal # 0
    <3> SUFFICES ASSUME NEW n \in Alive, n \notin CIn, \A u \in Threads : pc'[u] = "take" => old'[u].ptr # n
                 PROVE  Due'[n] = 0 /\ nodes[n].internal # 0
      OBVIOUS
    <3>1. n # head.ptr \/ head.ptr = Null
      BY CountFacts
    <3>2. n \in Nat /\ \A u \in Threads : pc[u] = "take" => old[u].ptr # n
      BY <1>1, <1>2, CountFacts
    <3> QED
      BY <1>9, <3>1, <3>2 DEF CCounts
  <2>7. \A u \in Threads : pc'[u] = "take" => nodes[old'[u].ptr].internal <= 0
    BY <2>4 DEF CCounts
  <2>8. \A n \in CIn : nodes[n].internal <= 0
    BY DEF CCounts
  <2> QED
    BY <1>1, <1>3, <2>1, <2>2, <2>5, <2>6, <2>7, <2>8 DEF CCounts
<1> QED
  BY <1>3, <1>7, <1>8, <1>10

(* pop exchanges head, pointer and count: it accounts for the pointer now. *)
LEMMA CountPopExchange == ASSUME CInv, NEW t \in Threads, Count!PopExchange(t) PROVE CInv'
<1> USE DEF CInv
<1>1. pc[t] = "exchange" /\ UNCHANGED <<nodes, todo, old>>
  BY DEF Count!PopExchange
<1>2. PICK h : h = old[t].ptr
  OBVIOUS
<1>3. h \in Alive /\ h \in DOMAIN nodes /\ h \in Nat /\ h # Null
  BY <1>1, <1>2, CountFacts DEF CPlaces
<1>4. Alive' = Alive
  BY <1>1 DEF Alive
<1>5. CASE head = old[t]
  <2>1. head' = nodes[h].next /\ pc' = [pc EXCEPT ![t] = "take"] /\ head.ptr = h
    BY <1>1, <1>2, <1>5 DEF Count!PopExchange, Count!Goto
  <2>2. pc'[t] = "take" /\ \A u \in Threads : u # t => pc'[u] = pc[u]
    BY <2>1 DEF CType
  <2>3. h \in CIn /\ CIn' = CIn \ {h} /\ CListOk'
    <3>1. h \in CIn /\ IsChain(CIn \ {h}, NextOf(nodes)[h], NextOf(nodes))
      BY <1>3, <2>1, ChainPop DEF CListOk
    <3>2. NextOf(nodes)[h] = head'.ptr
      BY <1>3, <2>1 DEF NextOf
    <3>3. IsChain(CIn \ {h}, head'.ptr, NextOf(nodes'))
      BY <1>1, <3>1, <3>2
    <3>4. Linked(head'.ptr, NextOf(nodes')) = CIn \ {h}
      BY <1>1, <3>3, FoundNext DEF CType
    <3> QED
      BY <3>1, <3>3, <3>4 DEF CIn, CListOk
  <2>4. \A n \in Nat : n # h => Holders(n)' = Holders(n)
    BY <1>1, <1>2, <2>2 DEF Holders
  <2>5. t \in Holders(h) /\ Holders(h)' = Holders(h) \ {t}
    BY <1>1, <1>2, <2>2 DEF Holders
  <2>6. /\ IsFiniteSet(Holders(h)') /\ Cardinality(Holders(h)') = Cardinality(Holders(h)) - 1
        /\ Cardinality(Holders(h)) \in Nat
    BY <1>3, <2>5, CountFacts, FS_RemoveElement
  <2>7. CType'
    <3>1. \A n \in Nat : IsFiniteSet(Holders(n)')
      BY <2>4, <2>6, CountFacts
    <3>2. head' \in CountedPtr
      BY <1>3, <2>1, CountFacts DEF CountNode
    <3>3. pc' \in [Threads -> {"idle", "pop", "exchange", "take", "release"}]
      BY <2>1 DEF CType
    <3>4. \A u \in Threads : pc'[u] # "idle" => todo'[u] # <<>>
      BY <1>1, <2>2 DEF CType
    <3> QED
      BY <1>1, <3>1, <3>2, <3>3, <3>4 DEF CType
  <2>8. CPlaces'
    <3>1. ASSUME NEW u \in Threads, u # t, pc[u] = "take" PROVE old[u].ptr # h
      BY <2>3, <3>1 DEF CPlaces
    <3> QED
      BY <1>1, <1>2, <1>3, <1>4, <2>2, <2>3, <3>1 DEF CPlaces
  <2>9. \A n \in Nat : n # h => Due'[n] = Due[n]
    BY <1>1, <2>4, DueFacts
  <2>10. Due'[h] = Due[h] - 1 /\ Due[h] \in Int /\ old[t].ext = Due[h] + 1
    <3>1. nodes[h].internal \in Int
      BY <1>3, CountFacts DEF CountNode
    <3>2. Due'[h] = Due[h] - 1 /\ Due[h] \in Int
      BY <1>1, <1>3, <2>6, <3>1, DueFacts
    <3> QED
      BY <1>2, <1>3, <1>5, <3>2 DEF CCounts
  <2>11. CCounts'
    <3>1. head'.ptr # Null => head'.ext = Due'[head'.ptr] + 1
      <4>1. nodes[h].next.ptr # Null => nodes[h].next.ptr # h /\ nodes[h].next.ptr \in Nat
        BY <2>3, CountFacts
      <4> QED
        BY <2>1, <2>3, <2>9, <4>1 DEF CCounts
    <3>2. \A n \in CIn' : nodes[n].next.ptr # Null => nodes[n].next.ext = Due'[nodes[n].next.ptr] + 1
      <4> SUFFICES ASSUME NEW n \in CIn, nodes[n].next.ptr # Null
                   PROVE  nodes[n].next.ext = Due'[nodes[n].next.ptr] + 1
        BY <2>3
      <4>1. nodes[n].next.ptr # h /\ nodes[n].next.ptr \in Nat
        BY <2>1, CountFacts
      <4> QED
        BY <2>9, <4>1 DEF CCounts
    <3>3. \A u \in Threads : pc'[u] = "take" => old[u].ext = Due'[old[u].ptr] + 2
      <4> SUFFICES ASSUME NEW u \in Threads, pc'[u] = "take" PROVE old[u].ext = Due'[old[u].ptr] + 2
        OBVIOUS
      <4>1. CASE u = t
        BY <1>2, <2>10, <4>1
      <4>2. CASE u # t
        <5>1. pc[u] = "take" /\ old[u].ptr # h /\ old[u].ptr \in Nat
          BY <2>2, <2>3, <4>2, CountFacts DEF CPlaces
        <5> QED
          BY <2>9, <5>1 DEF CCounts
      <4> QED
        BY <4>1, <4>2
    <3>4. \A u \in Threads : pc'[u] = "take" => nodes[old[u].ptr].internal <= 0
      BY <1>2, <2>2, <2>3 DEF CCounts
    <3>5. \A n \in Alive : n \notin CIn' /\ (\A u \in Threads : pc'[u] = "take" => old[u].ptr # n)
                               => Due'[n] = 0 /\ nodes[n].internal # 0
      <4> SUFFICES ASSUME NEW n \in Alive, n \notin CIn', \A u \in Threads : pc'[u] = "take" => old[u].ptr # n
                   PROVE  Due'[n] = 0 /\ nodes[n].internal # 0
        OBVIOUS
      <4>1. n # h
        BY <1>2, <2>2
      <4>2. n \notin CIn /\ n \in Nat /\ \A u \in Threads : pc[u] = "take" => old[u].ptr # n
        BY <1>1, <2>2, <2>3, <4>1, CountFacts
      <4> QED
        BY <2>9, <4>1, <4>2 DEF CCounts
    <3>6. \A n \in CIn' : nodes[n].internal <= 0
      BY <2>3 DEF CCounts
    <3> QED
      BY <1>1, <1>4, <3>1, <3>2, <3>3, <3>4, <3>5, <3>6 DEF CCounts
  <2> QED
    BY <2>3, <2>7, <2>8, <2>11
<1>6. CASE head # old[t]
  <2>1. head' = head /\ pc' = [pc EXCEPT ![t] = "release"]
    BY <1>1, <1>6 DEF Count!PopExchange, Count!Goto
  <2>2. pc'[t] = "release" /\ \A u \in Threads : u # t => pc'[u] = pc[u]
    BY <2>1 DEF CType
  <2>3. CIn' = CIn /\ CListOk'
    BY <1>1, <2>1 DEF CIn, CListOk
  <2>4. \A n \in Nat : Holders(n)' = Holders(n)
    BY <1>1, <2>2 DEF Holders
  <2>5. CType'
    <3>1. pc' \in [Threads -> {"idle", "pop", "exchange", "take", "release"}]
      BY <2>1 DEF CType
    <3> QED
      BY <1>1, <2>1, <2>2, <2>4, <3>1 DEF CType
  <2>6. CPlaces'
    BY <1>1, <1>4, <2>2, <2>3 DEF CPlaces
  <2>7. Due' = Due
    BY <1>1, <2>4 DEF Due
  <2>8. CCounts'
    <3>1. \A u \in Threads : pc'[u] = "take" <=> pc[u] = "take"
      BY <1>1, <2>2
    <3> QED
      BY <1>1, <1>4, <2>1, <2>3, <2>7, <3>1 DEF CCounts
  <2> QED
    BY <2>3, <2>5, <2>6, <2>8
<1> QED
  BY <1>5, <1>6

Counted(node, k) == [node EXCEPT !.internal = @ + k, !.alive = node.internal + k # 0]

(* A node whose count is added to. *)
LEMMA CountedNode ==
    ASSUME NEW node \in CountNode, NEW k \in Int, NEW made, made = Counted(node, k)
    PROVE  /\ made \in CountNode /\ made.next = node.next /\ made.internal = node.internal + k
           /\ made.alive <=> node.internal + k # 0
<1>1. PICK b \in BOOLEAN : b = (node.internal + k # 0)
  OBVIOUS
<1> DEFINE added == [node EXCEPT !.internal = @ + k]
<1>2. made = [node EXCEPT !.internal = @ + k, !.alive = b]
  BY <1>1 DEF Counted
<1>3. added \in CountNode /\ added.next = node.next /\ added.internal = node.internal + k
  BY DEF CountNode
<1>4. [added EXCEPT !.alive = b] = [node EXCEPT !.internal = @ + k, !.alive = b]
  BY DEF CountNode
<1>5. made = [added EXCEPT !.alive = b]
  BY <1>2, <1>4
<1> HIDE DEF added
<1>6. /\ [added EXCEPT !.alive = b] \in CountNode
      /\ [added EXCEPT !.alive = b].next = added.next
      /\ [added EXCEPT !.alive = b].internal = added.internal
      /\ [added EXCEPT !.alive = b].alive = b
  BY <1>1, <1>3 DEF CountNode
<1> QED
  BY <1>1, <1>3, <1>5, <1>6

(* The counts of a node are added to, and it is deleted at zero. *)
LEMMA CountAdded ==
    ASSUME nodes \in Seq(CountNode), NEW n \in DOMAIN nodes, NEW k \in Int, NEW node,
           node = nodes[n] \/ node = [nodes[n] EXCEPT !.data = NoData],
           nodes' = Count!Add(n, node, k)
    PROVE  /\ nodes' \in Seq(CountNode) /\ DOMAIN nodes' = DOMAIN nodes
           /\ \A m \in DOMAIN nodes : m # n => nodes'[m] = nodes[m]
           /\ nodes'[n].next = nodes[n].next /\ nodes'[n].internal = nodes[n].internal + k
           /\ nodes'[n].alive <=> nodes[n].internal + k # 0
<1>1. DOMAIN nodes = 1 .. Len(nodes) /\ Len(nodes) \in Nat /\ \A m \in DOMAIN nodes : nodes[m] \in CountNode
  OBVIOUS
<1>2. /\ node \in CountNode /\ node.next = nodes[n].next /\ node.internal = nodes[n].internal
      /\ node.internal \in Int
  <2>1. nodes[n] \in CountNode
    BY <1>1
  <2>2. CASE node = nodes[n]
    BY <2>1, <2>2 DEF CountNode
  <2>3. CASE node = [nodes[n] EXCEPT !.data = NoData]
    BY <2>1, <2>3 DEF CountNode
  <2> QED
    BY <2>2, <2>3
<1>3. PICK made : made = Counted(node, k)
  OBVIOUS
<1>4. /\ made \in CountNode /\ made.next = node.next /\ made.internal = node.internal + k
      /\ made.alive <=> node.internal + k # 0
  BY <1>2, <1>3, CountedNode
<1>5. nodes' = [m \in DOMAIN nodes |-> IF m = n THEN made ELSE nodes[m]]
  BY <1>3 DEF Count!Add, Counted
<1>6. nodes' \in [1 .. Len(nodes) -> CountNode]
  BY <1>1, <1>4, <1>5
<1>7. nodes' \in Seq(CountNode)
  BY <1>1, <1>6, SeqDef
<1>8. /\ DOMAIN nodes' = DOMAIN nodes /\ nodes'[n] = made
      /\ \A m \in DOMAIN nodes : m # n => nodes'[m] = nodes[m]
  BY <1>5
<1> QED
  BY <1>2, <1>4, <1>7, <1>8

(* A list whose nodes lead on as before. *)
LEMMA NextSame ==
    ASSUME NEW T, nodes' \in Seq(T), NEW S, NEW f, IsChain(S, f, NextOf(nodes)),
           \A m \in S : m \in DOMAIN nodes' /\ nodes'[m].next = nodes[m].next
    PROVE  IsChain(S, f, NextOf(nodes')) /\ Linked(f, NextOf(nodes')) = S
<1>1. \A m \in S : m \in DOMAIN nodes
  BY ChainFacts DEF NextOf
<1>2. \A m \in S : m \in DOMAIN NextOf(nodes') /\ NextOf(nodes')[m] = NextOf(nodes)[m]
  BY <1>1 DEF NextOf
<1>3. IsChain(S, f, NextOf(nodes'))
  BY <1>2, ChainSame
<1>4. Linked(f, NextOf(nodes')) = S
  BY <1>3, FoundNext
<1> QED
  BY <1>3, <1>4

(* The pop that moved head accounts for the others: the last one deletes.  *)
LEMMA CountPopTake == ASSUME CInv, NEW t \in Threads, Count!PopTake(t) PROVE CInv'
<1> USE DEF CInv
<1>1. PICK h : h = old[t].ptr
  OBVIOUS
<1>2. /\ pc[t] = "take" /\ pc' = [pc EXCEPT ![t] = "idle"] /\ todo' = [todo EXCEPT ![t] = Tail(@)]
      /\ nodes' = Count!Add(h, [nodes[h] EXCEPT !.data = NoData], old[t].ext - 2)
      /\ UNCHANGED <<head, old>>
  BY <1>1, CountSame DEF Count!PopTake, Count!Return, Count!Goto
<1>3. /\ pc'[t] = "idle" /\ DOMAIN todo' = Threads
      /\ \A u \in Threads : u # t => pc'[u] = pc[u] /\ todo'[u] = todo[u]
  BY <1>2 DEF CType
<1>4. h \in Alive /\ h \in DOMAIN nodes /\ h \in Nat /\ h \notin CIn
  BY <1>1, <1>2, CountFacts DEF CPlaces
<1>5. /\ nodes[h].internal \in Int /\ Cardinality(Holders(h)) \in Nat /\ old[t].ext \in Int
      /\ old[t].ext - 2 = Cardinality(Holders(h)) - nodes[h].internal
  <2>1. nodes[h].internal \in Int /\ Cardinality(Holders(h)) \in Nat
    BY <1>4, CountFacts DEF CountNode
  <2>2. old[t].ext \in Int
    BY DEF CType, CountedPtr
  <2>3. old[t].ext = Due[h] + 2 /\ Due[h] = Cardinality(Holders(h)) - nodes[h].internal
    BY <1>1, <1>2, <1>4, DueFacts DEF CCounts
  <2> QED
    BY <2>1, <2>2, <2>3
<1>6. /\ nodes' \in Seq(CountNode) /\ DOMAIN nodes' = DOMAIN nodes
      /\ \A m \in DOMAIN nodes : m # h => nodes'[m] = nodes[m]
      /\ nodes'[h].next = nodes[h].next
      /\ nodes'[h].internal = Cardinality(Holders(h))
      /\ nodes'[h].alive <=> Cardinality(Holders(h)) # 0
  <2>1. nodes \in Seq(CountNode) /\ old[t].ext - 2 \in Int
    BY <1>5 DEF CType
  <2>2. /\ nodes' \in Seq(CountNode) /\ DOMAIN nodes' = DOMAIN nodes
        /\ \A m \in DOMAIN nodes : m # h => nodes'[m] = nodes[m]
        /\ nodes'[h].next = nodes[h].next
        /\ nodes'[h].internal = nodes[h].internal + (old[t].ext - 2)
        /\ nodes'[h].alive <=> nodes[h].internal + (old[t].ext - 2) # 0
    BY <1>2, <1>4, <2>1, CountAdded
  <2>3. nodes[h].internal + (old[t].ext - 2) = Cardinality(Holders(h))
    BY <1>5
  <2> QED
    BY <2>2, <2>3
<1>7. \A m : m \in Alive' <=> m \in Alive /\ (m = h => Holders(h) # {})
  <2>1. Cardinality(Holders(h)) = 0 <=> Holders(h) = {}
    BY <1>4, CountFacts, FS_EmptySet
  <2> QED
    BY <1>4, <1>6, <2>1 DEF Alive
<1>8. CIn' = CIn /\ CListOk'
  <2>1. \A m \in CIn : m \in DOMAIN nodes' /\ nodes'[m].next = nodes[m].next
    BY <1>4, <1>6, CountFacts
  <2>2. IsChain(CIn, head.ptr, NextOf(nodes)) /\ nodes' \in Seq(CountNode)
    BY <1>6 DEF CListOk
  <2>3. IsChain(CIn, head.ptr, NextOf(nodes')) /\ Linked(head.ptr, NextOf(nodes')) = CIn
    BY <2>1, <2>2, NextSame
  <2> QED
    BY <1>2, <2>3 DEF CIn, CListOk
<1>9. \A n \in Nat : Holders(n)' = Holders(n)
  BY <1>2, <1>3 DEF Holders
<1>10. CType'
  <2>1. pc' \in [Threads -> {"idle", "pop", "exchange", "take", "release"}]
    BY <1>2 DEF CType
  <2>2. \A u \in Threads : pc'[u] # "idle" => todo'[u] # <<>>
    BY <1>3 DEF CType
  <2> QED
    BY <1>2, <1>3, <1>6, <1>9, <2>1, <2>2 DEF CType
<1>11. CPlaces'
  <2>1. CIn' \subseteq Alive'
    BY <1>4, <1>7, <1>8 DEF CPlaces
  <2>2. ASSUME NEW u \in Threads, pc'[u] \in {"exchange", "release", "take"} PROVE old[u].ptr \in Alive'
    <3>1. u # t /\ pc[u] \in {"exchange", "release", "take"} /\ old[u].ptr \in Alive
      BY <1>3, <2>2 DEF CPlaces
    <3>2. CASE pc[u] = "take"
      BY <1>1, <1>2, <1>7, <3>1, <3>2 DEF CPlaces
    <3>3. CASE pc[u] # "take" /\ old[u].ptr = h
      BY <1>7, <3>1, <3>3 DEF Holders
    <3>4. CASE old[u].ptr # h
      BY <1>7, <3>1, <3>4
    <3> QED
      BY <3>2, <3>3, <3>4
  <2> QED
    BY <1>2, <1>3, <1>8, <2>1, <2>2 DEF CPlaces
<1>12. \A n \in DOMAIN nodes : n # h => Due'[n] = Due[n]
  <2> SUFFICES ASSUME NEW n \in DOMAIN nodes, n # h PROVE Due'[n] = Due[n]
    OBVIOUS
  <2>1. n \in Nat /\ Holders(n)' = Holders(n) /\ nodes'[n] = nodes[n]
    BY <1>6, <1>9, CountFacts
  <2> QED
    BY <2>1, DueFacts
<1>13. Due'[h] = 0
  <2>1. Due'[h] = Cardinality(Holders(h)') - nodes'[h].internal
    BY <1>4, DueFacts
  <2> QED
    BY <1>4, <1>5, <1>6, <1>9, <2>1
<1>14. CCounts'
  <2>1. head.ptr # Null => head.ext = Due'[head.ptr] + 1
    <3>1. head.ptr # Null => head.ptr # h /\ head.ptr \in DOMAIN nodes
      BY <1>4, CountFacts
    <3> QED
      BY <1>12, <3>1 DEF CCounts
  <2>2. \A n \in CIn : nodes'[n].next.ptr # Null => nodes'[n].next.ext = Due'[nodes'[n].next.ptr] + 1
    <3> SUFFICES ASSUME NEW n \in CIn, nodes[n].next.ptr # Null
                 PROVE  nodes[n].next.ext = Due'[nodes[n].next.ptr] + 1
      BY <1>4, <1>6, CountFacts
    <3>1. nodes[n].next.ptr # h /\ nodes[n].next.ptr \in DOMAIN nodes
      BY <1>4, CountFacts
    <3> QED
      BY <1>12, <3>1 DEF CCounts
  <2>3. ASSUME NEW u \in Threads, pc'[u] = "take"
        PROVE  old[u].ext = Due'[old[u].ptr] + 2 /\ nodes'[old[u].ptr].internal <= 0
    <3>1. u # t /\ pc[u] = "take"
      BY <1>3, <2>3
    <3>2. old[u].ptr # h /\ old[u].ptr \in DOMAIN nodes
      BY <1>1, <1>2, <3>1, CountFacts DEF CPlaces
    <3> QED
      BY <1>6, <1>12, <3>1, <3>2 DEF CCounts
  <2>4. \A n \in CIn : nodes'[n].internal <= 0
    BY <1>4, <1>6, CountFacts DEF CCounts
  <2>5. \A n \in Alive' : n \notin CIn /\ (\A u \in Threads : pc'[u] = "take" => old[u].ptr # n)
                             => Due'[n] = 0 /\ nodes'[n].internal # 0
    <3> SUFFICES ASSUME NEW n \in Alive', n \notin CIn, \A u \in Threads : pc'[u] = "take" => old[u].ptr # n
                 PROVE  Due'[n] = 0 /\ nodes'[n].internal # 0
      OBVIOUS
    <3>1. CASE n = h
      <4>1. nodes'[h].alive
        BY <3>1 DEF Alive
      <4> QED
        BY <1>6, <1>13, <3>1, <4>1
    <3>2. CASE n # h
      <4>1. n \in Alive /\ n \in DOMAIN nodes /\ \A u \in Threads : pc[u] = "take" => old[u].ptr # n
        BY <1>1, <1>3, <1>7, <3>2, CountFacts
      <4> QED
        BY <1>6, <1>12, <3>2, <4>1 DEF CCounts
    <3> QED
      BY <3>1, <3>2
  <2> QED
    BY <1>2, <1>8, <2>1, <2>2, <2>3, <2>4, <2>5 DEF CCounts
<1> QED
  BY <1>8, <1>10, <1>11, <1>14

(* A pop that failed counts itself out: the last one deletes. *)
LEMMA CountPopRelease == ASSUME CInv, NEW t \in Threads, Count!PopRelease(t) PROVE CInv'
<1> USE DEF CInv
<1>1. PICK h : h = old[t].ptr
  OBVIOUS
<1>2. /\ pc[t] = "release" /\ pc' = [pc EXCEPT ![t] = "pop"] /\ nodes' = Count!Add(h, nodes[h], -1)
      /\ UNCHANGED <<head, todo, old>>
  BY <1>1 DEF Count!PopRelease, Count!Goto
<1>3. pc'[t] = "pop" /\ \A u \in Threads : u # t => pc'[u] = pc[u]
  BY <1>2 DEF CType
<1>4. h \in Alive /\ h \in DOMAIN nodes /\ h \in Nat
  BY <1>1, <1>2, CountFacts DEF CPlaces
<1>5. /\ nodes' \in Seq(CountNode) /\ DOMAIN nodes' = DOMAIN nodes
      /\ \A m \in DOMAIN nodes : m # h => nodes'[m] = nodes[m]
      /\ nodes'[h].next = nodes[h].next
      /\ nodes'[h].internal = nodes[h].internal - 1 /\ nodes[h].internal \in Int
      /\ nodes'[h].alive <=> nodes'[h].internal # 0
  <2>1. nodes \in Seq(CountNode) /\ -1 \in Int
    BY DEF CType
  <2>2. /\ nodes' \in Seq(CountNode) /\ DOMAIN nodes' = DOMAIN nodes
        /\ \A m \in DOMAIN nodes : m # h => nodes'[m] = nodes[m]
        /\ nodes'[h].next = nodes[h].next
        /\ nodes'[h].internal = nodes[h].internal + -1
        /\ nodes'[h].alive <=> nodes[h].internal + -1 # 0
    BY <1>2, <1>4, <2>1, CountAdded
  <2>3. nodes[h].internal \in Int
    BY <1>4, CountFacts DEF CountNode
  <2> QED
    BY <2>2, <2>3
<1>6. \A n \in Nat : n # h => Holders(n)' = Holders(n)
  BY <1>1, <1>2, <1>3 DEF Holders
<1>7. t \in Holders(h) /\ Holders(h)' = Holders(h) \ {t}
  BY <1>1, <1>2, <1>3 DEF Holders
<1>8. /\ IsFiniteSet(Holders(h)') /\ Cardinality(Holders(h)') = Cardinality(Holders(h)) - 1
      /\ Cardinality(Holders(h)) \in Nat /\ Cardinality(Holders(h)') \in Nat
      /\ Cardinality(Holders(h)') = 0 => Holders(h)' = {}
  <2>1. IsFiniteSet(Holders(h)) /\ Cardinality(Holders(h)) \in Nat
    BY <1>4, CountFacts
  <2>2. /\ IsFiniteSet(Holders(h) \ {t})
        /\ Cardinality(Holders(h) \ {t}) = Cardinality(Holders(h)) - 1
    BY <1>7, <2>1, FS_RemoveElement
  <2>3. IsFiniteSet(Holders(h)') /\ Cardinality(Holders(h)') = Cardinality(Holders(h)) - 1
    BY <1>7, <2>2
  <2>4. /\ Cardinality(Holders(h)') \in Nat
        /\ Cardinality(Holders(h)') = 0 => Holders(h)' = {}
    BY <2>3, FS_EmptySet, FS_CardinalityType
  <2> QED
    BY <2>1, <2>3, <2>4
<1>9. \A n \in DOMAIN nodes : Due'[n] = Due[n]
  <2>1. ASSUME NEW n \in DOMAIN nodes, n # h PROVE Due'[n] = Due[n]
    <3>1. n \in Nat /\ Holders(n)' = Holders(n) /\ nodes'[n] = nodes[n]
      BY <1>5, <1>6, <2>1, CountFacts
    <3> QED
      BY <3>1, DueFacts
  <2>2. Due'[h] = Due[h]
    BY <1>4, <1>5, <1>8, DueFacts
  <2> QED
    BY <2>1, <2>2
<1>10. ASSUME h \in CIn \/ \E u \in Threads : pc[u] = "take" /\ old[u].ptr = h
       PROVE  nodes'[h].internal <= 0 /\ nodes'[h].internal # 0 /\ h \in Alive'
  <2>1. nodes[h].internal <= 0
    BY <1>10 DEF CCounts
  <2> QED
    BY <1>4, <1>5, <2>1 DEF Alive
<1>11. ASSUME ~(h \in CIn \/ \E u \in Threads : pc[u] = "take" /\ old[u].ptr = h)
       PROVE  nodes'[h].internal = Cardinality(Holders(h)')
  <2>1. Due[h] = 0
    BY <1>4, <1>11 DEF CCounts
  <2> QED
    BY <1>4, <1>5, <1>8, <2>1, DueFacts
<1>12. \A m : m # h => (m \in Alive' <=> m \in Alive)
  BY <1>5 DEF Alive
<1>13. Holders(h)' # {} => h \in Alive'
  <2>1. ASSUME Holders(h)' # {}, ~(h \in CIn \/ \E u \in Threads : pc[u] = "take" /\ old[u].ptr = h)
        PROVE  h \in Alive'
    BY <1>4, <1>5, <1>8, <1>11, <2>1 DEF Alive
  <2> QED
    BY <1>10, <2>1
<1>14. CIn' = CIn /\ CListOk'
  <2>1. \A m \in CIn : m \in DOMAIN nodes' /\ nodes'[m].next = nodes[m].next
    BY <1>4, <1>5, CountFacts
  <2>2. IsChain(CIn, head.ptr, NextOf(nodes)) /\ nodes' \in Seq(CountNode)
    BY <1>5 DEF CListOk
  <2>3. IsChain(CIn, head.ptr, NextOf(nodes')) /\ Linked(head.ptr, NextOf(nodes')) = CIn
    BY <2>1, <2>2, NextSame
  <2> QED
    BY <1>2, <2>3 DEF CIn, CListOk
<1>15. CType'
  <2>1. pc' \in [Threads -> {"idle", "pop", "exchange", "take", "release"}]
    BY <1>2 DEF CType
  <2>2. \A u \in Threads : pc'[u] # "idle" => todo'[u] # <<>>
    BY <1>2, <1>3 DEF CType
  <2>3. \A n \in Nat : IsFiniteSet(Holders(n)')
    BY <1>6, <1>8, CountFacts
  <2> QED
    BY <1>2, <1>5, <2>1, <2>2, <2>3 DEF CType
<1>16. CPlaces'
  <2>1. CIn' \subseteq Alive'
    BY <1>10, <1>12, <1>14 DEF CPlaces
  <2>2. ASSUME NEW u \in Threads, pc'[u] \in {"exchange", "release", "take"} PROVE old[u].ptr \in Alive'
    <3>1. u # t /\ pc[u] \in {"exchange", "release", "take"} /\ old[u].ptr \in Alive
      BY <1>3, <2>2 DEF CPlaces
    <3>2. CASE old[u].ptr = h /\ pc[u] = "take"
      BY <1>10, <3>1, <3>2
    <3>3. CASE old[u].ptr = h /\ pc[u] # "take"
      <4>1. u \in Holders(h)'
        BY <1>7, <3>1, <3>3 DEF Holders
      <4> QED
        BY <1>13, <3>3, <4>1
    <3>4. CASE old[u].ptr # h
      BY <1>12, <3>1, <3>4
    <3> QED
      BY <3>2, <3>3, <3>4
  <2> QED
    BY <1>2, <1>3, <1>14, <2>1, <2>2 DEF CPlaces
<1>17. CCounts'
  <2>1. head.ptr # Null => head.ext = Due'[head.ptr] + 1
    BY <1>9, CountFacts DEF CCounts
  <2>2. \A n \in CIn : nodes'[n].next.ptr # Null => nodes'[n].next.ext = Due'[nodes'[n].next.ptr] + 1
    <3>0. \A n \in CIn : nodes'[n].next = nodes[n].next
      BY <1>5, CountFacts
    <3> SUFFICES ASSUME NEW n \in CIn, nodes[n].next.ptr # Null
                 PROVE  nodes[n].next.ext = Due'[nodes[n].next.ptr] + 1
      BY <3>0
    <3>1. nodes[n].next.ptr \in DOMAIN nodes
      BY CountFacts
    <3> QED
      BY <1>9, <3>1 DEF CCounts
  <2>3. ASSUME NEW u \in Threads, pc'[u] = "take"
        PROVE  old[u].ext = Due'[old[u].ptr] + 2 /\ nodes'[old[u].ptr].internal <= 0
    <3>1. u # t /\ pc[u] = "take"
      BY <1>3, <2>3
    <3>2. old[u].ptr \in DOMAIN nodes
      BY <3>1, CountFacts DEF CPlaces
    <3>3. nodes'[old[u].ptr].internal <= 0
      BY <1>5, <1>10, <3>1, <3>2 DEF CCounts
    <3> QED
      BY <1>9, <3>1, <3>2, <3>3 DEF CCounts
  <2>4. \A n \in CIn : nodes'[n].internal <= 0
    BY <1>5, <1>10, CountFacts DEF CCounts
  <2>5. \A n \in Alive' : n \notin CIn /\ (\A u \in Threads : pc'[u] = "take" => old[u].ptr # n)
                             => Due'[n] = 0 /\ nodes'[n].internal # 0
    <3> SUFFICES ASSUME NEW n \in Alive', n \notin CIn, \A u \in Threads : pc'[u] = "take" => old[u].ptr # n
                 PROVE  Due'[n] = 0 /\ nodes'[n].internal # 0
      OBVIOUS
    <3>1. n \in Alive /\ n \in DOMAIN nodes /\ \A u \in Threads : pc[u] = "take" => old[u].ptr # n
      BY <1>2, <1>3, <1>4, <1>12, CountFacts
    <3>2. Due[n] = 0 /\ nodes[n].internal # 0
      BY <3>1 DEF CCounts
    <3>3. CASE n = h
      <4>1. nodes'[h].alive
        BY <3>3 DEF Alive
      <4> QED
        BY <1>5, <1>9, <3>1, <3>2, <3>3, <4>1
    <3>4. CASE n # h
      BY <1>5, <1>9, <3>1, <3>2, <3>4
    <3> QED
      BY <3>3, <3>4
  <2> QED
    BY <1>2, <1>14, <2>1, <2>2, <2>3, <2>4, <2>5 DEF CCounts
<1> QED
  BY <1>14, <1>15, <1>16, <1>17

(* The destructor pops, alone: it deletes every node that it takes.        *)
LEMMA CountDestroy == ASSUME CInv, Count!Destroy PROVE CInv'
<1> USE DEF CInv
<1>1. PICK h : h = head.ptr
  OBVIOUS
<1>2. /\ h # Null /\ head' = nodes[h].next /\ UNCHANGED <<pc, todo, old>>
      /\ nodes' = Count!Add(h, [nodes[h] EXCEPT !.data = NoData], head.ext + 1 - 2)
      /\ \A t \in Threads : todo[t] = <<>>
  BY <1>1, CountSame DEF Count!Destroy, Count!AllReturned
<1>3. \A t \in Threads : pc[t] = "idle"
  BY <1>2 DEF CType
<1>4. h \in CIn /\ h \in Alive /\ h \in DOMAIN nodes /\ h \in Nat
  BY <1>1, <1>2, CountFacts
<1>5. \A n \in Nat : Holders(n) = {} /\ Holders(n)' = {}
  BY <1>2, <1>3 DEF Holders
<1>6. head.ext + 1 - 2 \in Int /\ nodes[h].internal + (head.ext + 1 - 2) = 0
  <2>1. nodes[h].internal \in Int /\ head.ext \in Int
    BY <1>4, CountFacts DEF CType, CountNode, CountedPtr
  <2>2. Holders(h) = {} /\ Cardinality(Holders(h)) = 0
    BY <1>4, <1>5, FS_EmptySet
  <2>3. Due[h] = 0 - nodes[h].internal
    BY <1>4, <2>2, DueFacts
  <2>4. head.ext = Due[h] + 1
    BY <1>1, <1>2 DEF CCounts
  <2> QED
    BY <2>1, <2>3, <2>4
<1>7. /\ nodes' \in Seq(CountNode) /\ DOMAIN nodes' = DOMAIN nodes
      /\ \A m \in DOMAIN nodes : m # h => nodes'[m] = nodes[m]
      /\ nodes'[h].next = nodes[h].next /\ ~nodes'[h].alive
  <2>1. nodes \in Seq(CountNode)
    BY DEF CType
  <2>2. /\ nodes' \in Seq(CountNode) /\ DOMAIN nodes' = DOMAIN nodes
        /\ \A m \in DOMAIN nodes : m # h => nodes'[m] = nodes[m]
        /\ nodes'[h].next = nodes[h].next
        /\ nodes'[h].alive <=> nodes[h].internal + (head.ext + 1 - 2) # 0
    BY <1>2, <1>4, <1>6, <2>1, CountAdded
  <2> QED
    BY <1>6, <2>2
<1>8. Alive' = Alive \ {h}
  <2>1. \A m : m \in Alive' <=> m \in Alive /\ m # h
    BY <1>7 DEF Alive
  <2> QED
    BY <2>1
<1>9. CIn' = CIn \ {h} /\ CListOk'
  <2>1. IsChain(CIn \ {h}, NextOf(nodes)[h], NextOf(nodes))
    BY <1>1, <1>2, ChainPop DEF CListOk
  <2>2. NextOf(nodes)[h] = head'.ptr
    BY <1>2, <1>4 DEF NextOf
  <2>3. \A m \in CIn \ {h} : m \in DOMAIN nodes' /\ nodes'[m].next = nodes[m].next
    BY <1>7, CountFacts
  <2>4. /\ IsChain(CIn \ {h}, NextOf(nodes)[h], NextOf(nodes'))
        /\ Linked(NextOf(nodes)[h], NextOf(nodes')) = CIn \ {h}
    BY <1>7, <2>1, <2>3, NextSame
  <2> QED
    BY <2>2, <2>4 DEF CIn, CListOk
<1>10. CType'
  <2>1. head' \in CountedPtr
    BY <1>2, <1>4, CountFacts DEF CountNode
  <2> QED
    BY <1>2, <1>5, <1>7, <2>1, FS_EmptySet DEF CType
<1>11. CPlaces'
  BY <1>2, <1>3, <1>8, <1>9 DEF CPlaces
<1>12. \A n \in DOMAIN nodes : n # h => Due'[n] = Due[n]
  <2> SUFFICES ASSUME NEW n \in DOMAIN nodes, n # h PROVE Due'[n] = Due[n]
    OBVIOUS
  <2>1. n \in Nat /\ Holders(n)' = Holders(n) /\ nodes'[n] = nodes[n]
    BY <1>5, <1>7, CountFacts
  <2> QED
    BY <2>1, DueFacts
<1>13. CCounts'
  <2>1. head'.ptr # Null => head'.ext = Due'[head'.ptr] + 1
    <3>1. nodes[h].next.ptr # Null => nodes[h].next.ptr # h /\ nodes[h].next.ptr \in DOMAIN nodes
      BY <1>4, CountFacts
    <3> QED
      BY <1>2, <1>4, <1>12, <3>1 DEF CCounts
  <2>2. \A n \in CIn' : nodes'[n].next.ptr # Null => nodes'[n].next.ext = Due'[nodes'[n].next.ptr] + 1
    <3>0. \A n \in CIn' : n \in CIn /\ nodes'[n].next = nodes[n].next
      BY <1>7, <1>9, CountFacts
    <3> SUFFICES ASSUME NEW n \in CIn, nodes[n].next.ptr # Null
                 PROVE  nodes[n].next.ext = Due'[nodes[n].next.ptr] + 1
      BY <3>0
    <3>1. nodes[n].next.ptr # h /\ nodes[n].next.ptr \in DOMAIN nodes
      BY <1>1, CountFacts
    <3> QED
      BY <1>12, <3>1 DEF CCounts
  <2>3. \A n \in CIn' : nodes'[n].internal <= 0
    BY <1>7, <1>9, CountFacts DEF CCounts
  <2>4. \A n \in Alive' : n \notin CIn' /\ (\A u \in Threads : pc'[u] = "take" => old[u].ptr # n)
                             => Due'[n] = 0 /\ nodes'[n].internal # 0
    <3> SUFFICES ASSUME NEW n \in Alive', n \notin CIn', \A u \in Threads : pc'[u] = "take" => old[u].ptr # n
                 PROVE  Due'[n] = 0 /\ nodes'[n].internal # 0
      OBVIOUS
    <3>1. n \in Alive /\ n \in DOMAIN nodes /\ n # h /\ n \notin CIn
      BY <1>8, <1>9, CountFacts
    <3>2. \A u \in Threads : pc[u] = "take" => old[u].ptr # n
      BY <1>3
    <3> QED
      BY <1>7, <1>12, <3>1, <3>2 DEF CCounts
  <2> QED
    BY <1>2, <1>3, <2>1, <2>2, <2>3, <2>4 DEF CCounts
<1> QED
  BY <1>9, <1>10, <1>11, <1>13

(* A step of the composition that is none of the stack's. *)
LEMMA CountStutter == ASSUME CInv, UNCHANGED allVars PROVE CInv'
<1>1. UNCHANGED <<nodes, head, pc, old, todo>>
  BY DEF allVars, vars
<1>2. CIn' = CIn /\ Alive' = Alive /\ Due' = Due /\ \A n \in Nat : Holders(n)' = Holders(n)
  BY <1>1 DEF CIn, Alive, Due, Holders
<1>3. CType' /\ CListOk'
  BY <1>1, <1>2 DEF CInv, CType, CListOk
<1>4. CPlaces' /\ CCounts'
  BY <1>1, <1>2 DEF CInv, CPlaces, CCounts
<1> QED
  BY <1>3, <1>4 DEF CInv

(* Any operation of the stack. *)
LEMMA CountStep == ASSUME CInv, NEW t \in Threads, Count!Step(t) PROVE CInv'
<1>1. CASE Count!Push(t)
  BY <1>1, CountPush
<1>2. CASE Count!PopCount(t)
  BY <1>2, CountPopCount
<1>3. CASE Count!PopExchange(t)
  BY <1>3, CountPopExchange
<1>4. CASE Count!PopTake(t)
  BY <1>4, CountPopTake
<1>5. CASE Count!PopRelease(t)
  BY <1>5, CountPopRelease
<1> QED
  BY <1>1, <1>2, <1>3, <1>4, <1>5 DEF Count!Step

(* What the threads are going to use exists; and a node out of the stack   *)
(* waits for a thread, so none is left when none is at work.               *)
LEMMA CountSafe == ASSUME CInv, kind = "count" PROVE NoUseAfterFree /\ NoLeak
<1> USE DEF CInv
<1>1. Chain = Count!Chain /\ Needed = Count!Needed /\ Deferred = Count!Deferred
  BY DEF Chain, Needed, Deferred, Of
<1>2. {Chain[i] : i \in DOMAIN Chain} = CIn
  BY <1>1, CountSame DEF CIn, Linked
<1>3. Needed \subseteq Alive
  BY <1>1 DEF Count!Needed, CPlaces
<1>4. NoUseAfterFree
  BY <1>2, <1>3 DEF NoUseAfterFree, CPlaces
<1>5. ASSUME \A t \in Threads : pc[t] = "idle", NEW n \in Alive, n \notin CIn PROVE FALSE
  <2>1. Due[n] = 0 /\ nodes[n].internal # 0
    BY <1>5 DEF CCounts
  <2>2. n \in Nat /\ Holders(n) = {} /\ nodes[n].internal \in Int
    BY <1>5, CountFacts DEF Holders, CountNode
  <2>3. Cardinality(Holders(n)) = 0
    BY <2>2, FS_EmptySet
  <2>4. Due[n] = Cardinality(Holders(n)) - nodes[n].internal
    BY <2>2, DueFacts
  <2> QED
    BY <2>1, <2>2, <2>3, <2>4
<1>6. (\A t \in Threads : pc[t] = "idle") => Alive = CIn
  BY <1>5 DEF CPlaces
<1>7. NoLeak
  BY <1>1, <1>2, <1>6 DEF NoLeak, Count!Deferred
<1> QED
  BY <1>4, <1>7

-----------------------------------------------------------------------------
(* TwoLockQueue.  The list from head on is what exists; tail is its last   *)
(* node, or the one before it while a push holds tail_mutex.               *)
LockNode == [data : Value \cup {NoData}, next : Nat, prev : Nat, alive : BOOLEAN]

LType ==
    /\ nodes \in Seq(LockNode) /\ head \in Nat /\ tail \in Nat /\ DOMAIN todo = Threads
    /\ pc \in [Threads -> {"idle", "move", "notify", "wake_all", "look", "last_look", "take",
                           "sleep", "asleep", "relock", "timeout"}]

LMutex ==
    /\ head_mutex \in Threads \cup {Nobody} /\ tail_mutex \in Threads \cup {Nobody}
    /\ \A t \in Threads : pc[t] = "move" <=> tail_mutex = t
    /\ \A t \in Threads : pc[t] \in {"look", "last_look", "take", "sleep"} <=> head_mutex = t

LList ==
    /\ ListOk /\ head # Null /\ tail \in In /\ Alive = In
    /\ tail_mutex = Nobody => nodes[tail].next = Null
    /\ tail_mutex # Nobody => nodes[tail].next # Null /\ nodes[nodes[tail].next].next = Null
    /\ \A n \in In : n # head => nodes[n].prev \in In /\ nodes[nodes[n].prev].next = n

(* A pop that is going to take the first node has it. *)
LTake ==
    \A t \in Threads : pc[t] = "take" =>
        head # tail \/ (bstop /\ TwoLock!Operation(t) \in TwoLock!Waits)

LInv == LType /\ LMutex /\ LList /\ LTake

(* A sequence with one of its elements changed. *)
LEMMA Changed ==
    ASSUME NEW T, NEW s \in Seq(T), NEW n \in DOMAIN s, NEW x \in T
    PROVE  /\ [s EXCEPT ![n] = x] \in Seq(T) /\ DOMAIN [s EXCEPT ![n] = x] = DOMAIN s
           /\ [s EXCEPT ![n] = x][n] = x
           /\ \A m \in DOMAIN s : m # n => [s EXCEPT ![n] = x][m] = s[m]
<1>1. DOMAIN s = 1 .. Len(s) /\ Len(s) \in Nat /\ \A m \in DOMAIN s : s[m] \in T
  OBVIOUS
<1> DEFINE r == [m \in DOMAIN s |-> IF m = n THEN x ELSE s[m]]
<1>2. [s EXCEPT ![n] = x] = r
  OBVIOUS
<1>3. r \in [1 .. Len(s) -> T]
  BY <1>1
<1>4. r \in Seq(T)
  BY <1>1, <1>3, SeqDef
<1> QED
  BY <1>2, <1>4

(* What is known of the nodes and of the pointers. *)
LEMMA LocksFacts ==
    ASSUME LInv
    PROVE  /\ Nobody \notin Threads
           /\ DOMAIN nodes = 1 .. Len(nodes) /\ Len(nodes) \in Nat
           /\ \A n \in DOMAIN nodes : nodes[n] \in LockNode
           /\ In \subseteq DOMAIN nodes /\ In \subseteq Alive /\ Alive \subseteq In
           /\ Null \notin In /\ head \in In /\ tail \in In
           /\ \A n \in In : nodes[n].next \in In \cup {Null} /\ nodes[n].next # n
                            /\ nodes[n].next # head
           /\ \A n, m \in In : nodes[n].next = nodes[m].next => n = m
<1>1. /\ Nobody \notin Threads /\ In \subseteq Alive /\ Alive \subseteq In /\ tail \in In
      /\ DOMAIN nodes = 1 .. Len(nodes) /\ Len(nodes) \in Nat
      /\ \A n \in DOMAIN nodes : nodes[n] \in LockNode
  <2>1. nodes \in Seq(LockNode)
    BY DEF LInv, LType
  <2>2. Nobody \notin Threads
    BY ThreadsAssumption
  <2> QED
    BY <2>1, <2>2 DEF LInv, LList
<1>2. In \subseteq DOMAIN nodes /\ Null \notin In /\ head \in In
  BY InFacts DEF LInv, LList
<1>3. /\ \A n \in In : /\ SuccOf(nodes)[n] \in In \cup {Null} /\ SuccOf(nodes)[n] # n
                       /\ SuccOf(nodes)[n] # Null => SuccOf(nodes)[n] # head
      /\ \A n, m \in In : SuccOf(nodes)[n] = SuccOf(nodes)[m] => n = m
  BY ChainFacts DEF LInv, LList, ListOk
<1>4. \A n \in In : SuccOf(nodes)[n] = nodes[n].next
  BY <1>2 DEF SuccOf
<1> QED
  BY <1>1, <1>2, <1>3, <1>4 DEF LInv, LList

(* The queue begins with a node that has no data. *)
LEMMA LocksInit == TwoLock!Init => LInv
<1> SUFFICES ASSUME TwoLock!Init PROVE LInv
  OBVIOUS
<1>1. /\ nodes = <<TwoLock!EmptyNode(Null)>> /\ head = 1 /\ tail = 1
      /\ head_mutex = Nobody /\ tail_mutex = Nobody
      /\ pc = [t \in Threads |-> "idle"] /\ todo = LockProgram
  BY DEF TwoLock!Init, TwoLock!ThreadsInit, TwoLock!EmptyNode, TwoLock!Null, TwoLock!NoData,
         TwoLock!Nobody, Null, NoData, Nobody
<1>2. TwoLock!EmptyNode(Null) \in LockNode /\ TwoLock!EmptyNode(Null).next = Null
      /\ TwoLock!EmptyNode(Null).alive
  BY DEF TwoLock!EmptyNode, TwoLock!Null, TwoLock!NoData, Null, NoData, LockNode
<1>3. nodes \in Seq(LockNode) /\ DOMAIN nodes = {1} /\ nodes[1].next = Null /\ nodes[1].alive
  BY <1>1, <1>2
<1>4. 1 \in DOMAIN SuccOf(nodes) /\ SuccOf(nodes)[1] = Null /\ 1 # Null
  BY <1>3 DEF SuccOf, Null
<1>5. IsChain({1}, 1, SuccOf(nodes))
  BY <1>4, ChainOne
<1>6. Linked(1, SuccOf(nodes)) = {1}
  BY <1>3, <1>5, FoundIn
<1>7. In = {1} /\ ListOk
  BY <1>1, <1>5, <1>6 DEF In, ListOk
<1>8. Alive = {1}
  BY <1>3 DEF Alive
<1>9. Nobody \notin Threads
  BY ThreadsAssumption
<1>10. LType /\ LMutex /\ LTake
  BY <1>1, <1>3, <1>9, ProgramsAssumption DEF LType, LMutex, LTake
<1>11. LList
  BY <1>1, <1>3, <1>4, <1>7, <1>8 DEF LList
<1> QED
  BY <1>10, <1>11 DEF LInv

(* Steps that leave the list as it is. *)
LEMMA LocksStill ==
    ASSUME LInv, UNCHANGED <<nodes, head, tail>>, tail_mutex' = Nobody <=> tail_mutex = Nobody
    PROVE  In' = In /\ Alive' = Alive /\ LList'
<1>1. In' = In /\ Alive' = Alive /\ ListOk'
  BY DEF In, Alive, ListOk, LInv, LList
<1> QED
  BY <1>1 DEF LInv, LList

(* notify_one and notify_all, Exit, and what a pop does but look and take. *)
LEMMA LocksQuiet ==
    ASSUME LInv, NEW t \in Threads,
           \/ TwoLock!PushNotify(t) \/ TwoLock!ExitSet(t) \/ TwoLock!ExitNotify(t)
           \/ TwoLock!PopLock(t) \/ TwoLock!PopSleep(t) \/ TwoLock!PopWake(t)
    PROVE  LInv'
<1> USE DEF LInv
<1>1. /\ UNCHANGED <<nodes, head, tail, tail_mutex>>
      /\ DOMAIN todo' = Threads /\ \A u \in Threads : u # t => todo'[u] = todo[u]
  <2>1. UNCHANGED <<nodes, head, tail, tail_mutex>>
    BY DEF TwoLock!PushNotify, TwoLock!ExitSet, TwoLock!ExitNotify, TwoLock!PopLock,
           TwoLock!PopSleep, TwoLock!PopWake, TwoLock!lockVars
  <2>2. todo' = todo \/ todo' = [todo EXCEPT ![t] = Tail(@)]
    BY DEF TwoLock!PushNotify, TwoLock!ExitSet, TwoLock!ExitNotify, TwoLock!PopLock,
           TwoLock!PopSleep, TwoLock!PopWake
  <2> QED
    BY <2>1, <2>2 DEF LType
<1>2. LList' /\ In' = In
  BY <1>1, LocksStill
<1>3. bstop => bstop'
  BY DEF TwoLock!PushNotify, TwoLock!ExitSet, TwoLock!ExitNotify, TwoLock!PopLock,
         TwoLock!PopSleep, TwoLock!PopWake, TwoLock!lockVars
<1>4. ASSUME TwoLock!PushNotify(t) \/ TwoLock!ExitSet(t) \/ TwoLock!ExitNotify(t)
             \/ TwoLock!PopWake(t)
      PROVE  LType' /\ LMutex' /\ pc'[t] # "take" /\ \A u \in Threads : pc'[u] = "take" => pc[u] = "take"
  <2>0. head_mutex' = head_mutex
    BY <1>4 DEF TwoLock!PushNotify, TwoLock!ExitSet, TwoLock!ExitNotify, TwoLock!PopWake, TwoLock!lockVars
  <2>1. CASE TwoLock!PushNotify(t)
    <3>1. /\ pc[t] = "notify"
          /\ \/ \E w \in Threads : pc[w] = "asleep" /\ pc' = [pc EXCEPT ![t] = "idle", ![w] = "relock"]
             \/ pc' = [pc EXCEPT ![t] = "idle"]
      BY <2>1 DEF TwoLock!PushNotify, TwoLock!Asleep
    <3>2. CASE pc' = [pc EXCEPT ![t] = "idle"]
      BY <1>1, <2>0, <3>1, <3>2 DEF LType, LMutex
    <3>3. ASSUME NEW w \in Threads, pc[w] = "asleep", pc' = [pc EXCEPT ![t] = "idle", ![w] = "relock"]
          PROVE  LType' /\ LMutex' /\ pc'[t] # "take" /\ \A u \in Threads : pc'[u] = "take" => pc[u] = "take"
      BY <1>1, <2>0, <3>1, <3>3 DEF LType, LMutex
    <3> QED
      BY <3>1, <3>2, <3>3
  <2>2. CASE TwoLock!ExitSet(t)
    <3>1. pc[t] = "idle" /\ pc' = [pc EXCEPT ![t] = "wake_all"]
      BY <2>2 DEF TwoLock!ExitSet, TwoLock!Calls, TwoLock!Goto
    <3> QED
      BY <1>1, <2>0, <3>1 DEF LType, LMutex
  <2>3. CASE TwoLock!ExitNotify(t)
    <3>1. pc[t] = "wake_all"
          /\ pc' = [u \in Threads |-> IF u = t THEN "idle"
                                      ELSE IF u \in TwoLock!Asleep THEN "relock" ELSE pc[u]]
      BY <2>3 DEF TwoLock!ExitNotify
    <3>2. \A u \in Threads : u \in TwoLock!Asleep <=> pc[u] = "asleep"
      BY DEF TwoLock!Asleep
    <3> QED
      BY <1>1, <2>0, <3>1, <3>2 DEF LType, LMutex
  <2>4. CASE TwoLock!PopWake(t)
    <3>1. pc[t] = "asleep" /\ \E place \in {"relock", "timeout"} : pc' = [pc EXCEPT ![t] = place]
      BY <2>4 DEF TwoLock!PopWake, TwoLock!Goto
    <3> QED
      BY <1>1, <2>0, <3>1 DEF LType, LMutex
  <2> QED
    BY <1>4, <2>1, <2>2, <2>3, <2>4
<1>5. ASSUME TwoLock!PopLock(t)
      PROVE  LType' /\ LMutex' /\ pc'[t] # "take" /\ \A u \in Threads : pc'[u] = "take" => pc[u] = "take"
  <2>1. /\ pc[t] \in {"idle", "relock", "timeout"} /\ head_mutex = Nobody /\ head_mutex' = t
        /\ \E place \in {"look", "last_look"} : pc' = [pc EXCEPT ![t] = place]
    BY <1>5 DEF TwoLock!PopLock, TwoLock!Calls, TwoLock!Goto, TwoLock!Nobody, Nobody
  <2> QED
    BY <1>1, <2>1, LocksFacts DEF LType, LMutex
<1>6. ASSUME TwoLock!PopSleep(t)
      PROVE  LType' /\ LMutex' /\ pc'[t] # "take" /\ \A u \in Threads : pc'[u] = "take" => pc[u] = "take"
  <2>1. pc[t] = "sleep" /\ head_mutex' = Nobody /\ pc' = [pc EXCEPT ![t] = "asleep"]
    BY <1>6 DEF TwoLock!PopSleep, TwoLock!Goto, TwoLock!Nobody, Nobody
  <2> QED
    BY <1>1, <2>1, LocksFacts DEF LType, LMutex
<1>7. LType' /\ LMutex' /\ pc'[t] # "take" /\ \A u \in Threads : pc'[u] = "take" => pc[u] = "take"
  BY <1>4, <1>5, <1>6
<1>8. LTake'
  <2> SUFFICES ASSUME NEW u \in Threads, pc'[u] = "take"
               PROVE  head # tail \/ (bstop' /\ TwoLock!Operation(u)' \in TwoLock!Waits)
    BY <1>1 DEF LTake
  <2>1. u # t /\ pc[u] = "take" /\ todo'[u] = todo[u]
    BY <1>1, <1>7
  <2>2. TwoLock!Operation(u)' = TwoLock!Operation(u)
    BY <2>1 DEF TwoLock!Operation
  <2> QED
    BY <1>3, <2>1, <2>2 DEF LTake
<1> QED
  BY <1>2, <1>7, <1>8

(* A pop under both mutexes looks whether there is a first node to take.   *)
LEMMA LocksPopLook == ASSUME LInv, NEW t \in Threads, TwoLock!PopLook(t) PROVE LInv'
<1> USE DEF LInv
<1>1. /\ pc[t] \in {"look", "last_look"} /\ UNCHANGED <<nodes, head, tail, tail_mutex, bstop>>
      /\ \/ /\ head # tail \/ (TwoLock!Operation(t) \in TwoLock!Waits /\ bstop)
            /\ pc' = [pc EXCEPT ![t] = "take"] /\ todo' = todo /\ head_mutex' = head_mutex
         \/ pc' = [pc EXCEPT ![t] = "sleep"] /\ todo' = todo /\ head_mutex' = head_mutex
         \/ /\ pc' = [pc EXCEPT ![t] = "idle"] /\ todo' = [todo EXCEPT ![t] = Tail(@)]
            /\ head_mutex' = Nobody
  BY DEF TwoLock!PopLook, TwoLock!Goto, TwoLock!Return, TwoLock!Nobody, Nobody
<1>2. /\ DOMAIN todo' = Threads
      /\ \A u \in Threads : u # t => todo'[u] = todo[u] /\ pc'[u] = pc[u]
  BY <1>1 DEF LType
<1>3. LList'
  BY <1>1, LocksStill
<1>4. LType' /\ LMutex'
  <2>1. head_mutex = t /\ pc[t] # "move"
    BY <1>1 DEF LMutex
  <2>2. LType'
    BY <1>1, <1>2 DEF LType
  <2>3. CASE pc' = [pc EXCEPT ![t] = "take"] /\ head_mutex' = head_mutex
    BY <1>1, <2>1, <2>3 DEF LType, LMutex
  <2>4. CASE pc' = [pc EXCEPT ![t] = "sleep"] /\ head_mutex' = head_mutex
    BY <1>1, <2>1, <2>4 DEF LType, LMutex
  <2>5. CASE pc' = [pc EXCEPT ![t] = "idle"] /\ head_mutex' = Nobody
    BY <1>1, <2>1, <2>5, LocksFacts DEF LType, LMutex
  <2> QED
    BY <1>1, <2>2, <2>3, <2>4, <2>5
<1>5. LTake'
  <2> SUFFICES ASSUME NEW u \in Threads, pc'[u] = "take"
               PROVE  head # tail \/ (bstop /\ TwoLock!Operation(u)' \in TwoLock!Waits)
    BY <1>1 DEF LTake
  <2>1. CASE u = t
    <3>1. todo' = todo /\ (head # tail \/ (TwoLock!Operation(t) \in TwoLock!Waits /\ bstop))
      BY <1>1, <2>1 DEF LType
    <3> QED
      BY <2>1, <3>1 DEF TwoLock!Operation
  <2>2. CASE u # t
    <3>1. TwoLock!Operation(u)' = TwoLock!Operation(u) /\ pc[u] = "take"
      BY <1>2, <2>2 DEF TwoLock!Operation
    <3> QED
      BY <3>1 DEF LTake
  <2> QED
    BY <2>1, <2>2
<1> QED
  BY <1>3, <1>4, <1>5

(* The node that push adds, and what it does to the last one. *)
LEMMA FilledNodes ==
    ASSUME LInv, NEW n \in 1 .. Len(nodes) + 1, n \notin Alive, NEW v \in Value,
           nodes' = [Place(n, TwoLock!EmptyNode(tail)) EXCEPT ![tail].data = v, ![tail].next = n]
    PROVE  /\ nodes' \in Seq(LockNode) /\ n \in DOMAIN nodes' /\ n \in Nat /\ n # Null /\ n \notin In
           /\ nodes'[n].next = Null /\ nodes'[n].prev = tail /\ nodes'[n].alive
           /\ nodes'[tail].next = n /\ nodes'[tail].prev = nodes[tail].prev
           /\ nodes'[tail].alive = nodes[tail].alive
           /\ nodes'[n].data = NoData /\ nodes'[tail].data = v
           /\ DOMAIN nodes' = DOMAIN nodes \cup {n}
           /\ \A m \in DOMAIN nodes : m # n /\ m # tail => nodes'[m] = nodes[m]
<1> USE DEF LInv
<1>1. PICK node : node = TwoLock!EmptyNode(tail)
  OBVIOUS
<1>2. node \in LockNode /\ node.next = Null /\ node.prev = tail /\ node.alive /\ node.data = NoData
  BY <1>1 DEF LType, TwoLock!EmptyNode, LockNode, TwoLock!Null, TwoLock!NoData, Null, NoData
<1>3. PICK ns : ns = Place(n, node)
  OBVIOUS
<1>4. nodes \in Seq(LockNode) /\ n \in Nat /\ n # Null /\ n \notin In /\ n # tail /\ tail \in DOMAIN nodes
      /\ DOMAIN nodes = 1 .. Len(nodes) /\ Len(nodes) \in Nat
  BY LocksFacts DEF LType, Null
<1>5. /\ ns \in Seq(LockNode) /\ DOMAIN ns = DOMAIN nodes \cup {n} /\ ns[n] = node
      /\ \A m \in DOMAIN nodes : m # n => ns[m] = nodes[m]
  <2>1. Place(n, node) \in Seq(LockNode)
    BY <1>2, <1>4, Placed, Zenon
  <2>2. /\ DOMAIN Place(n, node) = DOMAIN nodes \cup {n} /\ Place(n, node)[n] = node
        /\ \A m \in DOMAIN nodes : m # n => Place(n, node)[m] = nodes[m]
    BY DEF Place
  <2> QED
    BY <1>3, <2>1, <2>2
<1>6. PICK last : last = [nodes[tail] EXCEPT !.data = v, !.next = n]
  OBVIOUS
<1>7. /\ last \in LockNode /\ last.next = n /\ last.prev = nodes[tail].prev
      /\ last.alive = nodes[tail].alive /\ last.data = v
  <2>1. nodes[tail] \in LockNode
    BY <1>4
  <2> QED
    BY <1>4, <1>6, <2>1 DEF LockNode
<1>8. ns[tail] = nodes[tail] /\ tail \in DOMAIN ns
  BY <1>4, <1>5
<1>9. nodes' = [ns EXCEPT ![tail] = last]
  <2>1. nodes' = [ns EXCEPT ![tail].data = v, ![tail].next = n]
    BY <1>1, <1>3
  <2>2. nodes' = [ns EXCEPT ![tail] = [ns[tail] EXCEPT !.data = v, !.next = n]]
    BY <1>5, <1>8, <2>1
  <2> QED
    BY <1>6, <1>8, <2>2
<1>10. /\ DOMAIN nodes' = DOMAIN ns /\ nodes'[tail] = last
       /\ \A m \in DOMAIN ns : m # tail => nodes'[m] = ns[m]
       /\ nodes' = [m \in DOMAIN ns |-> IF m = tail THEN last ELSE ns[m]]
  BY <1>8, <1>9
<1>11. nodes' \in Seq(LockNode)
  <2>1. [ns EXCEPT ![tail] = last] \in Seq(LockNode)
    BY <1>5, <1>7, <1>8, Changed
  <2> QED
    BY <1>9, <2>1
<1>12. n \in DOMAIN nodes' /\ nodes'[n] = node /\ DOMAIN nodes' = DOMAIN nodes \cup {n}
       /\ \A m \in DOMAIN nodes : m # n /\ m # tail => nodes'[m] = nodes[m]
  BY <1>4, <1>5, <1>10
<1> QED
  BY <1>2, <1>4, <1>7, <1>10, <1>11, <1>12

(* push: the new node follows the last one. *)
LEMMA LocksPushFill == ASSUME LInv, NEW t \in Threads, TwoLock!PushFill(t) PROVE LInv'
<1> USE DEF LInv
<1>0. PICK n : n = Address
  OBVIOUS
<1>1. PICK v \in Value : v = TwoLock!Operation(t)
  BY DEF TwoLock!PushFill, TwoLock!Calls
<1>2. TwoLock!Address = Address /\ \A m, node : TwoLock!Place(m, node) = Place(m, node)
  BY DEF TwoLock!Address, TwoLock!Alive, Address, Alive, TwoLock!Place, Place
<1>3. /\ pc[t] = "idle" /\ tail_mutex = Nobody /\ tail_mutex' = t
      /\ nodes' = [Place(n, TwoLock!EmptyNode(tail)) EXCEPT ![tail].data = v, ![tail].next = n]
      /\ pc' = [pc EXCEPT ![t] = "move"]
      /\ UNCHANGED <<head, todo, tail, head_mutex, bstop>>
  BY <1>0, <1>1, <1>2 DEF TwoLock!PushFill, TwoLock!Calls, TwoLock!Goto, TwoLock!Nobody, Nobody
<1>4. n \in 1 .. Len(nodes) + 1 /\ n \notin Alive
  BY <1>0, AddressIsFree DEF LType
<1>5. /\ nodes' \in Seq(LockNode) /\ n \in DOMAIN nodes' /\ n \in Nat /\ n # Null /\ n \notin In
      /\ nodes'[n].next = Null /\ nodes'[n].prev = tail /\ nodes'[n].alive
      /\ nodes'[tail].next = n /\ nodes'[tail].prev = nodes[tail].prev
      /\ nodes'[tail].alive = nodes[tail].alive
      /\ DOMAIN nodes' = DOMAIN nodes \cup {n}
      /\ \A m \in DOMAIN nodes : m # n /\ m # tail => nodes'[m] = nodes[m]
  BY <1>3, <1>4, FilledNodes
<1>6. /\ tail \in In /\ nodes[tail].next = Null /\ tail # n /\ tail \in DOMAIN nodes
      /\ \A m \in In : m # n /\ m \in DOMAIN nodes /\ m \in DOMAIN nodes'
  BY <1>3, <1>5, LocksFacts DEF LList
<1>7. In' = In \cup {n} /\ ListOk'
  <2>1. SuccOf(nodes)[tail] = Null
    BY <1>6 DEF SuccOf
  <2>2. n \in DOMAIN SuccOf(nodes') /\ SuccOf(nodes')[tail] = n /\ SuccOf(nodes')[n] = Null
    BY <1>5, <1>6 DEF SuccOf
  <2>3. \A m \in In : /\ m \in DOMAIN SuccOf(nodes')
                      /\ m # tail => SuccOf(nodes')[m] = SuccOf(nodes)[m]
    BY <1>5, <1>6 DEF SuccOf
  <2>4. IsChain(In, head, SuccOf(nodes))
    BY DEF LList, ListOk
  <2>5. IsChain(In \cup {n}, head, SuccOf(nodes'))
    BY <1>5, <1>6, <2>1, <2>2, <2>3, <2>4, ChainAppend
  <2>6. Linked(head, SuccOf(nodes')) = In \cup {n}
    BY <1>5, <2>5, FoundIn
  <2> QED
    BY <1>3, <2>5, <2>6 DEF In, ListOk
<1>8. Alive' = Alive \cup {n}
  <2>1. \A m : m \in Alive' <=> m \in Alive \/ m = n
    BY <1>5, <1>6 DEF Alive
  <2> QED
    BY <2>1
<1>9. \A m \in In' : m # head' => nodes'[m].prev \in In' /\ nodes'[nodes'[m].prev].next = m
  <2> SUFFICES ASSUME NEW m \in In', m # head
               PROVE  nodes'[m].prev \in In' /\ nodes'[nodes'[m].prev].next = m
    BY <1>3
  <2>1. CASE m = n
    BY <1>5, <1>6, <1>7, <2>1
  <2>2. CASE m # n
    <3>1. m \in In /\ nodes[m].prev \in In /\ nodes[nodes[m].prev].next = m
      BY <1>7, <2>2 DEF LList
    <3>2. nodes'[m].prev = nodes[m].prev
      BY <1>5, <1>6, <2>2, <3>1
    <3>3. nodes[m].prev # tail
      BY <1>6, <3>1, LocksFacts
    <3>4. nodes'[nodes[m].prev] = nodes[nodes[m].prev]
      BY <1>5, <1>6, <3>1, <3>3
    <3> QED
      BY <1>7, <3>1, <3>2, <3>4
  <2> QED
    BY <2>1, <2>2
<1>10. LList'
  <2>1. tail_mutex' # Nobody
    BY <1>3, LocksFacts
  <2>2. nodes'[tail'].next # Null /\ nodes'[nodes'[tail'].next].next = Null
    BY <1>3, <1>5
  <2>3. head' # Null /\ tail' \in In' /\ Alive' = In'
    BY <1>3, <1>6, <1>7, <1>8 DEF LList
  <2> QED
    BY <1>7, <1>9, <2>1, <2>2, <2>3 DEF LList
<1>11. LType' /\ LMutex'
  BY <1>3, <1>5, LocksFacts DEF LType, LMutex
<1>12. LTake'
  <2> SUFFICES ASSUME NEW u \in Threads, pc'[u] = "take"
               PROVE  head # tail \/ (bstop /\ TwoLock!Operation(u)' \in TwoLock!Waits)
    BY <1>3 DEF LTake
  <2>1. pc[u] = "take" /\ TwoLock!Operation(u)' = TwoLock!Operation(u)
    BY <1>3 DEF LType, TwoLock!Operation
  <2> QED
    BY <2>1 DEF LTake
<1> QED
  BY <1>10, <1>11, <1>12

(* ... and becomes the last one: a first node to take is still there. *)
LEMMA LocksPushMove == ASSUME LInv, NEW t \in Threads, TwoLock!PushMove(t) PROVE LInv'
<1> USE DEF LInv
<1>1. /\ pc[t] = "move" /\ tail' = nodes[tail].next /\ tail_mutex' = Nobody
      /\ pc' = [pc EXCEPT ![t] = "notify"]
      /\ UNCHANGED <<nodes, head, todo, head_mutex, bstop>>
  BY DEF TwoLock!PushMove, TwoLock!Goto, TwoLock!Nobody, Nobody
<1>2. tail_mutex = t /\ t # Nobody
  BY <1>1, LocksFacts DEF LMutex
<1>3. tail' \in In /\ tail' # head /\ tail' \in Nat /\ nodes[tail'].next = Null
  BY <1>1, <1>2, LocksFacts DEF LList
<1>4. In' = In /\ Alive' = Alive /\ ListOk'
  BY <1>1 DEF In, Alive, ListOk, LList
<1>5. LList'
  BY <1>1, <1>3, <1>4 DEF LList
<1>6. LType' /\ LMutex'
  BY <1>1, <1>2, <1>3, LocksFacts DEF LType, LMutex
<1>7. LTake'
  BY <1>1, <1>3 DEF LTake
<1> QED
  BY <1>5, <1>6, <1>7

(* A pop takes the first node, which has a successor, or nothing.          *)
LEMMA LocksPopTake == ASSUME LInv, NEW t \in Threads, TwoLock!PopTake(t) PROVE LInv'
<1> USE DEF LInv
<1>1. /\ pc[t] = "take" /\ head_mutex' = Nobody /\ UNCHANGED <<tail, tail_mutex, bstop>>
      /\ pc' = [pc EXCEPT ![t] = "idle"] /\ todo' = [todo EXCEPT ![t] = Tail(@)]
  BY DEF TwoLock!PopTake, TwoLock!Goto, TwoLock!Return, TwoLock!Nobody, Nobody
<1>2. /\ DOMAIN todo' = Threads /\ pc'[t] = "idle" /\ head_mutex = t
      /\ \A u \in Threads : u # t => /\ todo'[u] = todo[u] /\ pc'[u] = pc[u]
                                     /\ pc[u] \notin {"look", "last_look", "take", "sleep"}
  BY <1>1 DEF LType, LMutex
<1>3. LMutex' /\ LTake'
  <2>1. LMutex'
    BY <1>1, <1>2, LocksFacts DEF LMutex
  <2>2. LTake'
    BY <1>2 DEF LTake
  <2> QED
    BY <2>1, <2>2
<1>4. pc' \in [Threads -> {"idle", "move", "notify", "wake_all", "look", "last_look", "take",
                           "sleep", "asleep", "relock", "timeout"}]
  BY <1>1 DEF LType
<1>5. CASE TwoLock!Operation(t) \in TwoLock!Waits /\ bstop
  <2>1. UNCHANGED <<nodes, head>>
    BY <1>5 DEF TwoLock!PopTake
  <2>2. LList'
    BY <1>1, <2>1, LocksStill
  <2>3. LType'
    BY <1>1, <1>2, <1>4, <2>1 DEF LType
  <2> QED
    BY <1>3, <2>2, <2>3
<1>6. CASE ~(TwoLock!Operation(t) \in TwoLock!Waits /\ bstop)
  <2>1. /\ head # tail /\ head' = nodes[head].next
        /\ nodes' = [nodes EXCEPT ![head].alive = FALSE, ![head].data = NoData]
    BY <1>1, <1>6 DEF TwoLock!PopTake, LTake, TwoLock!NoData, NoData
  <2>2. head \in In /\ head \in DOMAIN nodes /\ nodes[head] \in LockNode /\ tail \in In
    BY LocksFacts
  <2>3. PICK node : node = [nodes[head] EXCEPT !.alive = FALSE, !.data = NoData]
    OBVIOUS
  <2>4. node \in LockNode /\ node.next = nodes[head].next /\ node.alive = FALSE
    BY <2>2, <2>3 DEF LockNode
  <2>5. nodes' = [nodes EXCEPT ![head] = node]
    BY <2>1, <2>2, <2>3
  <2>6. /\ nodes' \in Seq(LockNode) /\ DOMAIN nodes' = DOMAIN nodes /\ nodes'[head] = node
        /\ \A m \in DOMAIN nodes : m # head => nodes'[m] = nodes[m]
    <3>1. nodes \in Seq(LockNode)
      BY DEF LType
    <3> QED
      BY <2>2, <2>4, <2>5, <3>1, Changed
  <2>7. head' \in In \ {head} /\ head' # Null /\ head' \in Nat
    <3>1. \E m \in In : m # head
      BY <2>1, <2>2
    <3>2. nodes[head].next # Null
      <4>1. nodes[tail].prev \in In /\ tail # head
        BY <2>1, <2>2 DEF LList
      <4>2. ASSUME nodes[head].next = Null PROVE In = {head}
        <5>1. IsChain(In \ {head}, Null, SuccOf(nodes))
          <6>1. IsChain(In \ {head}, SuccOf(nodes)[head], SuccOf(nodes))
            BY ChainPop DEF LList, ListOk
          <6>2. SuccOf(nodes)[head] = Null
            BY <2>2, <4>2 DEF SuccOf
          <6> QED
            BY <6>1, <6>2
        <5>2. In \ {head} = {}
          BY <5>1, ChainFacts
        <5> QED
          BY <2>2, <5>2
      <4> QED
        BY <4>1, <4>2, <2>2
    <3> QED
      BY <2>1, <2>2, <3>2, LocksFacts
  <2>8. In' = In \ {head} /\ ListOk'
    <3>1. IsChain(In \ {head}, SuccOf(nodes)[head], SuccOf(nodes))
      BY ChainPop DEF LList, ListOk
    <3>2. SuccOf(nodes)[head] = head'
      BY <2>1, <2>2 DEF SuccOf
    <3>3. \A m \in In \ {head} : m \in DOMAIN SuccOf(nodes') /\ SuccOf(nodes')[m] = SuccOf(nodes)[m]
      BY <2>6, LocksFacts DEF SuccOf
    <3>4. IsChain(In \ {head}, head', SuccOf(nodes'))
      BY <3>1, <3>2, <3>3, ChainSame
    <3>5. Linked(head', SuccOf(nodes')) = In \ {head}
      BY <2>6, <3>4, FoundIn
    <3> QED
      BY <3>4, <3>5 DEF In, ListOk
  <2>9. Alive' = In'
    <3>1. \A m : m \in Alive' <=> m \in Alive /\ m # head
      BY <2>2, <2>4, <2>6 DEF Alive
    <3> QED
      BY <2>8, <3>1 DEF LList
  <2>10. \A m \in In' : nodes'[m] = nodes[m] /\ m \in In /\ m # head
    BY <2>6, <2>8, LocksFacts
  <2>11. tail \in In'
    BY <2>1, <2>2, <2>8
  <2>12. ASSUME tail_mutex # Nobody
         PROVE  nodes'[tail].next # Null /\ nodes'[nodes'[tail].next].next = Null
    <3>1. nodes[tail].next \in In /\ nodes[tail].next # head
      BY <2>2, <2>12, LocksFacts DEF LList
    <3>2. nodes[tail].next \in In'
      BY <2>8, <3>1
    <3> QED
      BY <2>10, <2>11, <2>12, <3>2 DEF LList
  <2>13. ASSUME NEW m \in In', m # head' PROVE nodes'[m].prev \in In' /\ nodes'[nodes'[m].prev].next = m
    <3>1. m \in In /\ m # head /\ nodes'[m] = nodes[m]
      BY <2>10
    <3>2. nodes[m].prev \in In /\ nodes[nodes[m].prev].next = m
      BY <3>1 DEF LList
    <3>3. nodes[m].prev # head
      BY <2>1, <2>13, <3>2
    <3>4. nodes[m].prev \in In'
      BY <2>8, <3>2, <3>3
    <3> QED
      BY <2>10, <3>1, <3>2, <3>4
  <2>14. LList'
    BY <1>1, <2>7, <2>8, <2>9, <2>10, <2>11, <2>12, <2>13 DEF LList
  <2>15. LType'
    BY <1>1, <1>2, <1>4, <2>6, <2>7 DEF LType
  <2> QED
    BY <1>3, <2>14, <2>15
<1> QED
  BY <1>5, <1>6

(* try_steal takes the last node away: the one before it becomes the last. *)
LEMMA LocksSteal == ASSUME LInv, NEW t \in Threads, TwoLock!Steal(t) PROVE LInv'
<1> USE DEF LInv
<1>1. /\ pc[t] = "idle" /\ tail_mutex = Nobody /\ head_mutex = Nobody
      /\ pc' = [pc EXCEPT ![t] = "idle"] /\ todo' = [todo EXCEPT ![t] = Tail(@)]
      /\ UNCHANGED <<head, head_mutex, tail_mutex, bstop>>
  BY DEF TwoLock!Steal, TwoLock!Calls, TwoLock!Goto, TwoLock!Return, TwoLock!Nobody, Nobody
<1>2. pc' = pc /\ DOMAIN todo' = Threads
  BY <1>1 DEF LType
<1>3. \A u \in Threads : pc[u] # "take"
  BY <1>1, LocksFacts DEF LMutex
<1>4. LMutex' /\ LTake'
  BY <1>1, <1>2, <1>3 DEF LMutex, LTake
<1>5. CASE head = tail
  <2>1. UNCHANGED <<nodes, tail>>
    BY <1>5 DEF TwoLock!Steal
  <2>2. LList'
    BY <1>1, <2>1, LocksStill
  <2> QED
    BY <1>1, <1>2, <1>4, <2>1, <2>2 DEF LType
<1>6. CASE head # tail
  <2>1. PICK p : p = nodes[tail].prev
    OBVIOUS
  <2>2. /\ tail' = p
        /\ nodes' = [nodes EXCEPT ![p].data = NoData, ![p].next = Null, ![tail].alive = FALSE]
    BY <1>6, <2>1 DEF TwoLock!Steal, TwoLock!NoData, TwoLock!Null, NoData, Null
  <2>3. /\ p \in In /\ tail \in In /\ nodes[p].next = tail /\ nodes[tail].next = Null /\ p # tail
        /\ p \in DOMAIN nodes /\ tail \in DOMAIN nodes /\ nodes[p] \in LockNode /\ nodes[tail] \in LockNode
        /\ p \in Nat /\ tail # Null
    BY <1>1, <1>6, <2>1, LocksFacts DEF LList
  <2>4. PICK a : a = [nodes[p] EXCEPT !.data = NoData, !.next = Null]
    OBVIOUS
  <2>5. a \in LockNode /\ a.next = Null /\ a.prev = nodes[p].prev /\ a.alive = nodes[p].alive
    BY <2>3, <2>4 DEF LockNode, Null
  <2>6. PICK b : b = [nodes[tail] EXCEPT !.alive = FALSE]
    OBVIOUS
  <2>7. b \in LockNode /\ b.alive = FALSE
    BY <2>3, <2>6 DEF LockNode
  <2>8. nodes' = [[nodes EXCEPT ![p] = a] EXCEPT ![tail] = b]
    BY <2>2, <2>3, <2>4, <2>6
  <2>9. /\ nodes' \in Seq(LockNode) /\ DOMAIN nodes' = DOMAIN nodes
        /\ nodes'[p] = a /\ nodes'[tail] = b
        /\ \A m \in DOMAIN nodes : m # p /\ m # tail => nodes'[m] = nodes[m]
    <3>1. PICK ns : ns = [nodes EXCEPT ![p] = a]
      OBVIOUS
    <3>2. /\ ns \in Seq(LockNode) /\ DOMAIN ns = DOMAIN nodes /\ ns[p] = a
          /\ \A m \in DOMAIN nodes : m # p => ns[m] = nodes[m]
      <4>1. nodes \in Seq(LockNode)
        BY DEF LType
      <4> QED
        BY <2>3, <2>5, <3>1, <4>1, Changed
    <3>3. nodes' = [ns EXCEPT ![tail] = b]
      BY <2>8, <3>1
    <3>4. /\ nodes' \in Seq(LockNode) /\ DOMAIN nodes' = DOMAIN ns /\ nodes'[tail] = b
          /\ \A m \in DOMAIN ns : m # tail => nodes'[m] = ns[m]
      BY <2>3, <2>7, <3>2, <3>3, Changed
    <3> QED
      BY <2>3, <3>2, <3>4
  <2>10. In' = In \ {tail} /\ ListOk'
    <3>1. IsChain(In, head, SuccOf(nodes))
      BY DEF LList, ListOk
    <3>2. SuccOf(nodes)[tail] = Null /\ SuccOf(nodes)[p] = tail /\ SuccOf(nodes')[p] = Null
      BY <2>3, <2>5, <2>9 DEF SuccOf
    <3>3. \A m \in In : /\ m \in DOMAIN SuccOf(nodes')
                        /\ m # p /\ m # tail => SuccOf(nodes')[m] = SuccOf(nodes)[m]
      BY <2>9, LocksFacts DEF SuccOf
    <3>4. IsChain(In \ {tail}, head, SuccOf(nodes'))
      BY <2>3, <3>1, <3>2, <3>3, ChainCut
    <3>5. Linked(head, SuccOf(nodes')) = In \ {tail}
      BY <2>9, <3>4, FoundIn
    <3> QED
      BY <1>1, <3>4, <3>5 DEF In, ListOk
  <2>11. Alive' = In'
    <3>1. \A m : m \in Alive' <=> m \in Alive /\ m # tail
      BY <2>3, <2>5, <2>7, <2>9 DEF Alive
    <3> QED
      BY <2>10, <3>1 DEF LList
  <2>12. ASSUME NEW m \in In', m # head PROVE nodes'[m].prev \in In' /\ nodes'[nodes'[m].prev].next = m
    <3>1. m \in In /\ m # tail /\ m \in DOMAIN nodes
      BY <2>10, LocksFacts
    <3>2. /\ nodes[m].prev \in In /\ nodes[nodes[m].prev].next = m
          /\ nodes[m].prev \in DOMAIN nodes
      BY <2>12, <3>1, LocksFacts DEF LList
    <3>3. nodes[m].prev # p /\ nodes[m].prev # tail
      BY <2>3, <3>1, <3>2, LocksFacts
    <3>4. nodes'[m].prev = nodes[m].prev
      BY <2>5, <2>9, <3>1
    <3>5. nodes'[nodes[m].prev] = nodes[nodes[m].prev]
      BY <2>9, <3>2, <3>3
    <3> QED
      BY <2>10, <3>2, <3>3, <3>4, <3>5
  <2>13. tail' \in In' /\ nodes'[tail'].next = Null
    BY <2>2, <2>3, <2>5, <2>9, <2>10
  <2>14. LList'
    BY <1>1, <2>10, <2>11, <2>12, <2>13 DEF LList
  <2>15. LType'
    BY <1>1, <1>2, <2>2, <2>3, <2>9 DEF LType
  <2> QED
    BY <1>4, <2>14, <2>15
<1> QED
  BY <1>5, <1>6

(* A step of the composition that is none of the queue's. *)
LEMMA LocksStutter == ASSUME LInv, UNCHANGED allVars PROVE LInv'
<1>1. UNCHANGED <<nodes, head, tail, pc, todo, head_mutex, tail_mutex, bstop>>
  BY DEF allVars, vars, qVars, lVars
<1>2. LList'
  BY <1>1, LocksStill
<1>3. \A t \in Threads : TwoLock!Operation(t)' = TwoLock!Operation(t)
  BY <1>1 DEF TwoLock!Operation
<1>4. LType' /\ LMutex' /\ LTake'
  BY <1>1, <1>3 DEF LInv, LType, LMutex, LTake
<1> QED
  BY <1>2, <1>4 DEF LInv

(* Any operation of the queue. *)
LEMMA LocksStep == ASSUME LInv, NEW t \in Threads, TwoLock!Step(t) PROVE LInv'
<1>1. CASE TwoLock!PushFill(t)
  BY <1>1, LocksPushFill
<1>2. CASE TwoLock!PushMove(t)
  BY <1>2, LocksPushMove
<1>3. CASE TwoLock!PopLook(t)
  BY <1>3, LocksPopLook
<1>4. CASE TwoLock!PopTake(t)
  BY <1>4, LocksPopTake
<1>5. CASE TwoLock!Steal(t)
  BY <1>5, LocksSteal
<1>6. CASE \/ TwoLock!PushNotify(t) \/ TwoLock!ExitSet(t) \/ TwoLock!ExitNotify(t)
           \/ TwoLock!PopLock(t) \/ TwoLock!PopSleep(t) \/ TwoLock!PopWake(t)
  BY <1>6, LocksQuiet
<1> QED
  BY <1>1, <1>2, <1>3, <1>4, <1>5, <1>6 DEF TwoLock!Step

(* What the queue leads to exists, and nothing else does. *)
LEMMA LocksSafe == ASSUME LInv, kind = "locks" PROVE NoUseAfterFree /\ NoLeak
<1> USE DEF LInv
<1>1. Chain = TwoLock!Chain /\ Needed = TwoLock!Needed /\ Deferred = TwoLock!Deferred
  BY DEF Chain, Needed, Deferred, Of
<1>2. \A f, succ : TwoLock!ListFrom(f, succ) = ListFrom(f, succ)
  BY DEF TwoLock!ListFrom, ListFrom, TwoLock!Null, Null
<1>3. {Chain[i] : i \in DOMAIN Chain} = In
  BY <1>1, <1>2 DEF TwoLock!Chain, In, Linked, SuccOf
<1>4. Needed \subseteq In
  <2>1. head # tail => nodes[tail].prev \in In
    BY LocksFacts DEF LList
  <2> QED
    BY <1>1, <2>1, LocksFacts DEF TwoLock!Needed
<1>5. NoUseAfterFree
  BY <1>3, <1>4 DEF NoUseAfterFree, LList
<1>6. NoLeak
  BY <1>1, <1>3 DEF NoLeak, TwoLock!Deferred, LList
<1> QED
  BY <1>5, <1>6

-----------------------------------------------------------------------------
(* LockFreeQueue.  Two counted pointers lead to a node in the course of    *)
(* time, one on the way of tail and one on the way of head; the node is    *)
(* deleted when both are gone and every thread that copied one of them has *)
(* finished.                                                               *)
QueueNode == [data : Value \cup {NoData}, next : CountedPtr, internal : Int, external : Int,
              alive : BOOLEAN]

QueuePlaces == {"idle", "push", "data", "link", "help", "move", "pop", "compare", "next",
                "exchange", "take", "free", "release"}

(* The threads that have copied a pointer to node n and not yet finished.  *)
Copying == {"data", "link", "help", "move", "compare", "next", "exchange", "release"}

Keepers(n) == {t \in Threads : pc[t] \in Copying /\ old[t].ptr = n}

(* A thread that is going to account for a pointer to old, one that was    *)
(* tail, or one that was head.                                             *)
TailGone(t) == pc[t] = "free" /\ Queue!Operation(t) \in Value
HeadGone(t) == pc[t] = "take" \/ (pc[t] = "free" /\ Queue!Operation(t) \notin Value)

(* The nodes that pushes have made and not yet linked. *)
Owns(t) == \/ pc[t] \in {"push", "data", "link", "help"}
           \/ pc[t] \in {"move", "free", "release"} /\ next[t] = "push"

Own == {new[t].ptr : t \in {u \in Threads : Owns(u)}}

QType ==
    /\ nodes \in Seq(QueueNode) /\ head \in CountedPtr /\ tail \in CountedPtr
    /\ pc \in [Threads -> QueuePlaces] /\ DOMAIN todo = Threads
    /\ old \in [Threads -> CountedPtr] /\ new \in [Threads -> CountedPtr]
    /\ to \in [Threads -> CountedPtr] /\ next \in [Threads -> {"idle", "done", "push", "pop"}]
    /\ \A n \in Nat : IsFiniteSet(Keepers(n))
    /\ \A n \in DOMAIN nodes : nodes[n].next = Queue!NoNode \/ (nodes[n].next.ext = 1 /\ nodes[n].next.ptr # Null)

OpsOk(t) ==
    /\ pc[t] # "idle" => todo[t] # <<>>
    /\ pc[t] \in {"push", "data", "link", "help", "move"} => Queue!Operation(t) \in Value
    /\ pc[t] \in {"pop", "compare", "next", "exchange", "take"} => Queue!Operation(t) \notin Value
    /\ pc[t] = "move" => next[t] \in {"done", "push"}
    /\ pc[t] \in {"free", "release"} => /\ next[t] # "idle"
                                        /\ Queue!Operation(t) \in Value => next[t] # "pop"
                                        /\ Queue!Operation(t) \notin Value => next[t] # "push"

QOps == \A t \in Threads : OpsOk(t)

(* The list goes one node beyond tail at most, while a push is about to    *)
(* move tail there.                                                        *)
QList ==
    /\ CListOk /\ tail.ptr \in CIn /\ CIn \subseteq Alive
    /\ nodes[tail.ptr].next.ptr # Null =>
          /\ nodes[nodes[tail.ptr].next.ptr].next.ptr = Null
          /\ \E t \in Threads : pc[t] = "move" /\ old[t].ptr = tail.ptr

(* What a thread has found in old, new and to. *)
ReadOk(t) ==
    /\ pc[t] \in {"data", "link", "help", "compare"} =>
          old[t].ptr = tail.ptr \/ nodes[old[t].ptr].next.ptr # Null
    /\ pc[t] = "move" => to[t] = nodes[old[t].ptr].next /\ to[t].ptr # Null
    /\ pc[t] \in {"next", "exchange"} =>
          old[t].ptr # tail.ptr /\ nodes[old[t].ptr].next.ptr # Null
    /\ pc[t] = "exchange" => new[t] = nodes[old[t].ptr].next
    /\ TailGone(t) => old[t].ptr # tail.ptr /\ nodes[old[t].ptr].next.ptr # Null
    /\ HeadGone(t) => old[t].ptr \notin CIn

QRead == \A t \in Threads : ReadOk(t)

(* Each pointer is accounted for once. *)
Differ(t, u) ==
    /\ TailGone(t) /\ TailGone(u) => old[t].ptr # old[u].ptr
    /\ HeadGone(t) /\ HeadGone(u) => old[t].ptr # old[u].ptr
    /\ Owns(t) /\ Owns(u) => new[t].ptr # new[u].ptr

QOnce == \A t, u \in Threads : t # u => Differ(t, u)

(* The nodes that threads have copied a pointer to, and their own. *)
Uses(t) == pc[t] \in Copying \cup {"take", "free"}

QUse == \A t \in Threads : Uses(t) => old[t].ptr \in Alive /\ old[t].ptr \notin Own

OwnOk(t) ==
    /\ new[t].ptr \in Alive /\ new[t].ptr \notin CIn /\ new[t].ext = 1
    /\ nodes[new[t].ptr].next = Queue!NoNode
    /\ nodes[new[t].ptr].internal = 0 /\ nodes[new[t].ptr].external = 2

QOwn == \A t \in Threads : Owns(t) => OwnOk(t)

(* The nodes that a pointer on the way of tail, or of head, still leads to.*)
TailRefs == {tail.ptr, nodes[tail.ptr].next.ptr} \cup {old[t].ptr : t \in {u \in Threads : TailGone(u)}}
HeadRefs == CIn \cup {old[t].ptr : t \in {u \in Threads : HeadGone(u)}}

Kept == [n \in Nat |-> Cardinality(Keepers(n)) - nodes[n].internal]

(* a and b say how many copies the two pointers to a node have counted.    *)
Sums(a, b) ==
    /\ a \in [Nat -> Int] /\ b \in [Nat -> Int]
    /\ a[tail.ptr] = tail.ext - 1 /\ b[head.ptr] = head.ext - 1
    /\ \A t \in Threads : TailGone(t) => a[old[t].ptr] = old[t].ext - 2
    /\ \A t \in Threads : HeadGone(t) => b[old[t].ptr] = old[t].ext - 2
    /\ \A n \in Nat : n # tail.ptr /\ (\A t \in Threads : TailGone(t) => old[t].ptr # n) => a[n] = 0
    /\ \A n \in Nat : n # head.ptr /\ (\A t \in Threads : HeadGone(t) => old[t].ptr # n) => b[n] = 0
    /\ \A n \in Alive : n \notin Own => Kept[n] = a[n] + b[n]

QExternal ==
    \A n \in Alive : n \notin Own =>
        /\ nodes[n].external = (IF n \in TailRefs THEN 1 ELSE 0) + (IF n \in HeadRefs THEN 1 ELSE 0)
        /\ ~(nodes[n].internal = 0 /\ nodes[n].external = 0)

QLive == QList /\ QRead /\ QOnce /\ QUse /\ QOwn /\ (\E a, b : Sums(a, b)) /\ QExternal

QGone == Alive = {} /\ \A t \in Threads : todo[t] = <<>>

QInv == /\ QType /\ QOps
        /\ head.ptr = Null => QGone
        /\ head.ptr # Null => QLive

(* The definitions that the instance shares with this module. *)
LEMMA QueueSame ==
    /\ Queue!Null = Null /\ Queue!NoData = NoData /\ Queue!NoNode \in CountedPtr
    /\ Queue!NoNode.ptr = Null /\ Queue!NoNode.ext = 0
    /\ Queue!Node \in QueueNode /\ Queue!Node.next = Queue!NoNode
    /\ Queue!Node.internal = 0 /\ Queue!Node.external = 2 /\ Queue!Node.alive
    /\ \A f, succ : Queue!ListFrom(f, succ) = ListFrom(f, succ)
    /\ \A t \in Threads : Queue!Operation(t) = Head(todo[t])
    /\ \A n \in Nat : Queue!Counted(n) \in CountedPtr /\ Queue!Counted(n).ext = 1 /\ Queue!Counted(n).ptr = n
<1>1. Queue!Null = Null /\ Queue!NoData = NoData
  BY DEF Queue!Null, Queue!NoData, Null, NoData
<1>2. Queue!NoNode \in CountedPtr /\ Queue!NoNode.ptr = Null /\ Queue!NoNode.ext = 0
  BY <1>1 DEF Queue!NoNode, CountedPtr, Null
<1>3. /\ Queue!Node \in QueueNode /\ Queue!Node.next = Queue!NoNode
      /\ Queue!Node.internal = 0 /\ Queue!Node.external = 2 /\ Queue!Node.alive
  BY <1>1, <1>2 DEF Queue!Node, QueueNode
<1>4. \A f, succ : Queue!ListFrom(f, succ) = ListFrom(f, succ)
  BY <1>1 DEF Queue!ListFrom, ListFrom
<1>5. \A n \in Nat : Queue!Counted(n) \in CountedPtr /\ Queue!Counted(n).ext = 1 /\ Queue!Counted(n).ptr = n
  BY DEF Queue!Counted, CountedPtr
<1>6. \A t \in Threads : Queue!Operation(t) = Head(todo[t])
  BY DEF Queue!Operation
<1> QED
  BY <1>1, <1>2, <1>3, <1>4, <1>5, <1>6

(* What is known of the nodes and of the pointers. *)
LEMMA QueueFacts ==
    ASSUME QInv, head.ptr # Null
    PROVE  /\ QList /\ QRead /\ QOnce /\ QUse /\ QOwn /\ (\E a, b : Sums(a, b)) /\ QExternal
           /\ DOMAIN nodes = 1 .. Len(nodes) /\ Len(nodes) \in Nat
           /\ DOMAIN nodes \subseteq Nat /\ Null \notin DOMAIN nodes /\ Alive \subseteq DOMAIN nodes
           /\ \A n \in DOMAIN nodes : nodes[n].internal \in Int /\ nodes[n].external \in Int
                                      /\ nodes[n].next \in CountedPtr /\ nodes[n].next.ptr \in Nat
           /\ \A n \in DOMAIN nodes : nodes[n].next = Queue!NoNode <=> nodes[n].next.ptr = Null
           /\ \A n \in Nat : IsFiniteSet(Keepers(n)) /\ Cardinality(Keepers(n)) \in Nat
           /\ CIn \subseteq Alive /\ head.ptr \in CIn /\ tail.ptr \in CIn
           /\ \A n \in CIn : nodes[n].next.ptr \in CIn \cup {Null} /\ nodes[n].next.ptr # n
                             /\ nodes[n].next.ptr # head.ptr
           /\ \A n, m \in CIn : nodes[n].next.ptr = nodes[m].next.ptr => n = m
           /\ \A n \in CIn : n \notin Own
<1>1. QList /\ QRead /\ QOnce /\ QUse /\ QOwn /\ (\E a, b : Sums(a, b)) /\ QExternal
  BY DEF QInv, QLive
<1>2. /\ DOMAIN nodes = 1 .. Len(nodes) /\ Len(nodes) \in Nat
      /\ \A n \in DOMAIN nodes : nodes[n] \in QueueNode
  <2>1. nodes \in Seq(QueueNode)
    BY DEF QInv, QType
  <2> QED
    BY <2>1
<1>3. DOMAIN nodes \subseteq Nat /\ Null \notin DOMAIN nodes /\ Alive \subseteq DOMAIN nodes
  BY <1>2 DEF Alive, Null
<1>4. \A n \in DOMAIN nodes : nodes[n].internal \in Int /\ nodes[n].external \in Int
                              /\ nodes[n].next \in CountedPtr /\ nodes[n].next.ptr \in Nat
  BY <1>2 DEF QueueNode, CountedPtr
<1>5. \A n \in DOMAIN nodes : nodes[n].next = Queue!NoNode <=> nodes[n].next.ptr = Null
  BY QueueSame DEF QInv, QType
<1>6. \A n \in Nat : IsFiniteSet(Keepers(n)) /\ Cardinality(Keepers(n)) \in Nat
  BY FS_CardinalityType DEF QInv, QType
<1>7. CIn \subseteq Alive /\ tail.ptr \in CIn /\ IsChain(CIn, head.ptr, NextOf(nodes))
  BY <1>1 DEF QList, CListOk
<1>8. /\ head.ptr \in CIn
      /\ \A n \in CIn : NextOf(nodes)[n] \in CIn \cup {Null} /\ NextOf(nodes)[n] # n
      /\ \A n \in CIn : NextOf(nodes)[n] # Null => NextOf(nodes)[n] # head.ptr
      /\ \A n, m \in CIn : NextOf(nodes)[n] = NextOf(nodes)[m] => n = m
  BY <1>7, ChainFacts
<1>9. \A n \in CIn : NextOf(nodes)[n] = nodes[n].next.ptr
  BY <1>3, <1>7 DEF NextOf
<1>10. \A n \in CIn : n \notin Own
  BY <1>1 DEF QOwn, OwnOk, Own
<1>11. /\ \A n \in CIn : nodes[n].next.ptr \in CIn \cup {Null} /\ nodes[n].next.ptr # n
                         /\ nodes[n].next.ptr # head.ptr
       /\ \A n, m \in CIn : nodes[n].next.ptr = nodes[m].next.ptr => n = m
  BY <1>8, <1>9
<1> QED
  BY <1>1, <1>2, <1>3, <1>4, <1>5, <1>6, <1>7, <1>8, <1>10, <1>11

(* A step of thread t changes what the thread itself keeps. *)
Moves(t) ==
    /\ pc' \in [Threads -> QueuePlaces] /\ DOMAIN todo' = Threads
    /\ old' \in [Threads -> CountedPtr] /\ new' \in [Threads -> CountedPtr]
    /\ to' \in [Threads -> CountedPtr] /\ next' \in [Threads -> {"idle", "done", "push", "pop"}]
    /\ \A u \in Threads : u # t => /\ pc'[u] = pc[u] /\ todo'[u] = todo[u] /\ old'[u] = old[u]
                                   /\ new'[u] = new[u] /\ to'[u] = to[u] /\ next'[u] = next[u]

(* Every action of a thread is such a step. *)
LEMMA QueueMoves ==
    ASSUME QType, NEW t \in Threads, NEW p \in QueuePlaces, pc' = [pc EXCEPT ![t] = p],
           todo' = todo \/ todo' = [todo EXCEPT ![t] = Tail(@)],
           old' = old \/ \E x \in CountedPtr : old' = [old EXCEPT ![t] = x],
           new' = new \/ \E x \in CountedPtr : new' = [new EXCEPT ![t] = x],
           to' = to \/ \E x \in CountedPtr : to' = [to EXCEPT ![t] = x],
           next' = next \/ \E x \in {"done", "push", "pop"} : next' = [next EXCEPT ![t] = x]
    PROVE  Moves(t) /\ pc'[t] = p
<1>1. /\ pc' \in [Threads -> QueuePlaces] /\ pc'[t] = p /\ \A u \in Threads : u # t => pc'[u] = pc[u]
  BY DEF QType
<1>2. DOMAIN todo' = Threads /\ \A u \in Threads : u # t => todo'[u] = todo[u]
  BY DEF QType
<1>3. old' \in [Threads -> CountedPtr] /\ \A u \in Threads : u # t => old'[u] = old[u]
  BY DEF QType
<1>4. new' \in [Threads -> CountedPtr] /\ \A u \in Threads : u # t => new'[u] = new[u]
  BY DEF QType
<1>5. to' \in [Threads -> CountedPtr] /\ \A u \in Threads : u # t => to'[u] = to[u]
  BY DEF QType
<1>6. next' \in [Threads -> {"idle", "done", "push", "pop"}] /\ \A u \in Threads : u # t => next'[u] = next[u]
  BY DEF QType
<1> QED
  BY <1>1, <1>2, <1>3, <1>4, <1>5, <1>6 DEF Moves

(* The other threads are where they were. *)
LEMMA QueueOthers ==
    ASSUME NEW t \in Threads, Moves(t), NEW u \in Threads, u # t
    PROVE  /\ Queue!Operation(u)' = Queue!Operation(u)
           /\ TailGone(u)' <=> TailGone(u)
           /\ HeadGone(u)' <=> HeadGone(u)
           /\ Owns(u)' <=> Owns(u)
<1>1. pc'[u] = pc[u] /\ todo'[u] = todo[u] /\ next'[u] = next[u]
  BY DEF Moves
<1>2. Queue!Operation(u)' = Queue!Operation(u)
  BY <1>1 DEF Queue!Operation
<1> QED
  BY <1>1, <1>2 DEF TailGone, HeadGone, Owns

(* A thread that keeps what it has copied, or has copied nothing. *)
LEMMA KeepersStay ==
    ASSUME NEW t \in Threads, Moves(t), pc'[t] \in Copying <=> pc[t] \in Copying,
           pc[t] \in Copying => old'[t].ptr = old[t].ptr
    PROVE  \A n \in Nat : Keepers(n)' = Keepers(n)
<1> SUFFICES ASSUME NEW n \in Nat PROVE Keepers(n)' = Keepers(n)
  OBVIOUS
<1>1. \A u \in Threads : (pc'[u] \in Copying /\ old'[u].ptr = n) <=> (pc[u] \in Copying /\ old[u].ptr = n)
  BY DEF Moves
<1> QED
  BY <1>1 DEF Keepers

(* A thread that copies a pointer. *)
LEMMA KeepersJoin ==
    ASSUME QType, NEW t \in Threads, Moves(t), pc'[t] \in Copying, pc[t] \notin Copying
    PROVE  /\ \A n \in Nat : n # old'[t].ptr => Keepers(n)' = Keepers(n)
           /\ \A n \in Nat : n = old'[t].ptr => /\ IsFiniteSet(Keepers(n)')
                                                /\ Cardinality(Keepers(n)') = Cardinality(Keepers(n)) + 1
<1>1. ASSUME NEW n \in Nat, n # old'[t].ptr PROVE Keepers(n)' = Keepers(n)
  <2>1. \A u \in Threads : (pc'[u] \in Copying /\ old'[u].ptr = n) <=> (pc[u] \in Copying /\ old[u].ptr = n)
    BY <1>1 DEF Moves
  <2> QED
    BY <2>1 DEF Keepers
<1>2. ASSUME NEW n \in Nat, n = old'[t].ptr
      PROVE  /\ IsFiniteSet(Keepers(n)')
             /\ Cardinality(Keepers(n)') = Cardinality(Keepers(n)) + 1
  <2>1. \A u \in Threads : (pc'[u] \in Copying /\ old'[u].ptr = n)
                              <=> (pc[u] \in Copying /\ old[u].ptr = n) \/ u = t
    BY <1>2 DEF Moves
  <2>2. Keepers(n)' = Keepers(n) \cup {t} /\ t \notin Keepers(n)
    BY <2>1 DEF Keepers
  <2>3. IsFiniteSet(Keepers(n))
    BY DEF QType
  <2> QED
    BY <2>2, <2>3, FS_AddElement
<1> QED
  BY <1>1, <1>2

(* A thread that has finished with its copy, or is going to account for    *)
(* the pointer.                                                            *)
LEMMA KeepersLeave ==
    ASSUME QType, NEW t \in Threads, Moves(t), pc'[t] \notin Copying, pc[t] \in Copying
    PROVE  /\ \A n \in Nat : n # old[t].ptr => Keepers(n)' = Keepers(n)
           /\ \A n \in Nat : n = old[t].ptr =>
                 /\ IsFiniteSet(Keepers(n)') /\ Cardinality(Keepers(n)) \in Nat
                 /\ Cardinality(Keepers(n)') = Cardinality(Keepers(n)) - 1
<1>1. ASSUME NEW n \in Nat, n # old[t].ptr PROVE Keepers(n)' = Keepers(n)
  <2>1. \A u \in Threads : (pc'[u] \in Copying /\ old'[u].ptr = n) <=> (pc[u] \in Copying /\ old[u].ptr = n)
    BY <1>1 DEF Moves
  <2> QED
    BY <2>1 DEF Keepers
<1>2. ASSUME NEW n \in Nat, n = old[t].ptr
      PROVE  /\ IsFiniteSet(Keepers(n)') /\ Cardinality(Keepers(n)) \in Nat
             /\ Cardinality(Keepers(n)') = Cardinality(Keepers(n)) - 1
  <2>1. \A u \in Threads : (pc'[u] \in Copying /\ old'[u].ptr = n)
                              <=> (pc[u] \in Copying /\ old[u].ptr = n) /\ u # t
    BY <1>2 DEF Moves
  <2>2. Keepers(n)' = Keepers(n) \ {t} /\ t \in Keepers(n)
    BY <1>2, <2>1 DEF Keepers
  <2>3. IsFiniteSet(Keepers(n))
    BY DEF QType
  <2> QED
    BY <2>2, <2>3, FS_RemoveElement, FS_CardinalityType
<1> QED
  BY <1>1, <1>2

(* The copies of a node, before and after a step. *)
LEMMA KeptFacts ==
    ASSUME QInv, head.ptr # Null
    PROVE  /\ \A n \in Nat : Kept[n] = Cardinality(Keepers(n)) - nodes[n].internal
           /\ \A n \in Nat : Kept'[n] = Cardinality(Keepers(n)') - nodes'[n].internal
           /\ \A n \in DOMAIN nodes : Kept[n] \in Int
<1>1. \A n \in Nat : Kept[n] = Cardinality(Keepers(n)) - nodes[n].internal
  BY DEF Kept
<1>2. \A n \in Nat : Kept'[n] = Cardinality(Keepers(n)') - nodes'[n].internal
  BY DEF Kept
<1>3. ASSUME NEW n \in DOMAIN nodes PROVE Kept[n] \in Int
  <2>1. n \in Nat /\ Cardinality(Keepers(n)) \in Nat /\ nodes[n].internal \in Int
    BY QueueFacts
  <2> QED
    BY <1>1, <2>1
<1> QED
  BY <1>1, <1>2, <1>3

(* Steps that neither copy, account for, nor give up a pointer; a node may *)
(* have been linked.                                                       *)
LEMMA SumsStay ==
    ASSUME QInv, head.ptr # Null, NEW t \in Threads, Moves(t), head' = head, tail' = tail,
           TailGone(t)' <=> TailGone(t), HeadGone(t)' <=> HeadGone(t),
           TailGone(t) \/ HeadGone(t) => old'[t] = old[t],
           \A n \in Nat : Keepers(n)' = Keepers(n),
           \A n \in Alive' : n \notin Own' =>
               /\ n \in Alive
               /\ \/ n \notin Own /\ nodes'[n].internal = nodes[n].internal
                  \/ n \in Own /\ nodes'[n].internal = 0
    PROVE  \E a, b : Sums(a, b)'
<1>1. PICK a, b : Sums(a, b)
  BY QueueFacts
<1>2. \A u \in Threads : /\ TailGone(u)' <=> TailGone(u)
                         /\ HeadGone(u)' <=> HeadGone(u)
                         /\ TailGone(u) \/ HeadGone(u) => old'[u] = old[u]
  BY QueueOthers DEF Moves
<1>3. ASSUME NEW n \in Alive', n \notin Own' PROVE Kept'[n] = a[n] + b[n]
  <2>1. n \in Alive /\ n \in Nat
    BY <1>3, QueueFacts
  <2>2. CASE n \notin Own /\ nodes'[n].internal = nodes[n].internal
    <3>1. Kept[n] = a[n] + b[n]
      BY <1>1, <2>1, <2>2 DEF Sums
    <3> QED
      BY <2>1, <2>2, <3>1, KeptFacts
  <2>3. CASE n \in Own /\ nodes'[n].internal = 0
    <3>1. n # tail.ptr /\ n # head.ptr
      BY <2>3, QueueFacts
    <3>2. \A u \in Threads : Uses(u) => old[u].ptr # n
      BY <2>3, QueueFacts DEF QUse
    <3>3. Keepers(n) = {}
      BY <3>2 DEF Keepers, Uses
    <3>4. a[n] = 0 /\ b[n] = 0
      BY <1>1, <2>1, <3>1, <3>2 DEF Sums, TailGone, HeadGone, Uses
    <3>5. Cardinality(Keepers(n)') = 0
      BY <2>1, <3>3, FS_EmptySet
    <3> QED
      BY <2>1, <2>3, <3>4, <3>5, KeptFacts
  <2> QED
    BY <1>3, <2>1, <2>2, <2>3
<1>4. Sums(a, b)'
  BY <1>1, <1>2, <1>3 DEF Sums
<1> QED
  BY <1>4

(* The nodes that pointers lead to, when none is linked or left. *)
LEMMA RefsStay ==
    ASSUME NEW t \in Threads, Moves(t), tail' = tail,
           TailGone(t)' <=> TailGone(t), HeadGone(t)' <=> HeadGone(t),
           TailGone(t) \/ HeadGone(t) => old'[t] = old[t],
           CIn' = CIn, nodes'[tail.ptr].next = nodes[tail.ptr].next
    PROVE  TailRefs' = TailRefs /\ HeadRefs' = HeadRefs
<1>1. \A u \in Threads : /\ TailGone(u)' <=> TailGone(u)
                         /\ HeadGone(u)' <=> HeadGone(u)
                         /\ TailGone(u) \/ HeadGone(u) => old'[u] = old[u]
  BY QueueOthers DEF Moves
<1>2. {old[u].ptr : u \in {v \in Threads : TailGone(v)}}' = {old[u].ptr : u \in {v \in Threads : TailGone(v)}}
  BY <1>1
<1>3. {old[u].ptr : u \in {v \in Threads : HeadGone(v)}}' = {old[u].ptr : u \in {v \in Threads : HeadGone(v)}}
  BY <1>1
<1> QED
  BY <1>2, <1>3 DEF TailRefs, HeadRefs

(* What the other threads are about is not disturbed. *)
LEMMA OpsStay ==
    ASSUME QOps, NEW t \in Threads, Moves(t), OpsOk(t)'
    PROVE  QOps'
<1>1. ASSUME NEW u \in Threads, u # t PROVE OpsOk(u)'
  <2>1. pc'[u] = pc[u] /\ todo'[u] = todo[u] /\ next'[u] = next[u]
    BY <1>1 DEF Moves
  <2>2. Queue!Operation(u)' = Queue!Operation(u)
    BY <1>1, QueueOthers
  <2>3. OpsOk(u)
    BY DEF QOps
  <2> QED
    BY <2>1, <2>2, <2>3 DEF OpsOk
<1>2. \A u \in Threads : OpsOk(u)'
  BY <1>1
<1> QED
  BY <1>2 DEF QOps

(* The list, when its nodes lead on as before. *)
LEMMA ListStays ==
    ASSUME QInv, head.ptr # Null, nodes' \in Seq(QueueNode), head'.ptr = head.ptr,
           \A n \in CIn : n \in DOMAIN nodes' /\ nodes'[n].next = nodes[n].next
    PROVE  CIn' = CIn /\ CListOk'
<1>1. IsChain(CIn, head.ptr, NextOf(nodes))
  BY QueueFacts DEF QList, CListOk
<1>2. IsChain(CIn, head.ptr, NextOf(nodes')) /\ Linked(head.ptr, NextOf(nodes')) = CIn
  BY <1>1, NextSame
<1> QED
  BY <1>2 DEF CIn, CListOk

(* The nodes that pushes own. *)
LEMMA OwnMoves ==
    ASSUME NEW t \in Threads, Moves(t)
    PROVE  /\ \A n \in Own' : n \in Own \/ (Owns(t)' /\ n = new'[t].ptr)
           /\ \A n \in Own : n \in Own' \/ (Owns(t) /\ n = new[t].ptr)
           /\ \A u \in Threads : u # t /\ Owns(u) => new[u].ptr \in Own /\ new[u].ptr \in Own' /\ new'[u] = new[u]
           /\ Owns(t)' => new'[t].ptr \in Own'
<1>1. \A u \in Threads : u # t => new'[u] = new[u] /\ (Owns(u)' <=> Owns(u))
  BY QueueOthers DEF Moves
<1>2. Own' = {new'[u].ptr : u \in {v \in Threads : Owns(v)'}}
  BY DEF Own
<1>3. Own = {new[u].ptr : u \in {v \in Threads : Owns(v)}}
  BY DEF Own
<1> QED
  BY <1>1, <1>2, <1>3

(* What the others have read is still so when links are only added, nodes  *)
(* only taken from the list or linked that were a thread's own, and tail   *)
(* only moved to a node that leads to none.                                *)
LEMMA ReadStays ==
    ASSUME QInv, head.ptr # Null, NEW t \in Threads, Moves(t), ReadOk(t)',
           \/ tail'.ptr = tail.ptr
           \/ nodes[tail.ptr].next.ptr # Null /\ nodes[tail'.ptr].next.ptr = Null,
           \A n \in Alive : nodes[n].next.ptr # Null => nodes'[n].next = nodes[n].next,
           CIn' \subseteq CIn \cup Own
    PROVE  QRead'
<1>1. ASSUME NEW u \in Threads, u # t PROVE ReadOk(u)'
  <2>1. pc'[u] = pc[u] /\ old'[u] = old[u] /\ new'[u] = new[u] /\ to'[u] = to[u]
    BY <1>1 DEF Moves
  <2>2. (TailGone(u)' <=> TailGone(u)) /\ (HeadGone(u)' <=> HeadGone(u))
    BY <1>1, QueueOthers
  <2>3. ReadOk(u)
    BY QueueFacts DEF QRead
  <2>4. Uses(u) => /\ old[u].ptr \in Alive /\ old[u].ptr \notin Own
                   /\ nodes[old[u].ptr].next.ptr # Null => nodes'[old[u].ptr].next = nodes[old[u].ptr].next
    BY QueueFacts DEF QUse
  <2>5. Uses(u) /\ nodes[old[u].ptr].next.ptr # Null /\ old[u].ptr # tail.ptr => old[u].ptr # tail'.ptr
    BY <2>4
  <2>6. pc[u] \in {"data", "link", "help", "compare"} => old[u].ptr = tail'.ptr \/ nodes'[old[u].ptr].next.ptr # Null
    BY <2>3, <2>4, Zenon DEF ReadOk, Uses, Copying
  <2>7. pc[u] = "move" => to[u] = nodes'[old[u].ptr].next /\ to[u].ptr # Null
    BY <2>3, <2>4, Zenon DEF ReadOk, Uses, Copying
  <2>8. pc[u] \in {"next", "exchange"} => old[u].ptr # tail'.ptr /\ nodes'[old[u].ptr].next.ptr # Null
    BY <2>3, <2>4, <2>5, Zenon DEF ReadOk, Uses, Copying
  <2>9. pc[u] = "exchange" => new[u] = nodes'[old[u].ptr].next
    BY <2>3, <2>4, Zenon DEF ReadOk, Uses, Copying
  <2>10. TailGone(u) => old[u].ptr # tail'.ptr /\ nodes'[old[u].ptr].next.ptr # Null
    BY <2>3, <2>4, <2>5, Zenon DEF ReadOk, Uses, TailGone
  <2>11. HeadGone(u) => old[u].ptr \notin CIn'
    BY <2>3, <2>4, Zenon DEF ReadOk, Uses, HeadGone
  <2> QED
    BY <2>1, <2>2, <2>6, <2>7, <2>8, <2>9, <2>10, <2>11 DEF ReadOk
<1>2. \A u \in Threads : ReadOk(u)'
  BY <1>1
<1> QED
  BY <1>2 DEF QRead

(* Two threads other than the one that moves differ as they did. *)
LEMMA OnceStays ==
    ASSUME QOnce, NEW t \in Threads, Moves(t),
           \A u \in Threads : u # t =>
               /\ TailGone(t)' /\ TailGone(u) => old'[t].ptr # old[u].ptr
               /\ HeadGone(t)' /\ HeadGone(u) => old'[t].ptr # old[u].ptr
               /\ Owns(t)' /\ Owns(u) => new'[t].ptr # new[u].ptr
    PROVE  QOnce'
<1>1. \A u \in Threads : u # t => /\ old'[u] = old[u] /\ new'[u] = new[u]
                                  /\ TailGone(u)' <=> TailGone(u)
                                  /\ HeadGone(u)' <=> HeadGone(u)
                                  /\ Owns(u)' <=> Owns(u)
  BY QueueOthers DEF Moves
<1>2. ASSUME NEW u \in Threads, NEW v \in Threads, u # v PROVE Differ(u, v)'
  <2>1. Differ(u, v)
    BY <1>2 DEF QOnce
  <2>2. CASE u # t /\ v # t
    BY <1>1, <2>1, <2>2 DEF Differ
  <2>3. CASE u = t
    BY <1>1, <1>2, <2>3 DEF Differ
  <2>4. CASE v = t
    BY <1>1, <1>2, <2>4 DEF Differ
  <2> QED
    BY <2>2, <2>3, <2>4
<1> QED
  BY <1>2 DEF QOnce

(* The nodes in use still exist, and are nobody's own. *)
LEMMA UseStays ==
    ASSUME QInv, head.ptr # Null, NEW t \in Threads, Moves(t),
           \A u \in Threads : u # t /\ Uses(u) => old[u].ptr \in Alive',
           Uses(t)' => old'[t].ptr \in Alive' /\ old'[t].ptr \in Alive /\ old'[t].ptr \notin Own,
           Owns(t)' => new'[t].ptr \in Own \/ new'[t].ptr \notin Alive
    PROVE  QUse'
<1>1. ASSUME NEW n \in Alive, n \notin Own PROVE n \notin Own'
  BY <1>1, OwnMoves
<1>2. ASSUME NEW u \in Threads, Uses(u)' PROVE old'[u].ptr \in Alive' /\ old'[u].ptr \notin Own'
  <2>1. CASE u = t
    BY <1>1, <1>2, <2>1
  <2>2. CASE u # t
    <3>1. Uses(u) /\ old'[u] = old[u]
      BY <1>2, <2>2 DEF Uses, Moves
    <3>2. old[u].ptr \in Alive /\ old[u].ptr \notin Own
      BY <3>1, QueueFacts DEF QUse
    <3> QED
      BY <1>1, <2>2, <3>1, <3>2
  <2> QED
    BY <2>1, <2>2
<1> QED
  BY <1>2 DEF QUse

(* The nodes that are a thread's own are still as they were made. *)
LEMMA OwnStays ==
    ASSUME QInv, head.ptr # Null, NEW t \in Threads, Moves(t), Owns(t)' => OwnOk(t)',
           \A u \in Threads : u # t /\ Owns(u) =>
               /\ new[u].ptr \in DOMAIN nodes' /\ new[u].ptr \notin CIn'
               /\ nodes'[new[u].ptr].next = nodes[new[u].ptr].next
               /\ nodes'[new[u].ptr].internal = nodes[new[u].ptr].internal
               /\ nodes'[new[u].ptr].external = nodes[new[u].ptr].external
               /\ nodes'[new[u].ptr].alive = nodes[new[u].ptr].alive
    PROVE  QOwn'
<1>1. ASSUME NEW u \in Threads, u # t, Owns(u)' PROVE OwnOk(u)'
  <2>1. Owns(u) /\ new'[u] = new[u]
    BY <1>1, QueueOthers DEF Moves
  <2>2. OwnOk(u)
    BY <2>1, QueueFacts DEF QOwn
  <2>3. new[u].ptr \in Alive'
    BY <1>1, <2>1, <2>2 DEF OwnOk, Alive
  <2> QED
    BY <1>1, <2>1, <2>2, <2>3 DEF OwnOk
<1>2. \A u \in Threads : Owns(u)' => OwnOk(u)'
  BY <1>1
<1> QED
  BY <1>2 DEF QOwn

(* The counts of the nodes that are not a thread's own. *)
LEMMA ExternalStays ==
    ASSUME QExternal,
           \A n \in Alive' : n \notin Own' =>
               /\ n \in Alive /\ n \notin Own
               /\ nodes'[n].internal = nodes[n].internal /\ nodes'[n].external = nodes[n].external
               /\ n \in TailRefs' <=> n \in TailRefs
               /\ n \in HeadRefs' <=> n \in HeadRefs
    PROVE  QExternal'
<1>1. ASSUME NEW n \in Alive', n \notin Own'
      PROVE  /\ nodes'[n].external = (IF n \in TailRefs' THEN 1 ELSE 0) + (IF n \in HeadRefs' THEN 1 ELSE 0)
             /\ ~(nodes'[n].internal = 0 /\ nodes'[n].external = 0)
  <2>1. /\ nodes[n].external = (IF n \in TailRefs THEN 1 ELSE 0) + (IF n \in HeadRefs THEN 1 ELSE 0)
        /\ ~(nodes[n].internal = 0 /\ nodes[n].external = 0)
    BY <1>1 DEF QExternal
  <2> QED
    BY <1>1, <2>1
<1> QED
  BY <1>1 DEF QExternal

(* A step that changes no count and no link of the nodes there are.  The   *)
(* thread may make a node of its own, or drop it.                          *)
LEMMA QueueOwnStep ==
    ASSUME QInv, head.ptr # Null, NEW t \in Threads, Moves(t), head' = head, tail' = tail,
           nodes' \in Seq(QueueNode),
           \A n \in DOMAIN nodes : /\ n \in DOMAIN nodes' /\ nodes'[n].next = nodes[n].next
                                   /\ nodes'[n].internal = nodes[n].internal
                                   /\ nodes'[n].external = nodes[n].external
                                   /\ \/ nodes'[n].alive = nodes[n].alive
                                      \/ Owns(t) /\ n = new[t].ptr /\ ~Owns(t)',
           Owns(t) /\ ~Owns(t)' => new[t].ptr \notin Alive',
           \A n \in DOMAIN nodes' : n \in DOMAIN nodes \/ (Owns(t)' /\ n = new'[t].ptr),
           \/ Owns(t)' => Owns(t) /\ new'[t] = new[t]
           \/ /\ Owns(t)' /\ ~Owns(t)
              /\ new'[t].ptr \in DOMAIN nodes' /\ new'[t].ptr \notin DOMAIN nodes
              /\ new'[t].ext = 1 /\ nodes'[new'[t].ptr] = Queue!Node,
           TailGone(t)' <=> TailGone(t), HeadGone(t)' <=> HeadGone(t),
           pc'[t] \in Copying <=> pc[t] \in Copying,
           Uses(t) \/ Uses(t)' => Uses(t) /\ old'[t] = old[t],
           OpsOk(t)', ReadOk(t)', pc[t] = "move" => old[t].ptr # tail.ptr
    PROVE  QInv'
<1>0. DOMAIN nodes \subseteq DOMAIN nodes' /\ Alive \subseteq DOMAIN nodes /\ CIn \subseteq Alive
  BY QueueFacts
<1>1. /\ \A u \in Threads : Owns(u) => OwnOk(u) /\ new[u].ptr \in DOMAIN nodes /\ new[u].ptr \in Own
      /\ \A u \in Threads : u # t /\ Owns(u) /\ Owns(t) => new[u].ptr # new[t].ptr
  BY QueueFacts DEF QOwn, OwnOk, QOnce, Differ, Own
<1>2. /\ \A n \in Alive : n \in Alive' \/ (Owns(t) /\ n = new[t].ptr /\ ~Owns(t)')
      /\ \A n \in Alive' : n \in Alive \/ (Owns(t)' /\ n = new'[t].ptr)
  <2>1. ASSUME NEW n \in Alive PROVE n \in Alive' \/ (Owns(t) /\ n = new[t].ptr /\ ~Owns(t)')
    BY <1>0 DEF Alive
  <2>2. ASSUME NEW n \in Alive' PROVE n \in Alive \/ (Owns(t)' /\ n = new'[t].ptr)
    BY <2>2 DEF Alive
  <2> QED
    BY <2>1, <2>2
<1>3. TailGone(t) \/ HeadGone(t) => old'[t] = old[t]
  BY DEF TailGone, HeadGone, Uses
<1>4. \A n \in Nat : Keepers(n)' = Keepers(n)
  <2>1. pc[t] \in Copying => old'[t].ptr = old[t].ptr
    BY DEF Uses
  <2> QED
    BY <2>1, KeepersStay
<1>5. QType'
  <2>1. \A n \in Nat : IsFiniteSet(Keepers(n)')
    BY <1>4, QueueFacts
  <2>2. ASSUME NEW n \in DOMAIN nodes'
        PROVE  nodes'[n].next = Queue!NoNode \/ (nodes'[n].next.ext = 1 /\ nodes'[n].next.ptr # Null)
    <3>1. CASE n \in DOMAIN nodes
      BY <3>1 DEF QInv, QType
    <3>2. CASE n \notin DOMAIN nodes
      <4>1. nodes'[n] = Queue!Node
        BY <1>1, <2>2, <3>2
      <4> QED
        BY <4>1, QueueSame
    <3> QED
      BY <3>1, <3>2
  <2> QED
    BY <2>1, <2>2 DEF QInv, QType, Moves
<1>6. QOps'
  BY OpsStay DEF QInv
<1>7. CIn' = CIn /\ CListOk'
  <2>1. \A n \in CIn : n \in DOMAIN nodes' /\ nodes'[n].next = nodes[n].next
    BY <1>0
  <2> QED
    BY <2>1, ListStays
<1>8. tail.ptr \in DOMAIN nodes /\ nodes'[tail.ptr].next = nodes[tail.ptr].next
  BY QueueFacts
<1>9. QList'
  <2>1. nodes[tail.ptr].next.ptr # Null =>
            nodes'[nodes[tail.ptr].next.ptr].next = nodes[nodes[tail.ptr].next.ptr].next
    BY QueueFacts
  <2>2. nodes[tail.ptr].next.ptr # Null => nodes[nodes[tail.ptr].next.ptr].next.ptr = Null
    BY QueueFacts DEF QList
  <2>3. ASSUME nodes[tail.ptr].next.ptr # Null
        PROVE  \E u \in Threads : pc'[u] = "move" /\ old'[u].ptr = tail.ptr
    <3>1. PICK u \in Threads : pc[u] = "move" /\ old[u].ptr = tail.ptr
      BY <2>3, QueueFacts DEF QList
    <3>2. u # t
      BY <3>1
    <3> QED
      BY <3>1, <3>2 DEF Moves
  <2>4. tail.ptr \in CIn /\ CIn \subseteq Alive'
    BY <1>1, <1>2, QueueFacts DEF OwnOk
  <2> QED
    BY <1>7, <1>8, <2>1, <2>2, <2>3, <2>4 DEF QList
<1>10. QRead'
  <2>1. \A n \in Alive : nodes[n].next.ptr # Null => nodes'[n].next = nodes[n].next
    BY <1>0
  <2> QED
    BY <1>7, <2>1, ReadStays
<1>11. QOnce'
  <2>1. \A u \in Threads : u # t => Differ(t, u)
    BY QueueFacts DEF QOnce
  <2>2. \A u \in Threads : u # t =>
            /\ TailGone(t)' /\ TailGone(u) => old'[t].ptr # old[u].ptr
            /\ HeadGone(t)' /\ HeadGone(u) => old'[t].ptr # old[u].ptr
            /\ Owns(t)' /\ Owns(u) => new'[t].ptr # new[u].ptr
    BY <1>1, <1>3, <2>1 DEF Differ
  <2>3. QOnce
    BY QueueFacts
  <2> QED
    BY <2>2, <2>3, OnceStays
<1>12. QUse'
  <2>1. \A u \in Threads : Uses(u) => old[u].ptr \in Alive /\ old[u].ptr \notin Own
    BY QueueFacts DEF QUse
  <2>2. \A u \in Threads : Uses(u) => old[u].ptr \in Alive'
    BY <1>1, <1>2, <2>1
  <2>3. Owns(t)' => new'[t].ptr \in Own \/ new'[t].ptr \notin Alive
    BY <1>0 DEF Own
  <2> QED
    BY <2>1, <2>2, <2>3, UseStays
<1>13. \A n \in Alive' : n \notin Own' => n \in Alive /\ n \notin Own
  <2>1. \A n \in Own : n \in Own' \/ (Owns(t) /\ n = new[t].ptr)
    BY OwnMoves
  <2>2. Owns(t)' => new'[t].ptr \in Own'
    BY OwnMoves
  <2>3. Owns(t)' => ~Owns(t) \/ new'[t] = new[t]
    OBVIOUS
  <2> QED
    BY <1>2, <2>1, <2>2, <2>3
<1>14. QOwn'
  <2>1. Owns(t)' => OwnOk(t)'
    <3>1. CASE Owns(t) /\ new'[t] = new[t]
      <4>1. OwnOk(t) /\ new[t].ptr \in DOMAIN nodes
        BY <1>1, <3>1
      <4>2. Owns(t)' => new[t].ptr \in Alive'
        BY <1>2, <4>1 DEF OwnOk
      <4> QED
        BY <1>7, <3>1, <4>1, <4>2 DEF OwnOk
    <3>2. CASE /\ new'[t].ptr \in DOMAIN nodes' /\ new'[t].ptr \notin DOMAIN nodes
               /\ new'[t].ext = 1 /\ nodes'[new'[t].ptr] = Queue!Node
      BY <1>0, <1>7, <3>2, QueueSame DEF OwnOk, Alive
    <3> QED
      BY <3>1, <3>2
  <2>2. \A u \in Threads : u # t /\ Owns(u) =>
               /\ new[u].ptr \in DOMAIN nodes' /\ new[u].ptr \notin CIn'
               /\ nodes'[new[u].ptr].next = nodes[new[u].ptr].next
               /\ nodes'[new[u].ptr].internal = nodes[new[u].ptr].internal
               /\ nodes'[new[u].ptr].external = nodes[new[u].ptr].external
               /\ nodes'[new[u].ptr].alive = nodes[new[u].ptr].alive
    BY <1>1, <1>7 DEF OwnOk
  <2> QED
    BY <2>1, <2>2, OwnStays
<1>15. \E a, b : Sums(a, b)'
  <2>1. \A n \in Alive' : n \notin Own' => n \in Alive /\ n \notin Own /\ nodes'[n].internal = nodes[n].internal
    BY <1>0, <1>13
  <2> QED
    BY <1>3, <1>4, <2>1, SumsStay
<1>16. QExternal'
  <2>1. TailRefs' = TailRefs /\ HeadRefs' = HeadRefs
    BY <1>3, <1>7, <1>8, RefsStay
  <2>2. \A n \in Alive' : n \notin Own' => /\ n \in Alive /\ n \notin Own
                                           /\ nodes'[n].internal = nodes[n].internal
                                           /\ nodes'[n].external = nodes[n].external
    BY <1>0, <1>13
  <2>3. QExternal
    BY QueueFacts
  <2> QED
    BY <2>1, <2>2, <2>3, ExternalStays
<1> QED
  BY <1>5, <1>6, <1>9, <1>10, <1>11, <1>12, <1>14, <1>15, <1>16 DEF QInv, QLive

(* The same, when the thread has the node of its own that it had.          *)
LEMMA QueueQuiet ==
    ASSUME QInv, head.ptr # Null, NEW t \in Threads, Moves(t), head' = head, tail' = tail,
           nodes' \in Seq(QueueNode), DOMAIN nodes' = DOMAIN nodes,
           \A n \in DOMAIN nodes : /\ nodes'[n].next = nodes[n].next /\ nodes'[n].alive = nodes[n].alive
                                   /\ nodes'[n].internal = nodes[n].internal
                                   /\ nodes'[n].external = nodes[n].external,
           TailGone(t)' <=> TailGone(t), HeadGone(t)' <=> HeadGone(t), Owns(t)' <=> Owns(t),
           pc'[t] \in Copying <=> pc[t] \in Copying,
           Uses(t) \/ Uses(t)' => Uses(t) /\ old'[t] = old[t],
           Owns(t) => new'[t] = new[t],
           OpsOk(t)', ReadOk(t)', pc[t] = "move" => old[t].ptr # tail.ptr
    PROVE  QInv'
<1>1. Owns(t)' => Owns(t) /\ new'[t] = new[t]
  OBVIOUS
<1>2. ~(Owns(t) /\ ~Owns(t)')
  OBVIOUS
<1> QED
  BY <1>1, <1>2, QueueOwnStep

(* While a thread has something to do, the queue exists. *)
LEMMA QueueBusy ==
    ASSUME QInv, NEW t \in Threads, pc[t] # "idle" \/ todo[t] # <<>>
    PROVE  head.ptr # Null /\ todo[t] # <<>> /\ OpsOk(t) /\ ReadOk(t)
<1>1. OpsOk(t)
  BY DEF QInv, QOps
<1>2. todo[t] # <<>>
  BY <1>1 DEF OpsOk
<1>3. head.ptr # Null
  BY <1>2 DEF QInv, QGone
<1>4. ReadOk(t)
  BY <1>3, QueueFacts DEF QRead
<1> QED
  BY <1>1, <1>2, <1>3, <1>4

(* The data of a node is exchanged. *)
LEMMA DataNodes ==
    ASSUME nodes \in Seq(QueueNode), NEW n \in DOMAIN nodes, NEW v \in Value \cup {NoData},
           nodes' = [nodes EXCEPT ![n].data = v]
    PROVE  /\ nodes' \in Seq(QueueNode) /\ DOMAIN nodes' = DOMAIN nodes
           /\ \A m \in DOMAIN nodes : /\ nodes'[m].next = nodes[m].next /\ nodes'[m].alive = nodes[m].alive
                                      /\ nodes'[m].internal = nodes[m].internal
                                      /\ nodes'[m].external = nodes[m].external
<1>1. nodes[n] \in QueueNode
  BY ElementOfSeq, LenProperties
<1>2. PICK x : x = [nodes[n] EXCEPT !.data = v]
  OBVIOUS
<1>3. /\ x \in QueueNode /\ x.next = nodes[n].next /\ x.alive = nodes[n].alive
      /\ x.internal = nodes[n].internal /\ x.external = nodes[n].external
  BY <1>1, <1>2 DEF QueueNode
<1>4. nodes' = [nodes EXCEPT ![n] = x]
  BY <1>2
<1>5. /\ nodes' \in Seq(QueueNode) /\ DOMAIN nodes' = DOMAIN nodes /\ nodes'[n] = x
      /\ \A m \in DOMAIN nodes : m # n => nodes'[m] = nodes[m]
  BY <1>3, <1>4, Changed
<1> QED
  BY <1>3, <1>5

(* The data pointer of the last node is stored, or found to be stored. *)
LEMMA QueuePushData == ASSUME QInv, NEW t \in Threads, Queue!PushData(t) PROVE QInv'
<1>1. /\ pc[t] = "data" /\ head' = head /\ tail' = tail /\ todo' = todo /\ old' = old
      /\ new' = new /\ to' = to /\ next' = next
  BY DEF Queue!PushData
<1>2. head.ptr # Null /\ OpsOk(t) /\ ReadOk(t) /\ QType
  BY <1>1, QueueBusy DEF QInv
<1>3. Owns(t) /\ Uses(t) /\ old[t].ptr \in DOMAIN nodes
  BY <1>1, <1>2, QueueFacts DEF Owns, Uses, Copying, QUse
<1>4. PICK p \in {"link", "help"} : pc' = [pc EXCEPT ![t] = p]
  BY DEF Queue!PushData, Queue!Goto
<1>5. Moves(t) /\ pc'[t] = p
  <2>1. p \in QueuePlaces
    BY DEF QueuePlaces
  <2> QED
    BY <1>1, <1>2, <1>4, <2>1, QueueMoves
<1>6. /\ nodes' \in Seq(QueueNode) /\ DOMAIN nodes' = DOMAIN nodes
      /\ \A m \in DOMAIN nodes : /\ nodes'[m].next = nodes[m].next /\ nodes'[m].alive = nodes[m].alive
                                 /\ nodes'[m].internal = nodes[m].internal
                                 /\ nodes'[m].external = nodes[m].external
  <2>1. nodes \in Seq(QueueNode)
    BY <1>2 DEF QType
  <2>2. CASE nodes' = nodes
    BY <2>1, <2>2
  <2>3. CASE nodes' = [nodes EXCEPT ![old[t].ptr].data = Queue!Operation(t)]
    <3>1. Queue!Operation(t) \in Value \cup {NoData}
      BY <1>1, <1>2 DEF OpsOk
    <3> QED
      BY <1>3, <2>1, <2>3, <3>1, DataNodes
  <2> QED
    BY <2>2, <2>3 DEF Queue!PushData
<1>7. Queue!Operation(t)' = Queue!Operation(t)
  BY <1>1 DEF Queue!Operation
<1>8. /\ ~TailGone(t) /\ ~HeadGone(t) /\ ~TailGone(t)' /\ ~HeadGone(t)' /\ Owns(t)' /\ Uses(t)'
      /\ pc'[t] \in Copying /\ pc[t] \in Copying
  BY <1>1, <1>5 DEF TailGone, HeadGone, Owns, Uses, Copying
<1>9. OpsOk(t)'
  BY <1>1, <1>2, <1>5, <1>7 DEF OpsOk
<1>10. ReadOk(t)'
  BY <1>1, <1>2, <1>3, <1>5, <1>6, <1>8 DEF ReadOk
<1> QED
  BY <1>1, <1>2, <1>3, <1>5, <1>6, <1>8, <1>9, <1>10, QueueQuiet

(* A pop compares its head with the tail. *)
LEMMA QueuePopCompare == ASSUME QInv, NEW t \in Threads, Queue!PopCompare(t) PROVE QInv'
<1>1. /\ pc[t] = "compare" /\ nodes' = nodes /\ head' = head /\ tail' = tail /\ todo' = todo
      /\ old' = old /\ new' = new /\ to' = to
  BY DEF Queue!PopCompare
<1>2. head.ptr # Null /\ OpsOk(t) /\ ReadOk(t) /\ QType
  BY <1>1, QueueBusy DEF QInv
<1>3. PICK p \in {"next", "release"} :
          /\ pc' = [pc EXCEPT ![t] = p]
          /\ p = "release" => next' = [next EXCEPT ![t] = "done"]
          /\ p = "next" => next' = next /\ old[t].ptr # tail.ptr
  BY DEF Queue!PopCompare, Queue!Goto
<1>4. Moves(t) /\ pc'[t] = p
  <2>1. p \in QueuePlaces
    BY DEF QueuePlaces
  <2> QED
    BY <1>1, <1>2, <1>3, <2>1, QueueMoves
<1>5. p = "release" => next'[t] = "done"
  BY <1>2, <1>3 DEF QType
<1>6. Queue!Operation(t)' = Queue!Operation(t)
  BY <1>1 DEF Queue!Operation
<1>7. /\ ~TailGone(t) /\ ~HeadGone(t) /\ ~TailGone(t)' /\ ~HeadGone(t)' /\ ~Owns(t) /\ ~Owns(t)'
      /\ Uses(t) /\ pc'[t] \in Copying /\ pc[t] \in Copying
  BY <1>1, <1>4, <1>5 DEF TailGone, HeadGone, Owns, Uses, Copying
<1>8. OpsOk(t)'
  BY <1>1, <1>2, <1>4, <1>5, <1>6 DEF OpsOk
<1>9. ReadOk(t)'
  BY <1>1, <1>2, <1>3, <1>4, <1>7 DEF ReadOk
<1>10. nodes' \in Seq(QueueNode)
  BY <1>1, <1>2 DEF QType
<1> QED
  BY <1>1, <1>2, <1>4, <1>7, <1>8, <1>9, <1>10, QueueQuiet

(* A pop reads the next of its head. *)
LEMMA QueuePopNext == ASSUME QInv, NEW t \in Threads, Queue!PopNext(t) PROVE QInv'
<1>1. /\ pc[t] = "next" /\ nodes' = nodes /\ head' = head /\ tail' = tail /\ todo' = todo
      /\ old' = old /\ to' = to /\ next' = next
      /\ new' = [new EXCEPT ![t] = nodes[old[t].ptr].next] /\ pc' = [pc EXCEPT ![t] = "exchange"]
  BY DEF Queue!PopNext, Queue!Goto
<1>2. head.ptr # Null /\ OpsOk(t) /\ ReadOk(t) /\ QType
  BY <1>1, QueueBusy DEF QInv
<1>3. nodes[old[t].ptr].next \in CountedPtr
  BY <1>1, <1>2, QueueFacts DEF QUse, Uses, Copying
<1>4. Moves(t) /\ pc'[t] = "exchange"
  <2>1. "exchange" \in QueuePlaces
    BY DEF QueuePlaces
  <2> QED
    BY <1>1, <1>2, <1>3, <2>1, QueueMoves
<1>5. new'[t] = nodes[old[t].ptr].next
  BY <1>1, <1>2 DEF QType
<1>6. Queue!Operation(t)' = Queue!Operation(t)
  BY <1>1 DEF Queue!Operation
<1>7. /\ ~TailGone(t) /\ ~HeadGone(t) /\ ~TailGone(t)' /\ ~HeadGone(t)' /\ ~Owns(t) /\ ~Owns(t)'
      /\ Uses(t) /\ pc'[t] \in Copying /\ pc[t] \in Copying
  BY <1>1, <1>4 DEF TailGone, HeadGone, Owns, Uses, Copying
<1>8. OpsOk(t)'
  BY <1>1, <1>2, <1>4, <1>6 DEF OpsOk
<1>9. ReadOk(t)'
  BY <1>1, <1>2, <1>4, <1>5, <1>7 DEF ReadOk
<1>10. nodes' \in Seq(QueueNode)
  BY <1>1, <1>2 DEF QType
<1> QED
  BY <1>1, <1>2, <1>4, <1>7, <1>8, <1>9, <1>10, QueueQuiet

(* A pop that has moved head takes the data. *)
LEMMA QueuePopTake == ASSUME QInv, NEW t \in Threads, Queue!PopTake(t) PROVE QInv'
<1>1. /\ pc[t] = "take" /\ head' = head /\ tail' = tail /\ todo' = todo
      /\ old' = old /\ new' = new /\ to' = to /\ next' = [next EXCEPT ![t] = "done"]
      /\ pc' = [pc EXCEPT ![t] = "free"]
      /\ nodes' = [nodes EXCEPT ![old[t].ptr].data = NoData]
  BY QueueSame DEF Queue!PopTake, Queue!Goto
<1>2. head.ptr # Null /\ OpsOk(t) /\ ReadOk(t) /\ QType
  BY <1>1, QueueBusy DEF QInv
<1>3. old[t].ptr \in DOMAIN nodes /\ Queue!Operation(t) \notin Value
  BY <1>1, <1>2, QueueFacts DEF QUse, Uses, OpsOk
<1>4. Moves(t) /\ pc'[t] = "free"
  <2>1. "free" \in QueuePlaces
    BY DEF QueuePlaces
  <2> QED
    BY <1>1, <1>2, <2>1, QueueMoves
<1>5. next'[t] = "done"
  BY <1>1, <1>2 DEF QType
<1>6. Queue!Operation(t)' = Queue!Operation(t)
  BY <1>1 DEF Queue!Operation
<1>7. /\ ~TailGone(t) /\ HeadGone(t) /\ ~TailGone(t)' /\ HeadGone(t)' /\ ~Owns(t) /\ ~Owns(t)'
      /\ Uses(t) /\ pc'[t] \notin Copying /\ pc[t] \notin Copying
  BY <1>1, <1>3, <1>4, <1>5, <1>6 DEF TailGone, HeadGone, Owns, Uses, Copying
<1>8. OpsOk(t)'
  BY <1>1, <1>2, <1>3, <1>4, <1>5, <1>6 DEF OpsOk
<1>9. /\ nodes' \in Seq(QueueNode) /\ DOMAIN nodes' = DOMAIN nodes
      /\ \A m \in DOMAIN nodes : /\ nodes'[m].next = nodes[m].next /\ nodes'[m].alive = nodes[m].alive
                                 /\ nodes'[m].internal = nodes[m].internal
                                 /\ nodes'[m].external = nodes[m].external
  <2>1. nodes \in Seq(QueueNode) /\ NoData \in Value \cup {NoData}
    BY <1>2 DEF QType
  <2> QED
    BY <1>1, <1>3, <2>1, DataNodes
<1>10. CIn' = CIn
  <2>1. \A n \in CIn : n \in DOMAIN nodes' /\ nodes'[n].next = nodes[n].next
    BY <1>2, <1>9, QueueFacts
  <2> QED
    BY <1>1, <1>2, <1>9, <2>1, ListStays
<1>11. ReadOk(t)'
  BY <1>1, <1>2, <1>4, <1>7, <1>10 DEF ReadOk
<1> QED
  BY <1>1, <1>2, <1>4, <1>7, <1>8, <1>9, <1>11, QueueQuiet

(* The threads' own nodes, when none is made or linked and their counts    *)
(* are left alone.                                                         *)
LEMMA OwnQuiet ==
    ASSUME QInv, head.ptr # Null, NEW t \in Threads, Moves(t),
           Owns(t)' <=> Owns(t), Owns(t) => new'[t] = new[t], CIn' \subseteq CIn,
           \A n \in Own : /\ n \in DOMAIN nodes'
                          /\ nodes'[n].next = nodes[n].next /\ nodes'[n].alive = nodes[n].alive
                          /\ nodes'[n].internal = nodes[n].internal
                          /\ nodes'[n].external = nodes[n].external
    PROVE  Own' = Own /\ QOwn'
<1>1. Own' = Own
  <2>1. \A n : n \in Own' <=> n \in Own
    BY OwnMoves DEF Own
  <2> QED
    BY <2>1
<1>2. \A u \in Threads : Owns(u) => OwnOk(u) /\ new[u].ptr \in Own
  BY QueueFacts DEF QOwn, Own
<1>3. Owns(t)' => OwnOk(t)'
  <2>1. Owns(t) => new[t].ptr \in Alive'
    BY <1>2 DEF OwnOk, Alive
  <2> QED
    BY <1>2, <2>1 DEF OwnOk
<1>4. \A u \in Threads : u # t /\ Owns(u) =>
               /\ new[u].ptr \in DOMAIN nodes' /\ new[u].ptr \notin CIn'
               /\ nodes'[new[u].ptr].next = nodes[new[u].ptr].next
               /\ nodes'[new[u].ptr].internal = nodes[new[u].ptr].internal
               /\ nodes'[new[u].ptr].external = nodes[new[u].ptr].external
               /\ nodes'[new[u].ptr].alive = nodes[new[u].ptr].alive
  BY <1>2 DEF OwnOk
<1> QED
  BY <1>1, <1>3, <1>4, OwnStays

(* One push moves the tail, and is going to account for the old one.       *)
LEMMA QueueMoveTail == ASSUME QInv, NEW t \in Threads, Queue!MoveTail(t) PROVE QInv'
<1>1. /\ pc[t] = "move" /\ nodes' = nodes /\ head' = head /\ todo' = todo /\ new' = new
      /\ to' = to /\ next' = next
  BY DEF Queue!MoveTail
<1>2. head.ptr # Null /\ OpsOk(t) /\ ReadOk(t) /\ QType
  BY <1>1, QueueBusy DEF QInv
<1>3. Queue!Operation(t)' = Queue!Operation(t) /\ Queue!Operation(t) \in Value
  BY <1>1, <1>2 DEF Queue!Operation, OpsOk
<1>4. CASE tail.ptr # old[t].ptr
  <2>1. tail' = tail /\ old' = old /\ pc' = [pc EXCEPT ![t] = "release"]
    BY <1>4 DEF Queue!MoveTail, Queue!Goto
  <2>2. Moves(t) /\ pc'[t] = "release"
    <3>1. "release" \in QueuePlaces
      BY DEF QueuePlaces
    <3> QED
      BY <1>1, <1>2, <2>1, <3>1, QueueMoves
  <2>3. /\ ~TailGone(t) /\ ~HeadGone(t) /\ ~TailGone(t)' /\ ~HeadGone(t)' /\ (Owns(t)' <=> Owns(t))
        /\ Uses(t) /\ pc'[t] \in Copying /\ pc[t] \in Copying
    BY <1>1, <2>2 DEF TailGone, HeadGone, Owns, Uses, Copying
  <2>4. OpsOk(t)'
    BY <1>1, <1>2, <1>3, <2>2 DEF OpsOk
  <2>5. ReadOk(t)'
    BY <2>2, <2>3 DEF ReadOk
  <2>6. nodes' \in Seq(QueueNode)
    BY <1>1, <1>2 DEF QType
  <2> QED
    BY <1>1, <1>2, <1>4, <2>1, <2>2, <2>3, <2>4, <2>5, <2>6, QueueQuiet
<1>5. CASE tail.ptr = old[t].ptr
  <2>1. tail' = to[t] /\ old' = [old EXCEPT ![t] = tail] /\ pc' = [pc EXCEPT ![t] = "free"]
    BY <1>5 DEF Queue!MoveTail, Queue!Goto
  <2>2. Moves(t) /\ pc'[t] = "free" /\ old'[t] = tail
    <3>1. "free" \in QueuePlaces /\ tail \in CountedPtr
      BY <1>2 DEF QueuePlaces, QType
    <3>2. old'[t] = tail
      BY <1>2, <2>1 DEF QType
    <3> QED
      BY <1>1, <1>2, <2>1, <3>1, <3>2, QueueMoves
  <2>3. tail.ptr \in DOMAIN nodes /\ tail.ptr \in Nat /\ head.ptr \in Nat
    BY <1>2, QueueFacts
  <2>4. /\ to[t] = nodes[tail.ptr].next /\ to[t].ptr # Null /\ to[t].ext = 1 /\ to[t] \in CountedPtr
        /\ to[t].ptr \in CIn /\ to[t].ptr # tail.ptr /\ nodes[to[t].ptr].next.ptr = Null
    <3>1. to[t] = nodes[tail.ptr].next /\ to[t].ptr # Null
      BY <1>1, <1>2, <1>5 DEF ReadOk
    <3>2. to[t].ext = 1
      BY <1>2, <2>3, <3>1, QueueSame DEF QType
    <3> QED
      BY <1>2, <2>3, <3>1, <3>2, QueueFacts DEF QList
  <2>5. /\ ~TailGone(t) /\ ~HeadGone(t) /\ TailGone(t)' /\ ~HeadGone(t)' /\ (Owns(t)' <=> Owns(t))
        /\ Uses(t) /\ pc'[t] \notin Copying /\ pc[t] \in Copying
    BY <1>1, <1>3, <2>2 DEF TailGone, HeadGone, Owns, Uses, Copying
  <2>6. /\ \A n \in Nat : n # tail.ptr => Keepers(n)' = Keepers(n)
        /\ \A n \in Nat : n = tail.ptr =>
              /\ IsFiniteSet(Keepers(n)') /\ Cardinality(Keepers(n)) \in Nat
              /\ Cardinality(Keepers(n)') = Cardinality(Keepers(n)) - 1
    BY <1>2, <1>5, <2>2, <2>3, <2>5, KeepersLeave
  <2>7. QType'
    <3>0. \A n \in Nat : IsFiniteSet(Keepers(n))
      BY <1>2, QueueFacts
    <3>1. ASSUME NEW n \in Nat PROVE IsFiniteSet(Keepers(n)')
      BY <2>6, <3>0
    <3> QED
      BY <1>1, <1>2, <2>1, <2>2, <2>4, <3>1 DEF QType, Moves
  <2>8. QOps'
    <3>1. OpsOk(t)'
      BY <1>1, <1>2, <1>3, <2>2 DEF OpsOk
    <3> QED
      BY <2>2, <3>1, OpsStay DEF QInv
  <2>9. Alive' = Alive
    BY <1>1 DEF Alive
  <2>10. CIn' = CIn /\ CListOk'
    <3>1. \A n \in CIn : n \in DOMAIN nodes' /\ nodes'[n].next = nodes[n].next
      BY <1>1, <1>2, QueueFacts
    <3>2. nodes' \in Seq(QueueNode)
      BY <1>1, <1>2 DEF QType
    <3> QED
      BY <1>1, <1>2, <3>1, <3>2, ListStays
  <2>11. QList'
    BY <1>1, <1>2, <2>1, <2>4, <2>9, <2>10, QueueFacts DEF QList
  <2>12. QRead'
    <3>1. ReadOk(t)'
      BY <1>1, <2>1, <2>2, <2>4, <2>5 DEF ReadOk
    <3> QED
      BY <1>1, <1>2, <2>1, <2>2, <2>4, <2>10, <3>1, ReadStays
  <2>13. \A u \in Threads : u # t /\ TailGone(u) => old[u].ptr # tail.ptr /\ old[u].ptr # to[t].ptr
    BY <1>2, <2>4, QueueFacts DEF QRead, ReadOk
  <2>14. QOnce'
    <3>1. \A u \in Threads : u # t => Differ(t, u)
      BY <1>2, QueueFacts DEF QOnce
    <3>2. \A u \in Threads : u # t =>
              /\ TailGone(t)' /\ TailGone(u) => old'[t].ptr # old[u].ptr
              /\ HeadGone(t)' /\ HeadGone(u) => old'[t].ptr # old[u].ptr
              /\ Owns(t)' /\ Owns(u) => new'[t].ptr # new[u].ptr
      BY <1>1, <2>2, <2>5, <2>13, <3>1 DEF Differ
    <3> QED
      BY <1>2, <2>2, <3>2, OnceStays, QueueFacts
  <2>15. QUse'
    <3>1. \A u \in Threads : u # t /\ Uses(u) => old[u].ptr \in Alive'
      BY <1>2, <2>9, QueueFacts DEF QUse
    <3>2. old'[t].ptr \in Alive /\ old'[t].ptr \notin Own
      BY <1>2, <2>2, QueueFacts
    <3>3. Owns(t)' => new'[t].ptr \in Own
      BY <1>1, <2>5 DEF Own
    <3> QED
      BY <1>2, <2>2, <2>9, <3>1, <3>2, <3>3, UseStays
  <2>16. Own' = Own /\ QOwn'
    <3>1. \A n \in Own : n \in DOMAIN nodes'
      BY <1>1, <1>2, QueueFacts DEF Own, QOwn, OwnOk
    <3> QED
      BY <1>1, <1>2, <2>2, <2>5, <2>10, <3>1, OwnQuiet
  <2>17. \E a, b : Sums(a, b)'
    <3>1. PICK a, b : Sums(a, b)
      BY <1>2, QueueFacts
    <3>2. PICK c : c = [a EXCEPT ![tail.ptr] = @ - 1]
      OBVIOUS
    <3>3. /\ c \in [Nat -> Int] /\ c[tail.ptr] = a[tail.ptr] - 1
          /\ \A n \in Nat : n # tail.ptr => c[n] = a[n]
      BY <2>3, <3>1, <3>2 DEF Sums
    <3>4. a[tail.ptr] = tail.ext - 1 /\ tail.ext \in Int /\ to[t].ptr \in Nat
      BY <1>2, <2>4, <3>1 DEF Sums, QType, CountedPtr
    <3>5. \A u \in Threads : u # t => /\ TailGone(u)' <=> TailGone(u)
                                      /\ HeadGone(u)' <=> HeadGone(u)
                                      /\ old'[u] = old[u]
      BY <2>2, QueueOthers DEF Moves
    <3>6. \A u \in Threads : old[u].ptr \in Nat
      BY <1>2 DEF QType, CountedPtr
    <3>7. c[tail'.ptr] = tail'.ext - 1
      <4>1. a[to[t].ptr] = 0
        BY <2>4, <2>5, <2>13, <3>1, <3>4 DEF Sums
      <4> QED
        BY <2>1, <2>4, <3>3, <3>4, <4>1
    <3>8. ASSUME NEW u \in Threads, TailGone(u)' PROVE c[old'[u].ptr] = old'[u].ext - 2
      <4>1. CASE u = t
        BY <2>2, <3>3, <3>4, <4>1
      <4>2. CASE u # t
        BY <2>13, <3>1, <3>3, <3>5, <3>6, <3>8, <4>2 DEF Sums
      <4> QED
        BY <4>1, <4>2
    <3>9. \A u \in Threads : HeadGone(u)' => b[old'[u].ptr] = old'[u].ext - 2
      BY <2>5, <3>1, <3>5 DEF Sums
    <3>10. ASSUME NEW n \in Nat, n # tail'.ptr, \A u \in Threads : TailGone(u)' => old'[u].ptr # n
           PROVE  c[n] = 0
      <4>1. n # tail.ptr
        BY <2>2, <2>5, <3>10
      <4>2. \A u \in Threads : TailGone(u) => old[u].ptr # n
        BY <2>5, <3>5, <3>10
      <4> QED
        BY <3>1, <3>3, <4>1, <4>2 DEF Sums
    <3>11. \A n \in Nat : n # head'.ptr /\ (\A u \in Threads : HeadGone(u)' => old'[u].ptr # n) => b[n] = 0
      BY <1>1, <2>5, <3>1, <3>5 DEF Sums
    <3>12. ASSUME NEW n \in Alive', n \notin Own' PROVE Kept'[n] = c[n] + b[n]
      <4>1. n \in Alive /\ n \notin Own /\ n \in Nat /\ nodes[n].internal \in Int
        BY <1>2, <2>9, <2>16, <3>12, QueueFacts
      <4>2. Kept[n] = a[n] + b[n] /\ a[n] \in Int /\ b[n] \in Int
        BY <3>1, <4>1 DEF Sums
      <4>3. /\ Kept[n] = Cardinality(Keepers(n)) - nodes[n].internal
            /\ Kept'[n] = Cardinality(Keepers(n)') - nodes[n].internal
        BY <1>1, <1>2, <4>1, KeptFacts
      <4>4. CASE n = tail.ptr
        BY <2>6, <3>3, <4>1, <4>2, <4>3, <4>4
      <4>5. CASE n # tail.ptr
        BY <2>6, <3>3, <4>1, <4>2, <4>3, <4>5
      <4> QED
        BY <4>4, <4>5
    <3>13. Sums(c, b)'
      BY <1>1, <3>1, <3>3, <3>7, <3>8, <3>9, <3>10, <3>11, <3>12 DEF Sums
    <3> QED
      BY <3>13
  <2>18. QExternal'
    <3>1. \A n : n \in TailRefs' /\ n # Null <=> n \in TailRefs /\ n # Null
      <4>1. \A u \in Threads : TailGone(u)' <=> TailGone(u) \/ u = t
        BY <2>2, <2>5, QueueOthers
      <4>2. \A u \in Threads : u # t => old'[u] = old[u]
        BY <2>2 DEF Moves
      <4> QED
        BY <1>1, <2>1, <2>2, <2>4, <2>5, <4>1, <4>2 DEF TailRefs
    <3>2. HeadRefs' = HeadRefs
      <4>1. \A u \in Threads : (HeadGone(u)' <=> HeadGone(u)) /\ (HeadGone(u) => old'[u] = old[u])
        BY <2>2, <2>5, QueueOthers DEF Moves
      <4> QED
        BY <2>10, <4>1 DEF HeadRefs
    <3>3. QExternal /\ Null \notin Alive
      BY <1>2, QueueFacts
    <3> QED
      BY <1>1, <2>9, <2>16, <3>1, <3>2, <3>3, ExternalStays
  <2> QED
    BY <1>1, <1>2, <2>7, <2>8, <2>11, <2>12, <2>14, <2>15, <2>16, <2>17, <2>18 DEF QInv, QLive
<1> QED
  BY <1>4, <1>5

(* One pop moves head, and is going to account for the old one.            *)
LEMMA QueuePopExchange == ASSUME QInv, NEW t \in Threads, Queue!PopExchange(t) PROVE QInv'
<1>1. /\ pc[t] = "exchange" /\ nodes' = nodes /\ tail' = tail /\ todo' = todo /\ old' = old
      /\ new' = new /\ to' = to
  BY DEF Queue!PopExchange
<1>2. head.ptr # Null /\ OpsOk(t) /\ ReadOk(t) /\ QType
  BY <1>1, QueueBusy DEF QInv
<1>3. Queue!Operation(t)' = Queue!Operation(t) /\ Queue!Operation(t) \notin Value
  BY <1>1, <1>2 DEF Queue!Operation, OpsOk
<1>4. CASE head # old[t]
  <2>1. head' = head /\ next' = [next EXCEPT ![t] = "pop"] /\ pc' = [pc EXCEPT ![t] = "release"]
    BY <1>4 DEF Queue!PopExchange, Queue!Goto
  <2>2. Moves(t) /\ pc'[t] = "release"
    <3>1. "release" \in QueuePlaces
      BY DEF QueuePlaces
    <3> QED
      BY <1>1, <1>2, <2>1, <3>1, QueueMoves
  <2>3. next'[t] = "pop"
    BY <1>2, <2>1 DEF QType
  <2>4. /\ ~TailGone(t) /\ ~HeadGone(t) /\ ~TailGone(t)' /\ ~HeadGone(t)' /\ ~Owns(t) /\ ~Owns(t)'
        /\ Uses(t) /\ pc'[t] \in Copying /\ pc[t] \in Copying
    BY <1>1, <2>2, <2>3 DEF TailGone, HeadGone, Owns, Uses, Copying
  <2>5. OpsOk(t)'
    BY <1>1, <1>2, <1>3, <2>2, <2>3 DEF OpsOk
  <2>6. ReadOk(t)'
    BY <2>2, <2>4 DEF ReadOk
  <2>7. nodes' \in Seq(QueueNode)
    BY <1>1, <1>2 DEF QType
  <2> QED
    BY <1>1, <1>2, <2>1, <2>2, <2>4, <2>5, <2>6, <2>7, QueueQuiet
<1>5. CASE head = old[t]
  <2>1. head' = new[t] /\ next' = next /\ pc' = [pc EXCEPT ![t] = "take"]
    BY <1>5 DEF Queue!PopExchange, Queue!Goto
  <2>2. Moves(t) /\ pc'[t] = "take"
    <3>1. "take" \in QueuePlaces
      BY DEF QueuePlaces
    <3> QED
      BY <1>1, <1>2, <2>1, <3>1, QueueMoves
  <2>3. /\ tail.ptr \in DOMAIN nodes /\ tail.ptr \in Nat /\ head.ptr \in Nat /\ head.ptr \in CIn
        /\ head.ptr # tail.ptr
    BY <1>1, <1>2, <1>5, QueueFacts DEF ReadOk
  <2>4. /\ new[t] = nodes[head.ptr].next /\ new[t].ptr # Null /\ new[t].ext = 1 /\ new[t] \in CountedPtr
        /\ new[t].ptr \in CIn /\ new[t].ptr # head.ptr
    <3>1. new[t] = nodes[head.ptr].next /\ new[t].ptr # Null
      BY <1>1, <1>2, <1>5 DEF ReadOk
    <3>2. new[t].ext = 1
      <4>1. head.ptr \in DOMAIN nodes
        BY <1>2, <2>3, QueueFacts
      <4> QED
        BY <1>2, <3>1, <4>1, QueueSame DEF QType
    <3> QED
      BY <1>2, <2>3, <3>1, <3>2, QueueFacts DEF QList
  <2>5. /\ ~TailGone(t) /\ ~HeadGone(t) /\ ~TailGone(t)' /\ HeadGone(t)' /\ ~Owns(t) /\ ~Owns(t)'
        /\ Uses(t) /\ pc'[t] \notin Copying /\ pc[t] \in Copying
    BY <1>1, <1>3, <2>2 DEF TailGone, HeadGone, Owns, Uses, Copying
  <2>6. /\ \A n \in Nat : n # head.ptr => Keepers(n)' = Keepers(n)
        /\ \A n \in Nat : n = head.ptr =>
              /\ IsFiniteSet(Keepers(n)') /\ Cardinality(Keepers(n)) \in Nat
              /\ Cardinality(Keepers(n)') = Cardinality(Keepers(n)) - 1
    BY <1>2, <1>5, <2>2, <2>3, <2>5, KeepersLeave
  <2>7. QType'
    <3>0. \A n \in Nat : IsFiniteSet(Keepers(n))
      BY <1>2, QueueFacts
    <3>1. ASSUME NEW n \in Nat PROVE IsFiniteSet(Keepers(n)')
      BY <2>6, <3>0
    <3> QED
      BY <1>1, <1>2, <2>1, <2>2, <2>4, <3>1 DEF QType, Moves
  <2>8. QOps'
    <3>1. OpsOk(t)'
      BY <1>1, <1>2, <1>3, <2>2 DEF OpsOk
    <3> QED
      BY <2>2, <3>1, OpsStay DEF QInv
  <2>9. Alive' = Alive
    BY <1>1 DEF Alive
  <2>10. CIn' = CIn \ {head.ptr} /\ CListOk'
    <3>1. IsChain(CIn, head.ptr, NextOf(nodes))
      BY <1>2, QueueFacts DEF QList, CListOk
    <3>2. NextOf(nodes)[head.ptr] = new[t].ptr
      BY <1>2, <2>3, <2>4, QueueFacts DEF NextOf
    <3>3. IsChain(CIn \ {head.ptr}, new[t].ptr, NextOf(nodes))
      BY <1>2, <3>1, <3>2, ChainPop
    <3>4. nodes \in Seq(QueueNode)
      BY <1>2 DEF QType
    <3>5. Linked(new[t].ptr, NextOf(nodes)) = CIn \ {head.ptr}
      BY <3>3, <3>4, FoundNext
    <3> QED
      BY <1>1, <2>1, <3>3, <3>5 DEF CIn, CListOk
  <2>11. QList'
    <3>1. nodes[tail.ptr].next.ptr # Null => nodes[nodes[tail.ptr].next.ptr].next.ptr = Null
      BY <1>2, QueueFacts DEF QList
    <3>2. ASSUME nodes[tail.ptr].next.ptr # Null
          PROVE  \E u \in Threads : pc'[u] = "move" /\ old'[u].ptr = tail.ptr
      <4>1. PICK u \in Threads : pc[u] = "move" /\ old[u].ptr = tail.ptr
        BY <1>2, <3>2, QueueFacts DEF QList
      <4>2. u # t
        BY <1>1, <4>1
      <4> QED
        BY <2>2, <4>1, <4>2 DEF Moves
    <3>3. tail.ptr \in CIn /\ CIn \subseteq Alive
      BY <1>2, QueueFacts
    <3> QED
      BY <1>1, <2>3, <2>9, <2>10, <3>1, <3>2, <3>3 DEF QList
  <2>12. QRead'
    <3>1. ReadOk(t)'
      BY <1>1, <1>5, <2>2, <2>5, <2>10 DEF ReadOk
    <3> QED
      BY <1>1, <1>2, <2>2, <2>10, <3>1, ReadStays
  <2>13. \A u \in Threads : u # t /\ HeadGone(u) => old[u].ptr # head.ptr /\ old[u].ptr # new[t].ptr
    BY <1>2, <2>3, <2>4, QueueFacts DEF QRead, ReadOk
  <2>14. QOnce'
    <3>1. \A u \in Threads : u # t =>
              /\ TailGone(t)' /\ TailGone(u) => old'[t].ptr # old[u].ptr
              /\ HeadGone(t)' /\ HeadGone(u) => old'[t].ptr # old[u].ptr
              /\ Owns(t)' /\ Owns(u) => new'[t].ptr # new[u].ptr
      BY <1>1, <1>5, <2>5, <2>13
    <3> QED
      BY <1>2, <2>2, <3>1, OnceStays, QueueFacts
  <2>15. QUse'
    <3>1. \A u \in Threads : Uses(u) => old[u].ptr \in Alive /\ old[u].ptr \notin Own
      BY <1>2, QueueFacts DEF QUse
    <3> QED
      BY <1>1, <1>2, <2>2, <2>5, <2>9, <3>1, UseStays
  <2>16. Own' = Own /\ QOwn'
    <3>1. \A n \in Own : n \in DOMAIN nodes'
      BY <1>1, <1>2, QueueFacts DEF Own, QOwn, OwnOk
    <3> QED
      BY <1>1, <1>2, <2>2, <2>5, <2>10, <3>1, OwnQuiet
  <2>17. \E a, b : Sums(a, b)'
    <3>1. PICK a, b : Sums(a, b)
      BY <1>2, QueueFacts
    <3>2. PICK c : c = [b EXCEPT ![head.ptr] = @ - 1]
      OBVIOUS
    <3>3. /\ c \in [Nat -> Int] /\ c[head.ptr] = b[head.ptr] - 1
          /\ \A n \in Nat : n # head.ptr => c[n] = b[n]
      BY <2>3, <3>1, <3>2 DEF Sums
    <3>4. b[head.ptr] = head.ext - 1 /\ head.ext \in Int /\ new[t].ptr \in Nat
      BY <1>2, <2>4, <3>1 DEF Sums, QType, CountedPtr
    <3>5. \A u \in Threads : u # t => /\ TailGone(u)' <=> TailGone(u)
                                      /\ HeadGone(u)' <=> HeadGone(u)
      BY <2>2, QueueOthers
    <3>6. \A u \in Threads : old[u].ptr \in Nat
      BY <1>2 DEF QType, CountedPtr
    <3>7. c[head'.ptr] = head'.ext - 1
      <4>1. b[new[t].ptr] = 0
        BY <2>4, <2>5, <2>13, <3>1, <3>4 DEF Sums
      <4> QED
        BY <2>1, <2>4, <3>3, <3>4, <4>1
    <3>8. ASSUME NEW u \in Threads, HeadGone(u)' PROVE c[old'[u].ptr] = old'[u].ext - 2
      <4>1. CASE u = t
        BY <1>1, <1>5, <3>3, <3>4, <4>1
      <4>2. CASE u # t
        BY <1>1, <2>13, <3>1, <3>3, <3>5, <3>6, <3>8, <4>2 DEF Sums
      <4> QED
        BY <4>1, <4>2
    <3>9. \A u \in Threads : TailGone(u)' => a[old'[u].ptr] = old'[u].ext - 2
      BY <1>1, <2>5, <3>1, <3>5 DEF Sums
    <3>10. ASSUME NEW n \in Nat, n # head'.ptr, \A u \in Threads : HeadGone(u)' => old'[u].ptr # n
           PROVE  c[n] = 0
      <4>1. n # head.ptr
        BY <1>1, <1>5, <2>5, <3>10
      <4>2. \A u \in Threads : HeadGone(u) => old[u].ptr # n
        BY <1>1, <2>5, <3>5, <3>10
      <4> QED
        BY <3>1, <3>3, <4>1, <4>2 DEF Sums
    <3>11. \A n \in Nat : n # tail'.ptr /\ (\A u \in Threads : TailGone(u)' => old'[u].ptr # n) => a[n] = 0
      BY <1>1, <2>5, <3>1, <3>5 DEF Sums
    <3>12. ASSUME NEW n \in Alive', n \notin Own' PROVE Kept'[n] = a[n] + c[n]
      <4>1. n \in Alive /\ n \notin Own /\ n \in Nat /\ nodes[n].internal \in Int
        BY <1>2, <2>9, <2>16, <3>12, QueueFacts
      <4>2. Kept[n] = a[n] + b[n] /\ a[n] \in Int /\ b[n] \in Int
        BY <3>1, <4>1 DEF Sums
      <4>3. /\ Kept[n] = Cardinality(Keepers(n)) - nodes[n].internal
            /\ Kept'[n] = Cardinality(Keepers(n)') - nodes[n].internal
        BY <1>1, <1>2, <4>1, KeptFacts
      <4>4. CASE n = head.ptr
        BY <2>6, <3>3, <4>1, <4>2, <4>3, <4>4
      <4>5. CASE n # head.ptr
        BY <2>6, <3>3, <4>1, <4>2, <4>3, <4>5
      <4> QED
        BY <4>4, <4>5
    <3>13. Sums(a, c)'
      BY <1>1, <3>1, <3>3, <3>7, <3>8, <3>9, <3>10, <3>11, <3>12 DEF Sums
    <3> QED
      BY <3>13
  <2>18. QExternal'
    <3>1. TailRefs' = TailRefs
      <4>1. \A u \in Threads : TailGone(u)' <=> TailGone(u)
        BY <2>2, <2>5, QueueOthers
      <4> QED
        BY <1>1, <4>1 DEF TailRefs
    <3>2. HeadRefs' = HeadRefs
      <4>1. \A u \in Threads : HeadGone(u)' <=> HeadGone(u) \/ u = t
        BY <2>2, <2>5, QueueOthers
      <4> QED
        BY <1>1, <1>5, <2>3, <2>10, <4>1 DEF HeadRefs
    <3>3. QExternal
      BY <1>2, QueueFacts
    <3> QED
      BY <1>1, <2>9, <2>16, <3>1, <3>2, <3>3, ExternalStays
  <2> QED
    BY <1>1, <1>2, <2>1, <2>4, <2>7, <2>8, <2>11, <2>12, <2>14, <2>15, <2>16, <2>17, <2>18 DEF QInv, QLive
<1> QED
  BY <1>4, <1>5

(* A push copies the tail and counts itself in. *)
LEMMA QueuePushAcquire == ASSUME QInv, NEW t \in Threads, Queue!PushAcquire(t) PROVE QInv'
<1>1. /\ pc[t] = "push" /\ nodes' = nodes /\ head' = head /\ todo' = todo /\ new' = new
      /\ to' = to /\ next' = next
  BY DEF Queue!PushAcquire
<1>2. head.ptr # Null /\ OpsOk(t) /\ QType
  BY <1>1, QueueBusy DEF QInv
<1>3. PICK x : x = [tail EXCEPT !.ext = @ + 1]
  OBVIOUS
<1>4. /\ tail' = x /\ old' = [old EXCEPT ![t] = x] /\ pc' = [pc EXCEPT ![t] = "data"]
      /\ tail \in CountedPtr /\ x \in CountedPtr /\ x.ptr = tail.ptr /\ x.ext = tail.ext + 1
  <2>1. tail \in CountedPtr
    BY <1>2 DEF QType
  <2>2. x \in CountedPtr /\ x.ptr = tail.ptr /\ x.ext = tail.ext + 1
    BY <1>3, <2>1 DEF CountedPtr
  <2>3. tail' = x /\ old' = [old EXCEPT ![t] = x] /\ pc' = [pc EXCEPT ![t] = "data"]
    BY <1>3 DEF Queue!PushAcquire, Queue!Goto
  <2> QED
    BY <2>1, <2>2, <2>3
<1>5. Moves(t) /\ pc'[t] = "data" /\ old'[t] = x
  <2>1. "data" \in QueuePlaces
    BY DEF QueuePlaces
  <2>2. old'[t] = x
    BY <1>2, <1>4 DEF QType
  <2> QED
    BY <1>1, <1>2, <1>4, <2>1, <2>2, QueueMoves
<1>6. Queue!Operation(t)' = Queue!Operation(t)
  BY <1>1 DEF Queue!Operation
<1>7. /\ ~TailGone(t) /\ ~HeadGone(t) /\ ~TailGone(t)' /\ ~HeadGone(t)' /\ (Owns(t)' <=> Owns(t))
      /\ ~Uses(t) /\ Uses(t)' /\ pc'[t] \in Copying /\ pc[t] \notin Copying
  BY <1>1, <1>5 DEF TailGone, HeadGone, Owns, Uses, Copying
<1>8. /\ tail.ptr \in Nat /\ tail.ptr \in Alive /\ tail.ptr \notin Own /\ tail.ptr \in CIn
  BY <1>2, QueueFacts
<1>9. /\ \A n \in Nat : n # tail.ptr => Keepers(n)' = Keepers(n)
      /\ \A n \in Nat : n = tail.ptr =>
            /\ IsFiniteSet(Keepers(n)')
            /\ Cardinality(Keepers(n)') = Cardinality(Keepers(n)) + 1
  BY <1>2, <1>4, <1>5, <1>7, KeepersJoin
<1>10. QType'
  <2>0. \A n \in Nat : IsFiniteSet(Keepers(n))
    BY <1>2, QueueFacts
  <2>1. ASSUME NEW n \in Nat PROVE IsFiniteSet(Keepers(n)')
    BY <1>9, <2>0
  <2> QED
    BY <1>1, <1>2, <1>4, <1>5, <2>1 DEF QType, Moves
<1>11. QOps'
  <2>1. OpsOk(t)'
    BY <1>1, <1>2, <1>5, <1>6 DEF OpsOk
  <2> QED
    BY <1>5, <2>1, OpsStay DEF QInv
<1>12. Alive' = Alive
  BY <1>1 DEF Alive
<1>13. CIn' = CIn /\ CListOk'
  <2>1. \A n \in CIn : n \in DOMAIN nodes' /\ nodes'[n].next = nodes[n].next
    BY <1>1, <1>2, QueueFacts
  <2>2. nodes' \in Seq(QueueNode) /\ head'.ptr = head.ptr
    BY <1>1, <1>2, <1>4 DEF QType
  <2> QED
    BY <1>2, <2>1, <2>2, ListStays
<1>14. QList'
  <2>1. nodes[tail.ptr].next.ptr # Null => nodes[nodes[tail.ptr].next.ptr].next.ptr = Null
    BY <1>2, QueueFacts DEF QList
  <2>2. ASSUME nodes[tail.ptr].next.ptr # Null
        PROVE  \E u \in Threads : pc'[u] = "move" /\ old'[u].ptr = tail.ptr
    <3>1. PICK u \in Threads : pc[u] = "move" /\ old[u].ptr = tail.ptr
      BY <1>2, <2>2, QueueFacts DEF QList
    <3>2. u # t
      BY <1>1, <3>1
    <3> QED
      BY <1>5, <3>1, <3>2 DEF Moves
  <2>3. tail.ptr \in CIn /\ CIn \subseteq Alive /\ tail'.ptr = tail.ptr
    BY <1>1, <1>2, <1>4, QueueFacts
  <2> QED
    BY <1>1, <1>12, <1>13, <2>1, <2>2, <2>3 DEF QList
<1>15. QRead'
  <2>1. ReadOk(t)'
    BY <1>4, <1>5, <1>7 DEF ReadOk
  <2> QED
    BY <1>1, <1>2, <1>4, <1>5, <1>13, <2>1, ReadStays
<1>16. QOnce'
  <2>1. \A u \in Threads : u # t => Differ(t, u)
    BY <1>2, QueueFacts DEF QOnce
  <2>2. \A u \in Threads : u # t =>
            /\ TailGone(t)' /\ TailGone(u) => old'[t].ptr # old[u].ptr
            /\ HeadGone(t)' /\ HeadGone(u) => old'[t].ptr # old[u].ptr
            /\ Owns(t)' /\ Owns(u) => new'[t].ptr # new[u].ptr
    BY <1>1, <1>7, <2>1 DEF Differ
  <2> QED
    BY <1>2, <1>5, <2>2, OnceStays, QueueFacts
<1>17. QUse'
  <2>1. \A u \in Threads : u # t /\ Uses(u) => old[u].ptr \in Alive'
    BY <1>2, <1>12, QueueFacts DEF QUse
  <2>2. Owns(t)' => new'[t].ptr \in Own
    BY <1>1, <1>7 DEF Own
  <2> QED
    BY <1>2, <1>4, <1>5, <1>8, <1>12, <2>1, <2>2, UseStays
<1>18. Own' = Own /\ QOwn'
  <2>1. \A n \in Own : n \in DOMAIN nodes'
    BY <1>1, <1>2, QueueFacts DEF Own, QOwn, OwnOk
  <2> QED
    BY <1>1, <1>2, <1>5, <1>7, <1>13, <2>1, OwnQuiet
<1>19. \A u \in Threads : /\ TailGone(u)' <=> TailGone(u)
                          /\ HeadGone(u)' <=> HeadGone(u)
                          /\ TailGone(u) \/ HeadGone(u) => old'[u] = old[u]
  BY <1>5, <1>7, QueueOthers DEF Moves
<1>20. \E a, b : Sums(a, b)'
  <2>1. PICK a, b : Sums(a, b)
    BY <1>2, QueueFacts
  <2>2. PICK c : c = [a EXCEPT ![tail.ptr] = @ + 1]
    OBVIOUS
  <2>3. /\ c \in [Nat -> Int] /\ c[tail.ptr] = a[tail.ptr] + 1
        /\ \A n \in Nat : n # tail.ptr => c[n] = a[n]
    BY <1>8, <2>1, <2>2 DEF Sums
  <2>4. c[tail'.ptr] = tail'.ext - 1
    <3>1. a[tail.ptr] = tail.ext - 1 /\ tail.ext \in Int
      BY <1>4, <2>1 DEF Sums, CountedPtr
    <3> QED
      BY <1>4, <2>3, <3>1
  <2>5. \A u \in Threads : TailGone(u)' => c[old'[u].ptr] = old'[u].ext - 2
    <3>1. \A u \in Threads : TailGone(u) => old[u].ptr # tail.ptr /\ old[u].ptr \in Nat
      BY <1>2, <1>8, QueueFacts DEF QType, CountedPtr, QRead, ReadOk
    <3> QED
      BY <1>19, <2>1, <2>3, <3>1 DEF Sums
  <2>6. \A n \in Nat : n # tail'.ptr /\ (\A u \in Threads : TailGone(u)' => old'[u].ptr # n) => c[n] = 0
    BY <1>4, <1>19, <2>1, <2>3 DEF Sums
  <2>7. ASSUME NEW n \in Alive', n \notin Own' PROVE Kept'[n] = c[n] + b[n]
    <3>1. n \in Alive /\ n \notin Own /\ n \in Nat /\ nodes[n].internal \in Int
      BY <1>2, <1>12, <1>18, <2>7, QueueFacts
    <3>2. Kept[n] = a[n] + b[n] /\ a[n] \in Int /\ b[n] \in Int /\ Cardinality(Keepers(n)) \in Nat
      BY <1>2, <2>1, <3>1, QueueFacts DEF Sums
    <3>3. /\ Kept[n] = Cardinality(Keepers(n)) - nodes[n].internal
          /\ Kept'[n] = Cardinality(Keepers(n)') - nodes[n].internal
      BY <1>1, <1>2, <3>1, KeptFacts
    <3>4. CASE n = tail.ptr
      BY <1>9, <2>3, <3>1, <3>2, <3>3, <3>4
    <3>5. CASE n # tail.ptr
      BY <1>9, <2>3, <3>1, <3>2, <3>3, <3>5
    <3> QED
      BY <3>4, <3>5
  <2>8. Sums(c, b)'
    BY <1>1, <1>19, <2>1, <2>3, <2>4, <2>5, <2>6, <2>7 DEF Sums
  <2> QED
    BY <2>8
<1>21. QExternal'
  <2>1. TailRefs' = TailRefs
    BY <1>1, <1>4, <1>19 DEF TailRefs
  <2>2. HeadRefs' = HeadRefs
    BY <1>13, <1>19 DEF HeadRefs
  <2>3. QExternal
    BY <1>2, QueueFacts
  <2> QED
    BY <1>1, <1>12, <1>18, <2>1, <2>2, <2>3, ExternalStays
<1>22. head'.ptr # Null
  BY <1>1, <1>2, <1>4
<1> QED
  BY <1>10, <1>11, <1>14, <1>15, <1>16, <1>17, <1>18, <1>20, <1>21, <1>22 DEF QInv, QLive

(* The head of a queue that is not empty leads to another node. *)
LEMMA QueueHeadLeads ==
    ASSUME QInv, head.ptr # Null, head.ptr # tail.ptr
    PROVE  nodes[head.ptr].next.ptr # Null
<1>1. IsChain(CIn, head.ptr, NextOf(nodes)) /\ tail.ptr \in CIn /\ head.ptr \in DOMAIN nodes
  BY QueueFacts DEF QList, CListOk
<1>2. IsChain(CIn \ {head.ptr}, NextOf(nodes)[head.ptr], NextOf(nodes))
  BY <1>1, ChainPop
<1>3. NextOf(nodes)[head.ptr] # Null
  BY <1>1, <1>2, ChainFacts
<1> QED
  BY <1>1, <1>3 DEF NextOf

(* A pop copies the head and counts itself in. *)
LEMMA QueuePopAcquire == ASSUME QInv, NEW t \in Threads, Queue!PopAcquire(t) PROVE QInv'
<1>1. /\ pc[t] \in {"idle", "pop"} /\ nodes' = nodes /\ tail' = tail /\ todo' = todo /\ new' = new
      /\ to' = to /\ next' = next
  BY DEF Queue!PopAcquire, Queue!Calls
<1>0. pc[t] = "idle" => todo[t] # <<>> /\ Queue!Operation(t) \notin Value
  BY ThreadsAssumption DEF Queue!PopAcquire, Queue!Calls
<1>2. head.ptr # Null /\ todo[t] # <<>> /\ Queue!Operation(t) \notin Value /\ QType
  <2>1. pc[t] # "idle" \/ todo[t] # <<>>
    BY <1>0, <1>1
  <2> QED
    BY <1>0, <1>1, <2>1, QueueBusy DEF QInv, OpsOk
<1>3. PICK x : x = [head EXCEPT !.ext = @ + 1]
  OBVIOUS
<1>4. /\ head' = x /\ old' = [old EXCEPT ![t] = x] /\ pc' = [pc EXCEPT ![t] = "compare"]
      /\ head \in CountedPtr /\ x \in CountedPtr /\ x.ptr = head.ptr /\ x.ext = head.ext + 1
  <2>1. head \in CountedPtr
    BY <1>2 DEF QType
  <2>2. x \in CountedPtr /\ x.ptr = head.ptr /\ x.ext = head.ext + 1
    BY <1>3, <2>1 DEF CountedPtr
  <2>3. head' = x /\ old' = [old EXCEPT ![t] = x] /\ pc' = [pc EXCEPT ![t] = "compare"]
    BY <1>3 DEF Queue!PopAcquire, Queue!Goto
  <2> QED
    BY <2>1, <2>2, <2>3
<1>5. Moves(t) /\ pc'[t] = "compare" /\ old'[t] = x
  <2>1. "compare" \in QueuePlaces
    BY DEF QueuePlaces
  <2>2. old'[t] = x
    BY <1>2, <1>4 DEF QType
  <2> QED
    BY <1>1, <1>2, <1>4, <2>1, <2>2, QueueMoves
<1>6. Queue!Operation(t)' = Queue!Operation(t)
  BY <1>1 DEF Queue!Operation
<1>7. /\ ~TailGone(t) /\ ~HeadGone(t) /\ ~TailGone(t)' /\ ~HeadGone(t)' /\ (Owns(t)' <=> Owns(t))
      /\ ~Uses(t) /\ Uses(t)' /\ pc'[t] \in Copying /\ pc[t] \notin Copying
  BY <1>1, <1>5 DEF TailGone, HeadGone, Owns, Uses, Copying
<1>8. /\ head.ptr \in Nat /\ head.ptr \in Alive /\ head.ptr \notin Own /\ head.ptr \in CIn
  BY <1>2, QueueFacts
<1>9. /\ \A n \in Nat : n # head.ptr => Keepers(n)' = Keepers(n)
      /\ \A n \in Nat : n = head.ptr =>
            /\ IsFiniteSet(Keepers(n)')
            /\ Cardinality(Keepers(n)') = Cardinality(Keepers(n)) + 1
  BY <1>2, <1>4, <1>5, <1>7, KeepersJoin
<1>10. QType'
  <2>0. \A n \in Nat : IsFiniteSet(Keepers(n))
    BY <1>2, QueueFacts
  <2>1. ASSUME NEW n \in Nat PROVE IsFiniteSet(Keepers(n)')
    BY <1>9, <2>0
  <2> QED
    BY <1>1, <1>2, <1>4, <1>5, <2>1 DEF QType, Moves
<1>11. QOps'
  <2>1. OpsOk(t)'
    BY <1>1, <1>2, <1>5, <1>6 DEF OpsOk
  <2> QED
    BY <1>5, <2>1, OpsStay DEF QInv
<1>12. Alive' = Alive
  BY <1>1 DEF Alive
<1>13. CIn' = CIn /\ CListOk'
  <2>1. \A n \in CIn : n \in DOMAIN nodes' /\ nodes'[n].next = nodes[n].next
    BY <1>1, <1>2, QueueFacts
  <2>2. nodes' \in Seq(QueueNode) /\ head'.ptr = head.ptr
    BY <1>1, <1>2, <1>4 DEF QType
  <2> QED
    BY <1>2, <2>1, <2>2, ListStays
<1>14. QList'
  <2>1. nodes[tail.ptr].next.ptr # Null => nodes[nodes[tail.ptr].next.ptr].next.ptr = Null
    BY <1>2, QueueFacts DEF QList
  <2>2. ASSUME nodes[tail.ptr].next.ptr # Null
        PROVE  \E u \in Threads : pc'[u] = "move" /\ old'[u].ptr = tail.ptr
    <3>1. PICK u \in Threads : pc[u] = "move" /\ old[u].ptr = tail.ptr
      BY <1>2, <2>2, QueueFacts DEF QList
    <3>2. u # t
      BY <1>1, <3>1
    <3> QED
      BY <1>5, <3>1, <3>2 DEF Moves
  <2>3. tail.ptr \in CIn /\ CIn \subseteq Alive /\ tail'.ptr = tail.ptr
    BY <1>1, <1>2, <1>4, QueueFacts
  <2> QED
    BY <1>1, <1>12, <1>13, <2>1, <2>2, <2>3 DEF QList
<1>15. QRead'
  <2>1. ReadOk(t)'
    <3>1. head.ptr # tail.ptr => nodes[head.ptr].next.ptr # Null
      BY <1>2, QueueHeadLeads
    <3> QED
      BY <1>1, <1>4, <1>5, <1>7, <3>1 DEF ReadOk
  <2> QED
    BY <1>1, <1>2, <1>4, <1>5, <1>13, <2>1, ReadStays
<1>16. QOnce'
  <2>1. \A u \in Threads : u # t => Differ(t, u)
    BY <1>2, QueueFacts DEF QOnce
  <2>2. \A u \in Threads : u # t =>
            /\ TailGone(t)' /\ TailGone(u) => old'[t].ptr # old[u].ptr
            /\ HeadGone(t)' /\ HeadGone(u) => old'[t].ptr # old[u].ptr
            /\ Owns(t)' /\ Owns(u) => new'[t].ptr # new[u].ptr
    BY <1>1, <1>7, <2>1 DEF Differ
  <2> QED
    BY <1>2, <1>5, <2>2, OnceStays, QueueFacts
<1>17. QUse'
  <2>1. \A u \in Threads : u # t /\ Uses(u) => old[u].ptr \in Alive'
    BY <1>2, <1>12, QueueFacts DEF QUse
  <2>2. Owns(t)' => new'[t].ptr \in Own
    BY <1>1, <1>7 DEF Own
  <2> QED
    BY <1>2, <1>4, <1>5, <1>8, <1>12, <2>1, <2>2, UseStays
<1>18. Own' = Own /\ QOwn'
  <2>1. \A n \in Own : n \in DOMAIN nodes'
    BY <1>1, <1>2, QueueFacts DEF Own, QOwn, OwnOk
  <2> QED
    BY <1>1, <1>2, <1>5, <1>7, <1>13, <2>1, OwnQuiet
<1>19. \A u \in Threads : /\ TailGone(u)' <=> TailGone(u)
                          /\ HeadGone(u)' <=> HeadGone(u)
                          /\ TailGone(u) \/ HeadGone(u) => old'[u] = old[u]
  BY <1>5, <1>7, QueueOthers DEF Moves
<1>20. \E a, b : Sums(a, b)'
  <2>1. PICK a, b : Sums(a, b)
    BY <1>2, QueueFacts
  <2>2. PICK c : c = [b EXCEPT ![head.ptr] = @ + 1]
    OBVIOUS
  <2>3. /\ c \in [Nat -> Int] /\ c[head.ptr] = b[head.ptr] + 1
        /\ \A n \in Nat : n # head.ptr => c[n] = b[n]
    BY <1>8, <2>1, <2>2 DEF Sums
  <2>4. c[head'.ptr] = head'.ext - 1
    <3>1. b[head.ptr] = head.ext - 1 /\ head.ext \in Int
      BY <1>4, <2>1 DEF Sums, CountedPtr
    <3> QED
      BY <1>4, <2>3, <3>1
  <2>5. \A u \in Threads : HeadGone(u)' => c[old'[u].ptr] = old'[u].ext - 2
    <3>1. \A u \in Threads : HeadGone(u) => old[u].ptr # head.ptr /\ old[u].ptr \in Nat
      BY <1>2, <1>8, QueueFacts DEF QType, CountedPtr, QRead, ReadOk
    <3> QED
      BY <1>19, <2>1, <2>3, <3>1 DEF Sums
  <2>6. \A n \in Nat : n # head'.ptr /\ (\A u \in Threads : HeadGone(u)' => old'[u].ptr # n) => c[n] = 0
    BY <1>4, <1>19, <2>1, <2>3 DEF Sums
  <2>7. ASSUME NEW n \in Alive', n \notin Own' PROVE Kept'[n] = a[n] + c[n]
    <3>1. n \in Alive /\ n \notin Own /\ n \in Nat /\ nodes[n].internal \in Int
      BY <1>2, <1>12, <1>18, <2>7, QueueFacts
    <3>2. Kept[n] = a[n] + b[n] /\ a[n] \in Int /\ b[n] \in Int /\ Cardinality(Keepers(n)) \in Nat
      BY <1>2, <2>1, <3>1, QueueFacts DEF Sums
    <3>3. /\ Kept[n] = Cardinality(Keepers(n)) - nodes[n].internal
          /\ Kept'[n] = Cardinality(Keepers(n)') - nodes[n].internal
      BY <1>1, <1>2, <3>1, KeptFacts
    <3>4. CASE n = head.ptr
      BY <1>9, <2>3, <3>1, <3>2, <3>3, <3>4
    <3>5. CASE n # head.ptr
      BY <1>9, <2>3, <3>1, <3>2, <3>3, <3>5
    <3> QED
      BY <3>4, <3>5
  <2>8. Sums(a, c)'
    BY <1>1, <1>19, <2>1, <2>3, <2>4, <2>5, <2>6, <2>7 DEF Sums
  <2> QED
    BY <2>8
<1>21. QExternal'
  <2>1. TailRefs' = TailRefs
    BY <1>1, <1>4, <1>19 DEF TailRefs
  <2>2. HeadRefs' = HeadRefs
    BY <1>13, <1>19 DEF HeadRefs
  <2>3. QExternal
    BY <1>2, QueueFacts
  <2> QED
    BY <1>1, <1>12, <1>18, <2>1, <2>2, <2>3, ExternalStays
<1>22. head'.ptr # Null
  BY <1>1, <1>2, <1>4
<1> QED
  BY <1>10, <1>11, <1>14, <1>15, <1>16, <1>17, <1>18, <1>20, <1>21, <1>22 DEF QInv, QLive

(* A new node at the end of the nodes. *)
LEMMA AddedNode ==
    ASSUME NEW s \in Seq(QueueNode), NEW made, made = Append(s, Queue!Node)
    PROVE  /\ made \in Seq(QueueNode) /\ Len(made) = Len(s) + 1 /\ Len(made) \in Nat
           /\ Len(made) \notin DOMAIN s /\ DOMAIN made = DOMAIN s \cup {Len(made)}
           /\ made[Len(made)] = Queue!Node /\ \A n \in DOMAIN s : made[n] = s[n]
<1>1. Queue!Node \in QueueNode /\ Len(s) \in Nat /\ DOMAIN s = 1 .. Len(s)
  BY QueueSame
<1>2. /\ made \in Seq(QueueNode) /\ Len(made) = Len(s) + 1 /\ made[Len(s) + 1] = Queue!Node
      /\ \A n \in 1 .. Len(s) : made[n] = s[n]
  BY <1>1, AppendProperties
<1>3. DOMAIN made = 1 .. Len(s) + 1
  BY <1>2
<1> QED
  BY <1>1, <1>2, <1>3

(* The next pointer of a node is set. *)
LEMMA LinkedNode ==
    ASSUME NEW s \in Seq(QueueNode), NEW n \in DOMAIN s, NEW x \in CountedPtr, NEW made,
           made = [s EXCEPT ![n].next = x]
    PROVE  /\ made \in Seq(QueueNode) /\ DOMAIN made = DOMAIN s /\ made[n].next = x
           /\ \A m \in DOMAIN s : /\ m # n => made[m].next = s[m].next
                                  /\ made[m].alive = s[m].alive
                                  /\ made[m].internal = s[m].internal
                                  /\ made[m].external = s[m].external
<1>1. s[n] \in QueueNode
  BY ElementOfSeq, LenProperties
<1>2. PICK y : y = [s[n] EXCEPT !.next = x]
  OBVIOUS
<1>3. /\ y \in QueueNode /\ y.next = x /\ y.alive = s[n].alive
      /\ y.internal = s[n].internal /\ y.external = s[n].external
  BY <1>1, <1>2 DEF QueueNode
<1>4. made = [s EXCEPT ![n] = y]
  BY <1>2
<1>5. /\ made \in Seq(QueueNode) /\ DOMAIN made = DOMAIN s /\ made[n] = y
      /\ \A m \in DOMAIN s : m # n => made[m] = s[m]
  BY <1>3, <1>4, Changed
<1> QED
  BY <1>3, <1>5

(* A push makes its node. *)
LEMMA QueuePushStart == ASSUME QInv, NEW t \in Threads, Queue!PushStart(t) PROVE QInv'
<1>1. /\ pc[t] = "idle" /\ todo[t] # <<>> /\ Queue!Operation(t) \in Value
      /\ head' = head /\ tail' = tail /\ todo' = todo /\ old' = old /\ to' = to /\ next' = next
      /\ nodes' = Append(nodes, Queue!Node) /\ pc' = [pc EXCEPT ![t] = "push"]
      /\ new' = [new EXCEPT ![t] = Queue!Counted(Len(nodes'))]
  BY DEF Queue!PushStart, Queue!Calls, Queue!Goto
<1>2. head.ptr # Null /\ QType
  BY <1>1, QueueBusy DEF QInv
<1>3. /\ nodes' \in Seq(QueueNode) /\ Len(nodes') \in Nat /\ Len(nodes') \notin DOMAIN nodes
      /\ DOMAIN nodes' = DOMAIN nodes \cup {Len(nodes')}
      /\ nodes'[Len(nodes')] = Queue!Node /\ \A n \in DOMAIN nodes : nodes'[n] = nodes[n]
  <2>1. nodes \in Seq(QueueNode)
    BY <1>2 DEF QType
  <2>2. PICK made : made = Append(nodes, Queue!Node)
    OBVIOUS
  <2>3. /\ made \in Seq(QueueNode) /\ Len(made) \in Nat
        /\ Len(made) \notin DOMAIN nodes /\ DOMAIN made = DOMAIN nodes \cup {Len(made)}
        /\ made[Len(made)] = Queue!Node /\ \A n \in DOMAIN nodes : made[n] = nodes[n]
    BY <2>1, <2>2, AddedNode
  <2>4. nodes' = made
    BY <1>1, <2>2
  <2> QED
    BY <2>3, <2>4
<1>4. PICK x \in CountedPtr : x = Queue!Counted(Len(nodes')) /\ x.ptr = Len(nodes') /\ x.ext = 1
  <2>1. PICK m \in Nat : m = Len(nodes')
    BY <1>3
  <2>2. Queue!Counted(m) \in CountedPtr /\ Queue!Counted(m).ext = 1 /\ Queue!Counted(m).ptr = m
    BY QueueSame
  <2> QED
    BY <2>1, <2>2
<1>5. new' = [new EXCEPT ![t] = x] /\ new'[t] = x
  BY <1>1, <1>2, <1>4 DEF QType
<1>6. Moves(t) /\ pc'[t] = "push"
  <2>1. "push" \in QueuePlaces
    BY DEF QueuePlaces
  <2> QED
    BY <1>1, <1>2, <1>5, <2>1, QueueMoves
<1>7. Queue!Operation(t)' = Queue!Operation(t)
  BY <1>1 DEF Queue!Operation
<1>8. /\ ~TailGone(t) /\ ~HeadGone(t) /\ ~TailGone(t)' /\ ~HeadGone(t)' /\ ~Owns(t) /\ Owns(t)'
      /\ ~Uses(t) /\ ~Uses(t)' /\ pc'[t] \notin Copying /\ pc[t] \notin Copying
  BY <1>1, <1>6 DEF TailGone, HeadGone, Owns, Uses, Copying
<1>9. OpsOk(t)'
  BY <1>1, <1>6, <1>7 DEF OpsOk
<1>10. ReadOk(t)'
  BY <1>6, <1>8 DEF ReadOk
<1>11. \A n \in DOMAIN nodes : n \in DOMAIN nodes' /\ nodes'[n] = nodes[n]
  BY <1>3
<1>12. \A n \in DOMAIN nodes' : n \in DOMAIN nodes \/ (Owns(t)' /\ n = new'[t].ptr)
  BY <1>3, <1>4, <1>5, <1>8
<1>13. /\ new'[t].ptr \in DOMAIN nodes' /\ new'[t].ptr \notin DOMAIN nodes
       /\ new'[t].ext = 1 /\ nodes'[new'[t].ptr] = Queue!Node
  BY <1>3, <1>4, <1>5
<1> QED
  BY <1>1, <1>2, <1>3, <1>6, <1>8, <1>9, <1>10, <1>11, <1>12, <1>13, QueueOwnStep

(* A node is linked to the last; the push that linked it may have made     *)
(* another for itself.                                                     *)
LEMMA QueueLinked ==
    ASSUME QInv, head.ptr # Null, NEW t \in Threads, Moves(t), head' = head, tail' = tail,
           pc[t] \in {"link", "help"}, pc'[t] = "move", nodes[old[t].ptr].next.ptr = Null,
           nodes' \in Seq(QueueNode), old' = old, to'[t] = new[t], OpsOk(t)',
           \A n \in DOMAIN nodes : /\ n \in DOMAIN nodes'
                                   /\ n # old[t].ptr => nodes'[n].next = nodes[n].next
                                   /\ nodes'[n].alive = nodes[n].alive
                                   /\ nodes'[n].internal = nodes[n].internal
                                   /\ nodes'[n].external = nodes[n].external,
           nodes'[old[t].ptr].next = new[t],
           \A n \in DOMAIN nodes' : n \in DOMAIN nodes \/ (Owns(t)' /\ n = new'[t].ptr),
           Owns(t)' => /\ new'[t].ptr \in DOMAIN nodes' /\ new'[t].ptr \notin DOMAIN nodes
                       /\ new'[t].ext = 1 /\ nodes'[new'[t].ptr] = Queue!Node
    PROVE  QInv'
<1>0. /\ DOMAIN nodes \subseteq DOMAIN nodes' /\ Alive \subseteq DOMAIN nodes /\ CIn \subseteq Alive
      /\ ReadOk(t) /\ QType
  BY QueueFacts DEF QRead, QInv
<1>1. PICK m : m = new[t].ptr
  OBVIOUS
<1>2. /\ \A u \in Threads : Owns(u) => OwnOk(u) /\ new[u].ptr \in DOMAIN nodes /\ new[u].ptr \in Own
      /\ \A u \in Threads : u # t /\ Owns(u) /\ Owns(t) => new[u].ptr # new[t].ptr
  <2>1. \A u \in Threads : Owns(u) => OwnOk(u)
    BY QueueFacts DEF QOwn
  <2>2. \A u \in Threads : Owns(u) => new[u].ptr \in DOMAIN nodes /\ new[u].ptr \in Own
    BY <1>0, <2>1 DEF OwnOk, Own
  <2>3. \A u \in Threads : u # t => Differ(u, t)
    BY QueueFacts DEF QOnce
  <2> QED
    BY <2>1, <2>2, <2>3 DEF Differ
<1>3. Owns(t) /\ Uses(t) /\ pc[t] \in Copying /\ pc'[t] \in Copying /\ Uses(t)'
  BY DEF Owns, Uses, Copying
<1>4. /\ m \in Alive /\ m \notin CIn /\ m \in Own /\ nodes[m].next = Queue!NoNode /\ new[t].ext = 1
      /\ nodes[m].internal = 0 /\ nodes[m].external = 2 /\ m \in DOMAIN nodes /\ m # Null /\ m \in Nat
  BY <1>1, <1>2, <1>3, QueueFacts DEF OwnOk
<1>5. /\ old[t].ptr = tail.ptr /\ tail.ptr \in CIn /\ tail.ptr \notin Own /\ tail.ptr \in DOMAIN nodes
      /\ m # tail.ptr /\ nodes[tail.ptr].next.ptr = Null /\ nodes'[tail.ptr].next.ptr = m
  BY <1>0, <1>1, <1>4, QueueFacts DEF ReadOk
<1>6. ~TailGone(t) /\ ~HeadGone(t) /\ ~TailGone(t)' /\ ~HeadGone(t)'
  BY DEF TailGone, HeadGone
<1>7. /\ Alive \subseteq Alive'
      /\ \A n \in Alive' : n \in Alive \/ (Owns(t)' /\ n = new'[t].ptr)
  BY <1>0 DEF Alive
<1>8. \A n \in Nat : Keepers(n)' = Keepers(n)
  BY <1>3, KeepersStay
<1>9. QType'
  <2>1. \A n \in Nat : IsFiniteSet(Keepers(n)')
    <3>1. \A n \in Nat : IsFiniteSet(Keepers(n))
      BY <1>0 DEF QType
    <3> QED
      BY <1>8, <3>1
  <2>2. ASSUME NEW n \in DOMAIN nodes'
        PROVE  nodes'[n].next = Queue!NoNode \/ (nodes'[n].next.ext = 1 /\ nodes'[n].next.ptr # Null)
    <3>1. CASE n \in DOMAIN nodes
      BY <1>0, <1>1, <1>4, <3>1 DEF QType
    <3>2. CASE n \notin DOMAIN nodes
      BY <2>2, <3>2, QueueSame
    <3> QED
      BY <3>1, <3>2
  <2> QED
    BY <1>0, <2>1, <2>2 DEF QType, Moves
<1>10. QOps'
  BY OpsStay DEF QInv
<1>11. CIn' = CIn \cup {m} /\ CListOk'
  <2>1. IsChain(CIn, head.ptr, NextOf(nodes)) /\ NextOf(nodes)[tail.ptr] = Null
    BY <1>5, QueueFacts DEF QList, CListOk, NextOf
  <2>2. /\ m \in DOMAIN NextOf(nodes') /\ NextOf(nodes')[m] = Null
        /\ NextOf(nodes')[tail.ptr] = m
    BY <1>0, <1>4, <1>5, QueueSame DEF NextOf
  <2>3. \A n \in CIn : /\ n \in DOMAIN NextOf(nodes')
                       /\ n # tail.ptr => NextOf(nodes')[n] = NextOf(nodes)[n]
    BY <1>0, <1>5 DEF NextOf
  <2>4. IsChain(CIn \cup {m}, head.ptr, NextOf(nodes'))
    BY <1>4, <1>5, <2>1, <2>2, <2>3, ChainAppend
  <2>5. Linked(head.ptr, NextOf(nodes')) = CIn \cup {m}
    BY <2>4, FoundNext
  <2> QED
    BY <2>4, <2>5 DEF CIn, CListOk
<1>12. QList'
  <2>1. nodes'[m].next.ptr = Null
    BY <1>4, <1>5, QueueSame
  <2> QED
    BY <1>0, <1>4, <1>5, <1>7, <1>11, <2>1 DEF QList
<1>13. QRead'
  <2>1. ReadOk(t)'
    BY <1>1, <1>4, <1>6 DEF ReadOk
  <2>2. \A n \in Alive : nodes[n].next.ptr # Null => nodes'[n].next = nodes[n].next
    BY <1>0
  <2>3. CIn' \subseteq CIn \cup Own
    BY <1>4, <1>11
  <2> QED
    BY <2>1, <2>2, <2>3, ReadStays
<1>14. QOnce'
  <2>1. \A u \in Threads : u # t =>
            /\ TailGone(t)' /\ TailGone(u) => old'[t].ptr # old[u].ptr
            /\ HeadGone(t)' /\ HeadGone(u) => old'[t].ptr # old[u].ptr
            /\ Owns(t)' /\ Owns(u) => new'[t].ptr # new[u].ptr
    BY <1>2, <1>6
  <2>2. QOnce
    BY QueueFacts
  <2> QED
    BY <2>1, <2>2, OnceStays
<1>15. QUse'
  <2>1. \A u \in Threads : Uses(u) => old[u].ptr \in Alive /\ old[u].ptr \notin Own
    BY QueueFacts DEF QUse
  <2>2. Owns(t)' => new'[t].ptr \notin Alive
    BY <1>0
  <2> QED
    BY <1>3, <1>7, <2>1, <2>2, UseStays
<1>16. \A n \in Alive' : n \notin Own' => n \in Alive /\ (n = m \/ n \notin Own)
  <2>1. \A n \in Own : n \in Own' \/ n = m
    BY <1>1, OwnMoves
  <2>2. Owns(t)' => new'[t].ptr \in Own'
    BY OwnMoves
  <2> QED
    BY <1>7, <2>1, <2>2
<1>17. QOwn'
  <2>1. Owns(t)' => OwnOk(t)'
    BY <1>0, <1>4, <1>11, QueueSame DEF OwnOk, Alive
  <2>2. \A u \in Threads : u # t /\ Owns(u) =>
               /\ new[u].ptr \in DOMAIN nodes' /\ new[u].ptr \notin CIn'
               /\ nodes'[new[u].ptr].next = nodes[new[u].ptr].next
               /\ nodes'[new[u].ptr].internal = nodes[new[u].ptr].internal
               /\ nodes'[new[u].ptr].external = nodes[new[u].ptr].external
               /\ nodes'[new[u].ptr].alive = nodes[new[u].ptr].alive
    BY <1>1, <1>2, <1>3, <1>5, <1>11 DEF OwnOk
  <2> QED
    BY <2>1, <2>2, OwnStays
<1>18. \E a, b : Sums(a, b)'
  <2>1. \A n \in Alive' : n \notin Own' =>
               /\ n \in Alive
               /\ \/ n \notin Own /\ nodes'[n].internal = nodes[n].internal
                  \/ n \in Own /\ nodes'[n].internal = 0
    BY <1>0, <1>4, <1>16
  <2> QED
    BY <1>6, <1>8, <2>1, SumsStay
<1>19. \A u \in Threads : (TailGone(u)' <=> TailGone(u)) /\ (HeadGone(u)' <=> HeadGone(u))
  BY <1>6, QueueOthers
<1>20. TailRefs' \ {Null} = (TailRefs \cup {m}) \ {Null}
  BY <1>5, <1>19 DEF TailRefs
<1>21. HeadRefs' = HeadRefs \cup {m}
  BY <1>11, <1>19 DEF HeadRefs
<1>22. QExternal'
  <2>1. ASSUME NEW n \in Alive', n \notin Own'
        PROVE  /\ nodes'[n].external = (IF n \in TailRefs' THEN 1 ELSE 0) + (IF n \in HeadRefs' THEN 1 ELSE 0)
               /\ ~(nodes'[n].internal = 0 /\ nodes'[n].external = 0)
    <3>1. n \in Alive /\ n \in DOMAIN nodes /\ n # Null
      BY <1>0, <1>16, <2>1, QueueFacts
    <3>2. CASE n = m
      BY <1>4, <1>20, <1>21, <3>1, <3>2
    <3>3. CASE n # m
      <4>1. n \notin Own
        BY <1>16, <2>1, <3>3
      <4>2. /\ nodes[n].external = (IF n \in TailRefs THEN 1 ELSE 0) + (IF n \in HeadRefs THEN 1 ELSE 0)
            /\ ~(nodes[n].internal = 0 /\ nodes[n].external = 0)
        BY <3>1, <4>1, QueueFacts DEF QExternal
      <4>3. (n \in TailRefs' <=> n \in TailRefs) /\ (n \in HeadRefs' <=> n \in HeadRefs)
        BY <1>20, <1>21, <3>1, <3>3
      <4> QED
        BY <3>1, <4>2, <4>3
    <3> QED
      BY <3>2, <3>3
  <2> QED
    BY <2>1 DEF QExternal
<1> QED
  BY <1>9, <1>10, <1>12, <1>13, <1>14, <1>15, <1>17, <1>18, <1>22 DEF QInv, QLive

(* A node is deleted. *)
Dropped(s, n) == [s EXCEPT ![n].alive = FALSE]

LEMMA DroppedNode ==
    ASSUME NEW s \in Seq(QueueNode), NEW n \in DOMAIN s, NEW made, made = Dropped(s, n)
    PROVE  /\ made \in Seq(QueueNode) /\ DOMAIN made = DOMAIN s /\ ~made[n].alive
           /\ \A m \in DOMAIN s : /\ m # n => made[m].alive = s[m].alive
                                  /\ made[m].next = s[m].next
                                  /\ made[m].internal = s[m].internal
                                  /\ made[m].external = s[m].external
<1>1. s[n] \in QueueNode
  BY ElementOfSeq, LenProperties
<1>2. PICK y : y = [s[n] EXCEPT !.alive = FALSE]
  OBVIOUS
<1>3. /\ y \in QueueNode /\ y.next = s[n].next /\ ~y.alive
      /\ y.internal = s[n].internal /\ y.external = s[n].external
  BY <1>1, <1>2 DEF QueueNode
<1>4. made = [s EXCEPT ![n] = y]
  BY <1>2 DEF Dropped
<1>5. /\ made \in Seq(QueueNode) /\ DOMAIN made = DOMAIN s /\ made[n] = y
      /\ \A m \in DOMAIN s : m # n => made[m] = s[m]
  <2>1. y \in QueueNode
    BY <1>3
  <2>2. PICK c : c = [s EXCEPT ![n] = y]
    OBVIOUS
  <2>3. /\ c \in Seq(QueueNode) /\ DOMAIN c = DOMAIN s /\ c[n] = y
        /\ \A m \in DOMAIN s : m # n => c[m] = s[m]
    BY <2>1, <2>2, Changed
  <2> QED
    BY <1>4, <2>2, <2>3, Zenon
<1>6. ~made[n].alive
  BY <1>3, <1>5
<1>7. \A m \in DOMAIN s : m # n => made[m].alive = s[m].alive
  BY <1>5
<1>8. \A m \in DOMAIN s : /\ made[m].next = s[m].next
                          /\ made[m].internal = s[m].internal
                          /\ made[m].external = s[m].external
  BY <1>3, <1>5
<1> QED
  BY <1>5, <1>6, <1>7, <1>8

(* A push links its node, or drops it. *)
LEMMA QueuePushLink == ASSUME QInv, NEW t \in Threads, Queue!PushLink(t) PROVE QInv'
<1>1. /\ pc[t] = "link" /\ pc' = [pc EXCEPT ![t] = "move"] /\ next' = [next EXCEPT ![t] = "done"]
      /\ head' = head /\ tail' = tail /\ todo' = todo /\ old' = old /\ new' = new
  BY DEF Queue!PushLink, Queue!Goto
<1>2. PICK n : n = old[t].ptr
  OBVIOUS
<1>3. IF nodes[n].next = Queue!NoNode
      THEN /\ nodes' = [nodes EXCEPT ![n].next = new[t]]
           /\ to' = [to EXCEPT ![t] = new[t]]
      ELSE /\ nodes' = [nodes EXCEPT ![new[t].ptr].alive = FALSE]
           /\ to' = [to EXCEPT ![t] = nodes[n].next]
  BY <1>2 DEF Queue!PushLink
<1>4. head.ptr # Null /\ todo[t] # <<>> /\ OpsOk(t) /\ QType
  BY <1>1, QueueBusy DEF QInv
<1>5. n \in Alive /\ n \in DOMAIN nodes /\ n \notin Own
  <2>1. Uses(t)
    BY <1>1 DEF Uses, Copying
  <2> QED
    BY <1>2, <1>4, <2>1, QueueFacts DEF QUse
<1>6. new[t].ptr \in DOMAIN nodes /\ new[t] \in CountedPtr /\ Owns(t)
  <2>1. Owns(t)
    BY <1>1 DEF Owns
  <2> QED
    BY <1>4, <2>1, QueueFacts DEF QOwn, OwnOk, QType
<1>7. nodes[n].next \in CountedPtr
  BY <1>4, <1>5, QueueFacts
<1>8. Moves(t) /\ pc'[t] = "move"
  <2>1. "move" \in QueuePlaces
    BY DEF QueuePlaces
  <2>2. \E x \in CountedPtr : to' = [to EXCEPT ![t] = x]
    BY <1>3, <1>6, <1>7
  <2> QED
    BY <1>1, <1>4, <2>1, <2>2, QueueMoves
<1>9. next'[t] = "done" /\ ~Owns(t)'
  BY <1>1, <1>4, <1>8 DEF QType, Owns
<1>10. OpsOk(t)'
  <2>1. Queue!Operation(t)' = Queue!Operation(t)
    BY <1>1 DEF Queue!Operation
  <2> QED
    BY <1>1, <1>4, <1>8, <1>9, <2>1 DEF OpsOk
<1>11. CASE nodes[n].next = Queue!NoNode
  <2>1. /\ nodes' \in Seq(QueueNode) /\ DOMAIN nodes' = DOMAIN nodes /\ nodes'[n].next = new[t]
        /\ \A m \in DOMAIN nodes : /\ m # n => nodes'[m].next = nodes[m].next
                                   /\ nodes'[m].alive = nodes[m].alive
                                   /\ nodes'[m].internal = nodes[m].internal
                                   /\ nodes'[m].external = nodes[m].external
    BY <1>3, <1>4, <1>5, <1>6, <1>11, LinkedNode DEF QType
  <2>2. to'[t] = new[t]
    BY <1>3, <1>4, <1>11 DEF QType
  <2>3. nodes[n].next.ptr = Null
    BY <1>11, QueueSame
  <2> QED
    BY <1>1, <1>2, <1>4, <1>8, <1>9, <1>10, <2>1, <2>2, <2>3, QueueLinked
<1>12. CASE nodes[n].next # Queue!NoNode
  <2>1. /\ nodes' \in Seq(QueueNode) /\ DOMAIN nodes' = DOMAIN nodes /\ ~nodes'[new[t].ptr].alive
        /\ \A m \in DOMAIN nodes : /\ m # new[t].ptr => nodes'[m].alive = nodes[m].alive
                                   /\ nodes'[m].next = nodes[m].next
                                   /\ nodes'[m].internal = nodes[m].internal
                                   /\ nodes'[m].external = nodes[m].external
    <3>1. nodes \in Seq(QueueNode) /\ new[t].ptr \in DOMAIN nodes
      BY <1>4, <1>6 DEF QType
    <3>2. nodes' = Dropped(nodes, new[t].ptr)
      BY <1>3, <1>12 DEF Dropped
    <3> QED
      BY <3>1, <3>2, DroppedNode
  <2>2. to'[t] = nodes[n].next
    BY <1>3, <1>4, <1>12 DEF QType
  <2>3. nodes[n].next.ptr # Null
    BY <1>4, <1>5, <1>12, QueueFacts
  <2>4. /\ ~TailGone(t) /\ ~HeadGone(t) /\ ~TailGone(t)' /\ ~HeadGone(t)'
        /\ Uses(t) /\ pc'[t] \in Copying /\ pc[t] \in Copying
    BY <1>1, <1>8 DEF TailGone, HeadGone, Uses, Copying
  <2>5. ReadOk(t)'
    BY <1>1, <1>2, <1>5, <1>8, <2>1, <2>2, <2>3, <2>4 DEF ReadOk
  <2>6. new[t].ptr \notin Alive'
    BY <2>1 DEF Alive
  <2> QED
    BY <1>1, <1>4, <1>6, <1>8, <1>9, <1>10, <2>1, <2>4, <2>5, <2>6, QueueOwnStep
<1> QED
  BY <1>11, <1>12

(* A push links its node for another push, and makes a new one for itself. *)
LEMMA QueuePushHelp == ASSUME QInv, NEW t \in Threads, Queue!PushHelp(t) PROVE QInv'
<1>1. /\ pc[t] = "help" /\ pc' = [pc EXCEPT ![t] = "move"] /\ next' = [next EXCEPT ![t] = "push"]
      /\ head' = head /\ tail' = tail /\ todo' = todo /\ old' = old
  BY DEF Queue!PushHelp, Queue!Goto
<1>2. PICK n : n = old[t].ptr
  OBVIOUS
<1>3. IF nodes[n].next = Queue!NoNode
      THEN /\ nodes' = Append([nodes EXCEPT ![n].next = new[t]], Queue!Node)
           /\ to' = [to EXCEPT ![t] = new[t]]
           /\ new' = [new EXCEPT ![t].ptr = Len(nodes')]
      ELSE /\ to' = [to EXCEPT ![t] = nodes[n].next]
           /\ nodes' = nodes /\ new' = new
  BY <1>2 DEF Queue!PushHelp
<1>4. head.ptr # Null /\ todo[t] # <<>> /\ OpsOk(t) /\ QType
  BY <1>1, QueueBusy DEF QInv
<1>5. n \in Alive /\ n \in DOMAIN nodes /\ n \notin Own
  <2>1. Uses(t)
    BY <1>1 DEF Uses, Copying
  <2> QED
    BY <1>2, <1>4, <2>1, QueueFacts DEF QUse
<1>6. new[t].ptr \in DOMAIN nodes /\ new[t] \in CountedPtr /\ Owns(t) /\ new[t].ext = 1
  <2>1. Owns(t)
    BY <1>1 DEF Owns
  <2> QED
    BY <1>4, <2>1, QueueFacts DEF QOwn, OwnOk, QType
<1>7. nodes[n].next \in CountedPtr
  BY <1>4, <1>5, QueueFacts
<1>8. ASSUME new' = new \/ \E x \in CountedPtr : new' = [new EXCEPT ![t] = x]
      PROVE  Moves(t) /\ pc'[t] = "move" /\ next'[t] = "push" /\ Owns(t)' /\ OpsOk(t)'
  <2>1. "move" \in QueuePlaces
    BY DEF QueuePlaces
  <2>2. \E x \in CountedPtr : to' = [to EXCEPT ![t] = x]
    BY <1>3, <1>6, <1>7
  <2>3. Moves(t) /\ pc'[t] = "move"
    BY <1>1, <1>4, <1>8, <2>1, <2>2, QueueMoves
  <2>4. next'[t] = "push" /\ Owns(t)'
    BY <1>1, <1>4, <2>3 DEF QType, Owns
  <2>5. Queue!Operation(t)' = Queue!Operation(t)
    BY <1>1 DEF Queue!Operation
  <2> QED
    BY <1>1, <1>4, <2>3, <2>4, <2>5 DEF OpsOk
<1>9. CASE nodes[n].next = Queue!NoNode
  <2>1. PICK s : s = [nodes EXCEPT ![n].next = new[t]]
    OBVIOUS
  <2>2. /\ s \in Seq(QueueNode) /\ DOMAIN s = DOMAIN nodes /\ s[n].next = new[t]
        /\ \A m \in DOMAIN nodes : /\ m # n => s[m].next = nodes[m].next
                                   /\ s[m].alive = nodes[m].alive
                                   /\ s[m].internal = nodes[m].internal
                                   /\ s[m].external = nodes[m].external
    <3>1. nodes \in Seq(QueueNode)
      BY <1>4 DEF QType
    <3> QED
      BY <1>5, <1>6, <2>1, <3>1, LinkedNode
  <2>3. PICK made : made = Append(s, Queue!Node)
    OBVIOUS
  <2>4. /\ made \in Seq(QueueNode) /\ Len(made) \in Nat
        /\ Len(made) \notin DOMAIN s /\ DOMAIN made = DOMAIN s \cup {Len(made)}
        /\ made[Len(made)] = Queue!Node /\ \A m \in DOMAIN s : made[m] = s[m]
    <3>1. s \in Seq(QueueNode)
      BY <2>2
    <3> QED
      BY <2>3, <3>1, AddedNode
  <2>5. nodes' = made /\ to' = [to EXCEPT ![t] = new[t]] /\ new' = [new EXCEPT ![t].ptr = Len(made)]
    BY <1>3, <1>9, <2>1, <2>3
  <2>6. PICK x : x = [new[t] EXCEPT !.ptr = Len(made)]
    OBVIOUS
  <2>7. x \in CountedPtr /\ x.ptr = Len(made) /\ x.ext = 1
    BY <1>6, <2>4, <2>6 DEF CountedPtr
  <2>8. new' = [new EXCEPT ![t] = x] /\ new'[t] = x
    BY <1>4, <2>5, <2>6 DEF QType
  <2>9. Moves(t) /\ pc'[t] = "move" /\ Owns(t)' /\ OpsOk(t)'
    BY <1>8, <2>7, <2>8
  <2>10. to'[t] = new[t]
    BY <1>4, <2>5 DEF QType
  <2>11. nodes[n].next.ptr = Null
    BY <1>9, QueueSame
  <2>12. \A m \in DOMAIN nodes : /\ m \in DOMAIN nodes'
                                 /\ m # n => nodes'[m].next = nodes[m].next
                                 /\ nodes'[m].alive = nodes[m].alive
                                 /\ nodes'[m].internal = nodes[m].internal
                                 /\ nodes'[m].external = nodes[m].external
    BY <2>2, <2>4, <2>5
  <2>13. nodes'[n].next = new[t]
    BY <1>5, <2>2, <2>4, <2>5
  <2>14. /\ new'[t].ptr \in DOMAIN nodes' /\ new'[t].ptr \notin DOMAIN nodes
         /\ new'[t].ext = 1 /\ nodes'[new'[t].ptr] = Queue!Node
    BY <2>2, <2>4, <2>5, <2>7, <2>8
  <2>15. \A m \in DOMAIN nodes' : m \in DOMAIN nodes \/ (Owns(t)' /\ m = new'[t].ptr)
    BY <2>2, <2>4, <2>5, <2>7, <2>8, <2>9
  <2>16. nodes' \in Seq(QueueNode)
    BY <2>4, <2>5
  <2> QED
    BY <1>1, <1>2, <1>4, <2>9, <2>10, <2>11, <2>12, <2>13, <2>14, <2>15, <2>16, QueueLinked
<1>10. CASE nodes[n].next # Queue!NoNode
  <2>1. nodes' = nodes /\ new' = new /\ to' = [to EXCEPT ![t] = nodes[n].next]
    BY <1>3, <1>10
  <2>2. to'[t] = nodes[n].next
    BY <1>4, <2>1 DEF QType
  <2>3. nodes[n].next.ptr # Null
    BY <1>4, <1>5, <1>10, QueueFacts
  <2>4. Moves(t) /\ pc'[t] = "move" /\ Owns(t)' /\ OpsOk(t)'
    BY <1>8, <2>1
  <2>5. /\ ~TailGone(t) /\ ~HeadGone(t) /\ ~TailGone(t)' /\ ~HeadGone(t)'
        /\ Uses(t) /\ pc'[t] \in Copying /\ pc[t] \in Copying
    BY <1>1, <2>4 DEF TailGone, HeadGone, Uses, Copying
  <2>6. ReadOk(t)'
    BY <1>1, <1>2, <2>1, <2>2, <2>3, <2>4, <2>5 DEF ReadOk
  <2>7. nodes' \in Seq(QueueNode)
    BY <1>4, <2>1 DEF QType
  <2> QED
    BY <1>1, <1>4, <1>6, <2>1, <2>4, <2>5, <2>6, <2>7, QueueQuiet
<1> QED
  BY <1>9, <1>10

(* The two counts of a node are set, and it is deleted if both are zero. *)
SetCounts(s, n, i, e) ==
    [s EXCEPT ![n].internal = i, ![n].external = e, ![n].alive = ~(i = 0 /\ e = 0)]

LEMMA GivenUp ==
    ASSUME NEW s \in Seq(QueueNode), NEW n \in DOMAIN s, NEW i \in Int, NEW e \in Int, NEW made,
           made = SetCounts(s, n, i, e)
    PROVE  /\ made \in Seq(QueueNode) /\ DOMAIN made = DOMAIN s
           /\ \A m \in DOMAIN s : m # n => made[m] = s[m]
           /\ made[n].data = s[n].data /\ made[n].next = s[n].next /\ made[n].internal = i /\ made[n].external = e
           /\ made[n].alive <=> ~(i = 0 /\ e = 0)
<1>1. s[n] \in QueueNode
  BY ElementOfSeq, LenProperties
<1>2. PICK b \in BOOLEAN : b = ~(i = 0 /\ e = 0)
  OBVIOUS
<1>3. PICK x : x = [s[n] EXCEPT !.internal = i, !.external = e]
  OBVIOUS
<1>4. x \in QueueNode /\ x.data = s[n].data /\ x.next = s[n].next /\ x.internal = i /\ x.external = e
  BY <1>1, <1>3 DEF QueueNode
<1>5. PICK y : y = [x EXCEPT !.alive = b]
  OBVIOUS
<1>6. y \in QueueNode /\ y.data = x.data /\ y.next = x.next /\ y.internal = i /\ y.external = e /\ y.alive = b
  BY <1>2, <1>4, <1>5 DEF QueueNode
<1>7. made = [s EXCEPT ![n] = y]
  <2>1. made = [s EXCEPT ![n].internal = i, ![n].external = e, ![n].alive = b]
    BY <1>2 DEF SetCounts
  <2> QED
    BY <1>1, <1>3, <1>5, <2>1
<1>8. y \in QueueNode
  BY <1>6
<1>9. PICK c : c = [s EXCEPT ![n] = y]
  OBVIOUS
<1>10. /\ c \in Seq(QueueNode) /\ DOMAIN c = DOMAIN s /\ c[n] = y
       /\ \A m \in DOMAIN s : m # n => c[m] = s[m]
  BY <1>8, <1>9, Changed
<1>11. /\ made \in Seq(QueueNode) /\ DOMAIN made = DOMAIN s /\ made[n] = y
       /\ \A m \in DOMAIN s : m # n => made[m] = s[m]
  BY <1>7, <1>9, <1>10, Zenon
<1>12. made[n].data = s[n].data /\ made[n].next = s[n].next /\ made[n].internal = i /\ made[n].external = e
  BY <1>4, <1>6, <1>11
<1>13. made[n].alive <=> ~(i = 0 /\ e = 0)
  BY <1>2, <1>6, <1>11
<1> QED
  BY <1>11, <1>12, <1>13

(* A node that no counted pointer and no copy leads to is used by no other *)
(* thread.                                                                 *)
LEMMA QueueUnused ==
    ASSUME NEW t \in Threads, Moves(t), NEW n \in Nat,
           IsFiniteSet(Keepers(n)'), Cardinality(Keepers(n)') = 0,
           \A u \in Threads : u # t /\ (TailGone(u) \/ HeadGone(u)) => old[u].ptr # n
    PROVE  \A u \in Threads : u # t /\ Uses(u) => old[u].ptr # n
<1> SUFFICES ASSUME NEW u \in Threads, u # t, Uses(u), old[u].ptr = n
             PROVE  FALSE
  OBVIOUS
<1>1. ~TailGone(u) /\ ~HeadGone(u)
  OBVIOUS
<1>2. pc[u] \in Copying
  BY <1>1 DEF Uses, TailGone, HeadGone
<1>3. u \in Keepers(n)'
  <2>1. pc'[u] \in Copying /\ old'[u].ptr = n
    BY <1>2 DEF Moves
  <2> QED
    BY <2>1 DEF Keepers
<1>4. Keepers(n)' = {}
  <2>1. PICK K : K = Keepers(n)'
    OBVIOUS
  <2>2. IsFiniteSet(K) /\ Cardinality(K) = 0
    BY <2>1
  <2> QED
    BY <2>1, <2>2, FS_EmptySet
<1> QED
  BY <1>3, <1>4

(* A thread gives up a node, and returns or goes on. *)
LEMMA QueueFinish ==
    ASSUME QInv, NEW t \in Threads, pc[t] \in {"free", "release"}, Queue!Continue(t),
           head' = head, tail' = tail, old' = old, new' = new, to' = to, next' = next
    PROVE  /\ Moves(t) /\ head.ptr # Null /\ OpsOk(t)' /\ ReadOk(t) /\ QType
           /\ Uses(t) /\ old[t].ptr \in Alive /\ old[t].ptr \notin Own
           /\ ~Uses(t)' /\ ~TailGone(t)' /\ ~HeadGone(t)' /\ pc'[t] \notin Copying
           /\ Owns(t)' <=> Owns(t)
<1>1. head.ptr # Null /\ todo[t] # <<>> /\ OpsOk(t) /\ ReadOk(t) /\ QType
  BY QueueBusy DEF QInv
<1>2. next[t] \in {"done", "push", "pop"}
  BY <1>1 DEF OpsOk, QType
<1>3. \/ next[t] = "done" /\ pc' = [pc EXCEPT ![t] = "idle"] /\ todo' = [todo EXCEPT ![t] = Tail(@)]
      \/ next[t] # "done" /\ pc' = [pc EXCEPT ![t] = next[t]] /\ todo' = todo
  BY DEF Queue!Continue, Queue!Return, Queue!Goto
<1>4. PICK p \in QueuePlaces : /\ p \in {"idle", "push", "pop"} /\ pc' = [pc EXCEPT ![t] = p]
                               /\ p = "push" <=> next[t] = "push"
                               /\ p = "idle" <=> next[t] = "done"
                               /\ p = "pop" <=> next[t] = "pop"
  BY <1>2, <1>3 DEF QueuePlaces
<1>5. Moves(t) /\ pc'[t] = p
  BY <1>1, <1>3, <1>4, QueueMoves
<1>6. Uses(t)
  BY DEF Uses, Copying
<1>7. old[t].ptr \in Alive /\ old[t].ptr \notin Own
  BY <1>1, <1>6, QueueFacts DEF QUse
<1>8. ~Uses(t)' /\ ~TailGone(t)' /\ ~HeadGone(t)' /\ pc'[t] \notin Copying
  BY <1>4, <1>5 DEF Uses, TailGone, HeadGone, Copying
<1>9. Owns(t)' <=> Owns(t)
  BY <1>4, <1>5 DEF Owns
<1>10. OpsOk(t)'
  <2>1. CASE p = "idle"
    BY <1>5, <2>1 DEF OpsOk
  <2>2. CASE p # "idle"
    <3>1. todo' = todo
      BY <1>3, <1>4, <2>2
    <3>2. Queue!Operation(t)' = Queue!Operation(t)
      BY <3>1 DEF Queue!Operation
    <3> QED
      BY <1>1, <1>4, <1>5, <2>2, <3>1, <3>2 DEF OpsOk
  <2> QED
    BY <2>1, <2>2
<1> QED
  BY <1>1, <1>5, <1>6, <1>7, <1>8, <1>9, <1>10

(* What holds whatever becomes of the counts. *)
LEMMA QueueGivenUp ==
    ASSUME QInv, NEW t \in Threads, pc[t] \in {"free", "release"}, Queue!Continue(t),
           head' = head, tail' = tail, old' = old, new' = new, to' = to, next' = next,
           nodes' \in Seq(QueueNode), DOMAIN nodes' = DOMAIN nodes,
           \A m \in DOMAIN nodes : /\ nodes'[m].next = nodes[m].next
                                   /\ m # old[t].ptr => nodes'[m] = nodes[m],
           \/ nodes'[old[t].ptr].alive
           \/ /\ old[t].ptr \notin CIn
              /\ \A u \in Threads : u # t /\ Uses(u) => old[u].ptr # old[t].ptr
    PROVE  /\ QType' /\ QOps' /\ QList' /\ QRead' /\ QOnce' /\ QUse' /\ QOwn'
           /\ Own' = Own /\ CIn' = CIn /\ Alive' \subseteq Alive
<1>1. /\ Moves(t) /\ head.ptr # Null /\ OpsOk(t)' /\ ReadOk(t) /\ QType
      /\ Uses(t) /\ old[t].ptr \in Alive /\ old[t].ptr \notin Own
      /\ ~Uses(t)' /\ ~TailGone(t)' /\ ~HeadGone(t)' /\ pc'[t] \notin Copying
      /\ Owns(t)' <=> Owns(t)
  BY QueueFinish
<1>2. PICK n : n = old[t].ptr
  OBVIOUS
<1>3. /\ Alive' \subseteq Alive
      /\ \A m \in Alive : m # n => m \in Alive'
      /\ n \in Alive' \/ (n \notin CIn /\ \A u \in Threads : u # t /\ Uses(u) => old[u].ptr # n)
  <2>1. n \in Alive /\ n \in DOMAIN nodes
    BY <1>1, <1>2 DEF Alive
  <2>2. Alive' \subseteq Alive
    <3>1. ASSUME NEW m \in Alive' PROVE m \in Alive
      <4>1. m \in DOMAIN nodes /\ nodes'[m].alive
        BY <3>1 DEF Alive
      <4>2. m # n => nodes'[m] = nodes[m]
        BY <1>2, <4>1
      <4> QED
        BY <2>1, <4>1, <4>2 DEF Alive
    <3> QED
      BY <3>1
  <2>3. \A m \in Alive : m # n => m \in Alive'
    BY <1>2 DEF Alive
  <2>4. nodes'[n].alive => n \in Alive'
    BY <2>1 DEF Alive
  <2> QED
    BY <1>2, <2>2, <2>3, <2>4
<1>4. QType'
  <2>1. \A m \in Nat : IsFiniteSet(Keepers(m)')
    <3>1. CASE pc[t] = "free"
      <4>1. pc[t] \notin Copying
        BY <3>1 DEF Copying
      <4>2. \A m \in Nat : Keepers(m)' = Keepers(m)
        BY <1>1, <4>1, KeepersStay
      <4> QED
        BY <1>1, <4>2 DEF QType
    <3>2. CASE pc[t] = "release"
      <4>1. pc[t] \in Copying
        BY <3>2 DEF Copying
      <4>2. /\ \A m \in Nat : m # old[t].ptr => Keepers(m)' = Keepers(m)
            /\ \A m \in Nat : m = old[t].ptr => IsFiniteSet(Keepers(m)')
        BY <1>1, <4>1, KeepersLeave
      <4>3. \A m \in Nat : IsFiniteSet(Keepers(m))
        BY <1>1 DEF QType
      <4> QED
        BY <4>2, <4>3
    <3> QED
      BY <3>1, <3>2
  <2>2. \A m \in DOMAIN nodes' :
            nodes'[m].next = Queue!NoNode \/ (nodes'[m].next.ext = 1 /\ nodes'[m].next.ptr # Null)
    BY <1>1 DEF QType
  <2>3. head' \in CountedPtr /\ tail' \in CountedPtr
    BY <1>1 DEF QType
  <2> QED
    BY <1>1, <2>1, <2>2, <2>3 DEF QType, Moves
<1>5. QOps'
  BY <1>1, OpsStay DEF QInv
<1>6. CIn' = CIn /\ CListOk'
  <2>1. \A m \in CIn : m \in DOMAIN nodes' /\ nodes'[m].next = nodes[m].next
    BY <1>1, QueueFacts
  <2> QED
    BY <1>1, <2>1, ListStays
<1>7. QList'
  <2>1. tail.ptr \in DOMAIN nodes /\ CIn \subseteq Alive'
    BY <1>1, <1>3, QueueFacts
  <2>2. nodes'[tail.ptr].next = nodes[tail.ptr].next
    BY <2>1
  <2>3. ASSUME nodes[tail.ptr].next.ptr # Null
        PROVE  /\ nodes'[nodes[tail.ptr].next.ptr].next.ptr = Null
               /\ \E u \in Threads : pc'[u] = "move" /\ old'[u].ptr = tail.ptr
    <3>1. nodes[tail.ptr].next.ptr \in DOMAIN nodes /\ nodes[nodes[tail.ptr].next.ptr].next.ptr = Null
      BY <1>1, <2>3, QueueFacts DEF QList
    <3>2. PICK u \in Threads : pc[u] = "move" /\ old[u].ptr = tail.ptr
      BY <1>1, <2>3, QueueFacts DEF QList
    <3>3. u # t
      BY <3>2
    <3> QED
      BY <1>1, <3>1, <3>2, <3>3 DEF Moves
  <2>4. tail.ptr \in CIn
    BY <1>1, QueueFacts
  <2> QED
    BY <1>6, <2>1, <2>2, <2>3, <2>4 DEF QList
<1>8. QRead'
  <2>1. ReadOk(t)'
    <3>1. pc'[t] \notin Copying
      BY <1>1
    <3> QED
      BY <1>1, <3>1 DEF ReadOk, Copying
  <2>2. \A m \in Alive : nodes'[m].next = nodes[m].next
    BY <1>1, QueueFacts
  <2> QED
    BY <1>1, <1>6, <2>1, <2>2, ReadStays
<1>9. QOnce'
  <2>1. \A u \in Threads : u # t => Differ(t, u)
    BY <1>1, QueueFacts DEF QOnce
  <2>2. \A u \in Threads : u # t =>
            /\ TailGone(t)' /\ TailGone(u) => old'[t].ptr # old[u].ptr
            /\ HeadGone(t)' /\ HeadGone(u) => old'[t].ptr # old[u].ptr
            /\ Owns(t)' /\ Owns(u) => new'[t].ptr # new[u].ptr
    BY <1>1, <2>1 DEF Differ
  <2>3. QOnce
    BY <1>1, QueueFacts
  <2> QED
    BY <1>1, <2>2, <2>3, OnceStays
<1>10. QUse'
  <2>1. \A u \in Threads : u # t /\ Uses(u) => old[u].ptr \in Alive'
    BY <1>1, <1>3, QueueFacts DEF QUse
  <2>2. Owns(t)' => new'[t].ptr \in Own
    BY <1>1 DEF Own
  <2> QED
    BY <1>1, <2>1, <2>2, UseStays
<1>11. Own' = Own /\ QOwn'
  <2>1. \A m \in Own : m \in DOMAIN nodes /\ m # n
    <3>1. n \notin Own
      BY <1>1, <1>2
    <3>2. \A u \in Threads : Owns(u) => new[u].ptr \in Alive
      BY <1>1, QueueFacts DEF QOwn, OwnOk
    <3>3. Own \subseteq Alive
      BY <3>2 DEF Own
    <3> QED
      BY <3>1, <3>3 DEF Alive
  <2>2. \A m \in Own : m \in DOMAIN nodes' /\ nodes'[m] = nodes[m]
    BY <1>2, <2>1
  <2> QED
    BY <1>1, <1>6, <2>2, OwnQuiet
<1> QED
  BY <1>3, <1>4, <1>5, <1>6, <1>7, <1>8, <1>9, <1>10, <1>11

(* What the counts of a node say that is in use. *)
LEMMA QueueCounts ==
    ASSUME QInv, head.ptr # Null, NEW a, NEW b, Sums(a, b), NEW n \in Alive, n \notin Own
    PROVE  /\ n \in DOMAIN nodes /\ n \in Nat /\ a[n] \in Int /\ b[n] \in Int
           /\ nodes[n].internal \in Int /\ nodes[n].external \in Int /\ Cardinality(Keepers(n)) \in Nat
           /\ Cardinality(Keepers(n)) - nodes[n].internal = a[n] + b[n]
           /\ nodes[n].external = (IF n \in TailRefs THEN 1 ELSE 0) + (IF n \in HeadRefs THEN 1 ELSE 0)
           /\ ~(nodes[n].internal = 0 /\ nodes[n].external = 0)
           /\ n \notin TailRefs => a[n] = 0 /\ \A u \in Threads : TailGone(u) => old[u].ptr # n
           /\ n \notin HeadRefs => b[n] = 0 /\ n \notin CIn /\ \A u \in Threads : HeadGone(u) => old[u].ptr # n
<1>1. /\ n \in DOMAIN nodes /\ n \in Nat /\ nodes[n].internal \in Int /\ nodes[n].external \in Int
      /\ Cardinality(Keepers(n)) \in Nat
  BY QueueFacts
<1>2. a[n] \in Int /\ b[n] \in Int
  BY <1>1 DEF Sums
<1>3. Kept[n] = a[n] + b[n] /\ Kept[n] = Cardinality(Keepers(n)) - nodes[n].internal
  BY <1>1, KeptFacts DEF Sums
<1>4. /\ nodes[n].external = (IF n \in TailRefs THEN 1 ELSE 0) + (IF n \in HeadRefs THEN 1 ELSE 0)
      /\ ~(nodes[n].internal = 0 /\ nodes[n].external = 0)
  BY QueueFacts DEF QExternal
<1>5. ASSUME n \notin TailRefs
      PROVE  a[n] = 0 /\ \A u \in Threads : TailGone(u) => old[u].ptr # n
  <2>1. n # tail.ptr /\ \A u \in Threads : TailGone(u) => old[u].ptr # n
    BY <1>5 DEF TailRefs
  <2> QED
    BY <1>1, <2>1 DEF Sums
<1>6. ASSUME n \notin HeadRefs
      PROVE  b[n] = 0 /\ n \notin CIn /\ \A u \in Threads : HeadGone(u) => old[u].ptr # n
  <2>1. n \notin CIn /\ \A u \in Threads : HeadGone(u) => old[u].ptr # n
    BY <1>6 DEF HeadRefs
  <2>2. n # head.ptr
    BY <2>1, QueueFacts
  <2> QED
    BY <1>1, <2>1, <2>2 DEF Sums
<1> QED
  BY <1>1, <1>2, <1>3, <1>4, <1>5, <1>6

(* A thread has finished with its copy of a pointer. *)
LEMMA QueueReleaseRef == ASSUME QInv, NEW t \in Threads, Queue!ReleaseRef(t) PROVE QInv'
<1>1. /\ pc[t] = "release" /\ Queue!Continue(t) /\ nodes' = Queue!GiveUp(old[t].ptr, 0, -1)
      /\ head' = head /\ tail' = tail /\ old' = old /\ new' = new /\ to' = to /\ next' = next
  BY DEF Queue!ReleaseRef
<1>2. /\ Moves(t) /\ head.ptr # Null /\ QType
      /\ old[t].ptr \in Alive /\ old[t].ptr \notin Own
      /\ ~TailGone(t)' /\ ~HeadGone(t)' /\ pc'[t] \notin Copying /\ pc[t] \in Copying
      /\ ~TailGone(t) /\ ~HeadGone(t)
  BY <1>1, QueueFinish DEF TailGone, HeadGone, Copying
<1>3. PICK n : n = old[t].ptr
  OBVIOUS
<1>4. PICK a, b : Sums(a, b)
  BY <1>2, QueueFacts
<1>5. /\ n \in DOMAIN nodes /\ n \in Nat /\ a[n] \in Int /\ b[n] \in Int
      /\ nodes[n].internal \in Int /\ nodes[n].external \in Int /\ Cardinality(Keepers(n)) \in Nat
      /\ Cardinality(Keepers(n)) - nodes[n].internal = a[n] + b[n]
      /\ nodes[n].external = (IF n \in TailRefs THEN 1 ELSE 0) + (IF n \in HeadRefs THEN 1 ELSE 0)
      /\ n \notin TailRefs => a[n] = 0 /\ \A u \in Threads : TailGone(u) => old[u].ptr # n
      /\ n \notin HeadRefs => b[n] = 0 /\ n \notin CIn /\ \A u \in Threads : HeadGone(u) => old[u].ptr # n
  <2>1. n \in Alive /\ n \notin Own
    BY <1>2, <1>3
  <2>2. head.ptr # Null
    BY <1>2
  <2> QED
    BY <1>4, <2>1, <2>2, QueueCounts
<1>6. PICK i \in Int : i = nodes[n].internal - 1
  BY <1>5
<1>7. PICK e \in Int : e = nodes[n].external
  BY <1>5
<1>8. nodes' = SetCounts(nodes, n, i, e)
  <2>1. i = nodes[n].internal + (-1) /\ e = nodes[n].external - 0
    BY <1>5, <1>6, <1>7
  <2> QED
    BY <1>1, <1>3, <2>1 DEF Queue!GiveUp, SetCounts
<1>9. /\ nodes' \in Seq(QueueNode) /\ DOMAIN nodes' = DOMAIN nodes
      /\ \A m \in DOMAIN nodes : m # n => nodes'[m] = nodes[m]
      /\ nodes'[n].next = nodes[n].next /\ nodes'[n].internal = i /\ nodes'[n].external = e
      /\ nodes'[n].alive <=> ~(i = 0 /\ e = 0)
  <2>1. nodes \in Seq(QueueNode)
    BY <1>2 DEF QType
  <2>2. n \in DOMAIN nodes
    BY <1>5
  <2> QED
    BY <1>8, <2>1, <2>2, GivenUp
<1>10. /\ \A m \in Nat : m # n => Keepers(m)' = Keepers(m)
       /\ \A m \in Nat : m = n => /\ IsFiniteSet(Keepers(m)')
                                  /\ Cardinality(Keepers(m)') = Cardinality(Keepers(m)) - 1
  BY <1>2, <1>3, <1>5, KeepersLeave
<1>11. \/ nodes'[n].alive
       \/ n \notin CIn /\ \A u \in Threads : u # t /\ Uses(u) => old[u].ptr # n
  <2> SUFFICES ASSUME ~nodes'[n].alive
               PROVE  n \notin CIn /\ \A u \in Threads : u # t /\ Uses(u) => old[u].ptr # n
    OBVIOUS
  <2>1. i = 0 /\ nodes[n].external = 0
    BY <1>7, <1>9
  <2>2. n \notin TailRefs /\ n \notin HeadRefs
    BY <1>5, <2>1
  <2>3. Cardinality(Keepers(n)') = 0
    BY <1>5, <1>6, <1>10, <2>1, <2>2
  <2>4. \A u \in Threads : u # t /\ (TailGone(u) \/ HeadGone(u)) => old[u].ptr # n
    BY <1>5, <2>2
  <2> QED
    BY <1>2, <1>5, <1>10, <2>2, <2>3, <2>4, QueueUnused
<1>12. /\ QType' /\ QOps' /\ QList' /\ QRead' /\ QOnce' /\ QUse' /\ QOwn'
       /\ Own' = Own /\ CIn' = CIn /\ Alive' \subseteq Alive
  BY <1>1, <1>3, <1>9, <1>11, QueueGivenUp
<1>13. \A u \in Threads : /\ TailGone(u)' <=> TailGone(u)
                          /\ HeadGone(u)' <=> HeadGone(u)
                          /\ old'[u] = old[u]
  BY <1>1, <1>2, QueueOthers
<1>14. Sums(a, b)'
  <2>1. ASSUME NEW m \in Alive', m \notin Own' PROVE Kept'[m] = a[m] + b[m]
    <3>1. m \in Alive /\ m \notin Own /\ m \in DOMAIN nodes /\ m \in Nat
      BY <1>2, <1>12, <2>1, QueueFacts
    <3>2. Kept'[m] = Cardinality(Keepers(m)') - nodes'[m].internal
      BY <1>2, <3>1, KeptFacts
    <3>3. CASE m = n
      <4>1. Kept'[m] = Cardinality(Keepers(m)') - i
        BY <1>9, <3>2, <3>3
      <4>2. /\ Cardinality(Keepers(m)) \in Nat /\ Cardinality(Keepers(m)) - nodes[m].internal = a[m] + b[m]
            /\ nodes[m].internal \in Int /\ i = nodes[m].internal - 1
        BY <1>2, <1>4, <1>6, <3>1, <3>3, QueueCounts
      <4>3. Cardinality(Keepers(m)') = Cardinality(Keepers(m)) - 1
        BY <1>10, <3>1, <3>3
      <4> QED
        BY <4>1, <4>2, <4>3
    <3>4. CASE m # n
      <4>1. Cardinality(Keepers(m)) - nodes[m].internal = a[m] + b[m]
        BY <1>2, <1>4, <3>1, QueueCounts
      <4> QED
        BY <1>9, <1>10, <3>1, <3>2, <3>4, <4>1
    <3> QED
      BY <3>3, <3>4
  <2> QED
    BY <1>1, <1>4, <1>13, <2>1 DEF Sums
<1>15. QExternal'
  <2>1. tail.ptr \in DOMAIN nodes
    BY <1>2, QueueFacts
  <2>2. nodes'[tail.ptr].next = nodes[tail.ptr].next
    BY <1>9, <2>1
  <2>3. TailRefs' = TailRefs
    BY <1>1, <1>13, <2>2 DEF TailRefs
  <2>4. HeadRefs' = HeadRefs
    BY <1>12, <1>13 DEF HeadRefs
  <2>5. ASSUME NEW m \in Alive', m \notin Own'
        PROVE  /\ nodes'[m].external = (IF m \in TailRefs THEN 1 ELSE 0) + (IF m \in HeadRefs THEN 1 ELSE 0)
               /\ ~(nodes'[m].internal = 0 /\ nodes'[m].external = 0)
    <3>1. m \in Alive /\ m \notin Own /\ m \in DOMAIN nodes /\ nodes'[m].alive
      BY <1>2, <1>9, <1>12, <2>5, QueueFacts DEF Alive
    <3>2. CASE m = n
      BY <1>5, <1>7, <1>9, <3>1, <3>2
    <3>3. CASE m # n
      <4>1. /\ nodes[m].external = (IF m \in TailRefs THEN 1 ELSE 0) + (IF m \in HeadRefs THEN 1 ELSE 0)
            /\ ~(nodes[m].internal = 0 /\ nodes[m].external = 0)
        BY <1>2, <1>4, <3>1, QueueCounts
      <4> QED
        BY <1>9, <3>1, <3>3, <4>1
    <3> QED
      BY <3>2, <3>3
  <2> QED
    BY <2>3, <2>4, <2>5 DEF QExternal
<1>16. head'.ptr # Null
  BY <1>1, <1>2
<1> QED
  BY <1>12, <1>14, <1>15, <1>16 DEF QInv, QLive

(* A pointer that has been replaced is accounted for. *)
LEMMA QueueFreeExternal == ASSUME QInv, NEW t \in Threads, Queue!FreeExternal(t) PROVE QInv'
<1>1. /\ pc[t] = "free" /\ Queue!Continue(t) /\ nodes' = Queue!GiveUp(old[t].ptr, 1, old[t].ext - 2)
      /\ head' = head /\ tail' = tail /\ old' = old /\ new' = new /\ to' = to /\ next' = next
  BY DEF Queue!FreeExternal
<1>2. /\ Moves(t) /\ head.ptr # Null /\ QType /\ ReadOk(t)
      /\ old[t].ptr \in Alive /\ old[t].ptr \notin Own
      /\ ~TailGone(t)' /\ ~HeadGone(t)' /\ pc'[t] \notin Copying /\ pc[t] \notin Copying
  BY <1>1, QueueFinish DEF Copying
<1>3. PICK n : n = old[t].ptr
  OBVIOUS
<1>4. PICK a, b : Sums(a, b)
  BY <1>2, QueueFacts
<1>5. /\ n \in DOMAIN nodes /\ n \in Nat /\ a[n] \in Int /\ b[n] \in Int
      /\ nodes[n].internal \in Int /\ nodes[n].external \in Int /\ Cardinality(Keepers(n)) \in Nat
      /\ Cardinality(Keepers(n)) - nodes[n].internal = a[n] + b[n]
      /\ nodes[n].external = (IF n \in TailRefs THEN 1 ELSE 0) + (IF n \in HeadRefs THEN 1 ELSE 0)
      /\ n \notin TailRefs => a[n] = 0 /\ \A u \in Threads : TailGone(u) => old[u].ptr # n
      /\ n \notin HeadRefs => b[n] = 0 /\ n \notin CIn /\ \A u \in Threads : HeadGone(u) => old[u].ptr # n
  <2>1. n \in Alive /\ n \notin Own
    BY <1>2, <1>3
  <2>2. head.ptr # Null
    BY <1>2
  <2> QED
    BY <1>4, <2>1, <2>2, QueueCounts
<1>6. PICK k \in Int : k = old[t].ext - 2
  BY <1>2 DEF QType, CountedPtr
<1>7. PICK i \in Int : i = nodes[n].internal + k
  BY <1>5, <1>6
<1>8. PICK e \in Int : e = nodes[n].external - 1
  BY <1>5
<1>9. nodes' = SetCounts(nodes, n, i, e)
  BY <1>1, <1>3, <1>6, <1>7, <1>8 DEF Queue!GiveUp, SetCounts
<1>10. /\ nodes' \in Seq(QueueNode) /\ DOMAIN nodes' = DOMAIN nodes
       /\ \A m \in DOMAIN nodes : m # n => nodes'[m] = nodes[m]
       /\ nodes'[n].next = nodes[n].next /\ nodes'[n].internal = i /\ nodes'[n].external = e
       /\ nodes'[n].alive <=> ~(i = 0 /\ e = 0)
  <2>1. nodes \in Seq(QueueNode)
    BY <1>2 DEF QType
  <2>2. n \in DOMAIN nodes
    BY <1>5
  <2>3. PICK made : made = SetCounts(nodes, n, i, e)
    OBVIOUS
  <2>4. /\ made \in Seq(QueueNode) /\ DOMAIN made = DOMAIN nodes
        /\ \A m \in DOMAIN nodes : m # n => made[m] = nodes[m]
        /\ made[n].next = nodes[n].next /\ made[n].internal = i /\ made[n].external = e
        /\ made[n].alive <=> ~(i = 0 /\ e = 0)
    BY <2>1, <2>2, <2>3, GivenUp
  <2> QED
    BY <1>9, <2>3, <2>4
<1>11. \A m \in Nat : Keepers(m)' = Keepers(m)
  BY <1>2, KeepersStay
<1>12. \A u \in Threads : u # t => /\ TailGone(u)' <=> TailGone(u)
                                   /\ HeadGone(u)' <=> HeadGone(u)
                                   /\ old'[u] = old[u]
  BY <1>1, <1>2, QueueOthers
<1>13. \A u \in Threads : old[u].ptr \in Nat
  BY <1>2 DEF QType, CountedPtr
<1>14. \A u \in Threads : u # t => Differ(t, u)
  BY <1>2, QueueFacts DEF QOnce
(* What is left to show when it is known which pointer it was. *)
<1>15. ASSUME NEW c, NEW d, c \in [Nat -> Int], d \in [Nat -> Int],
              \A m \in Nat : m # n => c[m] = a[m] /\ d[m] = b[m],
              c[n] + d[n] = a[n] + b[n] - k,
              c[tail.ptr] = tail.ext - 1, d[head.ptr] = head.ext - 1,
              \A u \in Threads : TailGone(u)' => c[old[u].ptr] = old[u].ext - 2,
              \A u \in Threads : HeadGone(u)' => d[old[u].ptr] = old[u].ext - 2,
              n # tail.ptr /\ (\A u \in Threads : TailGone(u)' => old[u].ptr # n) => c[n] = 0,
              n # head.ptr /\ (\A u \in Threads : HeadGone(u)' => old[u].ptr # n) => d[n] = 0,
              i = 0 /\ e = 0 => /\ c[n] = 0 /\ d[n] = 0 /\ n \notin CIn
                                /\ \A u \in Threads : u # t => (~TailGone(u) /\ ~HeadGone(u)) \/ old[u].ptr # n,
              CIn' = CIn =>
                  /\ \A m : m # n => (m \in TailRefs' <=> m \in TailRefs) /\ (m \in HeadRefs' <=> m \in HeadRefs)
                  /\ e = (IF n \in TailRefs' THEN 1 ELSE 0) + (IF n \in HeadRefs' THEN 1 ELSE 0)
       PROVE  QInv'
  <2>1. \/ nodes'[n].alive
        \/ n \notin CIn /\ \A u \in Threads : u # t /\ Uses(u) => old[u].ptr # n
    <3> SUFFICES ASSUME ~nodes'[n].alive
                 PROVE  n \notin CIn /\ \A u \in Threads : u # t /\ Uses(u) => old[u].ptr # n
      OBVIOUS
    <3>1. i = 0 /\ e = 0
      BY <1>10
    <3>2. Cardinality(Keepers(n)) = 0
      <4>1. c[n] = 0 /\ d[n] = 0 /\ c[n] + d[n] = a[n] + b[n] - k
        BY <1>15, <3>1
      <4>2. nodes[n].internal + k = 0
        BY <1>7, <3>1
      <4> QED
        BY <1>5, <1>6, <4>1, <4>2
    <3>3. \A m \in Nat : m = n => IsFiniteSet(Keepers(m)') /\ Cardinality(Keepers(m)') = 0
      <4>1. \A m \in Nat : IsFiniteSet(Keepers(m)) /\ Keepers(m)' = Keepers(m)
        BY <1>2, <1>11 DEF QType
      <4> QED
        BY <3>2, <4>1
    <3>4. \A u \in Threads : u # t /\ (TailGone(u) \/ HeadGone(u)) => old[u].ptr # n
      BY <1>15, <3>1
    <3>5. \A u \in Threads : u # t /\ Uses(u) => old[u].ptr # n
      BY <1>2, <1>5, <3>3, <3>4, QueueUnused
    <3> QED
      BY <1>15, <3>1, <3>5
  <2>2. /\ QType' /\ QOps' /\ QList' /\ QRead' /\ QOnce' /\ QUse' /\ QOwn'
        /\ Own' = Own /\ CIn' = CIn /\ Alive' \subseteq Alive
    BY <1>1, <1>3, <1>10, <2>1, QueueGivenUp
  <2>3. ASSUME NEW m \in Alive', m \notin Own' PROVE Kept'[m] = c[m] + d[m]
    <3>1. m \in Alive /\ m \notin Own /\ m \in DOMAIN nodes /\ m \in Nat
      BY <1>2, <2>2, <2>3, QueueFacts
    <3>2. Kept'[m] = Cardinality(Keepers(m)') - nodes'[m].internal
      BY <1>2, <3>1, KeptFacts
    <3>3. /\ Cardinality(Keepers(m)) \in Nat /\ nodes[m].internal \in Int
          /\ Cardinality(Keepers(m)) - nodes[m].internal = a[m] + b[m]
      BY <1>2, <1>4, <3>1, QueueCounts
    <3>4. Cardinality(Keepers(m)') = Cardinality(Keepers(m))
      BY <1>11, <3>1
    <3>5. CASE m = n
      <4>1. Kept'[m] = Cardinality(Keepers(m)) - (nodes[m].internal + k)
        BY <1>7, <1>10, <3>2, <3>4, <3>5
      <4>2. c[m] + d[m] = a[m] + b[m] - k
        BY <1>15, <3>5
      <4>3. a[m] \in Int /\ b[m] \in Int /\ c[m] \in Int /\ d[m] \in Int
        BY <1>5, <1>15, <3>1, <3>5
      <4> QED
        BY <1>6, <3>3, <4>1, <4>2, <4>3
    <3>6. CASE m # n
      BY <1>10, <1>15, <3>1, <3>2, <3>3, <3>4, <3>6
    <3> QED
      BY <3>5, <3>6
  <2>4. \A m \in Nat : m # tail.ptr /\ (\A u \in Threads : TailGone(u)' => old[u].ptr # m) => c[m] = 0
    <3>1. ASSUME NEW m \in Nat, m # tail.ptr, \A u \in Threads : TailGone(u)' => old[u].ptr # m
          PROVE  c[m] = 0
      <4>1. CASE m = n
        BY <1>15, <3>1, <4>1
      <4>2. CASE m # n
        <5>1. \A u \in Threads : TailGone(u) => old[u].ptr # m
          BY <1>3, <1>12, <3>1, <4>2
        <5> QED
          BY <1>4, <1>15, <3>1, <4>2, <5>1 DEF Sums
      <4> QED
        BY <4>1, <4>2
    <3> QED
      BY <3>1
  <2>5. \A m \in Nat : m # head.ptr /\ (\A u \in Threads : HeadGone(u)' => old[u].ptr # m) => d[m] = 0
    <3>1. ASSUME NEW m \in Nat, m # head.ptr, \A u \in Threads : HeadGone(u)' => old[u].ptr # m
          PROVE  d[m] = 0
      <4>1. CASE m = n
        BY <1>15, <3>1, <4>1
      <4>2. CASE m # n
        <5>1. \A u \in Threads : HeadGone(u) => old[u].ptr # m
          BY <1>3, <1>12, <3>1, <4>2
        <5> QED
          BY <1>4, <1>15, <3>1, <4>2, <5>1 DEF Sums
      <4> QED
        BY <4>1, <4>2
    <3> QED
      BY <3>1
  <2>6. Sums(c, d)'
    BY <1>1, <1>15, <2>3, <2>4, <2>5 DEF Sums
  <2>7. QExternal'
    <3>1. ASSUME NEW m \in Alive', m \notin Own'
          PROVE  /\ nodes'[m].external = (IF m \in TailRefs' THEN 1 ELSE 0) + (IF m \in HeadRefs' THEN 1 ELSE 0)
                 /\ ~(nodes'[m].internal = 0 /\ nodes'[m].external = 0)
      <4>1. m \in Alive /\ m \notin Own /\ m \in DOMAIN nodes /\ nodes'[m].alive
        BY <1>2, <1>10, <2>2, <3>1, QueueFacts DEF Alive
      <4>2. CASE m = n
        BY <1>10, <1>15, <2>2, <4>1, <4>2
      <4>3. CASE m # n
        <5>1. /\ nodes[m].external = (IF m \in TailRefs THEN 1 ELSE 0) + (IF m \in HeadRefs THEN 1 ELSE 0)
              /\ ~(nodes[m].internal = 0 /\ nodes[m].external = 0)
          BY <1>2, <1>4, <4>1, QueueCounts
        <5>2. (m \in TailRefs' <=> m \in TailRefs) /\ (m \in HeadRefs' <=> m \in HeadRefs)
          BY <1>15, <2>2, <4>3
        <5> QED
          BY <1>10, <4>1, <4>3, <5>1, <5>2
      <4> QED
        BY <4>2, <4>3
    <3> QED
      BY <3>1 DEF QExternal
  <2>8. head'.ptr # Null
    BY <1>1, <1>2
  <2> QED
    BY <2>2, <2>6, <2>7, <2>8 DEF QInv, QLive
<1>16. CASE TailGone(t)
  <2>1. ~HeadGone(t)
    BY <1>1, <1>16 DEF TailGone, HeadGone
  <2>2. n # tail.ptr /\ nodes[n].next.ptr # Null /\ a[n] = k
    BY <1>2, <1>3, <1>4, <1>6, <1>16 DEF ReadOk, Sums
  <2>3. n \in TailRefs
    BY <1>3, <1>16 DEF TailRefs
  <2>4. \A u \in Threads : u # t /\ TailGone(u) => old[u].ptr # n
    BY <1>3, <1>14, <1>16 DEF Differ
  <2>5. PICK c : c = [a EXCEPT ![n] = 0]
    OBVIOUS
  <2>6. c \in [Nat -> Int] /\ c[n] = 0 /\ \A m \in Nat : m # n => c[m] = a[m]
    BY <1>4, <1>5, <2>5 DEF Sums
  <2>7. b \in [Nat -> Int] /\ c[n] + b[n] = a[n] + b[n] - k
    BY <1>4, <1>5, <1>6, <2>2, <2>6 DEF Sums
  <2>8. c[tail.ptr] = tail.ext - 1 /\ b[head.ptr] = head.ext - 1
    <3>1. tail.ptr \in Nat
      BY <1>2, QueueFacts
    <3> QED
      BY <1>4, <2>2, <2>6, <3>1 DEF Sums
  <2>9. /\ \A u \in Threads : TailGone(u)' => c[old[u].ptr] = old[u].ext - 2
        /\ \A u \in Threads : HeadGone(u)' => b[old[u].ptr] = old[u].ext - 2
    BY <1>2, <1>4, <1>12, <1>13, <2>4, <2>6 DEF Sums
  <2>10. n # head.ptr /\ (\A u \in Threads : HeadGone(u)' => old[u].ptr # n) => b[n] = 0
    BY <1>4, <1>5, <1>12, <2>1 DEF Sums
  <2>11. ASSUME e = 0
         PROVE  /\ b[n] = 0 /\ n \notin CIn
                /\ \A u \in Threads : u # t => (~TailGone(u) /\ ~HeadGone(u)) \/ old[u].ptr # n
    <3>1. n \notin HeadRefs
      BY <1>5, <1>8, <2>3, <2>11
    <3> QED
      BY <1>5, <2>4, <3>1
  <2>12. ASSUME CIn' = CIn
         PROVE  /\ \A m : m # n => (m \in TailRefs' <=> m \in TailRefs) /\ (m \in HeadRefs' <=> m \in HeadRefs)
                /\ e = (IF n \in TailRefs' THEN 1 ELSE 0) + (IF n \in HeadRefs' THEN 1 ELSE 0)
    <3>1. HeadRefs' = HeadRefs
      <4>1. \A u \in Threads : (HeadGone(u)' <=> HeadGone(u)) /\ old'[u] = old[u]
        BY <1>1, <1>2, <1>12, <2>1
      <4> QED
        BY <2>12, <4>1 DEF HeadRefs
    <3>2. tail.ptr \in DOMAIN nodes /\ nodes'[tail.ptr].next = nodes[tail.ptr].next
      BY <1>2, <1>10, <2>2, QueueFacts
    <3>3. \A m : m \in TailRefs' <=> \/ m \in {tail.ptr, nodes[tail.ptr].next.ptr}
                                     \/ \E u \in Threads : u # t /\ TailGone(u) /\ m = old[u].ptr
      BY <1>1, <1>2, <1>12, <3>2 DEF TailRefs
    <3>4. \A m : m \in TailRefs <=> \/ m \in {tail.ptr, nodes[tail.ptr].next.ptr, n}
                                    \/ \E u \in Threads : u # t /\ TailGone(u) /\ m = old[u].ptr
      BY <1>3, <1>16 DEF TailRefs
    <3>5. n # nodes[tail.ptr].next.ptr
      <4>1. n # Null
        BY <1>2, <1>5, QueueFacts
      <4>2. nodes[tail.ptr].next.ptr # Null => nodes[nodes[tail.ptr].next.ptr].next.ptr = Null
        BY <1>2, QueueFacts DEF QList
      <4> QED
        BY <2>2, <4>1, <4>2
    <3>6. n \notin TailRefs'
      BY <2>2, <2>4, <3>3, <3>5
    <3> QED
      BY <1>5, <1>8, <2>3, <3>1, <3>3, <3>4, <3>6
  <2> QED
    BY <1>15, <2>6, <2>7, <2>8, <2>9, <2>10, <2>11, <2>12
<1>17. CASE HeadGone(t)
  <2>1. ~TailGone(t)
    BY <1>1, <1>17 DEF TailGone, HeadGone
  <2>2. n \notin CIn /\ n # head.ptr /\ b[n] = k
    BY <1>2, <1>3, <1>4, <1>6, <1>17, QueueFacts DEF ReadOk, Sums
  <2>3. n \in HeadRefs
    BY <1>3, <1>17 DEF HeadRefs
  <2>4. \A u \in Threads : u # t /\ HeadGone(u) => old[u].ptr # n
    BY <1>3, <1>14, <1>17 DEF Differ
  <2>5. PICK d : d = [b EXCEPT ![n] = 0]
    OBVIOUS
  <2>6. d \in [Nat -> Int] /\ d[n] = 0 /\ \A m \in Nat : m # n => d[m] = b[m]
    BY <1>4, <1>5, <2>5 DEF Sums
  <2>7. a \in [Nat -> Int] /\ a[n] + d[n] = a[n] + b[n] - k
    BY <1>4, <1>5, <1>6, <2>2, <2>6 DEF Sums
  <2>8. a[tail.ptr] = tail.ext - 1 /\ d[head.ptr] = head.ext - 1
    <3>1. head.ptr \in Nat
      BY <1>2, QueueFacts
    <3> QED
      BY <1>4, <2>2, <2>6, <3>1 DEF Sums
  <2>9. /\ \A u \in Threads : TailGone(u)' => a[old[u].ptr] = old[u].ext - 2
        /\ \A u \in Threads : HeadGone(u)' => d[old[u].ptr] = old[u].ext - 2
    BY <1>2, <1>4, <1>12, <1>13, <2>4, <2>6 DEF Sums
  <2>10. n # tail.ptr /\ (\A u \in Threads : TailGone(u)' => old[u].ptr # n) => a[n] = 0
    BY <1>4, <1>5, <1>12, <2>1 DEF Sums
  <2>11. ASSUME e = 0
         PROVE  /\ a[n] = 0 /\ n \notin CIn
                /\ \A u \in Threads : u # t => (~TailGone(u) /\ ~HeadGone(u)) \/ old[u].ptr # n
    <3>1. n \notin TailRefs
      BY <1>5, <1>8, <2>3, <2>11
    <3> QED
      BY <1>5, <2>2, <2>4, <3>1
  <2>12. ASSUME CIn' = CIn
         PROVE  /\ \A m : m # n => (m \in TailRefs' <=> m \in TailRefs) /\ (m \in HeadRefs' <=> m \in HeadRefs)
                /\ e = (IF n \in TailRefs' THEN 1 ELSE 0) + (IF n \in HeadRefs' THEN 1 ELSE 0)
    <3>1. TailRefs' = TailRefs
      <4>1. \A u \in Threads : (TailGone(u)' <=> TailGone(u)) /\ old'[u] = old[u]
        BY <1>1, <1>2, <1>12, <2>1
      <4>2. tail.ptr \in DOMAIN nodes
        BY <1>2, QueueFacts
      <4>3. nodes'[tail.ptr].next = nodes[tail.ptr].next
        BY <1>10, <4>2
      <4> QED
        BY <1>1, <4>1, <4>3 DEF TailRefs
    <3>2. \A m : m \in HeadRefs' <=> m \in CIn \/ \E u \in Threads : u # t /\ HeadGone(u) /\ m = old[u].ptr
      BY <1>1, <1>2, <1>12, <2>12 DEF HeadRefs
    <3>3. \A m : m \in HeadRefs <=> \/ m \in CIn \/ m = n
                                    \/ \E u \in Threads : u # t /\ HeadGone(u) /\ m = old[u].ptr
      BY <1>3, <1>17 DEF HeadRefs
    <3>4. n \notin HeadRefs'
      BY <2>2, <2>4, <3>2
    <3> QED
      BY <1>5, <1>8, <2>3, <3>1, <3>2, <3>3, <3>4
  <2> QED
    BY <1>15, <2>6, <2>7, <2>8, <2>9, <2>10, <2>11, <2>12
<1>18. TailGone(t) \/ HeadGone(t)
  BY <1>1 DEF TailGone, HeadGone
<1> QED
  BY <1>16, <1>17, <1>18

(* The data of a node is taken out. *)
LEMMA EmptiedNode ==
    ASSUME NEW s \in Seq(QueueNode), NEW n \in DOMAIN s, NEW made,
           made = [s EXCEPT ![n].data = NoData]
    PROVE  /\ made \in Seq(QueueNode) /\ DOMAIN made = DOMAIN s
           /\ \A m \in DOMAIN s : m # n => made[m] = s[m]
           /\ made[n].next = s[n].next /\ made[n].alive = s[n].alive
<1>1. s[n] \in QueueNode
  BY ElementOfSeq, LenProperties
<1>2. PICK y : y = [s[n] EXCEPT !.data = NoData]
  OBVIOUS
<1>3. y \in QueueNode /\ y.next = s[n].next /\ y.alive = s[n].alive
  BY <1>1, <1>2 DEF QueueNode
<1>4. made = [s EXCEPT ![n] = y]
  BY <1>2
<1>5. y \in QueueNode
  BY <1>3
<1>6. PICK c : c = [s EXCEPT ![n] = y]
  OBVIOUS
<1>7. /\ c \in Seq(QueueNode) /\ DOMAIN c = DOMAIN s /\ c[n] = y
      /\ \A m \in DOMAIN s : m # n => c[m] = s[m]
  BY <1>5, <1>6, Changed
<1>8. /\ made \in Seq(QueueNode) /\ DOMAIN made = DOMAIN s /\ made[n] = y
      /\ \A m \in DOMAIN s : m # n => made[m] = s[m]
  BY <1>4, <1>6, <1>7, Zenon
<1> QED
  BY <1>3, <1>8

(* When no operation is going on, the nodes that exist are those of the    *)
(* list, and it ends at tail.                                              *)
LEMMA QueueIdle ==
    ASSUME QInv, head.ptr # Null, \A t \in Threads : pc[t] = "idle"
    PROVE  /\ \A t \in Threads : ~TailGone(t) /\ ~HeadGone(t) /\ ~Owns(t) /\ ~Uses(t)
           /\ Own = {} /\ \A n : Keepers(n) = {}
           /\ nodes[tail.ptr].next.ptr = Null /\ TailRefs = {tail.ptr, Null} /\ HeadRefs = CIn
           /\ \A n \in CIn : nodes[n].next.ptr = Null => n = tail.ptr
           /\ Alive = CIn
<1>1. \A t \in Threads : ~TailGone(t) /\ ~HeadGone(t) /\ ~Owns(t) /\ ~Uses(t) /\ pc[t] \notin Copying
  BY DEF TailGone, HeadGone, Owns, Uses, Copying
<1>2. Own = {} /\ \A n : Keepers(n) = {}
  BY <1>1 DEF Own, Keepers
<1>3. nodes[tail.ptr].next.ptr = Null
  BY QueueFacts DEF QList
<1>4. TailRefs = {tail.ptr, Null} /\ HeadRefs = CIn
  BY <1>1, <1>3 DEF TailRefs, HeadRefs
<1>5. \A n \in CIn : nodes[n].next.ptr = Null => n = tail.ptr
  BY <1>3, QueueFacts
<1>6. ASSUME NEW n \in Alive PROVE n \in CIn
  <2> SUFFICES ASSUME n \notin CIn PROVE FALSE
    OBVIOUS
  <2>1. n \notin TailRefs /\ n \notin HeadRefs
    BY <1>4, QueueFacts
  <2>2. PICK a, b : Sums(a, b)
    BY QueueFacts
  <2>3. n \notin Own
    BY <1>2
  <2>4. /\ nodes[n].internal \in Int
        /\ Cardinality(Keepers(n)) - nodes[n].internal = a[n] + b[n]
        /\ nodes[n].external = (IF n \in TailRefs THEN 1 ELSE 0) + (IF n \in HeadRefs THEN 1 ELSE 0)
        /\ ~(nodes[n].internal = 0 /\ nodes[n].external = 0)
        /\ n \notin TailRefs => a[n] = 0
        /\ n \notin HeadRefs => b[n] = 0
    BY <2>2, <2>3, QueueCounts
  <2>5. Cardinality(Keepers(n)) = 0
    BY <1>2, FS_EmptySet
  <2>6. nodes[n].external = 0
    BY <2>1, <2>4
  <2>7. a[n] = 0 /\ b[n] = 0
    BY <2>1, <2>4
  <2>8. nodes[n].internal = 0
    BY <2>4, <2>5, <2>7
  <2> QED
    BY <2>4, <2>6, <2>8
<1>7. CIn \subseteq Alive
  BY QueueFacts
<1> QED
  BY <1>1, <1>2, <1>3, <1>4, <1>5, <1>6, <1>7

(* The destructor runs when every operation has returned. *)
LEMMA QueueReturned ==
    ASSUME QInv, Queue!AllReturned
    PROVE  \A t \in Threads : pc[t] = "idle" /\ todo[t] = <<>>
BY DEF QInv, QOps, OpsOk, Queue!AllReturned

(* What holds of threads that have returned, whatever becomes of the nodes.*)
LEMMA QueueStill ==
    ASSUME QInv, Queue!AllReturned, pc' = pc, todo' = todo, old' = old, new' = new, to' = to, next' = next,
           tail' = tail, head' \in CountedPtr, nodes' \in Seq(QueueNode), DOMAIN nodes' = DOMAIN nodes,
           \A m \in DOMAIN nodes : nodes'[m].next = nodes[m].next
    PROVE  QType' /\ QOps' /\ QRead' /\ QOnce' /\ QUse' /\ QOwn' /\ Own' = {} /\ \A n \in Nat : Keepers(n)' = {}
<1>1. \A t \in Threads : pc[t] = "idle" /\ todo[t] = <<>>
  BY QueueReturned
<1>2. \A t \in Threads : /\ ~TailGone(t)' /\ ~HeadGone(t)' /\ ~Owns(t)' /\ ~Uses(t)'
                         /\ pc'[t] \notin Copying
  BY <1>1 DEF TailGone, HeadGone, Owns, Uses, Copying
<1>3. Own' = {} /\ \A n \in Nat : Keepers(n)' = {}
  BY <1>2 DEF Own, Keepers
<1>4. QType'
  <2>1. \A n \in Nat : IsFiniteSet(Keepers(n)')
    BY <1>3, FS_EmptySet
  <2>2. QType
    BY DEF QInv
  <2> QED
    BY <2>1, <2>2 DEF QType
<1>5. QOps'
  BY <1>1 DEF QOps, OpsOk
<1>6. QRead'
  BY <1>1, <1>2 DEF QRead, ReadOk
<1>7. QOnce' /\ QUse' /\ QOwn'
  BY <1>2 DEF QOnce, Differ, QUse, QOwn
<1> QED
  BY <1>3, <1>4, <1>5, <1>6, <1>7

(* The destructor pops: the first node has no other use, and is deleted. *)
LEMMA QueueDestroyPop == ASSUME QInv, Queue!DestroyPop PROVE QInv'
<1>1. PICK n : n = head.ptr
  OBVIOUS
<1>2. /\ Queue!AllReturned /\ head.ptr # Null /\ head.ptr # tail.ptr
      /\ pc' = pc /\ todo' = todo /\ old' = old /\ new' = new /\ to' = to /\ next' = next /\ tail' = tail
      /\ nodes' = [Queue!GiveUp(n, 1, head.ext + 1 - 2) EXCEPT ![n].data = NoData]
      /\ head' = nodes[n].next
  BY <1>1, QueueSame DEF Queue!DestroyPop, Queue!queueVars
<1>3. \A t \in Threads : pc[t] = "idle" /\ todo[t] = <<>>
  BY <1>2, QueueReturned
<1>4. /\ \A t \in Threads : ~TailGone(t) /\ ~HeadGone(t) /\ ~Owns(t) /\ ~Uses(t)
      /\ Own = {} /\ \A m : Keepers(m) = {}
      /\ nodes[tail.ptr].next.ptr = Null /\ TailRefs = {tail.ptr, Null} /\ HeadRefs = CIn
      /\ Alive = CIn
  BY <1>2, <1>3, QueueIdle
<1>5. n \in Alive /\ n \notin Own /\ n \in CIn /\ QType /\ n \in DOMAIN nodes /\ n \in Nat /\ n # tail.ptr /\ n # Null
  BY <1>1, <1>2, QueueFacts DEF QInv
<1>6. PICK a, b : Sums(a, b)
  BY <1>2, QueueFacts
<1>7. nodes[n].internal = 1 - head.ext /\ nodes[n].external = 1 /\ head.ext \in Int
  <2>1. /\ nodes[n].internal \in Int
        /\ Cardinality(Keepers(n)) - nodes[n].internal = a[n] + b[n]
        /\ nodes[n].external = (IF n \in TailRefs THEN 1 ELSE 0) + (IF n \in HeadRefs THEN 1 ELSE 0)
        /\ n \notin TailRefs => a[n] = 0
    BY <1>2, <1>5, <1>6, QueueCounts
  <2>2. Cardinality(Keepers(n)) = 0
    BY <1>4, FS_EmptySet
  <2>3. b[n] = head.ext - 1 /\ head.ext \in Int
    BY <1>1, <1>5, <1>6 DEF Sums, QType, CountedPtr
  <2>4. n \notin TailRefs /\ n \in HeadRefs
    BY <1>4, <1>5
  <2> QED
    BY <2>1, <2>2, <2>3, <2>4
<1>8. PICK g : g = SetCounts(nodes, n, 0, 0)
  OBVIOUS
<1>9. /\ g \in Seq(QueueNode) /\ DOMAIN g = DOMAIN nodes
      /\ \A m \in DOMAIN nodes : m # n => g[m] = nodes[m]
      /\ g[n].next = nodes[n].next /\ ~g[n].alive
  <2>1. nodes \in Seq(QueueNode) /\ n \in DOMAIN nodes
    BY <1>5 DEF QType
  <2> QED
    BY <1>8, <2>1, GivenUp
<1>10. nodes' = [g EXCEPT ![n].data = NoData]
  <2>1. nodes[n].internal + (head.ext + 1 - 2) = 0 /\ nodes[n].external - 1 = 0
    BY <1>7
  <2>2. Queue!GiveUp(n, 1, head.ext + 1 - 2) = g
    BY <1>8, <2>1 DEF Queue!GiveUp, SetCounts
  <2> QED
    BY <1>2, <2>2
<1>11. /\ nodes' \in Seq(QueueNode) /\ DOMAIN nodes' = DOMAIN nodes
       /\ \A m \in DOMAIN nodes : m # n => nodes'[m] = nodes[m]
       /\ nodes'[n].next = nodes[n].next /\ ~nodes'[n].alive
  <2>1. g \in Seq(QueueNode) /\ n \in DOMAIN g
    BY <1>5, <1>9
  <2>2. /\ nodes' \in Seq(QueueNode) /\ DOMAIN nodes' = DOMAIN g
        /\ \A m \in DOMAIN g : m # n => nodes'[m] = g[m]
        /\ nodes'[n].next = g[n].next /\ nodes'[n].alive = g[n].alive
    <3>1. PICK made : made = [g EXCEPT ![n].data = NoData]
      OBVIOUS
    <3>2. /\ made \in Seq(QueueNode) /\ DOMAIN made = DOMAIN g
          /\ \A m \in DOMAIN g : m # n => made[m] = g[m]
          /\ made[n].next = g[n].next /\ made[n].alive = g[n].alive
      BY <2>1, <3>1, EmptiedNode
    <3> QED
      BY <1>10, <3>1, <3>2
  <2> QED
    BY <1>9, <2>2
<1>12. /\ head' \in CountedPtr /\ head'.ptr \in CIn /\ head'.ptr # n /\ head'.ptr # Null /\ head'.ext = 1
       /\ head'.ptr \in Nat
  <2>1. nodes[n].next.ptr # Null
    BY <1>1, <1>2, QueueHeadLeads
  <2>2. nodes[n].next \in CountedPtr /\ nodes[n].next.ptr \in CIn /\ nodes[n].next.ptr # n
    BY <1>2, <1>5, <2>1, QueueFacts
  <2>3. nodes[n].next.ext = 1
    BY <1>5, <2>1, QueueSame DEF QType
  <2> QED
    BY <1>2, <2>1, <2>2, <2>3, QueueFacts
<1>13. QType' /\ QOps' /\ QRead' /\ QOnce' /\ QUse' /\ QOwn' /\ Own' = {} /\ \A m \in Nat : Keepers(m)' = {}
  BY <1>2, <1>11, <1>12, QueueStill
<1>14. Alive' = Alive \ {n}
  BY <1>5, <1>11 DEF Alive
<1>15. CIn' = CIn \ {n} /\ CListOk'
  <2>1. IsChain(CIn, head.ptr, NextOf(nodes))
    BY <1>2, QueueFacts DEF QList, CListOk
  <2>2. NextOf(nodes)[n] = head'.ptr
    BY <1>2, <1>5 DEF NextOf
  <2>3. IsChain(CIn \ {n}, head'.ptr, NextOf(nodes))
    BY <1>1, <1>2, <2>1, <2>2, ChainPop
  <2>4. \A m \in CIn : m \in DOMAIN NextOf(nodes') /\ NextOf(nodes')[m] = NextOf(nodes)[m]
    BY <1>2, <1>11, QueueFacts DEF NextOf
  <2>5. IsChain(CIn \ {n}, head'.ptr, NextOf(nodes'))
    BY <2>3, <2>4, ChainSame
  <2>6. Linked(head'.ptr, NextOf(nodes')) = CIn \ {n}
    BY <1>11, <2>5, FoundNext
  <2> QED
    BY <2>5, <2>6 DEF CIn, CListOk
<1>16. tail.ptr \in CIn /\ tail.ptr \in DOMAIN nodes /\ tail.ptr \in Nat /\ nodes'[tail.ptr] = nodes[tail.ptr]
  BY <1>2, <1>5, <1>11, QueueFacts
<1>17. QList'
  BY <1>2, <1>4, <1>5, <1>14, <1>15, <1>16 DEF QList
<1>18. PICK d : d = [b EXCEPT ![n] = 0]
  OBVIOUS
<1>19. d \in [Nat -> Int] /\ d[n] = 0 /\ \A m \in Nat : m # n => d[m] = b[m]
  BY <1>5, <1>6, <1>18 DEF Sums
<1>20. \A t \in Threads : ~TailGone(t)' /\ ~HeadGone(t)'
  BY <1>2, <1>3 DEF TailGone, HeadGone
<1>21. Sums(a, d)'
  <2>1. d[head'.ptr] = head'.ext - 1
    <3>1. b[head'.ptr] = 0
      BY <1>1, <1>4, <1>6, <1>12 DEF Sums
    <3> QED
      BY <1>12, <1>19, <3>1
  <2>2. \A m \in Nat : m # head'.ptr => d[m] = 0
    BY <1>1, <1>4, <1>6, <1>19 DEF Sums
  <2>3. \A m \in Nat : m # tail.ptr => a[m] = 0
    BY <1>4, <1>6 DEF Sums
  <2>4. ASSUME NEW m \in Alive' PROVE Kept'[m] = a[m] + d[m]
    <3>1. m \in Alive /\ m # n /\ m \in Nat /\ m \in DOMAIN nodes
      BY <1>2, <1>14, <2>4, QueueFacts
    <3>2. Kept[m] = a[m] + b[m]
      BY <1>4, <1>6, <3>1 DEF Sums
    <3>3. Keepers(m)' = Keepers(m)
      BY <1>4, <1>13, <3>1
    <3>4. /\ Kept[m] = Cardinality(Keepers(m)) - nodes[m].internal
          /\ Kept'[m] = Cardinality(Keepers(m)') - nodes'[m].internal
      BY <1>2, <3>1, KeptFacts
    <3> QED
      BY <1>11, <1>19, <3>1, <3>2, <3>3, <3>4
  <2>5. a \in [Nat -> Int] /\ a[tail.ptr] = tail.ext - 1
    BY <1>6 DEF Sums
  <2> QED
    BY <1>2, <1>19, <1>20, <2>1, <2>2, <2>3, <2>4, <2>5 DEF Sums
<1>22. QExternal'
  <2>1. TailRefs' = TailRefs
    BY <1>2, <1>4, <1>16, <1>20 DEF TailRefs
  <2>2. HeadRefs' = CIn \ {n}
    BY <1>15, <1>20 DEF HeadRefs
  <2>3. QExternal
    BY <1>2, QueueFacts
  <2>4. ASSUME NEW m \in Alive'
        PROVE  /\ m \in Alive /\ m \notin Own
               /\ nodes'[m].internal = nodes[m].internal /\ nodes'[m].external = nodes[m].external
               /\ m \in TailRefs' <=> m \in TailRefs
               /\ m \in HeadRefs' <=> m \in HeadRefs
    <3>1. m \in Alive /\ m # n /\ m \in DOMAIN nodes
      BY <1>2, <1>14, <2>4, QueueFacts
    <3> QED
      BY <1>4, <1>11, <2>1, <2>2, <3>1
  <2> QED
    BY <2>3, <2>4, ExternalStays
<1> QED
  BY <1>12, <1>13, <1>17, <1>21, <1>22 DEF QInv, QLive

(* The destructor deletes the node that is left. *)
LEMMA QueueDestroyLast == ASSUME QInv, Queue!DestroyLast PROVE QInv'
<1>1. PICK n : n = head.ptr
  OBVIOUS
<1>2. /\ Queue!AllReturned /\ n # Null /\ head.ptr = tail.ptr
      /\ pc' = pc /\ todo' = todo /\ old' = old /\ new' = new /\ to' = to /\ next' = next /\ tail' = tail
      /\ nodes' = [nodes EXCEPT ![n].alive = FALSE] /\ head' = Queue!NoNode
  BY <1>1, QueueSame DEF Queue!DestroyLast, Queue!queueVars
<1>3. \A t \in Threads : pc[t] = "idle" /\ todo[t] = <<>>
  BY <1>2, QueueReturned
<1>4. nodes[n].next.ptr = Null /\ Alive = CIn
  BY <1>1, <1>2, <1>3, QueueIdle
<1>5. CIn = {n}
  <2>1. IsChain(CIn, head.ptr, NextOf(nodes)) /\ n \in CIn /\ n \in DOMAIN nodes
    BY <1>1, <1>2, QueueFacts DEF QList, CListOk
  <2>2. IsChain(CIn \ {n}, NextOf(nodes)[n], NextOf(nodes))
    BY <1>1, <1>2, <2>1, ChainPop
  <2>3. NextOf(nodes)[n] = Null
    BY <1>4, <2>1 DEF NextOf
  <2>4. CIn \ {n} = {}
    BY <2>2, <2>3, ChainFacts
  <2> QED
    BY <2>1, <2>4
<1>6. n \in DOMAIN nodes /\ nodes \in Seq(QueueNode)
  BY <1>1, <1>2, QueueFacts DEF QInv, QType
<1>7. /\ nodes' \in Seq(QueueNode) /\ DOMAIN nodes' = DOMAIN nodes /\ ~nodes'[n].alive
      /\ \A m \in DOMAIN nodes : /\ m # n => nodes'[m].alive = nodes[m].alive
                                 /\ nodes'[m].next = nodes[m].next
  <2>0. nodes \in Seq(QueueNode) /\ n \in DOMAIN nodes
    BY <1>6
  <2>1. PICK made : made = Dropped(nodes, n)
    OBVIOUS
  <2>2. /\ made \in Seq(QueueNode) /\ DOMAIN made = DOMAIN nodes /\ ~made[n].alive
        /\ \A m \in DOMAIN nodes : /\ m # n => made[m].alive = nodes[m].alive
                                   /\ made[m].next = nodes[m].next
                                   /\ made[m].internal = nodes[m].internal
                                   /\ made[m].external = nodes[m].external
    BY <2>0, <2>1, DroppedNode
  <2>3. nodes' = made
    BY <1>2, <2>1 DEF Dropped
  <2> QED
    BY <2>2, <2>3
<1>8. QType' /\ QOps'
  BY <1>2, <1>7, QueueStill, QueueSame
<1>9. Alive' = {}
  BY <1>4, <1>5, <1>7 DEF Alive
<1>10. QGone'
  BY <1>2, <1>3, <1>9 DEF QGone
<1>11. head'.ptr = Null
  BY <1>2, QueueSame
<1> QED
  BY <1>8, <1>10, <1>11 DEF QInv

(* At first one node, head and tail. *)
LEMMA QueueInit == Queue!Init => QInv
<1> SUFFICES ASSUME Queue!Init PROVE QInv
  OBVIOUS
<1>1. /\ nodes = <<Queue!Node>> /\ head = Queue!Counted(1) /\ tail = Queue!Counted(1) /\ todo = Program
      /\ pc = [t \in Threads |-> "idle"] /\ old = [t \in Threads |-> Queue!NoNode]
      /\ new = [t \in Threads |-> Queue!NoNode] /\ to = [t \in Threads |-> Queue!NoNode]
      /\ next = [t \in Threads |-> "idle"]
  BY DEF Queue!Init, Queue!ThreadsInit
<1>2. head \in CountedPtr /\ head = tail /\ head.ptr = 1 /\ head.ext = 1 /\ head.ptr # Null
  BY <1>1, QueueSame DEF Null
<1>3. /\ nodes \in Seq(QueueNode) /\ DOMAIN nodes = {1} /\ nodes[1] = Queue!Node
      /\ nodes[1].next = Queue!NoNode /\ nodes[1].next.ptr = Null
      /\ nodes[1].internal = 0 /\ nodes[1].external = 2 /\ nodes[1].alive
  <2>1. PICK x \in QueueNode : x = Queue!Node
    BY QueueSame
  <2>2. <<x>> \in Seq(QueueNode) /\ DOMAIN <<x>> = {1} /\ <<x>>[1] = x
    OBVIOUS
  <2>3. nodes \in Seq(QueueNode) /\ DOMAIN nodes = {1} /\ nodes[1] = Queue!Node
    BY <1>1, <2>1, <2>2
  <2> QED
    BY <2>3, QueueSame
<1>4. \A t \in Threads : /\ ~TailGone(t) /\ ~HeadGone(t) /\ ~Owns(t) /\ ~Uses(t)
                         /\ pc[t] = "idle" /\ pc[t] \notin Copying
  BY <1>1 DEF TailGone, HeadGone, Owns, Uses, Copying
<1>5. Own = {} /\ \A n : Keepers(n) = {}
  BY <1>4 DEF Own, Keepers
<1>6. CIn = {1} /\ CListOk /\ Alive = {1}
  <2>1. 1 \in DOMAIN NextOf(nodes) /\ NextOf(nodes)[1] = Null /\ 1 # Null
    BY <1>2, <1>3 DEF NextOf
  <2>2. IsChain({1}, 1, NextOf(nodes))
    BY <2>1, ChainOne
  <2>3. Linked(1, NextOf(nodes)) = {1}
    BY <1>3, <2>2, FoundNext
  <2> QED
    BY <1>2, <1>3, <2>2, <2>3 DEF CIn, CListOk, Alive
<1>7. QType
  <2>1. DOMAIN todo = Threads
    BY <1>1, ThreadsAssumption
  <2>2. \A n \in Nat : IsFiniteSet(Keepers(n))
    BY <1>5, FS_EmptySet
  <2>3. pc \in [Threads -> QueuePlaces]
    BY <1>1 DEF QueuePlaces
  <2>4. old \in [Threads -> CountedPtr] /\ new \in [Threads -> CountedPtr] /\ to \in [Threads -> CountedPtr]
    BY <1>1, QueueSame
  <2>5. next \in [Threads -> {"idle", "done", "push", "pop"}]
    BY <1>1
  <2> QED
    BY <1>2, <1>3, <2>1, <2>2, <2>3, <2>4, <2>5 DEF QType
<1>8. QOps
  BY <1>4 DEF QOps, OpsOk
<1>9. QList
  BY <1>2, <1>3, <1>6 DEF QList
<1>10. QRead /\ QOnce /\ QUse /\ QOwn
  BY <1>4 DEF QRead, ReadOk, QOnce, Differ, QUse, QOwn
<1>11. \E a, b : Sums(a, b)
  <2>1. PICK a : a = [n \in Nat |-> 0]
    OBVIOUS
  <2>2. a \in [Nat -> Int] /\ \A n \in Nat : a[n] = 0
    BY <2>1
  <2>3. Kept[1] = 0
    <3>1. Kept[1] = Cardinality(Keepers(1)) - nodes[1].internal
      BY DEF Kept
    <3>2. Cardinality(Keepers(1)) = 0
      BY <1>5, FS_EmptySet
    <3> QED
      BY <1>3, <3>1, <3>2
  <2>4. Sums(a, a)
    BY <1>2, <1>4, <1>6, <2>2, <2>3 DEF Sums
  <2> QED
    BY <2>4
<1>12. QExternal
  <2>1. 1 \in TailRefs /\ 1 \in HeadRefs
    BY <1>2, <1>6 DEF TailRefs, HeadRefs
  <2> QED
    BY <1>3, <1>6, <2>1 DEF QExternal
<1> QED
  BY <1>2, <1>7, <1>8, <1>9, <1>10, <1>11, <1>12 DEF QInv, QLive

LEMMA QueueStutter == ASSUME QInv, UNCHANGED allVars PROVE QInv'
<1>1. UNCHANGED <<nodes, head, tail, pc, todo, old, new, to, next>>
  BY DEF allVars, vars, qVars
<1>2. \A t \in Threads : Queue!Operation(t)' = Queue!Operation(t)
  BY <1>1 DEF Queue!Operation
<1>3. /\ \A t \in Threads : /\ TailGone(t)' <=> TailGone(t)
                            /\ HeadGone(t)' <=> HeadGone(t)
      /\ \A n \in Nat : Keepers(n)' = Keepers(n)
  BY <1>1, <1>2 DEF TailGone, HeadGone, Keepers
<1>4. Own' = Own /\ CIn' = CIn /\ Alive' = Alive /\ (CListOk' <=> CListOk)
  BY <1>1 DEF Own, Owns, CIn, Alive, CListOk
<1>5. TailRefs' = TailRefs /\ HeadRefs' = HeadRefs
  BY <1>1, <1>3, <1>4 DEF TailRefs, HeadRefs
<1>6. QType' /\ QOps'
  BY <1>1, <1>2, <1>3 DEF QInv, QType, QOps, OpsOk
<1>7. CASE head.ptr = Null
  BY <1>1, <1>4, <1>6, <1>7 DEF QInv, QGone
<1>8. CASE head.ptr # Null
  <2>1. QList' /\ QUse'
    BY <1>1, <1>4, <1>8, QueueFacts DEF QList, QUse, Uses
  <2>2. QRead'
    BY <1>1, <1>3, <1>4, <1>8, QueueFacts DEF QRead, ReadOk
  <2>3. QOnce'
    BY <1>1, <1>3, <1>8, QueueFacts DEF QOnce, Differ, Owns
  <2>4. QOwn'
    BY <1>1, <1>4, <1>8, QueueFacts DEF QOwn, OwnOk, Owns
  <2>5. \E a, b : Sums(a, b)'
    <3>1. PICK a, b : Sums(a, b)
      BY <1>8, QueueFacts
    <3>2. \A n \in Alive : Kept'[n] = Kept[n]
      <4>1. \A n \in Nat : Kept'[n] = Kept[n]
        BY <1>1, <1>3, <1>8, KeptFacts
      <4> QED
        BY <1>8, <4>1, QueueFacts
    <3>3. Sums(a, b)'
      BY <1>1, <1>3, <1>4, <3>1, <3>2 DEF Sums
    <3> QED
      BY <3>3
  <2>6. QExternal'
    BY <1>1, <1>4, <1>5, <1>8, QueueFacts DEF QExternal
  <2> QED
    BY <1>1, <1>6, <1>8, <2>1, <2>2, <2>3, <2>4, <2>5, <2>6 DEF QInv, QLive
<1> QED
  BY <1>7, <1>8

(* Any operation of the queue. *)
LEMMA QueueStep == ASSUME QInv, NEW t \in Threads, Queue!Step(t) PROVE QInv'
<1>1. CASE Queue!PushStart(t)
  BY <1>1, QueuePushStart
<1>2. CASE Queue!PushAcquire(t)
  BY <1>2, QueuePushAcquire
<1>3. CASE Queue!PushData(t)
  BY <1>3, QueuePushData
<1>4. CASE Queue!PushLink(t)
  BY <1>4, QueuePushLink
<1>5. CASE Queue!PushHelp(t)
  BY <1>5, QueuePushHelp
<1>6. CASE Queue!MoveTail(t)
  BY <1>6, QueueMoveTail
<1>7. CASE Queue!PopAcquire(t)
  BY <1>7, QueuePopAcquire
<1>8. CASE Queue!PopCompare(t)
  BY <1>8, QueuePopCompare
<1>9. CASE Queue!PopNext(t)
  BY <1>9, QueuePopNext
<1>10. CASE Queue!PopExchange(t)
  BY <1>10, QueuePopExchange
<1>11. CASE Queue!PopTake(t)
  BY <1>11, QueuePopTake
<1>12. CASE Queue!FreeExternal(t)
  BY <1>12, QueueFreeExternal
<1>13. CASE Queue!ReleaseRef(t)
  BY <1>13, QueueReleaseRef
<1> QED
  BY <1>1, <1>2, <1>3, <1>4, <1>5, <1>6, <1>7, <1>8, <1>9, <1>10, <1>11, <1>12, <1>13
  DEF Queue!Step, Queue!Push, Queue!PopOp

(* What the list, a thread, head and tail lead to exists; when no operation*)
(* is going on, nothing else does.                                         *)
LEMMA QueueSafe == ASSUME QInv, kind = "queue" PROVE NoUseAfterFree /\ NoLeak
<1>1. Chain = Queue!Chain /\ Needed = Queue!Needed /\ Deferred = {}
  BY DEF Chain, Needed, Deferred, Of, Queue!Deferred
<1>2. PICK cut : cut = [n \in DOMAIN nodes |-> IF n = tail.ptr THEN Null ELSE nodes[n].next.ptr]
  OBVIOUS
<1>3. {Chain[i] : i \in DOMAIN Chain} = Linked(head.ptr, cut)
  <2>1. Chain = ListFrom(head.ptr, cut)
    BY <1>1, <1>2, QueueSame DEF Queue!Chain
  <2> QED
    BY <2>1 DEF Linked
<1>4. DOMAIN cut = 1 .. Len(nodes) /\ Len(nodes) \in Nat /\ DOMAIN nodes = 1 .. Len(nodes)
  BY <1>2 DEF QInv, QType
<1>5. CASE head.ptr # Null
  <2>1. IsChain(CIn, head.ptr, NextOf(nodes)) /\ CIn \subseteq DOMAIN nodes /\ tail.ptr \in CIn
    BY <1>5, QueueFacts DEF QList, CListOk
  <2>2. /\ \A n \in CIn : NextOf(nodes)[n] = nodes[n].next.ptr /\ n \in DOMAIN cut
        /\ \A n \in CIn : n # tail.ptr => cut[n] = nodes[n].next.ptr
        /\ cut[tail.ptr] = Null
    BY <1>2, <2>1 DEF NextOf
  <2>3. PICK C : C = CIn \ {nodes[tail.ptr].next.ptr}
    OBVIOUS
  <2>4. IsChain(C, head.ptr, cut)
    <3>1. CASE nodes[tail.ptr].next.ptr = Null
      <4>1. C = CIn
        BY <2>1, <2>3, <3>1, ChainFacts
      <4>2. \A n \in CIn : n \in DOMAIN cut /\ cut[n] = NextOf(nodes)[n]
        BY <2>1, <2>2, <3>1
      <4> QED
        BY <2>1, <4>1, <4>2, ChainSame
    <3>2. CASE nodes[tail.ptr].next.ptr # Null
      <4>1. PICK last : last = nodes[tail.ptr].next.ptr
        OBVIOUS
      <4>2. last \in CIn /\ nodes[last].next.ptr = Null
        BY <1>5, <2>1, <3>2, <4>1, QueueFacts DEF QList
      <4>3. NextOf(nodes)[last] = Null /\ NextOf(nodes)[tail.ptr] = last
        BY <2>1, <2>2, <4>1, <4>2
      <4>4. \A m \in CIn : m \in DOMAIN cut /\ (m # tail.ptr /\ m # last => cut[m] = NextOf(nodes)[m])
        BY <2>2
      <4>5. IsChain(CIn \ {last}, head.ptr, cut)
        <5>1. PICK S, f, succ, p : S = CIn /\ f = head.ptr /\ succ = NextOf(nodes) /\ p = tail.ptr
          OBVIOUS
        <5>2. IsChain(S, f, succ) /\ last \in S /\ succ[last] = Null /\ p \in S /\ succ[p] = last /\ cut[p] = Null
          BY <2>1, <2>2, <4>2, <4>3, <5>1
        <5>3. \A m \in S : m \in DOMAIN cut /\ (m # p /\ m # last => cut[m] = succ[m])
          BY <4>4, <5>1
        <5>4. IsChain(S \ {last}, f, cut)
          BY <5>2, <5>3, ChainCut
        <5> QED
          BY <5>1, <5>4
      <4> QED
        BY <2>3, <4>1, <4>5
    <3> QED
      BY <3>1, <3>2
  <2>5. Linked(head.ptr, cut) = C
    BY <1>4, <2>4, ChainFound
  <2>6. C \subseteq Alive
    BY <1>5, <2>3, QueueFacts
  <2>7. Needed \subseteq Alive
    <3>1. ASSUME NEW t \in Threads,
                 pc[t] \in {"data", "link", "help", "next", "exchange", "take", "free", "release"}
          PROVE  old[t].ptr \in Alive
      <4>1. Uses(t)
        BY <3>1 DEF Uses, Copying
      <4> QED
        BY <1>5, <4>1, QueueFacts DEF QUse
    <3>2. ASSUME NEW t \in Threads, pc[t] \in {"push", "data", "link", "help"}
          PROVE  new[t].ptr \in Alive
      <4>1. Owns(t)
        BY <3>2 DEF Owns
      <4> QED
        BY <1>5, <4>1, QueueFacts DEF QOwn, OwnOk
    <3>3. head.ptr \in Alive /\ tail.ptr \in Alive
      BY <1>5, QueueFacts
    <3> QED
      BY <1>1, <3>1, <3>2, <3>3 DEF Queue!Needed
  <2>8. NoUseAfterFree
    BY <1>3, <2>5, <2>6, <2>7 DEF NoUseAfterFree
  <2>9. ASSUME \A t \in Threads : pc[t] = "idle" PROVE Alive = C
    <3>1. Alive = CIn /\ nodes[tail.ptr].next.ptr = Null
      BY <1>5, <2>9, QueueIdle
    <3>2. Null \notin CIn
      BY <2>1, ChainFacts
    <3> QED
      BY <2>3, <3>1, <3>2
  <2> QED
    BY <1>1, <1>3, <2>5, <2>8, <2>9 DEF NoLeak
<1>6. CASE head.ptr = Null
  <2>1. Alive = {} /\ \A t \in Threads : todo[t] = <<>>
    BY <1>6 DEF QInv, QGone
  <2>2. \A t \in Threads : pc[t] = "idle"
    BY <2>1 DEF QInv, QOps, OpsOk
  <2>3. Linked(head.ptr, cut) = {}
    <3>1. IsChain({}, Null, cut)
      BY ChainEmpty
    <3> QED
      BY <1>4, <1>6, <3>1, ChainFound
  <2>4. Needed = {}
    BY <1>1, <1>6, <2>2, QueueSame DEF Queue!Needed
  <2> QED
    BY <1>1, <1>3, <2>1, <2>3, <2>4 DEF NoUseAfterFree, NoLeak
<1> QED
  BY <1>5, <1>6

-----------------------------------------------------------------------------
(* No step changes which of the containers it is. *)
LEMMA SameKind == ASSUME [Next]_allVars PROVE kind' = kind
BY DEF Next, Step, Destroy, allVars, queueOnly, countOnly, hazardOnly, pendingOnly, locksOnly

(* The stack with hazard pointers, whoever stops where: a node that some   *)
(* thread is going to use is not deleted, for it has been published before *)
(* the head was read once more, and the scan has still to see it.          *)
THEOREM HazardPointersProtect ==
    FairSpec => [](kind = "hazard" => NoUseAfterFree /\ NoLeak)
<1> DEFINE IInv == kind = "hazard" => HInv
<1>1. Init => IInv
  BY HazardInit DEF Init
<1>2. IInv /\ [Next]_allVars => IInv'
  <2> SUFFICES ASSUME IInv, [Next]_allVars, kind' = "hazard" PROVE HInv'
    OBVIOUS
  <2>1. kind = "hazard" /\ HInv
    BY SameKind
  <2>2. CASE UNCHANGED allVars
    BY <2>1, <2>2, HazardStutter
  <2>3. CASE Next
    <3>1. \E t \in Threads : Hazard!Step(t)
      BY <2>1, <2>3 DEF Next, Step, Destroy
    <3> QED
      BY <2>1, <3>1, HazardStep
  <2> QED
    BY <2>2, <2>3
<1>3. IInv => (kind = "hazard" => NoUseAfterFree /\ NoLeak)
  BY HazardSafe
<1> QED
  BY <1>1, <1>2, <1>3, PTL DEF FairSpec

(* The stack with a count of the pops: nodes are put aside until a pop is  *)
(* alone, so none is deleted that another has read, and none is forgotten. *)
THEOREM PendingCountProtects ==
    FairSpec => [](kind = "pending" => NoUseAfterFree /\ NoLeak)
<1> DEFINE IInv == kind = "pending" => PInv
<1>1. Init => IInv
  BY PendingInit DEF Init
<1>2. IInv /\ [Next]_allVars => IInv'
  <2> SUFFICES ASSUME IInv, [Next]_allVars, kind' = "pending" PROVE PInv'
    OBVIOUS
  <2>1. kind = "pending" /\ PInv
    BY SameKind
  <2>2. CASE UNCHANGED allVars
    BY <2>1, <2>2, PendingStutter
  <2>3. CASE Next
    <3>1. \E t \in Threads : Pending!Step(t)
      BY <2>1, <2>3 DEF Next, Step, Destroy
    <3> QED
      BY <2>1, <3>1, PendingStep
  <2> QED
    BY <2>2, <2>3
<1>3. IInv => (kind = "pending" => NoUseAfterFree /\ NoLeak)
  BY PendingSafe
<1> QED
  BY <1>1, <1>2, <1>3, PTL DEF FairSpec

(* The stack with two counts: what a pointer has counted and the node has  *)
(* not tells how many pops still have the node, and the last deletes it.   *)
(* The destructor, which pops what is left, is a step of its own.          *)
THEOREM RefCountsProtect ==
    FairSpec => [](kind = "count" => NoUseAfterFree /\ NoLeak)
<1> DEFINE IInv == kind = "count" => CInv
<1>1. Init => IInv
  BY CountInit DEF Init
<1>2. IInv /\ [Next]_allVars => IInv'
  <2> SUFFICES ASSUME IInv, [Next]_allVars, kind' = "count" PROVE CInv'
    OBVIOUS
  <2>1. kind = "count" /\ CInv
    BY SameKind
  <2>2. CASE UNCHANGED allVars
    BY <2>1, <2>2, CountStutter
  <2>3. CASE Next
    <3>1. (\E t \in Threads : Count!Step(t)) \/ Count!Destroy
      BY <2>1, <2>3 DEF Next, Step, Destroy
    <3> QED
      BY <2>1, <3>1, CountStep, CountDestroy
  <2> QED
    BY <2>2, <2>3
<1>3. IInv => (kind = "count" => NoUseAfterFree /\ NoLeak)
  BY CountSafe
<1> QED
  BY <1>1, <1>2, <1>3, PTL DEF FairSpec

(* The queue with two mutexes: pops and thieves follow only nodes of the   *)
(* list, though pushes and pops hold different mutexes. *)
THEOREM LocksProtect ==
    FairSpec => [](kind = "locks" => NoUseAfterFree /\ NoLeak)
<1> DEFINE IInv == kind = "locks" => LInv
<1>1. Init => IInv
  BY LocksInit DEF Init
<1>2. IInv /\ [Next]_allVars => IInv'
  <2> SUFFICES ASSUME IInv, [Next]_allVars, kind' = "locks" PROVE LInv'
    OBVIOUS
  <2>1. kind = "locks" /\ LInv
    BY SameKind
  <2>2. CASE UNCHANGED allVars
    BY <2>1, <2>2, LocksStutter
  <2>3. CASE Next
    <3>1. \E t \in Threads : TwoLock!Step(t)
      BY <2>1, <2>3 DEF Next, Step, Destroy
    <3> QED
      BY <2>1, <3>1, LocksStep
  <2> QED
    BY <2>2, <2>3
<1>3. IInv => (kind = "locks" => NoUseAfterFree /\ NoLeak)
  BY LocksSafe
<1> QED
  BY <1>1, <1>2, <1>3, PTL DEF FairSpec

(* The lock-free queue, whoever stops where: what the two pointers to a    *)
(* node have counted and the node has not tells how many threads still     *)
(* have it, the node knows how many of the pointers are left, and the last *)
(* to finish deletes it.  Pushes that help one another link, or drop, a    *)
(* node of their own.                                                      *)
THEOREM SplitCountsProtect ==
    FairSpec => [](kind = "queue" => NoUseAfterFree /\ NoLeak)
<1> DEFINE IInv == kind = "queue" => QInv
<1>1. Init => IInv
  BY QueueInit DEF Init
<1>2. IInv /\ [Next]_allVars => IInv'
  <2> SUFFICES ASSUME IInv, [Next]_allVars, kind' = "queue" PROVE QInv'
    OBVIOUS
  <2>1. kind = "queue" /\ QInv
    BY SameKind
  <2>2. CASE UNCHANGED allVars
    BY <2>1, <2>2, QueueStutter
  <2>3. CASE Next
    <3>1. (\E t \in Threads : Queue!Step(t)) \/ Queue!DestroyPop \/ Queue!DestroyLast
      BY <2>1, <2>3 DEF Next, Step, Destroy, Queue!Destroy
    <3> QED
      BY <2>1, <3>1, QueueStep, QueueDestroyPop, QueueDestroyLast
  <2> QED
    BY <2>2, <2>3
<1>3. IInv => (kind = "queue" => NoUseAfterFree /\ NoLeak)
  BY QueueSafe
<1> QED
  BY <1>1, <1>2, <1>3, PTL DEF FairSpec

(* Whatever the container and the programs of the threads, no thread uses  *)
(* a deleted node, and none is forgotten.                                  *)
THEOREM MemorySafe == FairSpec => [](NoUseAfterFree /\ NoLeak)
<1> DEFINE Kinds == kind \in {"queue", "count", "hazard", "pending", "locks"}
<1>1. Init => Kinds
  BY DEF Init
<1>2. Kinds /\ [Next]_allVars => Kinds'
  BY SameKind
<1>3. FairSpec => []Kinds
  BY <1>1, <1>2, PTL DEF FairSpec
<1>4. Kinds /\ (kind = "hazard" => NoUseAfterFree /\ NoLeak)
            /\ (kind = "pending" => NoUseAfterFree /\ NoLeak)
            /\ (kind = "count" => NoUseAfterFree /\ NoLeak)
            /\ (kind = "locks" => NoUseAfterFree /\ NoLeak)
            /\ (kind = "queue" => NoUseAfterFree /\ NoLeak)
         => NoUseAfterFree /\ NoLeak
  OBVIOUS
<1> QED
  BY <1>3, <1>4, HazardPointersProtect, PendingCountProtects, RefCountsProtect, LocksProtect,
     SplitCountsProtect, PTL

=============================================================================
