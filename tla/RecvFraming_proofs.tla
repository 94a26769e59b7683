------------------------- MODULE RecvFraming_proofs -------------------------
(***************************************************************************)
(* Proofs about RecvFraming, for every length of a head, every limit of a  *)
(* body and every stream of frames.                                        *)
(*                                                                         *)
(* InBounds needs, beside the types, that no body is in hand while a node  *)
(* is cleared.  It excepts the node of a head that says -1, which has no   *)
(* room for any body; that node is never posted.  That what HandleRead posts are the frames of the stream    *)
(* rests on where it is in the stream (Parse): the bytes it has not        *)
(* consumed begin right after those of the frame in hand that it has.  The *)
(* beginning of each frame is given by a layout E, and the only fact about *)
(* Stream that the steps use is that it has one.                           *)
(***************************************************************************)
EXTENDS RecvFraming, FiniteSetTheorems, TLAPS

Byte(i, k) == [frame |-> i, at |-> k]

Total(i) == HEAD_TOTAL_LEN + BodyBytes(frames[i])

(* E[i] bytes of the stream come before frame i. *)
Layout(E) ==
    /\ E \in [1 .. Len(frames) + 1 -> Nat]
    /\ E[1] = 0
    /\ E[Len(frames) + 1] = Len(stream)
    /\ \A i \in 1 .. Len(frames) :
          /\ E[i + 1] = E[i] + Total(i)
          /\ \A k \in 1 .. Total(i) : /\ E[i] + k \in 1 .. Len(stream)
                                      /\ stream[E[i] + k] = Byte(i, k)
-----------------------------------------------------------------------------
(* Stream has a layout: frame i begins after Earlier(i) bytes.             *)
Early(i) == {b \in Bytes : b.frame < i}

(* The bytes of a frame are as many as it is long. *)
LEMMA FrameBytesCount ==
    ASSUME frames \in Seq(Frame), NEW i \in DOMAIN frames
    PROVE  /\ Total(i) \in Nat
           /\ IsFiniteSet(FrameBytes(i))
           /\ Cardinality(FrameBytes(i)) = Total(i)
<1>1. frames[i] \in Frame
  OBVIOUS
<1>2. Total(i) \in Nat
  BY <1>1, FramingAssumption DEF Total, BodyBytes, Frame, FramingAssumption
<1> DEFINE n == Total(i)
           f == [k \in 1 .. n |-> Byte(i, k)]
<1>3. FrameBytes(i) = {Byte(i, k) : k \in 1 .. n}
  BY DEF FrameBytes, Byte, Total
<1> HIDE DEF n
<1>4. f \in Bijection(1 .. n, FrameBytes(i))
  <2>1. f \in [1 .. n -> FrameBytes(i)]
    BY <1>3
  <2>2. \A k, l \in 1 .. n : f[k] = f[l] => k = l
    BY DEF Byte
  <2>3. \A b \in FrameBytes(i) : \E k \in 1 .. n : f[k] = b
    BY <1>3
  <2> QED
    BY <2>1, <2>2, <2>3 DEF Bijection, Injection, Surjection, IsInjective
<1>5. ExistsBijection(1 .. n, FrameBytes(i))
  BY <1>4 DEF ExistsBijection
<1>6. n \in Nat /\ IsFiniteSet(1 .. n) /\ Cardinality(1 .. n) = n
  BY <1>2, FS_Interval DEF n
<1> QED
  BY <1>5, <1>6, FS_Bijection DEF n

(* A stream of frames has finitely many bytes. *)
LEMMA BytesFinite ==
    ASSUME frames \in Seq(Frame)
    PROVE  IsFiniteSet(Bytes)
<1> DEFINE T == {FrameBytes(i) : i \in DOMAIN frames}
           f == [i \in DOMAIN frames |-> FrameBytes(i)]
<1>1. DOMAIN frames = 1 .. Len(frames) /\ Len(frames) \in Nat
  OBVIOUS
<1>2. IsFiniteSet(DOMAIN frames)
  BY <1>1, FS_Interval
<1>3. f \in Surjection(DOMAIN frames, T)
  BY DEF Surjection
<1>4. IsFiniteSet(T)
  BY <1>2, <1>3, FS_Surjection
<1>5. \A U \in T : IsFiniteSet(U)
  BY FrameBytesCount
<1> QED
  BY <1>4, <1>5, FS_UNION DEF Bytes

(* The bytes of the stream are those of its frames. *)
LEMMA BytesMembers ==
    ASSUME frames \in Seq(Frame)
    PROVE  /\ \A b \in Bytes : /\ b.frame \in DOMAIN frames
                               /\ b.at \in 1 .. Total(b.frame)
                               /\ b = Byte(b.frame, b.at)
           /\ \A i \in DOMAIN frames : \A k \in 1 .. Total(i) : Byte(i, k) \in Bytes
<1>1. \A i \in DOMAIN frames : FrameBytes(i) = {Byte(i, k) : k \in 1 .. Total(i)}
  BY DEF FrameBytes, Byte, Total
<1>2. Bytes = UNION {FrameBytes(i) : i \in DOMAIN frames}
  BY DEF Bytes
<1>3. ASSUME NEW b \in Bytes
      PROVE  /\ b.frame \in DOMAIN frames
             /\ b.at \in 1 .. Total(b.frame)
             /\ b = Byte(b.frame, b.at)
  <2>1. PICK i \in DOMAIN frames : b \in FrameBytes(i)
    BY <1>2, <1>3
  <2>2. PICK k \in 1 .. Total(i) : b = Byte(i, k)
    BY <1>1, <2>1
  <2>3. b.frame = i /\ b.at = k
    BY <2>2 DEF Byte
  <2> QED
    BY <2>1, <2>2, <2>3
<1>4. ASSUME NEW i \in DOMAIN frames, NEW k \in 1 .. Total(i) PROVE Byte(i, k) \in Bytes
  BY <1>1, <1>2, <1>4
<1> QED
  BY <1>3, <1>4

(* Earlier counts frame after frame. *)
LEMMA EarlierFacts ==
    ASSUME frames \in Seq(Frame)
    PROVE  /\ Earlier(1) = 0
           /\ Earlier(Len(frames) + 1) = Cardinality(Bytes)
           /\ \A i \in 1 .. Len(frames) + 1 : Earlier(i) \in Nat
           /\ \A i \in 1 .. Len(frames) : Earlier(i + 1) = Earlier(i) + Total(i)
           /\ \A i, j \in 1 .. Len(frames) + 1 : i <= j => Earlier(i) <= Earlier(j)
<1>0. DOMAIN frames = 1 .. Len(frames) /\ Len(frames) \in Nat
  OBVIOUS
<1>1. \A i : Earlier(i) = Cardinality(Early(i)) /\ Early(i) \in SUBSET Bytes
  BY DEF Earlier, Early
<1>2. \A i : IsFiniteSet(Early(i)) /\ Earlier(i) \in Nat
  BY <1>1, BytesFinite, FS_Subset, FS_CardinalityType
<1>3. Early(1) = {}
  BY <1>0, BytesMembers DEF Early
<1>4. Early(Len(frames) + 1) = Bytes
  BY <1>0, BytesMembers DEF Early
<1>5. ASSUME NEW i \in 1 .. Len(frames)
      PROVE  Earlier(i + 1) = Earlier(i) + Total(i)
  <2>1. FrameBytes(i) = {Byte(i, k) : k \in 1 .. Total(i)}
    BY DEF FrameBytes, Byte, Total
  <2>2. \A b \in FrameBytes(i) : b \in Bytes /\ b.frame = i
    BY <1>0, <1>5, <2>1, BytesMembers DEF Byte
  <2>3. \A b \in Bytes : b.frame = i => b \in FrameBytes(i)
    BY <2>1, BytesMembers
  <2>4. \A b \in Bytes : b.frame \in Nat
    BY <1>0, BytesMembers
  <2>5. Early(i + 1) = Early(i) \cup FrameBytes(i)
    BY <1>5, <2>2, <2>3, <2>4 DEF Early
  <2>6. Early(i) \cap FrameBytes(i) = {}
    BY <2>2, <2>4 DEF Early
  <2>7. /\ Total(i) \in Nat /\ IsFiniteSet(FrameBytes(i))
        /\ Cardinality(FrameBytes(i)) = Total(i)
    BY <1>0, <1>5, FrameBytesCount
  <2>8. Cardinality(Early(i) \cup FrameBytes(i)) = Earlier(i) + Total(i) - 0
    BY <1>1, <1>2, <2>6, <2>7, FS_Union, FS_EmptySet
  <2>9. Earlier(i) \in Nat /\ Earlier(i + 1) = Cardinality(Early(i) \cup FrameBytes(i))
    BY <1>1, <1>2, <2>5
  <2> QED
    BY <2>7, <2>8, <2>9
<1>6. ASSUME NEW i \in 1 .. Len(frames) + 1, NEW j \in 1 .. Len(frames) + 1, i <= j
      PROVE  Earlier(i) <= Earlier(j)
  <2>1. \A b \in Bytes : b.frame \in Nat
    BY <1>0, BytesMembers
  <2>2. Early(i) \in SUBSET Early(j)
    BY <1>0, <1>6, <2>1 DEF Early
  <2> QED
    BY <1>1, <1>2, <2>2, FS_Subset
<1> QED
  BY <1>1, <1>2, <1>3, <1>4, <1>5, <1>6, FS_EmptySet

(* No two bytes have the same place. *)
LEMMA PlacesDistinct ==
    ASSUME frames \in Seq(Frame), NEW b \in Bytes, NEW c \in Bytes,
           Earlier(b.frame) + b.at = Earlier(c.frame) + c.at
    PROVE  b = c
<1>0. DOMAIN frames = 1 .. Len(frames) /\ Len(frames) \in Nat
  OBVIOUS
<1>1. ASSUME NEW x \in Bytes, NEW y \in Bytes, x.frame < y.frame
      PROVE  Earlier(x.frame) + x.at < Earlier(y.frame) + y.at
  <2> DEFINE i == x.frame
             j == y.frame
  <2>1. /\ i \in 1 .. Len(frames) /\ j \in 1 .. Len(frames)
        /\ x.at \in 1 .. Total(i) /\ y.at \in 1 .. Total(j)
    BY <1>0, <1>1, BytesMembers
  <2>2. Total(i) \in Nat /\ Total(j) \in Nat
    BY <1>0, <2>1, FrameBytesCount
  <2>3. i < j
    BY <1>1
  <2> HIDE DEF i, j
  <2>4. i + 1 \in 1 .. Len(frames) + 1 /\ j \in 1 .. Len(frames) + 1 /\ i + 1 <= j
    BY <1>0, <2>1, <2>3
  <2>5. /\ Earlier(i + 1) = Earlier(i) + Total(i)
        /\ Earlier(i + 1) <= Earlier(j)
        /\ Earlier(i) \in Nat /\ Earlier(j) \in Nat
    BY <1>0, <2>1, <2>4, EarlierFacts
  <2>6. Earlier(i) + x.at < Earlier(j) + y.at
    BY <2>1, <2>2, <2>5
  <2> QED
    BY <2>6 DEF i, j
<1>2. b.frame \in Nat /\ c.frame \in Nat
  BY <1>0, BytesMembers
<1>3. /\ Earlier(b.frame) \in Nat /\ b.at \in Nat
      /\ Earlier(c.frame) \in Nat /\ c.at \in Nat
  BY <1>0, BytesMembers, EarlierFacts
<1>4. ~(b.frame < c.frame) /\ ~(c.frame < b.frame)
  BY <1>1, <1>3
<1>5. b.frame = c.frame
  BY <1>2, <1>4
<1>6. b.at = c.at
  BY <1>3, <1>5
<1> QED
  BY <1>5, <1>6, BytesMembers

(* Each frame has its place in the stream, and a byte its values. *)
LEMMA StreamLayout ==
    ASSUME frames \in Seq(Frame), stream = Stream
    PROVE  /\ \E E : Layout(E)
           /\ \E V : Zero \in V /\ stream \in Seq(V)
<1>0. DOMAIN frames = 1 .. Len(frames) /\ Len(frames) \in Nat
  OBVIOUS
<1> DEFINE n == Cardinality(Bytes)
           At(p) == CHOOSE b \in Bytes : Earlier(b.frame) + b.at = p
           V == {At(p) : p \in 1 .. n} \cup {Zero}
           E == [i \in 1 .. Len(frames) + 1 |-> Earlier(i)]
<1>1. n \in Nat
  BY BytesFinite, FS_CardinalityType
<1>2. stream = [p \in 1 .. n |-> At(p)]
  BY DEF Stream
<1> HIDE DEF n
<1>3. stream \in Seq(V) /\ Len(stream) = n
  <2>1. \A p \in 1 .. n : At(p) \in V
    OBVIOUS
  <2> HIDE DEF At, V
  <2>2. [p \in 1 .. n |-> At(p)] \in Seq(V)
    BY <1>1, <2>1
  <2> QED
    BY <1>1, <1>2, <2>2
<1>4. Layout(E)
  <2>1. E \in [1 .. Len(frames) + 1 -> Nat]
    BY <1>0, EarlierFacts
  <2>2. E[1] = 0 /\ E[Len(frames) + 1] = Len(stream)
    BY <1>0, <1>3, EarlierFacts DEF n
  <2>3. ASSUME NEW i \in 1 .. Len(frames)
        PROVE  /\ E[i + 1] = E[i] + Total(i)
               /\ \A k \in 1 .. Total(i) : /\ E[i] + k \in 1 .. Len(stream)
                                           /\ stream[E[i] + k] = Byte(i, k)
    <3>1. i \in 1 .. Len(frames) + 1 /\ i + 1 \in 1 .. Len(frames) + 1
      BY <1>0, <2>3
    <3>2. E[i] = Earlier(i) /\ E[i + 1] = Earlier(i + 1)
      BY <3>1
    <3>3. /\ Earlier(i + 1) = Earlier(i) + Total(i)
          /\ Earlier(i) \in Nat
          /\ Earlier(i + 1) <= n
      BY <1>0, <2>3, <3>1, EarlierFacts DEF n
    <3>4. Total(i) \in Nat
      BY <1>0, <2>3, FrameBytesCount
    <3>5. ASSUME NEW k \in 1 .. Total(i)
          PROVE  /\ E[i] + k \in 1 .. Len(stream)
                 /\ stream[E[i] + k] = Byte(i, k)
      <4>1. E[i] + k \in 1 .. n
        BY <1>1, <3>2, <3>3, <3>4, <3>5
      <4>2. Byte(i, k) \in Bytes /\ Byte(i, k).frame = i /\ Byte(i, k).at = k
        BY <1>0, <2>3, <3>5, BytesMembers DEF Byte
      <4>3. Earlier(Byte(i, k).frame) + Byte(i, k).at = E[i] + k
        BY <3>2, <4>2
      <4>4. At(E[i] + k) = Byte(i, k)
        <5>1. \A b \in Bytes : Earlier(b.frame) + b.at = E[i] + k => b = Byte(i, k)
          BY <4>2, <4>3, PlacesDistinct
        <5> HIDE DEF E
        <5> QED
          BY <4>2, <4>3, <5>1
      <4> QED
        BY <1>2, <1>3, <4>1, <4>4
    <3> QED
      BY <3>2, <3>3, <3>5
  <2> QED
    BY <2>1, <2>2, <2>3 DEF Layout
<1> QED
  BY <1>3, <1>4
-----------------------------------------------------------------------------
(* The values of the variables; V: those of a byte. *)
NodeSet(V) == {nd \in [total : Nat, cur : Nat, body : Seq(V)] : Len(nd.body) = nd.total}

(* A node in hand of length -1: how much was copied outside it is known.   *)
OverrunNode(nd) ==
    nd = [total |-> -1, cur |-> nd.cur, body |-> nd.body] /\ nd.cur \in Nat

TypeInv(V) ==
    /\ Zero \in V /\ stream \in Seq(V)
    /\ frames \in Seq(Frame)
    /\ taken \in 0 .. Len(stream)
    /\ data \in Seq(V) /\ bytes \in Nat /\ copy_len \in Nat
    /\ head_parse \in BOOLEAN /\ confused \in BOOLEAN
    /\ head \in Seq(V)
    /\ node \in NodeSet(V) \/ OverrunNode(node)
    /\ pc \in {"reading", "loop", "clearing", "cleared_data", "cleared", "terminated"}
    /\ heap \in Seq(NodeSet(V))
    /\ posted_bodies \in Seq(Seq(V)) /\ Len(posted_bodies) = Len(heap)
    /\ continued \in SUBSET (1 .. Len(heap))
    /\ delivered \in Seq(Seq(V)) /\ Len(delivered) <= Len(heap)

(* Clear works on a node that was posted, and its body was the last one.   *)
Clearing == pc \in {"clearing", "cleared_data"} => ~head_parse /\ Len(heap) > 0

Bounded(V) == TypeInv(V) /\ InBounds /\ Clearing

(* What Bounded says of the node in hand. *)
InHand(V) ==
    \/ /\ OverrunNode(node) /\ Overrun
       /\ head_parse /\ confused /\ pc \in {"reading", "loop", "cleared"}
    \/ /\ node \in NodeSet(V) /\ ~Overrun
       /\ 0 <= node.cur /\ node.cur <= node.total /\ node.total <= MAX_LENGTH
       /\ pc # "reading" \/ ~head_parse \/ node.cur < node.total

LEMMA NodeInHand ==
    ASSUME NEW V, Bounded(V) PROVE InHand(V)
<1>1. /\ node \in NodeSet(V) \/ OverrunNode(node)
      /\ node.total <= MAX_LENGTH
      /\ \/ Overrun /\ head_parse /\ confused /\ pc \in {"reading", "loop", "cleared"}
         \/ /\ 0 <= node.cur /\ node.cur <= node.total
            /\ pc # "reading" \/ ~head_parse \/ node.cur < node.total
  BY DEF Bounded, TypeInv, InBounds
<1>2. CASE OverrunNode(node)
  <2>1. Overrun /\ node.total = -1 /\ node.cur \in Nat
    BY <1>2 DEF OverrunNode, Overrun
  <2>2. ~(0 <= node.cur /\ node.cur <= node.total)
    BY <2>1
  <2> QED
    BY <1>1, <1>2, <2>1, <2>2 DEF InHand
<1>3. CASE node \in NodeSet(V)
  <2>1. node.total \in Nat
    BY <1>3 DEF NodeSet
  <2>2. ~Overrun
    BY <2>1 DEF Overrun
  <2> QED
    BY <1>1, <1>3, <2>2 DEF InHand
<1> QED
  BY <1>1, <1>2, <1>3

(* One sequence after the other. *)
LEMMA ConcatFacts ==
    ASSUME NEW V, NEW s \in Seq(V), NEW t \in Seq(V)
    PROVE  /\ s \o t \in Seq(V) /\ Len(s \o t) = Len(s) + Len(t)
           /\ \A k \in 1 .. Len(s) : (s \o t)[k] = s[k]
           /\ \A k \in 1 .. Len(t) : (s \o t)[Len(s) + k] = t[k]
  OBVIOUS

(* A function on 1 .. n is a sequence. *)
LEMMA IsSequence ==
    ASSUME NEW V, NEW n \in Nat, NEW f, f = [k \in 1 .. n |-> f[k]],
           \A k \in 1 .. n : f[k] \in V
    PROVE  f \in Seq(V) /\ Len(f) = n
  OBVIOUS

(* A chunk of _data, and what a copy of one makes of a body. *)
LEMMA ChunkType ==
    ASSUME NEW V, TypeInv(V), NEW n \in Nat
    PROVE  Chunk(n) \in Seq(V) /\ Len(Chunk(n)) = n
<1>1. /\ Zero \in V /\ data \in Seq(V) /\ copy_len \in Nat /\ Len(data) \in Nat
  BY DEF TypeInv
<1>2. \A k \in 1 .. n : Chunk(n)[k] \in V
  BY <1>1 DEF Chunk
<1>3. Chunk(n) = [k \in 1 .. n |-> Chunk(n)[k]]
  BY DEF Chunk
<1> QED
  BY <1>2, <1>3

(* The body after a copy is as long as before. *)
LEMMA CopyType ==
    ASSUME NEW V, Bounded(V), ~Overrun, NEW n \in 0 .. Remain
    PROVE  CopyInto(node, n) \in Seq(V) /\ Len(CopyInto(node, n)) = node.total
<1>1. /\ node \in NodeSet(V) /\ node.total \in Nat /\ node.cur \in Nat
      /\ node.body \in Seq(V) /\ Len(node.body) = node.total
      /\ node.cur <= node.total
  BY NodeInHand DEF NodeSet, InHand
<1>2. n \in Nat /\ node.cur + n <= node.total
  BY <1>1 DEF Remain
<1>3. Chunk(n) \in Seq(V) /\ Len(Chunk(n)) = n
  BY <1>2, ChunkType DEF Bounded
<1>4. ASSUME NEW k \in 1 .. node.total PROVE CopyInto(node, n)[k] \in V
  <2>1. CASE k \in node.cur + 1 .. node.cur + n
    <3>1. k - node.cur \in 1 .. n
      BY <1>1, <1>2, <2>1
    <3>2. Chunk(n)[k - node.cur] \in V
      BY <1>3, <3>1
    <3> QED
      BY <2>1, <3>2, <1>4 DEF CopyInto
  <2>2. CASE k \notin node.cur + 1 .. node.cur + n
    BY <1>1, <1>4, <2>2 DEF CopyInto
  <2> QED
    BY <2>1, <2>2
<1>5. CopyInto(node, n) = [k \in 1 .. node.total |-> CopyInto(node, n)[k]]
  BY DEF CopyInto
<1>6. node.total \in Nat
  BY <1>1
<1> QED
  BY <1>4, <1>5, <1>6, IsSequence

(* How much of a head is missing. *)
LEMMA HeadFacts ==
    ASSUME NEW V, Bounded(V)
    PROVE  /\ HeadRemain \in Nat /\ HeadRemain > 0
           /\ node.cur \in Nat
<1>1. Len(head) \in Nat /\ Len(head) < HEAD_TOTAL_LEN
  BY DEF Bounded, TypeInv, InBounds
<1>2. node.cur \in Nat
  BY NodeInHand DEF InHand, NodeSet, OverrunNode
<1> QED
  BY <1>1, <1>2, FramingAssumption DEF HeadRemain, FramingAssumption

(* The fields of _recv_msg_node, and how much is missing. *)
LEMMA NodeFacts ==
    ASSUME NEW V, Bounded(V), ~Overrun
    PROVE  /\ node.total \in Nat /\ node.cur \in Nat /\ node.body \in Seq(V)
           /\ Len(node.body) = node.total
           /\ Remain \in Nat
           /\ node = [total |-> node.total, cur |-> node.cur, body |-> node.body]
<1>1. /\ node \in NodeSet(V) /\ node.total \in Nat /\ node.cur \in Nat
      /\ node.body \in Seq(V) /\ Len(node.body) = node.total
      /\ node.cur <= node.total
      /\ node = [total |-> node.total, cur |-> node.cur, body |-> node.body]
  BY NodeInHand DEF NodeSet, InHand
<1> QED
  BY <1>1 DEF Remain

(* A node that is posted joins the heap. *)
LEMMA PostType ==
    ASSUME NEW V, Bounded(V), NEW nd \in NodeSet(V), nd.cur <= nd.total, Post(nd)
    PROVE  /\ heap' \in Seq(NodeSet(V)) /\ Len(heap') = Len(heap) + 1
           /\ posted_bodies' \in Seq(Seq(V)) /\ Len(posted_bodies') = Len(heap')
           /\ \A i \in 1 .. Len(heap') : 0 <= heap'[i].cur /\ heap'[i].cur <= heap'[i].total
           /\ \A i \in 1 .. Len(heap) : heap'[i] = heap[i] /\ posted_bodies'[i] = posted_bodies[i]
           /\ heap'[Len(heap')] = nd /\ posted_bodies'[Len(heap')] = nd.body
<1>1. /\ heap \in Seq(NodeSet(V)) /\ posted_bodies \in Seq(Seq(V)) /\ Len(posted_bodies) = Len(heap)
      /\ nd.body \in Seq(V) /\ nd.cur \in Nat
      /\ \A i \in 1 .. Len(heap) : 0 <= heap[i].cur /\ heap[i].cur <= heap[i].total
  BY DEF Bounded, TypeInv, InBounds, NodeSet
<1>2. heap' = Append(heap, nd) /\ posted_bodies' = Append(posted_bodies, nd.body)
  BY DEF Post
<1> HIDE DEF NodeSet
<1>3. /\ heap' \in Seq(NodeSet(V)) /\ Len(heap') = Len(heap) + 1
      /\ \A i \in 1 .. Len(heap) : heap'[i] = heap[i]
      /\ heap'[Len(heap) + 1] = nd
  BY <1>1, <1>2
<1>4. /\ posted_bodies' \in Seq(Seq(V)) /\ Len(posted_bodies') = Len(posted_bodies) + 1
      /\ \A i \in 1 .. Len(posted_bodies) : posted_bodies'[i] = posted_bodies[i]
      /\ posted_bodies'[Len(posted_bodies) + 1] = nd.body
  BY <1>1, <1>2
<1>5. Len(heap) \in Nat
  BY <1>1
<1>6. ASSUME NEW i \in 1 .. Len(heap')
      PROVE  0 <= heap'[i].cur /\ heap'[i].cur <= heap'[i].total
  <2>1. i \in 1 .. Len(heap) \/ i = Len(heap) + 1
    BY <1>3, <1>5, <1>6
  <2> QED
    BY <1>1, <1>3, <2>1
<1> QED
  BY <1>1, <1>3, <1>4, <1>6

(* The steps that leave the heap alone and what they may change. *)
LEMMA BoundsKeptNoPost ==
    ASSUME NEW V, Bounded(V),
           UNCHANGED <<frames, stream, delivered>>, NoPost,
           taken' \in 0 .. Len(stream), data' \in Seq(V),
           bytes' \in Nat, copy_len' \in Nat, copy_len' + bytes' <= Len(data'),
           head_parse' \in BOOLEAN, confused' \in BOOLEAN,
           head' \in Seq(V), Len(head') < HEAD_TOTAL_LEN,
           InHand(V)', pc' \in {"reading", "loop", "cleared", "terminated"}
    PROVE  Bounded(V)'
<1>1. /\ heap' = heap /\ posted_bodies' = posted_bodies /\ continued' = continued
  BY DEF NoPost
<1>2. TypeInv(V)'
  BY <1>1 DEF Bounded, TypeInv, InHand
<1>3. InBounds'
  <2>1. node'.total <= MAX_LENGTH
    BY FramingAssumption DEF InHand, Overrun, FramingAssumption
  <2> QED
    BY <1>1, <2>1 DEF Bounded, InBounds, InHand
<1> QED
  BY <1>2, <1>3 DEF Bounded, Clearing

(* Every step keeps the cursors in bounds, even one that has lost its      *)
(* place in the stream.                                                    *)
LEMMA BoundedRead ==
    ASSUME NEW V, Bounded(V), NEW n \in 1 .. MAX_LENGTH, HandleRead(n)
    PROVE  Bounded(V)'
<1>1. /\ stream \in Seq(V) /\ Len(stream) \in Nat /\ taken \in Nat
      /\ n \in Nat /\ n > 0 /\ taken + n <= Len(stream)
  BY FramingAssumption DEF Bounded, TypeInv, HandleRead, FramingAssumption
<1>2. data' = SubSeq(stream, taken + 1, taken + n)
  BY DEF HandleRead
<1>3. data' \in Seq(V) /\ Len(data') = n
  BY <1>1, <1>2
<1>4. /\ UNCHANGED <<frames, stream, delivered, head_parse, head, node, confused>> /\ NoPost
      /\ taken' = taken + n /\ bytes' = n /\ copy_len' = 0 /\ pc' = "loop"
  BY DEF HandleRead
<1>5. /\ head_parse \in BOOLEAN /\ confused \in BOOLEAN /\ head \in Seq(V)
      /\ Len(head) < HEAD_TOTAL_LEN
  BY DEF Bounded, TypeInv, InBounds
<1>7. InHand(V)'
  BY <1>4, NodeInHand DEF InHand, Overrun, OverrunNode, NodeSet
<1>6. taken' \in 0 .. Len(stream) /\ copy_len' + bytes' <= Len(data')
      /\ bytes' \in Nat /\ copy_len' \in Nat
  BY <1>1, <1>3, <1>4
<1> QED
  BY <1>3, <1>4, <1>5, <1>6, <1>7, BoundsKeptNoPost

(* What a step that leaves all of these alone takes over. *)
LEMMA BoundedParts ==
    ASSUME NEW V, Bounded(V)
    PROVE  /\ stream \in Seq(V) /\ taken \in 0 .. Len(stream) /\ data \in Seq(V)
           /\ bytes \in Nat /\ copy_len \in Nat /\ copy_len + bytes <= Len(data)
           /\ Len(data) \in Nat
           /\ head_parse \in BOOLEAN /\ confused \in BOOLEAN
           /\ head \in Seq(V) /\ Len(head) < HEAD_TOTAL_LEN /\ Len(head) \in Nat
           /\ pc \in {"reading", "loop", "clearing", "cleared_data", "cleared", "terminated"}
           /\ heap \in Seq(NodeSet(V)) /\ Len(heap) \in Nat
           /\ HEAD_TOTAL_LEN \in Nat /\ MAX_LENGTH \in Nat
  BY FramingAssumption DEF Bounded, TypeInv, InBounds, FramingAssumption

(* A failed read, an incomplete head, a bad one, an incomplete body. *)
LEMMA BoundedEnd ==
    ASSUME NEW V, Bounded(V),
           ReadError \/ HeadShort \/ HeadInvalid \/ HeadThrows \/ BodyShort
    PROVE  Bounded(V)'
<1> USE BoundedParts
<1>1. CASE ReadError
  <2>1. /\ pc' = "cleared" /\ NoPost
        /\ UNCHANGED <<frames, stream, taken, data, bytes, copy_len, head_parse, head, node,
                       confused, delivered>>
    BY <1>1 DEF ReadError
  <2>2. InHand(V)'
    BY <2>1, NodeInHand DEF InHand, Overrun, OverrunNode, NodeSet
  <2> QED
    BY <2>1, <2>2, BoundsKeptNoPost
<1>2. CASE HeadShort
  <2>1. Chunk(bytes) \in Seq(V) /\ Len(Chunk(bytes)) = bytes
    BY ChunkType DEF Bounded
  <2>2. head \o Chunk(bytes) \in Seq(V) /\ Len(head \o Chunk(bytes)) = Len(head) + bytes
    BY <2>1, ConcatFacts
  <2>3. /\ head' = head \o Chunk(bytes) /\ pc' = "reading" /\ ~head_parse
        /\ bytes + Len(head) < HEAD_TOTAL_LEN /\ NoPost
        /\ UNCHANGED <<frames, stream, taken, data, bytes, copy_len, head_parse, node,
                       confused, delivered>>
    BY <1>2 DEF HeadShort
  <2>4. InHand(V)'
    BY <2>3, NodeInHand DEF InHand, Overrun, OverrunNode, NodeSet
  <2> QED
    BY <2>2, <2>3, <2>4, BoundsKeptNoPost
<1>3. CASE HeadInvalid \/ HeadThrows
  <2>1. /\ copy_len' = copy_len + HeadRemain /\ bytes' = bytes - HeadRemain
        /\ bytes >= HeadRemain /\ pc' \in {"cleared", "terminated"} /\ NoPost /\ ~head_parse
        /\ UNCHANGED <<frames, stream, taken, data, head_parse, head, node, confused, delivered>>
    BY <1>3 DEF HeadInvalid, HeadThrows, HeadComplete
  <2>2. HeadRemain \in Nat
    BY HeadFacts
  <2>3. bytes' \in Nat /\ copy_len' \in Nat /\ copy_len' + bytes' <= Len(data)
    BY <2>1, <2>2
  <2>4. InHand(V)'
    BY <2>1, NodeInHand DEF InHand, Overrun, OverrunNode, NodeSet
  <2> QED
    BY <2>1, <2>3, <2>4, BoundsKeptNoPost
<1>4. CASE BodyShort
  <2>1. /\ Fewer(bytes, Remain) /\ head_parse /\ pc' = "reading" /\ confused' = TRUE /\ NoPost
        /\ node' = [node EXCEPT !.body = CopyInto(node, bytes)]
        /\ UNCHANGED <<frames, stream, taken, data, bytes, copy_len, head_parse, head, delivered>>
    BY <1>4 DEF BodyShort
  <2>2. CASE Overrun
    <3>1. node = [total |-> -1, cur |-> node.cur, body |-> node.body] /\ node.cur \in Nat
      BY <2>2, NodeInHand DEF InHand, OverrunNode
    <3>2. node' = [total |-> -1, cur |-> node.cur, body |-> CopyInto(node, bytes)]
      BY <2>1, <3>1
    <3>3. OverrunNode(node') /\ Overrun'
      BY <3>1, <3>2 DEF OverrunNode, Overrun
    <3>4. InHand(V)'
      BY <2>1, <3>3, NodeInHand DEF InHand
    <3> QED
      BY <2>1, <3>4, BoundsKeptNoPost
  <2>3. CASE ~Overrun
    <3>1. Remain \in Nat /\ node.cur \in Nat /\ node.total \in Nat
      BY <2>3, NodeFacts
    <3>2. bytes \in 0 .. Remain /\ bytes < Remain
      BY <2>1, <3>1 DEF Fewer
    <3>3. CopyInto(node, bytes) \in Seq(V) /\ Len(CopyInto(node, bytes)) = node.total
      BY <2>3, <3>2, CopyType
    <3>4. node = [total |-> node.total, cur |-> node.cur, body |-> node.body]
      BY <2>3, NodeFacts
    <3>5. node' = [total |-> node.total, cur |-> node.cur, body |-> CopyInto(node, bytes)]
      BY <2>1, <3>4
    <3>6. /\ node' \in NodeSet(V) /\ node'.total = node.total /\ node'.cur = node.cur
      BY <3>1, <3>3, <3>5 DEF NodeSet
    <3>7. node.cur < node.total
      BY <3>1, <3>2 DEF Remain
    <3>8. node.total <= MAX_LENGTH
      BY <2>3, NodeInHand DEF InHand
    <3>9. InHand(V)'
      BY <2>1, <3>1, <3>6, <3>7, <3>8, NodeInHand DEF InHand, Overrun
    <3> QED
      BY <2>1, <3>9, BoundsKeptNoPost
  <2> QED
    BY <2>2, <2>3
<1> QED
  BY <1>1, <1>2, <1>3, <1>4

(* A head of length -1: all that is left of _data goes beyond the node. *)
LEMMA BoundedOverrun ==
    ASSUME NEW V, Bounded(V), HeadOverrun
    PROVE  Bounded(V)'
<1> USE BoundedParts
<1> DEFINE left == bytes - HeadRemain
<1>1. /\ bytes >= HeadRemain
      /\ copy_len' = copy_len + HeadRemain /\ bytes' = left
      /\ node' = [NewNode(-1) EXCEPT !.cur = left]
      /\ confused' = TRUE /\ head_parse' = TRUE /\ pc' = "reading" /\ NoPost
      /\ UNCHANGED <<frames, stream, taken, data, head, delivered>>
  BY DEF HeadOverrun, HeadComplete
<1>2. HeadRemain \in Nat
  BY HeadFacts
<1>3. left \in Nat /\ bytes' \in Nat /\ copy_len' \in Nat /\ copy_len' + bytes' <= Len(data)
  BY <1>1, <1>2
<1>4. node' = [total |-> -1, cur |-> left, body |-> [k \in 1 .. -1 |-> Zero]]
  BY <1>1 DEF NewNode
<1> HIDE DEF left
<1>5. OverrunNode(node') /\ Overrun'
  BY <1>3, <1>4 DEF OverrunNode, Overrun
<1>6. InHand(V)'
  BY <1>1, <1>5, NodeInHand DEF InHand
<1> QED
  BY <1>1, <1>3, <1>6, BoundsKeptNoPost

(* A head with the first part of its body. *)
LEMMA BoundedBodyShort ==
    ASSUME NEW V, Bounded(V), HeadBodyShort
    PROVE  Bounded(V)'
<1> USE BoundedParts
<1> DEFINE from == copy_len + HeadRemain
           left == bytes - HeadRemain
<1>1. PICK len \in 0 .. MAX_LENGTH :
         /\ bytes >= HeadRemain /\ left < len
         /\ copy_len' = from /\ bytes' = left
         /\ node' = [NewNode(len) EXCEPT !.cur = left,
                        !.body = SubSeq(data, from + 1, from + left)
                                 \o SubSeq(@, left + 1, len)]
         /\ head_parse' = TRUE /\ pc' = "reading" /\ NoPost
         /\ UNCHANGED <<frames, stream, taken, data, head, confused, delivered>>
  BY DEF HeadBodyShort, HeadComplete
<1>2. HeadRemain \in Nat
  BY HeadFacts
<1>3. /\ from \in Nat /\ left \in Nat /\ from + left <= Len(data) /\ len \in Nat
      /\ len <= MAX_LENGTH /\ left < len
  BY <1>1, <1>2
<1> HIDE DEF from, left
<1> DEFINE zeros == [k \in 1 .. len |-> Zero]
           body == SubSeq(data, from + 1, from + left) \o SubSeq(zeros, left + 1, len)
<1>4. /\ SubSeq(data, from + 1, from + left) \in Seq(V)
      /\ Len(SubSeq(data, from + 1, from + left)) = left
  BY <1>3
<1>5. zeros \in Seq(V) /\ Len(zeros) = len
  BY <1>3 DEF Bounded, TypeInv
<1> HIDE DEF zeros
<1>6. /\ SubSeq(zeros, left + 1, len) \in Seq(V)
      /\ Len(SubSeq(zeros, left + 1, len)) = len - left
  BY <1>3, <1>5
<1>7. body \in Seq(V) /\ Len(body) = len
  BY <1>3, <1>4, <1>6
<1>8. node' = [total |-> len, cur |-> left, body |-> body]
  BY <1>1 DEF NewNode, zeros
<1> HIDE DEF body
<1>9. node' \in NodeSet(V) /\ node'.cur = left /\ node'.total = len
  BY <1>3, <1>7, <1>8 DEF NodeSet
<1>10. InHand(V)'
  BY <1>1, <1>3, <1>9, NodeInHand DEF InHand, Overrun
<1> QED
  BY <1>1, <1>3, <1>10, BoundsKeptNoPost

(* The two ways a body is completed and posted. *)
LEMMA BoundedPosts ==
    ASSUME NEW V, Bounded(V), HeadBodyFull \/ BodyFull
    PROVE  Bounded(V)'
<1> USE BoundedParts
<1>1. /\ node' \in NodeSet(V) /\ node'.cur <= node'.total /\ node'.total <= MAX_LENGTH
      /\ Post(node') /\ ~head_parse'
      /\ copy_len' \in Nat /\ bytes' \in Nat /\ copy_len' + bytes' <= Len(data)
      /\ head' = <<>> /\ head_parse' \in BOOLEAN /\ confused' \in BOOLEAN
      /\ pc' \in {"reading", "loop", "clearing"}
      /\ continued' \in {continued, continued \cup {Len(posted_bodies')}}
      /\ UNCHANGED <<frames, stream, taken, data, delivered>>
  <2>1. CASE HeadBodyFull
    <3> DEFINE from == copy_len + HeadRemain
    <3>1. PICK len \in 0 .. MAX_LENGTH :
             /\ bytes >= HeadRemain /\ bytes - HeadRemain >= len /\ ~head_parse
             /\ node' = [total |-> len, cur |-> len,
                         body |-> SubSeq(data, from + 1, from + len)]
             /\ copy_len' = from + len /\ bytes' = bytes - HeadRemain - len
             /\ Post(node') /\ head' = <<>>
             /\ pc' = (IF bytes' = 0 THEN "reading" ELSE "loop")
             /\ UNCHANGED <<frames, stream, taken, data, head_parse, continued,
                            confused, delivered>>
      BY <2>1 DEF HeadBodyFull, HeadComplete, RearmOr, AfterMessage
    <3>2. HeadRemain \in Nat
      BY HeadFacts
    <3>3. /\ from \in Nat /\ len \in Nat /\ from + len <= Len(data) /\ len <= MAX_LENGTH
          /\ bytes' \in Nat /\ copy_len' \in Nat /\ copy_len' + bytes' <= Len(data)
      <4>1. /\ bytes >= HeadRemain /\ bytes - HeadRemain >= len
            /\ copy_len' = from + len /\ bytes' = bytes - HeadRemain - len
        BY <3>1
      <4>2. /\ copy_len \in Nat /\ bytes \in Nat /\ Len(data) \in Nat
            /\ copy_len + bytes <= Len(data)
            /\ len \in Nat /\ len <= MAX_LENGTH
        OBVIOUS
      <4> QED
        BY <3>2, <4>1, <4>2
    <3> HIDE DEF from
    <3>4. /\ SubSeq(data, from + 1, from + len) \in Seq(V)
          /\ Len(SubSeq(data, from + 1, from + len)) = len
      BY <3>3
    <3>5. node' \in NodeSet(V) /\ node'.cur = len /\ node'.total = len
      BY <3>1, <3>3, <3>4 DEF NodeSet
    <3> QED
      BY <3>1, <3>3, <3>5
  <2>2. CASE BodyFull
    <3>1. /\ ~Fewer(bytes, Remain)
          /\ node' = [node EXCEPT !.cur = node.cur + Remain, !.body = CopyInto(node, Remain)]
          /\ bytes' = bytes - Remain /\ copy_len' = copy_len
          /\ Post(node') /\ head' = <<>> /\ head_parse' = FALSE /\ pc' = "clearing"
          /\ continued' = continued \cup {Len(posted_bodies')}
          /\ confused' = (confused \/ bytes' > 0)
          /\ UNCHANGED <<frames, stream, taken, data, delivered>>
      BY <2>2 DEF BodyFull, BodyLength
    <3>0. ~Overrun
      BY <3>1, HeadFacts DEF Fewer, Remain, Overrun
    <3>2. /\ Remain \in Nat /\ node.cur \in Nat /\ node.total \in Nat
          /\ node.cur + Remain = node.total /\ Remain \in 0 .. Remain
          /\ bytes >= Remain
      <4>1. Remain \in Nat /\ node.cur \in Nat /\ node.total \in Nat
        BY <3>0, NodeFacts
      <4>2. node.cur + Remain = node.total /\ Remain \in 0 .. Remain
        BY <4>1 DEF Remain
      <4>3. bytes >= Remain
        BY <3>1, <4>1 DEF Fewer
      <4> QED
        BY <4>1, <4>2, <4>3
    <3>3. CopyInto(node, Remain) \in Seq(V) /\ Len(CopyInto(node, Remain)) = node.total
      BY <3>0, <3>2, CopyType
    <3>4. node' = [total |-> node.total, cur |-> node.total, body |-> CopyInto(node, Remain)]
      BY <3>0, <3>1, <3>2, NodeFacts
    <3>5. node' \in NodeSet(V) /\ node'.cur = node.total /\ node'.total = node.total
      BY <3>2, <3>3, <3>4 DEF NodeSet
    <3>6. bytes' \in Nat /\ copy_len' + bytes' <= Len(data)
      BY <3>1, <3>2
    <3>7. confused' \in BOOLEAN
      BY <3>1
    <3>8. node'.cur <= node'.total /\ node'.total <= MAX_LENGTH /\ copy_len' \in Nat
      BY <3>0, <3>1, <3>2, <3>5, NodeInHand DEF InHand
    <3> QED
      BY <3>1, <3>5, <3>6, <3>7, <3>8
  <2> QED
    BY <2>1, <2>2
<1>2. /\ heap' \in Seq(NodeSet(V)) /\ Len(heap') = Len(heap) + 1
      /\ posted_bodies' \in Seq(Seq(V)) /\ Len(posted_bodies') = Len(heap')
      /\ \A i \in 1 .. Len(heap') : 0 <= heap'[i].cur /\ heap'[i].cur <= heap'[i].total
  BY <1>1, PostType
<1>3. /\ continued \in SUBSET (1 .. Len(heap)) /\ delivered \in Seq(Seq(V))
      /\ Len(delivered) <= Len(heap) /\ Len(delivered) \in Nat
      /\ Zero \in V /\ frames \in Seq(Frame)
  BY DEF Bounded, TypeInv
<1>4. continued' \in SUBSET (1 .. Len(heap'))
  <2>1. Len(posted_bodies') \in 1 .. Len(heap') /\ 1 .. Len(heap) \subseteq 1 .. Len(heap')
    BY <1>2
  <2> QED
    BY <1>1, <1>3, <2>1
<1>5. Len(delivered') <= Len(heap')
  BY <1>1, <1>2, <1>3
<1>6. <<>> \in Seq(V) /\ Len(<<>>) = 0 /\ 0 < HEAD_TOTAL_LEN
  BY FramingAssumption DEF FramingAssumption
<1>7. TypeInv(V)'
  BY <1>1, <1>2, <1>3, <1>4, <1>5, <1>6 DEF TypeInv
<1>8. InBounds'
  <2>1. 0 <= node'.cur
    BY <1>1 DEF NodeSet
  <2> QED
    BY <1>1, <1>2, <1>6, <2>1 DEF InBounds
<1>9. Clearing'
  BY <1>1, <1>2 DEF Clearing
<1> QED
  BY <1>7, <1>8, <1>9 DEF Bounded

(* A body of zeroes. *)
LEMMA ZeroBody ==
    ASSUME NEW V, Zero \in V, NEW n \in Nat
    PROVE  [k \in 1 .. n |-> Zero] \in Seq(V) /\ Len([k \in 1 .. n |-> Zero]) = n
  OBVIOUS

(* A node with another body. *)
LEMMA NodeExcept ==
    ASSUME NEW V, NEW nd \in NodeSet(V), NEW b
    PROVE  [nd EXCEPT !.body = b] = [total |-> nd.total, cur |-> nd.cur, body |-> b]
  BY DEF NodeSet

(* The two halves of Clear. *)
LEMMA BoundedClear ==
    ASSUME NEW V, Bounded(V), ClearData \/ ClearLen
    PROVE  Bounded(V)'
<1> USE BoundedParts
<1>0. /\ Zero \in V
      /\ \A i \in 1 .. Len(heap) : /\ heap[i] \in NodeSet(V)
                                   /\ 0 <= heap[i].cur /\ heap[i].cur <= heap[i].total
      /\ ~head_parse /\ Len(heap) > 0
  BY DEF Bounded, TypeInv, InBounds, Clearing, ClearData, ClearLen
<1> DEFINE n == Len(heap)
           last == heap[n]
<1>1. /\ last \in NodeSet(V) /\ n \in 1 .. n
      /\ last = [total |-> last.total, cur |-> last.cur, body |-> last.body]
      /\ last.total \in Nat /\ last.cur \in Nat /\ last.body \in Seq(V)
      /\ Len(last.body) = last.total
  BY <1>0 DEF NodeSet
<1>2. \E nd \in NodeSet(V) : 0 <= nd.cur /\ nd.cur <= nd.total /\ heap' = [heap EXCEPT ![n] = nd]
  <2>1. CASE ClearData
    <3> DEFINE zeros == [k \in DOMAIN last.body |-> Zero]
               nd == [total |-> last.total, cur |-> last.cur, body |-> zeros]
    <3>0. zeros = [k \in 1 .. last.total |-> Zero]
      BY <1>1
    <3>1. zeros \in Seq(V) /\ Len(zeros) = last.total
      <4> HIDE DEF last
      <4>1. last.total \in Nat
        BY <1>1
      <4> QED
        BY <1>0, <3>0, <4>1, ZeroBody
    <3>2. heap' = [heap EXCEPT ![n] = [last EXCEPT !.body = zeros]]
      BY <2>1 DEF ClearData
    <3>3. [last EXCEPT !.body = zeros] = nd
      <4> HIDE DEF last, zeros
      <4> QED
        BY <1>1, NodeExcept
    <3>4. nd \in NodeSet(V) /\ 0 <= nd.cur /\ nd.cur <= nd.total
      BY <1>0, <1>1, <3>1 DEF NodeSet
    <3> QED
      BY <3>2, <3>3, <3>4
  <2>2. CASE ClearLen
    <3> DEFINE nd == [total |-> last.total, cur |-> 0, body |-> last.body]
    <3>1. heap' = [heap EXCEPT ![n] = [last EXCEPT !.cur = 0]]
      BY <2>2 DEF ClearLen
    <3>2. [last EXCEPT !.cur = 0] = nd
      BY <1>1
    <3>3. nd \in NodeSet(V) /\ 0 <= nd.cur /\ nd.cur <= nd.total
      BY <1>1 DEF NodeSet
    <3> QED
      BY <3>1, <3>2, <3>3
  <2> QED
    BY <2>1, <2>2
<1>3. PICK nd \in NodeSet(V) : 0 <= nd.cur /\ nd.cur <= nd.total /\ heap' = [heap EXCEPT ![n] = nd]
  BY <1>2
<1>4. /\ heap' \in Seq(NodeSet(V)) /\ Len(heap') = Len(heap)
      /\ \A i \in 1 .. Len(heap) : heap'[i] = heap[i] \/ heap'[i] = nd
  BY <1>1, <1>3
<1>5. /\ UNCHANGED <<frames, stream, taken, data, bytes, copy_len, head_parse, head, node,
                     posted_bodies, continued, confused, delivered>>
      /\ pc' \in {"cleared_data", "reading", "loop"}
  BY DEF ClearData, ClearLen
<1>6. TypeInv(V)'
  BY <1>4, <1>5 DEF Bounded, TypeInv
<1>7. InBounds'
  <2>1. \A i \in 1 .. Len(heap') : 0 <= heap'[i].cur /\ heap'[i].cur <= heap'[i].total
    BY <1>0, <1>3, <1>4
  <2>2. node'.total <= MAX_LENGTH /\ 0 <= node'.cur /\ node'.cur <= node'.total
    BY <1>0, <1>5, NodeInHand DEF InHand
  <2>3. ~head_parse'
    BY <1>0, <1>5
  <2> QED
    BY <1>5, <2>1, <2>2, <2>3 DEF InBounds
<1>8. Clearing'
  BY <1>0, <1>4, <1>5 DEF Clearing
<1> QED
  BY <1>6, <1>7, <1>8 DEF Bounded

(* The logic thread takes the next node. *)
LEMMA BoundedDeal ==
    ASSUME NEW V, Bounded(V), DealNode
    PROVE  Bounded(V)'
<1>0. /\ Zero \in V /\ heap \in Seq(NodeSet(V)) /\ Len(heap) \in Nat
      /\ delivered \in Seq(Seq(V)) /\ Len(delivered) \in Nat
      /\ \A i \in 1 .. Len(heap) : heap[i].cur <= heap[i].total
  BY DEF Bounded, TypeInv, InBounds
<1> DEFINE i == Len(delivered) + 1
           nd == heap[i]
<1>1. Len(delivered) < Len(heap)
  BY DEF DealNode
<1>2. i \in 1 .. Len(heap)
  BY <1>0, <1>1
<1>3. /\ nd \in NodeSet(V) /\ nd.cur \in Nat /\ nd.total \in Nat /\ nd.cur <= nd.total
      /\ nd.body \in Seq(V) /\ Len(nd.body) = nd.total
  BY <1>0, <1>2 DEF NodeSet
<1>4. PICK lost : delivered' = Append(delivered, [k \in 1 .. nd.cur |->
                                   IF k \in lost THEN Zero ELSE nd.body[k]])
  BY DEF DealNode
<1> DEFINE str == [k \in 1 .. nd.cur |-> IF k \in lost THEN Zero ELSE nd.body[k]]
<1> HIDE DEF i
<1>5. str \in Seq(V)
  <2> HIDE DEF nd
  <2>1. \A k \in 1 .. nd.cur : nd.body[k] \in V
    BY <1>3
  <2>2. \A k \in 1 .. nd.cur : str[k] \in V
    BY <1>0, <2>1
  <2>3. str = [k \in 1 .. nd.cur |-> str[k]]
    OBVIOUS
  <2> HIDE DEF str
  <2> QED
    BY <1>3, <2>2, <2>3
<1>6. delivered' = Append(delivered, str)
  BY <1>4
<1> HIDE DEF str
<1>7. delivered' \in Seq(Seq(V)) /\ Len(delivered') = Len(delivered) + 1
  BY <1>0, <1>5, <1>6
<1>8. UNCHANGED <<frames, stream, taken, data, bytes, copy_len, head_parse, head, node,
                  pc, heap, posted_bodies, continued, confused>>
  BY DEF DealNode
<1>9. Len(delivered') <= Len(heap')
  BY <1>0, <1>1, <1>7, <1>8
<1>10. TypeInv(V)'
  BY <1>7, <1>8, <1>9 DEF Bounded, TypeInv
<1>11. InBounds' /\ Clearing'
  BY <1>8 DEF Bounded, InBounds, Overrun, Clearing
<1> QED
  BY <1>10, <1>11 DEF Bounded

(* Every step keeps the cursors in bounds. *)
LEMMA BoundedStep ==
    ASSUME NEW V, Bounded(V), [RecvNext]_recvVars
    PROVE  Bounded(V)'
<1>1. CASE RecvNext
  BY <1>1, BoundedRead, BoundedEnd, BoundedOverrun, BoundedBodyShort, BoundedPosts,
     BoundedClear, BoundedDeal
     DEF RecvNext, Pass
<1>2. CASE UNCHANGED recvVars
  <2>1. TypeInv(V)'
    BY <1>2 DEF Bounded, TypeInv, recvVars
  <2>2. InBounds' /\ Clearing'
    BY <1>2 DEF Bounded, InBounds, Overrun, Clearing, recvVars
  <2> QED
    BY <2>1, <2>2 DEF Bounded
<1> QED
  BY <1>1, <1>2

(* They are in bounds at first. *)
LEMMA BoundedInit ==
    ASSUME RecvInit PROVE \E V : Bounded(V)
<1>1. frames \in Seq(Frame)
  BY FramingAssumption DEF RecvInit, FramingAssumption
<1>2. PICK V : Zero \in V /\ stream \in Seq(V)
  BY <1>1, StreamLayout DEF RecvInit
<1>3. /\ <<>> \in Seq(V) /\ Len(<<>>) = 0 /\ <<>> \in Seq(Seq(V)) /\ <<>> \in Seq(NodeSet(V))
  OBVIOUS
<1>4. node \in NodeSet(V) /\ node.cur = 0 /\ node.total = 0
  <2>1. node = [total |-> 0, cur |-> 0, body |-> <<>>]
    BY DEF RecvInit, NewNode
  <2> QED
    BY <1>3, <2>1 DEF NodeSet
<1>5. TypeInv(V)
  <2>1. /\ taken = 0 /\ data = <<>> /\ bytes = 0 /\ copy_len = 0 /\ head_parse = FALSE
        /\ head = <<>> /\ pc = "reading" /\ heap = <<>> /\ posted_bodies = <<>> /\ continued = {}
        /\ confused = FALSE /\ delivered = <<>>
    BY DEF RecvInit
  <2>2. taken \in 0 .. Len(stream)
    BY <1>2, <2>1
  <2>3. /\ data \in Seq(V) /\ bytes \in Nat /\ copy_len \in Nat
        /\ head_parse \in BOOLEAN /\ confused \in BOOLEAN /\ head \in Seq(V)
    BY <1>3, <2>1
  <2>4. /\ heap \in Seq(NodeSet(V)) /\ posted_bodies \in Seq(Seq(V)) /\ Len(posted_bodies) = Len(heap)
        /\ continued \in SUBSET (1 .. Len(heap))
        /\ delivered \in Seq(Seq(V)) /\ Len(delivered) <= Len(heap)
    BY <1>3, <2>1
  <2> QED
    BY <1>1, <1>2, <1>4, <2>1, <2>2, <2>3, <2>4 DEF TypeInv
<1>6. InBounds
  BY <1>3, <1>4, FramingAssumption DEF RecvInit, InBounds, FramingAssumption
<1>7. Clearing
  BY DEF RecvInit, Clearing
<1> QED
  BY <1>5, <1>6, <1>7 DEF Bounded

(* HandleRead reads only bytes it has received and never writes beyond a   *)
(* head, in whatever pieces the bytes come; nor beyond a body, unless the  *)
(* head of the body said a length of -1, and no such body is ever posted.  *)
THEOREM CursorsInBounds == RecvSpec => []InBounds
<1>1. RecvInit => \E V : Bounded(V)
  BY BoundedInit
<1>2. (\E V : Bounded(V)) /\ [RecvNext]_recvVars => (\E V : Bounded(V))'
  BY BoundedStep
<1>3. (\E V : Bounded(V)) => InBounds
  BY DEF Bounded
<1> QED
  BY <1>1, <1>2, <1>3, PTL DEF RecvSpec

-----------------------------------------------------------------------------
(* The body of frame i, n bytes long. *)
Body(i, n) == [k \in 1 .. n |-> Byte(i, HEAD_TOTAL_LEN + k)]

(* The frame in hand, how many of its bytes have been consumed, and how    *)
(* many more have been received.                                           *)
Cur == Len(posted_bodies) + 1

Consumed == IF head_parse THEN HEAD_TOTAL_LEN + node.cur ELSE Len(head)

Pending == IF pc = "loop" THEN bytes ELSE 0

(* _data holds the last bytes taken from the stream, and those that are    *)
(* not consumed are its end.                                               *)
DataExact ==
    /\ copy_len + bytes = Len(data)
    /\ Len(data) <= taken
    /\ \A k \in 1 .. Len(data) : data[k] = stream[taken - Len(data) + k]

(* What _recv_head_node or _recv_msg_node holds of the frame in hand. *)
InHandExact ==
    /\ Consumed > 0 => Cur <= Len(frames)
    /\ ~head_parse => \A k \in 1 .. Len(head) : head[k] = Byte(Cur, k)
    /\ head_parse => /\ Valid(frames[Cur])
                     /\ node.total = frames[Cur].len
                     /\ \A k \in 1 .. node.cur :
                           node.body[k] = Byte(Cur, HEAD_TOTAL_LEN + k)

PostsExact ==
    /\ Len(posted_bodies) <= Len(frames)
    /\ \A i \in 1 .. Len(posted_bodies) : /\ posted_bodies[i] = Body(i, frames[i].len)
                                          /\ Valid(frames[i])

Parse(E) ==
    /\ PostsExact
    /\ pc \notin {"cleared", "terminated"} => InHandExact /\ taken = E[Cur] + Consumed + Pending
    /\ pc = "loop" => DataExact
    /\ pc \in {"clearing", "cleared_data"} =>
          bytes = 0 /\ head = <<>> /\ Len(heap) \in continued

(* A node the logic thread shares: untouched, or one that Clear is at. *)
SharedExact ==
    \A i \in 1 .. Len(heap) :
       /\ i \notin continued => /\ heap[i].cur = frames[i].len
                                /\ heap[i].body = Body(i, frames[i].len)
       /\ heap[i].cur <= frames[i].len
       /\ \A k \in 1 .. heap[i].cur :
             heap[i].body[k] \in {Zero, Byte(i, HEAD_TOTAL_LEN + k)}

StringsExact ==
    \A i \in 1 .. Len(delivered) :
       \/ delivered[i] = Body(i, frames[i].len)
       \/ /\ i \in continued
          /\ \A k \in DOMAIN delivered[i] :
                /\ k \in 1 .. frames[i].len
                /\ delivered[i][k] \in {Zero, Byte(i, HEAD_TOTAL_LEN + k)}

Exact(E) == ~confused => Parse(E) /\ SharedExact /\ StringsExact

IInv(V, E) == Bounded(V) /\ Layout(E) /\ Exact(E)

(* While HandleRead has its place, the node in hand is not of length -1. *)
LEMMA Placed ==
    ASSUME NEW V, Bounded(V), ~confused PROVE ~Overrun
  BY NodeInHand DEF InHand

(* The parts of the invariant that a step of the loop uses. *)
LEMMA ParseFacts ==
    ASSUME NEW V, NEW E, IInv(V, E), ~confused
    PROVE  /\ Parse(E) /\ SharedExact /\ StringsExact
           /\ Len(posted_bodies) \in Nat /\ Cur \in Nat /\ Cur \in 1 .. Len(frames) + 1
           /\ Len(frames) \in Nat /\ Len(stream) \in Nat
           /\ Consumed \in Nat /\ Pending \in Nat
           /\ \A i \in 1 .. Len(frames) :
                 /\ frames[i] \in Frame /\ frames[i].len \in Int
                 /\ Total(i) \in Nat /\ HEAD_TOTAL_LEN <= Total(i)
                 /\ 0 <= frames[i].len => Total(i) = HEAD_TOTAL_LEN + frames[i].len
                 /\ Valid(frames[i]) => frames[i].len \in Nat
           /\ \A i \in 1 .. Len(frames) + 1 : E[i] \in Nat
           /\ HEAD_TOTAL_LEN \in Nat /\ HEAD_TOTAL_LEN > 0
           /\ taken \in Nat /\ taken <= Len(stream)
<1>1. /\ Bounded(V) /\ Layout(E) /\ Parse(E) /\ SharedExact /\ StringsExact
  BY DEF IInv, Exact
<1>2. /\ frames \in Seq(Frame) /\ Len(frames) \in Nat /\ posted_bodies \in Seq(Seq(V))
      /\ Len(posted_bodies) \in Nat /\ stream \in Seq(V) /\ Len(stream) \in Nat
      /\ taken \in 0 .. Len(stream) /\ bytes \in Nat /\ Len(head) \in Nat
      /\ HEAD_TOTAL_LEN \in Nat /\ HEAD_TOTAL_LEN > 0
  BY <1>1, FramingAssumption DEF Bounded, TypeInv, FramingAssumption
<1>3. Cur \in Nat /\ Cur \in 1 .. Len(frames) + 1
  BY <1>1, <1>2 DEF Parse, PostsExact, Cur
<1>4. Consumed \in Nat /\ Pending \in Nat
  BY <1>1, <1>2, HeadFacts DEF Consumed, Pending
<1>5. \A i \in 1 .. Len(frames) : frames[i] \in Frame /\ frames[i].len \in Int
  <2>1. \A i \in 1 .. Len(frames) : frames[i] \in Frame
    BY <1>2
  <2> QED
    BY <2>1 DEF Frame
<1>6. \A i \in 1 .. Len(frames) :
         /\ Total(i) \in Nat /\ HEAD_TOTAL_LEN <= Total(i)
         /\ 0 <= frames[i].len => Total(i) = HEAD_TOTAL_LEN + frames[i].len
         /\ Valid(frames[i]) => frames[i].len \in Nat
  BY <1>2, <1>5 DEF Total, BodyBytes, Valid
<1>7. \A i \in 1 .. Len(frames) + 1 : E[i] \in Nat
  BY <1>1 DEF Layout
<1>8. taken \in Nat /\ taken <= Len(stream)
  BY <1>2
<1>9. \A i \in 1 .. Len(frames) :
         /\ frames[i] \in Frame /\ frames[i].len \in Int
         /\ Total(i) \in Nat /\ HEAD_TOTAL_LEN <= Total(i)
         /\ 0 <= frames[i].len => Total(i) = HEAD_TOTAL_LEN + frames[i].len
         /\ Valid(frames[i]) => frames[i].len \in Nat
  BY <1>5, <1>6
<1> QED
  BY <1>1, <1>2, <1>3, <1>4, <1>7, <1>8, <1>9, Zenon

(* Counting from the end of _data and from the beginning of the frame. *)
LEMMA Shift ==
    ASSUME NEW t \in Nat, NEW d \in Nat, NEW c \in Nat, NEW b \in Nat,
           NEW e \in Nat, NEW m \in Nat, t = e + m + b, c + b = d
    PROVE  \A k \in Nat : t - d + (c + k) = e + (m + k)
  OBVIOUS

(* The bytes that are received and not consumed go on where the frame in   *)
(* hand stopped.                                                           *)
LEMMA NextBytes ==
    ASSUME NEW V, NEW E, IInv(V, E), ~confused, pc = "loop", bytes > 0
    PROVE  /\ Cur \in 1 .. Len(frames)
           /\ \A k \in 1 .. bytes : Consumed + k <= Total(Cur) =>
                 /\ copy_len + k \in 1 .. Len(data)
                 /\ data[copy_len + k] = Byte(Cur, Consumed + k)
<1>0. IInv(V, E) /\ ~confused
  OBVIOUS
<1>1. /\ DataExact /\ InHandExact /\ taken = E[Cur] + Consumed + bytes
  BY <1>0, ParseFacts DEF Parse, Pending
<1>2. /\ bytes \in Nat /\ copy_len \in Nat /\ Len(data) \in Nat
  BY BoundedParts DEF IInv
<1>3. /\ Cur \in 1 .. Len(frames) + 1 /\ Len(frames) \in Nat /\ Cur \in Nat
      /\ E[Cur] \in Nat /\ Consumed \in Nat /\ taken \in Nat /\ taken <= Len(stream)
  BY <1>0, ParseFacts
<1>4. E[Len(frames) + 1] = Len(stream)
  BY DEF IInv, Layout
<1>5. Cur # Len(frames) + 1
  BY <1>1, <1>2, <1>3, <1>4
<1>6. Cur \in 1 .. Len(frames)
  BY <1>3, <1>5
<1>7. ASSUME NEW k \in 1 .. bytes, Consumed + k <= Total(Cur)
      PROVE  /\ copy_len + k \in 1 .. Len(data)
             /\ data[copy_len + k] = Byte(Cur, Consumed + k)
  <2>1. copy_len + k \in 1 .. Len(data)
    BY <1>1, <1>2, <1>7 DEF DataExact
  <2>2. data[copy_len + k] = stream[taken - Len(data) + (copy_len + k)]
    BY <1>1, <2>1 DEF DataExact
  <2>3. taken - Len(data) + (copy_len + k) = E[Cur] + (Consumed + k)
    <3>1. copy_len + bytes = Len(data)
      BY <1>1 DEF DataExact
    <3> QED
      <4>0. /\ taken \in Nat /\ Len(data) \in Nat /\ copy_len \in Nat /\ bytes \in Nat
            /\ E[Cur] \in Nat /\ Consumed \in Nat
            /\ taken = E[Cur] + Consumed + bytes
        BY <1>1, <1>2, <1>3
      <4>1. \A j \in Nat : taken - Len(data) + (copy_len + j) = E[Cur] + (Consumed + j)
        BY <3>1, <4>0, Shift
      <4>2. k \in Nat
        BY <1>2, <1>7
      <4> QED
        BY <4>1, <4>2
  <2>4. Total(Cur) \in Nat /\ Consumed + k \in 1 .. Total(Cur)
    BY <1>0, <1>2, <1>3, <1>6, <1>7, ParseFacts
  <2>5. stream[E[Cur] + (Consumed + k)] = Byte(Cur, Consumed + k)
    BY <1>6, <2>4 DEF IInv, Layout
  <2> QED
    BY <2>1, <2>2, <2>3, <2>5
<1> QED
  BY <1>6, <1>7

(* Steps that post nothing, clear nothing and deliver nothing. *)
LEMMA NothingPosted ==
    ASSUME NEW V, NEW E, IInv(V, E), ~confused,
           UNCHANGED <<frames, stream, heap, posted_bodies, continued, delivered>>
    PROVE  (PostsExact /\ SharedExact /\ StringsExact)' /\ Cur' = Cur
<1>1. PostsExact /\ SharedExact /\ StringsExact
  BY DEF IInv, Exact, Parse
<1>2. PostsExact'
  BY <1>1 DEF PostsExact, Valid, InRange
<1>3. SharedExact'
  BY <1>1 DEF SharedExact
<1>4. StringsExact'
  BY <1>1 DEF StringsExact
<1>5. Cur' = Cur
  BY DEF Cur
<1> QED
  BY <1>2, <1>3, <1>4, <1>5

(* A chunk of received bytes is the next part of the stream. *)
LEMMA ExactRead ==
    ASSUME NEW V, NEW E, IInv(V, E), ~confused, NEW n \in 1 .. MAX_LENGTH, HandleRead(n)
    PROVE  Parse(E)' /\ SharedExact' /\ StringsExact'
<1>0. IInv(V, E) /\ ~confused /\ Bounded(V)
  BY DEF IInv
<1>1. /\ pc = "reading" /\ pc' = "loop" /\ taken + n <= Len(stream)
      /\ data' = SubSeq(stream, taken + 1, taken + n)
      /\ taken' = taken + n /\ bytes' = n /\ copy_len' = 0
      /\ UNCHANGED <<frames, stream, head_parse, head, node, heap, posted_bodies, continued, delivered>>
  BY DEF HandleRead, NoPost
<1>2. /\ InHandExact /\ taken = E[Cur] + Consumed + 0
  BY <1>0, <1>1, ParseFacts DEF Parse, Pending
<1>3. (PostsExact /\ SharedExact /\ StringsExact)' /\ Cur' = Cur
  BY <1>0, <1>1, NothingPosted
<1>4. n \in Nat /\ stream \in Seq(V) /\ taken \in Nat /\ Len(stream) \in Nat
  BY <1>0, BoundedParts
<1>5. Len(data') = n /\ \A k \in 1 .. n : data'[k] = stream[taken + k]
  BY <1>1, <1>4
<1>6. DataExact'
  <2>1. copy_len' + bytes' = Len(data') /\ Len(data') <= taken'
    BY <1>1, <1>4, <1>5
  <2>2. ASSUME NEW k \in 1 .. n PROVE data'[k] = stream'[taken' - Len(data') + k]
    <3>1. taken' - Len(data') + k = taken + k
      BY <1>1, <1>4, <1>5
    <3> QED
      BY <1>1, <1>5, <3>1
  <2> QED
    BY <1>5, <2>1, <2>2 DEF DataExact
<1>7. Consumed' = Consumed /\ Pending' = n
  BY <1>1 DEF Consumed, Pending
<1>8. InHandExact'
  BY <1>1, <1>2, <1>3, <1>7 DEF InHandExact, Valid, InRange
<1>9. taken' = E[Cur'] + Consumed' + Pending'
  <2>1. E[Cur] \in Nat /\ Consumed \in Nat
    BY <1>0, ParseFacts
  <2> QED
    BY <1>1, <1>2, <1>3, <1>4, <1>7, <2>1
<1> QED
  BY <1>1, <1>3, <1>6, <1>8, <1>9 DEF Parse

(* The end of the connection: what was posted stays as it is. *)
LEMMA ExactEnd ==
    ASSUME NEW V, NEW E, IInv(V, E), ~confused, ReadError \/ HeadInvalid \/ HeadThrows
    PROVE  Parse(E)' /\ SharedExact' /\ StringsExact'
<1>1. /\ pc' \in {"cleared", "terminated"}
      /\ UNCHANGED <<frames, stream, heap, posted_bodies, continued, delivered>>
  BY DEF ReadError, HeadInvalid, HeadThrows, NoPost
<1>2. (PostsExact /\ SharedExact /\ StringsExact)'
  BY <1>1, NothingPosted
<1> QED
  BY <1>1, <1>2 DEF Parse

(* The head in hand takes up all that was received. *)
LEMMA ExactHeadShort ==
    ASSUME NEW V, NEW E, IInv(V, E), ~confused, HeadShort
    PROVE  Parse(E)' /\ SharedExact' /\ StringsExact'
<1>0. IInv(V, E) /\ ~confused /\ Bounded(V)
  BY DEF IInv
<1>1. /\ pc = "loop" /\ pc' = "reading" /\ ~head_parse
      /\ bytes + Len(head) < HEAD_TOTAL_LEN
      /\ head' = head \o Chunk(bytes)
      /\ UNCHANGED <<frames, stream, taken, head_parse, node, heap, posted_bodies, continued, delivered>>
  BY DEF HeadShort, NoPost
<1>2. InHandExact /\ taken = E[Cur] + Consumed + bytes
  BY <1>0, <1>1, ParseFacts DEF Parse, Pending
<1>3. (PostsExact /\ SharedExact /\ StringsExact)' /\ Cur' = Cur
  BY <1>0, <1>1, NothingPosted
<1>4. /\ bytes \in Nat /\ head \in Seq(V) /\ Len(head) \in Nat /\ copy_len \in Nat
      /\ Chunk(bytes) \in Seq(V) /\ Len(Chunk(bytes)) = bytes
  BY <1>0, BoundedParts, ChunkType DEF Bounded
<1>5. /\ Len(head') = Len(head) + bytes
      /\ \A k \in 1 .. Len(head) : head'[k] = head[k]
      /\ \A k \in 1 .. bytes : head'[Len(head) + k] = Chunk(bytes)[k]
  <2>1. head \in Seq(V) /\ Chunk(bytes) \in Seq(V)
    BY <1>4
  <2>2. /\ Len(head \o Chunk(bytes)) = Len(head) + Len(Chunk(bytes))
        /\ \A k \in 1 .. Len(head) : (head \o Chunk(bytes))[k] = head[k]
        /\ \A k \in 1 .. Len(Chunk(bytes)) :
              (head \o Chunk(bytes))[Len(head) + k] = Chunk(bytes)[k]
    BY <2>1, ConcatFacts
  <2>3. head' = head \o Chunk(bytes) /\ Len(Chunk(bytes)) = bytes
    BY <1>1, <1>4
  <2> HIDE DEF Chunk
  <2> QED
    BY <2>2, <2>3
<1>6. Consumed = Len(head) /\ Consumed' = Len(head) + bytes /\ Pending' = 0
  BY <1>1, <1>5 DEF Consumed, Pending
<1>7. ASSUME NEW k \in 1 .. bytes
      PROVE  /\ Cur <= Len(frames)
             /\ head'[Len(head) + k] = Byte(Cur, Len(head) + k)
  <2>0. bytes > 0
    BY <1>4, <1>7
  <2>1. /\ Cur \in 1 .. Len(frames)
        /\ \A j \in 1 .. bytes : Consumed + j <= Total(Cur) =>
              /\ copy_len + j \in 1 .. Len(data)
              /\ data[copy_len + j] = Byte(Cur, Consumed + j)
    BY <1>0, <1>1, <2>0, NextBytes
  <2>2. Total(Cur) \in Nat /\ HEAD_TOTAL_LEN <= Total(Cur) /\ HEAD_TOTAL_LEN \in Nat
    BY <1>0, <2>1, ParseFacts
  <2>3. Consumed + k <= Total(Cur)
    BY <1>1, <1>4, <1>6, <1>7, <2>2
  <2>4. copy_len + k \in 1 .. Len(data) /\ data[copy_len + k] = Byte(Cur, Len(head) + k)
    BY <1>6, <1>7, <2>1, <2>3
  <2>5. Chunk(bytes)[k] = data[copy_len + k]
    BY <1>7, <2>4 DEF Chunk
  <2>6. Cur <= Len(frames)
    BY <1>0, <2>1, ParseFacts
  <2> QED
    BY <1>5, <1>7, <2>4, <2>5, <2>6
<1>8. ASSUME NEW k \in 1 .. Len(head') PROVE head'[k] = Byte(Cur, k)
  <2>1. CASE k <= Len(head)
    <3>1. k \in 1 .. Len(head)
      BY <1>4, <1>8, <2>1
    <3> QED
      BY <1>1, <1>2, <1>5, <3>1 DEF InHandExact
  <2>2. CASE ~(k <= Len(head))
    <3> DEFINE j == k - Len(head)
    <3>1. j \in 1 .. bytes /\ k = Len(head) + j
      BY <1>4, <1>5, <1>8, <2>2
    <3> HIDE DEF j
    <3> QED
      BY <1>7, <3>1
  <2> QED
    BY <2>1, <2>2
<1>9. Consumed' > 0 => Cur <= Len(frames)
  <2>1. CASE bytes > 0
    BY <1>4, <1>7, <2>1
  <2>2. CASE ~(bytes > 0)
    BY <1>2, <1>4, <1>6, <2>2 DEF InHandExact
  <2> QED
    BY <2>1, <2>2
<1>10. InHandExact'
  BY <1>1, <1>3, <1>8, <1>9 DEF InHandExact
<1>11. taken' = E[Cur'] + Consumed' + Pending'
  <2>1. E[Cur] \in Nat
    BY <1>0, ParseFacts
  <2> QED
    BY <1>1, <1>2, <1>3, <1>4, <1>6, <2>1
<1> QED
  BY <1>1, <1>3, <1>10, <1>11 DEF Parse

(* A head that is complete is the one of the frame in hand, and what was   *)
(* received behind it is the body.                                         *)
LEMMA HeadIs ==
    ASSUME NEW V, NEW E, IInv(V, E), ~confused, pc = "loop", ~head_parse,
           bytes >= HeadRemain
    PROVE  /\ Cur \in 1 .. Len(frames)
           /\ \A f : HeadComplete(f) => f = frames[Cur]
           /\ \A k \in 1 .. frames[Cur].len : HeadRemain + k <= bytes =>
                 /\ copy_len + HeadRemain + k \in 1 .. Len(data)
                 /\ data[copy_len + HeadRemain + k] = Byte(Cur, HEAD_TOTAL_LEN + k)
<1>0. IInv(V, E) /\ ~confused /\ Bounded(V)
  BY DEF IInv
<1>1. /\ bytes \in Nat /\ head \in Seq(V) /\ Len(head) \in Nat /\ copy_len \in Nat
      /\ HEAD_TOTAL_LEN \in Nat /\ HEAD_TOTAL_LEN > 0
      /\ HeadRemain \in Nat /\ HeadRemain > 0 /\ Len(head) + HeadRemain = HEAD_TOTAL_LEN
  <2>1. bytes \in Nat /\ head \in Seq(V) /\ Len(head) \in Nat /\ copy_len \in Nat
    BY <1>0, BoundedParts
  <2>2. HeadRemain \in Nat /\ HeadRemain > 0
    BY <1>0, HeadFacts
  <2>3. HEAD_TOTAL_LEN \in Nat /\ HEAD_TOTAL_LEN > 0
    BY <1>0, ParseFacts
  <2>4. Len(head) + HeadRemain = HEAD_TOTAL_LEN
    BY <2>1, <2>3 DEF HeadRemain
  <2> QED
    BY <2>1, <2>2, <2>3, <2>4
<1>2. Consumed = Len(head)
  BY DEF Consumed
<1>3. /\ Cur \in 1 .. Len(frames)
      /\ \A k \in 1 .. bytes : Len(head) + k <= Total(Cur) =>
            /\ copy_len + k \in 1 .. Len(data)
            /\ data[copy_len + k] = Byte(Cur, Len(head) + k)
  <2>1. bytes > 0
    BY <1>1
  <2> QED
    BY <1>0, <1>2, <2>1, NextBytes
<1>4. /\ frames[Cur].len \in Int /\ Total(Cur) \in Nat /\ HEAD_TOTAL_LEN <= Total(Cur)
      /\ 0 <= frames[Cur].len => Total(Cur) = HEAD_TOTAL_LEN + frames[Cur].len
  BY <1>0, <1>3, ParseFacts
<1>5. ASSUME NEW k \in 1 .. frames[Cur].len, HeadRemain + k <= bytes
      PROVE  /\ copy_len + HeadRemain + k \in 1 .. Len(data)
             /\ data[copy_len + HeadRemain + k] = Byte(Cur, HEAD_TOTAL_LEN + k)
  <2>1. k \in Nat /\ k <= frames[Cur].len /\ 0 <= frames[Cur].len
    BY <1>4, <1>5
  <2>2. /\ HeadRemain + k \in 1 .. bytes
        /\ Len(head) + (HeadRemain + k) = HEAD_TOTAL_LEN + k
        /\ HEAD_TOTAL_LEN + k <= Total(Cur)
        /\ copy_len + (HeadRemain + k) = copy_len + HeadRemain + k
    <3>1. Total(Cur) = HEAD_TOTAL_LEN + frames[Cur].len /\ frames[Cur].len \in Int
      BY <1>4, <2>1
    <3>2. HeadRemain + k \in 1 .. bytes
      BY <1>1, <1>5, <2>1
    <3>3. Len(head) + (HeadRemain + k) = HEAD_TOTAL_LEN + k
      BY <1>1, <2>1
    <3>4. HEAD_TOTAL_LEN + k <= Total(Cur)
      BY <1>1, <2>1, <3>1
    <3>5. copy_len + (HeadRemain + k) = copy_len + HeadRemain + k
      BY <1>1, <2>1
    <3> QED
      BY <3>2, <3>3, <3>4, <3>5
  <2> QED
    BY <1>3, <2>2
<1>6. ASSUME NEW k \in 1 .. HeadRemain
      PROVE  Chunk(HeadRemain)[k] = Byte(Cur, Len(head) + k)
  <2>1. k \in 1 .. bytes /\ Len(head) + k <= Total(Cur)
    BY <1>1, <1>4, <1>6
  <2>2. /\ copy_len + k \in 1 .. Len(data)
        /\ data[copy_len + k] = Byte(Cur, Len(head) + k)
    BY <1>3, <2>1
  <2>3. copy_len + k <= Len(data)
    BY <2>2
  <2> QED
    BY <1>6, <2>2, <2>3 DEF Chunk
<1>7. head \o Chunk(HeadRemain) = HeadOf(Cur)
  <2> DEFINE h == head \o Chunk(HeadRemain)
  <2>1. Chunk(HeadRemain) \in Seq(V) /\ Len(Chunk(HeadRemain)) = HeadRemain
    BY <1>0, <1>1, ChunkType DEF Bounded
  <2>2. /\ h \in Seq(V) /\ Len(h) = Len(head) + Len(Chunk(HeadRemain))
        /\ \A k \in 1 .. Len(head) : h[k] = head[k]
        /\ \A k \in 1 .. Len(Chunk(HeadRemain)) : h[Len(head) + k] = Chunk(HeadRemain)[k]
    BY <1>1, <2>1, ConcatFacts
  <2>3. \A k \in 1 .. Len(head) : head[k] = Byte(Cur, k)
    BY <1>0, ParseFacts DEF Parse, InHandExact
  <2>4. \A k \in 1 .. HeadRemain : h[Len(head) + k] = Byte(Cur, Len(head) + k)
    BY <1>6, <2>1, <2>2
  <2> HIDE DEF h
  <2>5. ASSUME NEW k \in 1 .. HEAD_TOTAL_LEN PROVE h[k] = Byte(Cur, k)
    <3>1. CASE k <= Len(head)
      <4>1. k \in 1 .. Len(head)
        BY <1>1, <2>5, <3>1
      <4> QED
        BY <2>2, <2>3, <4>1
    <3>2. CASE ~(k <= Len(head))
      <4>1. PICK j \in 1 .. HeadRemain : k = Len(head) + j
        <5>1. k - Len(head) \in 1 .. HeadRemain /\ k = Len(head) + (k - Len(head))
          BY <1>1, <2>5, <3>2
        <5> QED
          BY <5>1
      <4> QED
        BY <2>4, <4>1
    <3> QED
      BY <3>1, <3>2
  <2>6. h = [k \in 1 .. HEAD_TOTAL_LEN |-> h[k]]
    <3>1. Len(h) = HEAD_TOTAL_LEN
      BY <1>1, <2>1, <2>2
    <3>2. h = [k \in 1 .. Len(h) |-> h[k]]
      BY <2>2
    <3> QED
      BY <3>1, <3>2
  <2>7. h = [k \in 1 .. HEAD_TOTAL_LEN |-> Byte(Cur, k)]
    BY <2>5, <2>6
  <2> QED
    BY <2>7 DEF h, HeadOf, Byte
<1>8. ASSUME NEW f, HeadComplete(f) PROVE f = frames[Cur]
  <2>1. f \in Decode(HeadOf(Cur))
    BY <1>7, <1>8 DEF HeadComplete
  <2>2. Cur \in DOMAIN frames
    BY <1>0, <1>3 DEF Bounded, TypeInv
  <2>3. HeadOf(Cur)[1].frame = Cur
    BY <1>1 DEF HeadOf
  <2>4. Decode(HeadOf(Cur)) = {frames[Cur]}
    BY <2>2, <2>3 DEF Decode
  <2> QED
    BY <2>1, <2>4
<1> QED
  BY <1>3, <1>5, <1>8

(* A sequence of the bytes of a body. *)
LEMMA IsBody ==
    ASSUME NEW V, NEW s \in Seq(V), NEW i, NEW n \in Nat, Len(s) = n,
           \A k \in 1 .. n : s[k] = Byte(i, HEAD_TOTAL_LEN + k)
    PROVE  s = Body(i, n)
<1>1. s = [k \in 1 .. n |-> s[k]]
  OBVIOUS
<1> QED
  BY <1>1 DEF Body

(* Posting the whole frame in hand goes on to the next one. *)
LEMMA PostExact ==
    ASSUME NEW V, NEW E, IInv(V, E), ~confused, NEW nd \in NodeSet(V), Post(nd),
           Cur \in 1 .. Len(frames), Valid(frames[Cur]),
           nd.total = frames[Cur].len, nd.cur = frames[Cur].len,
           nd.body = Body(Cur, frames[Cur].len),
           continued \subseteq continued', UNCHANGED <<frames, stream, delivered>>
    PROVE  /\ PostsExact' /\ SharedExact' /\ StringsExact'
           /\ Cur' = Cur + 1 /\ E[Cur'] = E[Cur] + Total(Cur)
           /\ Len(posted_bodies') = Len(heap') /\ Len(heap') = Cur
<1>0. IInv(V, E) /\ ~confused /\ Bounded(V)
  BY DEF IInv
<1>1. /\ PostsExact /\ SharedExact /\ StringsExact
      /\ Len(posted_bodies) \in Nat /\ Len(frames) \in Nat
      /\ frames[Cur].len \in Nat
  <2>1. /\ Parse(E) /\ SharedExact /\ StringsExact
        /\ Len(posted_bodies) \in Nat /\ Len(frames) \in Nat
    BY <1>0, ParseFacts
  <2>2. frames[Cur].len \in Nat
    BY <1>0, ParseFacts
  <2> QED
    BY <2>1, <2>2 DEF Parse
<1>2. Len(posted_bodies) = Len(heap)
  BY <1>0 DEF Bounded, TypeInv
<1>3. /\ Len(heap') = Len(heap) + 1 /\ Len(posted_bodies') = Len(heap')
      /\ \A i \in 1 .. Len(heap) : heap'[i] = heap[i] /\ posted_bodies'[i] = posted_bodies[i]
      /\ heap'[Len(heap')] = nd /\ posted_bodies'[Len(heap')] = nd.body
  <2>1. nd.cur <= nd.total
    BY <1>1
  <2> QED
    BY <1>0, <2>1, PostType
<1>4. Len(heap') = Cur /\ Len(posted_bodies') = Cur /\ Cur = Len(heap) + 1
  BY <1>2, <1>3 DEF Cur
<1>5. \A i \in 1 .. Cur : i \in 1 .. Len(heap) \/ i = Cur
  BY <1>1, <1>2, <1>4
<1>6. frames' = frames
  OBVIOUS
<1>7. PostsExact'
  <2>1. Len(posted_bodies') <= Len(frames)
    BY <1>1, <1>4
  <2>2. ASSUME NEW i \in 1 .. Cur
        PROVE  posted_bodies'[i] = Body(i, frames[i].len) /\ Valid(frames[i])
    <3>1. CASE i \in 1 .. Len(heap)
      BY <1>1, <1>2, <1>3, <3>1 DEF PostsExact
    <3>2. CASE i = Cur
      BY <1>3, <1>4, <3>2
    <3> QED
      BY <1>5, <3>1, <3>2
  <2> QED
    BY <1>4, <1>6, <2>1, <2>2 DEF PostsExact, Valid, InRange, Body, Byte
<1>8. SharedExact'
  <2>1. ASSUME NEW i \in 1 .. Cur
        PROVE  /\ i \notin continued' => /\ heap'[i].cur = frames[i].len
                                         /\ heap'[i].body = Body(i, frames[i].len)
               /\ heap'[i].cur <= frames[i].len
               /\ \A k \in 1 .. heap'[i].cur :
                     heap'[i].body[k] \in {Zero, Byte(i, HEAD_TOTAL_LEN + k)}
    <3>1. CASE i \in 1 .. Len(heap)
      BY <1>1, <1>3, <3>1 DEF SharedExact
    <3>2. CASE i = Cur
      <4>1. heap'[i] = nd
        BY <1>3, <1>4, <3>2
      <4>2. nd.cur <= frames[i].len
        BY <1>1, <3>2
      <4>3. \A k \in 1 .. nd.cur : nd.body[k] = Byte(i, HEAD_TOTAL_LEN + k)
        BY <3>2 DEF Body
      <4> QED
        BY <3>2, <4>1, <4>2, <4>3
    <3> QED
      BY <1>5, <3>1, <3>2
  <2> QED
    BY <1>4, <1>6, <2>1 DEF SharedExact, Body, Byte
<1>9. StringsExact'
  BY <1>1, <1>6 DEF StringsExact, Body, Byte
<1>10. Cur' = Cur + 1
  BY <1>4 DEF Cur
<1>11. E[Cur + 1] = E[Cur] + Total(Cur)
  BY <1>0 DEF IInv, Layout
<1> QED
  BY <1>3, <1>4, <1>7, <1>8, <1>9, <1>10, <1>11

(* A head and the first bytes of its body. *)
LEMMA ExactHeadBodyShort ==
    ASSUME NEW V, NEW E, IInv(V, E), ~confused, HeadBodyShort
    PROVE  Parse(E)' /\ SharedExact' /\ StringsExact'
<1> DEFINE from == copy_len + HeadRemain
           left == bytes - HeadRemain
<1>0. IInv(V, E) /\ ~confused /\ Bounded(V)
  BY DEF IInv
<1>1. PICK len \in 0 .. MAX_LENGTH :
         /\ HeadComplete([len |-> len, idok |-> TRUE])
         /\ left < len
         /\ copy_len' = from /\ bytes' = left
         /\ node' = [NewNode(len) EXCEPT !.cur = left,
                        !.body = SubSeq(data, from + 1, from + left)
                                 \o SubSeq(@, left + 1, len)]
         /\ head_parse' = TRUE /\ pc' = "reading" /\ NoPost
         /\ UNCHANGED <<frames, stream, taken, data, head, confused, delivered>>
  BY DEF HeadBodyShort
<1>2. pc = "loop" /\ ~head_parse /\ bytes >= HeadRemain
  BY <1>1 DEF HeadComplete
<1>3. /\ Cur \in 1 .. Len(frames)
      /\ [len |-> len, idok |-> TRUE] = frames[Cur]
      /\ \A k \in 1 .. frames[Cur].len : HeadRemain + k <= bytes =>
            /\ copy_len + HeadRemain + k \in 1 .. Len(data)
            /\ data[copy_len + HeadRemain + k] = Byte(Cur, HEAD_TOTAL_LEN + k)
  BY <1>0, <1>1, <1>2, HeadIs
<1>4. frames[Cur].len = len /\ Valid(frames[Cur])
  <2>1. 0 <= len /\ len <= MAX_LENGTH
    BY FramingAssumption DEF FramingAssumption
  <2>2. frames[Cur].len = len /\ frames[Cur].idok = TRUE
    BY <1>3
  <2> QED
    BY <2>1, <2>2 DEF Valid, InRange
<1>5. /\ HeadRemain \in Nat /\ bytes \in Nat /\ copy_len \in Nat /\ Len(head) \in Nat
      /\ Len(data) \in Nat /\ data \in Seq(V) /\ copy_len + bytes <= Len(data)
      /\ HEAD_TOTAL_LEN \in Nat /\ Len(head) + HeadRemain = HEAD_TOTAL_LEN
  <2>1. /\ bytes \in Nat /\ Len(head) \in Nat /\ copy_len \in Nat /\ Len(data) \in Nat
        /\ data \in Seq(V) /\ copy_len + bytes <= Len(data) /\ HEAD_TOTAL_LEN \in Nat
    BY <1>0, BoundedParts
  <2>2. HeadRemain \in Nat
    BY <1>0, HeadFacts
  <2>3. Len(head) + HeadRemain = HEAD_TOTAL_LEN
    BY <2>1 DEF HeadRemain
  <2> QED
    BY <2>1, <2>2, <2>3
<1>6. /\ from \in Nat /\ left \in Nat /\ from + left <= Len(data)
      /\ len \in Nat /\ left < len /\ left + HeadRemain = bytes
  BY <1>1, <1>2, <1>5
<1>7. \A k \in 1 .. left : data[from + k] = Byte(Cur, HEAD_TOTAL_LEN + k)
  <2>1. ASSUME NEW k \in 1 .. left PROVE data[from + k] = Byte(Cur, HEAD_TOTAL_LEN + k)
    <3>1. k \in 1 .. frames[Cur].len /\ HeadRemain + k <= bytes
      BY <1>4, <1>5, <1>6
    <3> QED
      BY <1>3, <3>1
  <2> QED
    BY <2>1
<1> HIDE DEF from, left
<1> DEFINE zeros == [k \in 1 .. len |-> Zero]
           first == SubSeq(data, from + 1, from + left)
           rest == SubSeq(zeros, left + 1, len)
<1>8. /\ first \in Seq(V) /\ Len(first) = left
      /\ \A k \in 1 .. left : first[k] = data[from + k]
  BY <1>5, <1>6
<1>9. rest \in Seq(V)
  <2>1. zeros \in Seq(V) /\ Len(zeros) = len
    BY <1>0, <1>6, ZeroBody DEF Bounded, TypeInv
  <2> HIDE DEF zeros
  <2> QED
    BY <1>6, <2>1
<1>10. node' = [total |-> len, cur |-> left, body |-> first \o rest]
  BY <1>1 DEF NewNode, zeros
<1> HIDE DEF first, rest
<1>11. /\ node'.total = len /\ node'.cur = left
       /\ \A k \in 1 .. left : node'.body[k] = Byte(Cur, HEAD_TOTAL_LEN + k)
  <2>1. \A k \in 1 .. left : (first \o rest)[k] = first[k]
    BY <1>8, <1>9, ConcatFacts
  <2> QED
    BY <1>7, <1>8, <1>10, <2>1
<1>12. (PostsExact /\ SharedExact /\ StringsExact)' /\ Cur' = Cur
  BY <1>0, <1>1, NothingPosted DEF NoPost
<1>13. Consumed' = HEAD_TOTAL_LEN + left /\ Pending' = 0 /\ Consumed = Len(head)
       /\ Pending = bytes
  BY <1>1, <1>2, <1>11 DEF Consumed, Pending
<1>14. InHandExact'
  <2>1. Cur' <= Len(frames')
    BY <1>1, <1>3, <1>12
  <2>2. frames'[Cur'] = frames[Cur] /\ head_parse' = TRUE
    BY <1>1, <1>12
  <2> QED
    BY <1>4, <1>11, <1>12, <2>1, <2>2 DEF InHandExact, Valid, InRange
<1>15. taken' = E[Cur'] + Consumed' + Pending'
  <2>1. E[Cur] \in Nat /\ taken = E[Cur] + Consumed + Pending
    BY <1>0, <1>2, ParseFacts DEF Parse
  <2>2. taken' = taken
    BY <1>1
  <2> QED
    BY <1>5, <1>6, <1>12, <1>13, <2>1, <2>2
<1> QED
  BY <1>1, <1>12, <1>14, <1>15 DEF Parse

(* A head and its whole body: the frame is posted. *)
LEMMA ExactHeadBodyFull ==
    ASSUME NEW V, NEW E, IInv(V, E), ~confused, HeadBodyFull
    PROVE  Parse(E)' /\ SharedExact' /\ StringsExact'
<1> DEFINE from == copy_len + HeadRemain
<1>0. IInv(V, E) /\ ~confused /\ Bounded(V)
  BY DEF IInv
<1>1. PICK len \in 0 .. MAX_LENGTH :
         /\ HeadComplete([len |-> len, idok |-> TRUE])
         /\ bytes - HeadRemain >= len
         /\ node' = [total |-> len, cur |-> len,
                     body |-> SubSeq(data, from + 1, from + len)]
         /\ copy_len' = from + len /\ bytes' = bytes - HeadRemain - len
         /\ Post(node') /\ head' = <<>>
         /\ pc' = (IF bytes' = 0 THEN "reading" ELSE "loop")
         /\ UNCHANGED <<frames, stream, taken, data, head_parse, continued,
                        confused, delivered>>
  BY DEF HeadBodyFull, RearmOr, AfterMessage
<1>2. pc = "loop" /\ ~head_parse /\ bytes >= HeadRemain
  BY <1>1 DEF HeadComplete
<1>3. /\ Cur \in 1 .. Len(frames)
      /\ [len |-> len, idok |-> TRUE] = frames[Cur]
      /\ \A k \in 1 .. frames[Cur].len : HeadRemain + k <= bytes =>
            /\ copy_len + HeadRemain + k \in 1 .. Len(data)
            /\ data[copy_len + HeadRemain + k] = Byte(Cur, HEAD_TOTAL_LEN + k)
  BY <1>0, <1>1, <1>2, HeadIs
<1>4. frames[Cur].len = len /\ Valid(frames[Cur])
  <2>1. 0 <= len /\ len <= MAX_LENGTH
    BY FramingAssumption DEF FramingAssumption
  <2>2. frames[Cur].len = len /\ frames[Cur].idok = TRUE
    BY <1>3
  <2> QED
    BY <2>1, <2>2 DEF Valid, InRange
<1>5. /\ HeadRemain \in Nat /\ bytes \in Nat /\ copy_len \in Nat /\ Len(head) \in Nat
      /\ Len(data) \in Nat /\ data \in Seq(V) /\ copy_len + bytes <= Len(data)
      /\ HEAD_TOTAL_LEN \in Nat /\ Len(head) + HeadRemain = HEAD_TOTAL_LEN
  <2>1. /\ bytes \in Nat /\ Len(head) \in Nat /\ copy_len \in Nat /\ Len(data) \in Nat
        /\ data \in Seq(V) /\ copy_len + bytes <= Len(data) /\ HEAD_TOTAL_LEN \in Nat
    BY <1>0, BoundedParts
  <2>2. HeadRemain \in Nat
    BY <1>0, HeadFacts
  <2>3. Len(head) + HeadRemain = HEAD_TOTAL_LEN
    BY <2>1 DEF HeadRemain
  <2> QED
    BY <2>1, <2>2, <2>3
<1>6. /\ from \in Nat /\ from + len <= Len(data) /\ len \in Nat
      /\ bytes' \in Nat /\ HeadRemain + len + bytes' = bytes
  <2>1. bytes - HeadRemain >= len /\ bytes' = bytes - HeadRemain - len
    BY <1>1
  <2>2. len \in Nat
    OBVIOUS
  <2> QED
    BY <1>2, <1>5, <2>1, <2>2
<1>7. \A k \in 1 .. len : data[from + k] = Byte(Cur, HEAD_TOTAL_LEN + k)
  <2>1. ASSUME NEW k \in 1 .. len PROVE data[from + k] = Byte(Cur, HEAD_TOTAL_LEN + k)
    <3>1. k \in 1 .. frames[Cur].len /\ HeadRemain + k <= bytes
      BY <1>4, <1>5, <1>6
    <3> QED
      BY <1>3, <3>1
  <2> QED
    BY <2>1
<1> HIDE DEF from
<1> DEFINE body == SubSeq(data, from + 1, from + len)
<1>8. /\ body \in Seq(V) /\ Len(body) = len
      /\ \A k \in 1 .. len : body[k] = data[from + k]
  BY <1>5, <1>6
<1>9. node' = [total |-> len, cur |-> len, body |-> body]
  BY <1>1
<1> HIDE DEF body
<1>10. body = Body(Cur, len)
  BY <1>6, <1>7, <1>8, IsBody
<1>11. node' \in NodeSet(V) /\ node'.total = len /\ node'.cur = len /\ node'.body = body
  BY <1>6, <1>8, <1>9 DEF NodeSet
<1>12. /\ PostsExact' /\ SharedExact' /\ StringsExact'
       /\ Cur' = Cur + 1 /\ E[Cur'] = E[Cur] + Total(Cur)
  <2>1. /\ Post(node') /\ continued \subseteq continued'
        /\ UNCHANGED <<frames, stream, delivered>>
    BY <1>1
  <2>2. /\ node'.total = frames[Cur].len /\ node'.cur = frames[Cur].len
        /\ node'.body = Body(Cur, frames[Cur].len)
    BY <1>4, <1>10, <1>11
  <2> QED
    BY <1>0, <1>3, <1>4, <1>11, <2>1, <2>2, PostExact
<1>13. head_parse' = FALSE /\ Len(head') = 0
  <2>1. head_parse \in BOOLEAN
    BY <1>0, BoundedParts
  <2> QED
    BY <1>1, <1>2, <2>1
<1>14. Consumed' = 0 /\ Pending' = bytes' /\ Consumed = Len(head) /\ Pending = bytes
  <2>1. Consumed' = 0 /\ Consumed = Len(head) /\ Pending = bytes
    BY <1>2, <1>13 DEF Consumed, Pending
  <2>2. Pending' = bytes'
    BY <1>1 DEF Pending
  <2> QED
    BY <2>1, <2>2
<1>15. InHandExact'
  BY <1>13, <1>14 DEF InHandExact
<1>16. taken' = E[Cur'] + Consumed' + Pending'
  <2>1. E[Cur] \in Nat /\ taken = E[Cur] + Consumed + Pending
    BY <1>0, <1>2, ParseFacts DEF Parse
  <2>2. taken' = taken
    BY <1>1
  <2>3. Total(Cur) = HEAD_TOTAL_LEN + len
    BY <1>0, <1>3, <1>4, <1>6, ParseFacts
  <2>4. E[Cur'] = E[Cur] + (HEAD_TOTAL_LEN + len)
    BY <1>12, <2>3
  <2>5. taken = E[Cur] + Len(head) + bytes /\ taken \in Nat
    <3>1. taken \in Nat
      BY <1>0, ParseFacts
    <3> QED
      BY <1>14, <2>1, <3>1
  <2>6. taken = E[Cur] + (HEAD_TOTAL_LEN + len) + 0 + bytes'
    <3>1. PICK left \in Nat : left = bytes' /\ HeadRemain + len + left = bytes
      BY <1>6
    <3>2. /\ len \in Nat
          /\ Len(head) + HeadRemain = HEAD_TOTAL_LEN /\ HeadRemain \in Nat /\ bytes \in Nat
          /\ Len(head) \in Nat /\ HEAD_TOTAL_LEN \in Nat /\ E[Cur] \in Nat
      BY <1>5, <1>6, <2>1
    <3>3. HeadRemain + len + left = bytes
      BY <3>1
    <3>4. Len(head) + bytes = HEAD_TOTAL_LEN + (len + left)
      BY <3>2, <3>3
    <3>5. taken = E[Cur] + (HEAD_TOTAL_LEN + len) + 0 + left
      BY <2>5, <3>2, <3>4
    <3> QED
      BY <3>1, <3>5
  <2> QED
    BY <1>14, <2>2, <2>4, <2>6
<1>17. DataExact'
  <2>1. DataExact
    BY <1>0, <1>2, ParseFacts DEF Parse
  <2>2. copy_len + bytes = Len(data)
    BY <2>1 DEF DataExact
  <2>3. copy_len' = copy_len + HeadRemain + len
    BY <1>1 DEF from
  <2>4. copy_len' + bytes' = Len(data)
    <3>1. PICK left \in Nat : left = bytes' /\ HeadRemain + len + left = bytes
      BY <1>6
    <3>2. HeadRemain \in Nat /\ bytes \in Nat /\ copy_len \in Nat /\ len \in Nat
      BY <1>5, <1>6
    <3>3. HeadRemain + len + left = bytes
      BY <3>1
    <3>4. copy_len + HeadRemain + len + left = copy_len + (HeadRemain + len + left)
      BY <3>2
    <3> QED
      BY <2>2, <2>3, <3>1, <3>3, <3>4
  <2>5. data' = data /\ taken' = taken /\ stream' = stream
    BY <1>1
  <2> QED
    BY <2>1, <2>4, <2>5 DEF DataExact
<1>18. pc' \in {"reading", "loop"}
  BY <1>1
<1> QED
  BY <1>12, <1>15, <1>16, <1>17, <1>18 DEF Parse

(* The rest of a body that was begun in an earlier read.  Only when it is  *)
(* also all that was received does HandleRead keep its place.              *)
LEMMA ExactBodyFull ==
    ASSUME NEW V, NEW E, IInv(V, E), ~confused, BodyFull, ~confused'
    PROVE  Parse(E)' /\ SharedExact' /\ StringsExact'
<1>0. IInv(V, E) /\ ~confused /\ Bounded(V)
  BY DEF IInv
<1>1. /\ pc = "loop" /\ head_parse /\ ~Fewer(bytes, Remain)
      /\ node' = [node EXCEPT !.cur = node.cur + Remain, !.body = CopyInto(node, Remain)]
      /\ bytes' = bytes - Remain
      /\ Post(node') /\ head' = <<>> /\ head_parse' = FALSE /\ pc' = "clearing"
      /\ continued' = continued \cup {Len(posted_bodies')}
      /\ confused' = (confused \/ bytes' > 0)
      /\ UNCHANGED <<frames, stream, taken, data, copy_len, delivered>>
  BY DEF BodyFull, BodyLength
<1>2. /\ node.total \in Nat /\ node.cur \in Nat /\ node.body \in Seq(V) /\ Remain \in Nat
      /\ node.cur + Remain = node.total /\ bytes \in Nat /\ copy_len \in Nat
      /\ Len(data) \in Nat /\ HEAD_TOTAL_LEN \in Nat
      /\ node = [total |-> node.total, cur |-> node.cur, body |-> node.body]
  <2>1. /\ node.total \in Nat /\ node.cur \in Nat /\ node.body \in Seq(V) /\ Remain \in Nat
        /\ node = [total |-> node.total, cur |-> node.cur, body |-> node.body]
    BY <1>0, Placed, NodeFacts
  <2>2. node.cur + Remain = node.total
    BY <2>1 DEF Remain
  <2>3. bytes \in Nat /\ copy_len \in Nat /\ Len(data) \in Nat /\ HEAD_TOTAL_LEN \in Nat
    BY <1>0, BoundedParts
  <2> QED
    BY <2>1, <2>2, <2>3
<1>3. bytes' = 0 /\ bytes = Remain
  <2>1. ~(bytes' > 0)
    BY <1>1
  <2>3. bytes \in Nat /\ Remain \in Nat
    BY <1>2
  <2>2. bytes' = bytes - Remain /\ bytes >= Remain
    BY <1>1, <2>3 DEF Fewer
  <2> QED
    BY <2>1, <2>2, <2>3
<1>4. InHandExact /\ taken = E[Cur] + Consumed + bytes
  BY <1>0, <1>1, ParseFacts DEF Parse, Pending
<1>5. Consumed = HEAD_TOTAL_LEN + node.cur
  BY <1>1 DEF Consumed
<1>6. /\ Cur \in 1 .. Len(frames) /\ Valid(frames[Cur]) /\ node.total = frames[Cur].len
      /\ \A k \in 1 .. node.cur : node.body[k] = Byte(Cur, HEAD_TOTAL_LEN + k)
  <2>1. Cur \in Nat /\ Cur \in 1 .. Len(frames) + 1 /\ Len(frames) \in Nat
        /\ HEAD_TOTAL_LEN > 0
    BY <1>0, ParseFacts
  <2>2. Consumed > 0
    BY <1>2, <1>5, <2>1
  <2>3. Cur <= Len(frames)
    BY <1>4, <2>2 DEF InHandExact
  <2>4. Cur \in 1 .. Len(frames)
    BY <2>1, <2>3
  <2> QED
    BY <1>1, <1>4, <2>4 DEF InHandExact
<1>7. \A k \in 1 .. Remain : Chunk(Remain)[k] = Byte(Cur, HEAD_TOTAL_LEN + (node.cur + k))
  <2>1. ASSUME NEW k \in 1 .. Remain
        PROVE  Chunk(Remain)[k] = Byte(Cur, HEAD_TOTAL_LEN + (node.cur + k))
    <3>1. bytes > 0 /\ k \in 1 .. bytes
      BY <1>2, <1>3, <2>1
    <3>2. \A j \in 1 .. bytes : Consumed + j <= Total(Cur) =>
             /\ copy_len + j \in 1 .. Len(data)
             /\ data[copy_len + j] = Byte(Cur, Consumed + j)
      BY <1>0, <1>1, <3>1, NextBytes
    <3>3. /\ Consumed + k <= Total(Cur)
          /\ Consumed + k = HEAD_TOTAL_LEN + (node.cur + k)
      <4>1. Total(Cur) = HEAD_TOTAL_LEN + node.total
        BY <1>0, <1>2, <1>6, ParseFacts
      <4> QED
        BY <1>2, <1>5, <2>1, <4>1
    <3>4. /\ copy_len + k <= Len(data)
          /\ data[copy_len + k] = Byte(Cur, HEAD_TOTAL_LEN + (node.cur + k))
      BY <3>1, <3>2, <3>3
    <3> QED
      BY <2>1, <3>4 DEF Chunk
  <2> QED
    BY <2>1
<1> DEFINE body == CopyInto(node, Remain)
<1>8. body \in Seq(V) /\ Len(body) = node.total
  <2>1. Remain \in 0 .. Remain
    BY <1>2
  <2> QED
    BY <1>0, <2>1, Placed, CopyType
<1>9. ASSUME NEW k \in 1 .. node.total PROVE body[k] = Byte(Cur, HEAD_TOTAL_LEN + k)
  <2>1. CASE k \in node.cur + 1 .. node.cur + Remain
    <3>1. PICK j \in 1 .. Remain : k = node.cur + j /\ k - node.cur = j
      <4>1. k - node.cur \in 1 .. Remain /\ k = node.cur + (k - node.cur)
        BY <1>2, <1>9, <2>1
      <4> QED
        BY <4>1
    <3>2. body[k] = Chunk(Remain)[k - node.cur]
      BY <1>9, <2>1 DEF CopyInto
    <3> QED
      BY <1>7, <3>1, <3>2
  <2>2. CASE k \notin node.cur + 1 .. node.cur + Remain
    <3>1. k \in 1 .. node.cur
      BY <1>2, <1>9, <2>2
    <3>2. body[k] = node.body[k]
      BY <1>9, <2>2 DEF CopyInto
    <3> QED
      BY <1>6, <3>1, <3>2
  <2> QED
    BY <2>1, <2>2
<1> HIDE DEF body
<1>10. body = Body(Cur, frames[Cur].len)
  BY <1>2, <1>6, <1>8, <1>9, IsBody
<1>11. node' = [total |-> node.total, cur |-> node.total, body |-> body]
  BY <1>1, <1>2 DEF body
<1>12. /\ node' \in NodeSet(V) /\ node'.total = node.total /\ node'.cur = node.total
       /\ node'.body = body
  BY <1>2, <1>8, <1>11 DEF NodeSet
<1>13. /\ PostsExact' /\ SharedExact' /\ StringsExact'
       /\ Cur' = Cur + 1 /\ E[Cur'] = E[Cur] + Total(Cur)
       /\ Len(posted_bodies') = Len(heap')
  <2>1. /\ Post(node') /\ continued \subseteq continued'
        /\ UNCHANGED <<frames, stream, delivered>>
    BY <1>1
  <2>2. /\ node'.total = frames[Cur].len /\ node'.cur = frames[Cur].len
        /\ node'.body = Body(Cur, frames[Cur].len)
    BY <1>6, <1>10, <1>12
  <2> QED
    BY <1>0, <1>6, <1>12, <2>1, <2>2, PostExact
<1>14. Consumed' = 0 /\ Pending' = 0 /\ Len(head') = 0
  BY <1>1 DEF Consumed, Pending
<1>15. InHandExact'
  BY <1>1, <1>14 DEF InHandExact
<1>16. taken' = E[Cur'] + Consumed' + Pending'
  <2>1. E[Cur] \in Nat
    BY <1>0, <1>6, ParseFacts
  <2>2. Total(Cur) = HEAD_TOTAL_LEN + node.total
    BY <1>0, <1>2, <1>6, ParseFacts
  <2>3. taken' = taken
    BY <1>1
  <2>4. E[Cur'] = E[Cur] + (HEAD_TOTAL_LEN + node.total)
    BY <1>13, <2>2
  <2>5. taken = E[Cur] + (HEAD_TOTAL_LEN + node.total)
    <3>1. taken = E[Cur] + (HEAD_TOTAL_LEN + node.cur) + Remain
      BY <1>3, <1>4, <1>5
    <3>2. /\ node.cur + Remain = node.total /\ node.cur \in Nat /\ Remain \in Nat
          /\ HEAD_TOTAL_LEN \in Nat
      BY <1>2
    <3> QED
      BY <2>1, <3>1, <3>2
  <2>6. HEAD_TOTAL_LEN + node.total \in Nat
    BY <1>2
  <2> QED
    BY <1>14, <2>1, <2>3, <2>4, <2>5, <2>6
<1>17. Len(heap') \in continued'
  BY <1>1, <1>13
<1> QED
  BY <1>1, <1>3, <1>13, <1>15, <1>16, <1>17 DEF Parse

(* Clear works on a node whose body came in two reads. *)
LEMMA ExactClear ==
    ASSUME NEW V, NEW E, IInv(V, E), ~confused, ClearData \/ ClearLen
    PROVE  Parse(E)' /\ SharedExact' /\ StringsExact'
<1> DEFINE n == Len(heap)
           last == heap[n]
<1>0. IInv(V, E) /\ ~confused /\ Bounded(V)
  BY DEF IInv
<1>1. /\ pc \in {"clearing", "cleared_data"}
      /\ UNCHANGED <<frames, stream, taken, data, bytes, copy_len, head_parse, head, node,
                     posted_bodies, continued, confused, delivered>>
  BY DEF ClearData, ClearLen
<1>2. /\ PostsExact /\ SharedExact /\ StringsExact
      /\ InHandExact /\ taken = E[Cur] + Consumed + Pending
      /\ bytes = 0 /\ head = <<>> /\ n \in continued
  BY <1>0, <1>1, ParseFacts DEF Parse
<1>3. pc' \in {"cleared_data", "reading"}
  BY <1>2 DEF ClearData, ClearLen
<1>4. n \in 1 .. n /\ n \in Nat
  BY <1>0, <1>2 DEF Bounded, TypeInv
<1>5. heap \in Seq(NodeSet(V)) /\ last \in NodeSet(V)
  BY <1>0, <1>4 DEF Bounded, TypeInv
<1>6. /\ last.cur \in Nat /\ last.total \in Nat /\ last.cur <= last.total
      /\ last.body \in Seq(V) /\ Len(last.body) = last.total
      /\ last = [total |-> last.total, cur |-> last.cur, body |-> last.body]
  <2>1. last.cur <= last.total
    BY <1>0, <1>4 DEF Bounded, InBounds
  <2> QED
    BY <1>5, <2>1 DEF NodeSet
<1>7. \E nd : /\ heap' = [heap EXCEPT ![n] = nd]
              /\ nd.cur <= last.cur /\ nd.cur \in Nat
              /\ \A k \in 1 .. nd.cur : nd.body[k] \in {Zero, last.body[k]}
  <2>1. CASE ClearData
    <3> DEFINE zeros == [k \in DOMAIN last.body |-> Zero]
               nd == [total |-> last.total, cur |-> last.cur, body |-> zeros]
    <3>1. heap' = [heap EXCEPT ![n] = [last EXCEPT !.body = zeros]]
      BY <2>1 DEF ClearData
    <3>2. [last EXCEPT !.body = zeros] = nd
      <4> HIDE DEF last, zeros
      <4> QED
        BY <1>5, NodeExcept
    <3>3. \A k \in 1 .. last.cur : zeros[k] = Zero
      <4>1. DOMAIN last.body = 1 .. last.total
        BY <1>6
      <4> QED
        BY <1>6, <4>1
    <3> HIDE DEF zeros, last
    <3>4. nd.cur = last.cur /\ nd.body = zeros
      OBVIOUS
    <3> HIDE DEF nd
    <3>5. nd.cur <= last.cur /\ nd.cur \in Nat
      BY <1>6, <3>4
    <3>6. \A k \in 1 .. nd.cur : nd.body[k] = Zero
      BY <3>3, <3>4
    <3> QED
      BY <3>1, <3>2, <3>5, <3>6
  <2>2. CASE ClearLen
    <3> DEFINE nd == [total |-> last.total, cur |-> 0, body |-> last.body]
    <3>1. heap' = [heap EXCEPT ![n] = [last EXCEPT !.cur = 0]]
      BY <2>2 DEF ClearLen
    <3>2. [last EXCEPT !.cur = 0] = nd
      BY <1>6
    <3>3. nd.cur <= last.cur /\ nd.cur \in Nat
      BY <1>6
    <3>4. \A k \in 1 .. nd.cur : nd.body[k] \in {Zero, last.body[k]}
      OBVIOUS
    <3> QED
      BY <3>1, <3>2, <3>3, <3>4
  <2> QED
    BY <2>1, <2>2
<1>8. PICK nd : /\ heap' = [heap EXCEPT ![n] = nd]
                /\ nd.cur <= last.cur /\ nd.cur \in Nat
                /\ \A k \in 1 .. nd.cur : nd.body[k] \in {Zero, last.body[k]}
  BY <1>7
<1>9. /\ Len(heap') = n /\ heap'[n] = nd
      /\ \A i \in 1 .. n : i # n => heap'[i] = heap[i]
  BY <1>4, <1>5, <1>8
<1>10. SharedExact'
  <2>1. ASSUME NEW i \in 1 .. n
        PROVE  /\ i \notin continued => /\ heap'[i].cur = frames[i].len
                                        /\ heap'[i].body = Body(i, frames[i].len)
               /\ heap'[i].cur <= frames[i].len
               /\ \A k \in 1 .. heap'[i].cur :
                     heap'[i].body[k] \in {Zero, Byte(i, HEAD_TOTAL_LEN + k)}
    <3>1. CASE i # n
      BY <1>2, <1>9, <3>1 DEF SharedExact
    <3>2. CASE i = n
      <4>1. /\ last.cur <= frames[n].len
            /\ \A k \in 1 .. last.cur : last.body[k] \in {Zero, Byte(n, HEAD_TOTAL_LEN + k)}
        BY <1>2, <1>4 DEF SharedExact
      <4>2. frames[n].len \in Nat
        <5>1. n \in 1 .. Len(frames)
          <6>1. Len(posted_bodies) = n
            BY <1>0 DEF Bounded, TypeInv
          <6>2. Len(frames) \in Nat
            BY <1>0, ParseFacts
          <6> QED
            BY <1>2, <1>4, <6>1, <6>2 DEF PostsExact
        <5>2. Valid(frames[n])
          <6>1. Len(posted_bodies) = n
            BY <1>0 DEF Bounded, TypeInv
          <6> QED
            BY <1>2, <1>4, <6>1 DEF PostsExact
        <5> HIDE DEF n
        <5> QED
          BY <1>0, <5>1, <5>2, ParseFacts
      <4> HIDE DEF last, n
      <4>3. nd.cur <= frames[n].len
        BY <1>6, <1>8, <4>1, <4>2
      <4>4. \A k \in 1 .. nd.cur : k \in 1 .. last.cur
        BY <1>6, <1>8
      <4>5. \A k \in 1 .. nd.cur : nd.body[k] \in {Zero, Byte(n, HEAD_TOTAL_LEN + k)}
        BY <1>8, <4>1, <4>4
      <4> QED
        BY <1>2, <1>9, <3>2, <4>3, <4>5
    <3> QED
      BY <3>1, <3>2
  <2>2. frames' = frames /\ continued' = continued
    BY <1>1
  <2> QED
    BY <1>9, <2>1, <2>2 DEF SharedExact, Body, Byte
<1>11. PostsExact'
  BY <1>1, <1>2 DEF PostsExact, Valid, InRange
<1>12. StringsExact'
  BY <1>1, <1>2 DEF StringsExact
<1>13. Cur' = Cur /\ Consumed' = Consumed /\ Pending' = Pending
  BY <1>1, <1>3 DEF Cur, Consumed, Pending
<1>14. InHandExact'
  BY <1>1, <1>2, <1>13 DEF InHandExact, Valid, InRange
<1>15. taken' = E[Cur'] + Consumed' + Pending'
  BY <1>1, <1>2, <1>13
<1>16. bytes' = 0 /\ head' = <<>> /\ Len(heap') \in continued'
  BY <1>1, <1>2, <1>9
<1> QED
  BY <1>3, <1>10, <1>11, <1>12, <1>14, <1>15, <1>16 DEF Parse

(* The logic thread copies a node: one that Clear cannot touch is whole. *)
LEMMA ExactDeal ==
    ASSUME NEW V, NEW E, IInv(V, E), ~confused, DealNode
    PROVE  Parse(E)' /\ SharedExact' /\ StringsExact'
<1> DEFINE i == Len(delivered) + 1
           nd == heap[i]
<1>0. IInv(V, E) /\ ~confused /\ Bounded(V)
  BY DEF IInv
<1>1. UNCHANGED <<frames, stream, taken, data, bytes, copy_len, head_parse, head, node,
                  pc, heap, posted_bodies, continued, confused>>
  BY DEF DealNode
<1>2. Parse(E) /\ SharedExact /\ StringsExact
  BY <1>0, ParseFacts
<1>3. /\ heap \in Seq(NodeSet(V)) /\ Len(heap) \in Nat /\ Len(delivered) \in Nat
      /\ delivered \in Seq(Seq(V)) /\ Len(delivered) < Len(heap)
  BY <1>0 DEF Bounded, TypeInv, DealNode
<1>4. i \in 1 .. Len(heap) /\ i \in Nat
  BY <1>3
<1>5. PICK lost \in IF Overrun \/ (pc = "clearing" /\ i = Len(heap))
                    THEN SUBSET (1 .. nd.cur) ELSE {{}} :
         delivered' = Append(delivered, [k \in 1 .. nd.cur |->
                         IF k \in lost THEN Zero ELSE nd.body[k]])
  BY DEF DealNode
<1> DEFINE str == [k \in 1 .. nd.cur |-> IF k \in lost THEN Zero ELSE nd.body[k]]
<1>6. /\ i \notin continued => nd.cur = frames[i].len /\ nd.body = Body(i, frames[i].len)
      /\ nd.cur <= frames[i].len
      /\ \A k \in 1 .. nd.cur : nd.body[k] \in {Zero, Byte(i, HEAD_TOTAL_LEN + k)}
  BY <1>2, <1>4 DEF SharedExact
<1>7. nd.cur \in Nat
  BY <1>3, <1>4 DEF NodeSet
<1>8. frames[i].len \in Nat
  <2>0. i \in 1 .. Len(posted_bodies)
    BY <1>0, <1>4 DEF Bounded, TypeInv
  <2>2. Valid(frames[i])
    BY <1>2, <2>0 DEF Parse, PostsExact
  <2>1. i \in 1 .. Len(frames)
    <3>1. Len(posted_bodies) = Len(heap) /\ Len(posted_bodies) <= Len(frames)
      BY <1>0, <1>2 DEF Bounded, TypeInv, Parse, PostsExact
    <3>2. Len(frames) \in Nat
      BY <1>0, ParseFacts
    <3> QED
      BY <1>3, <1>4, <3>1, <3>2
  <2> HIDE DEF i
  <2> QED
    BY <1>0, <2>1, <2>2, ParseFacts
<1>9. i \notin continued => str = Body(i, frames[i].len)
  <2>1. ASSUME i \notin continued PROVE str = Body(i, frames[i].len)
    <3>1. ~(pc = "clearing" /\ i = Len(heap))
      BY <1>2, <2>1 DEF Parse
    <3>2. lost = {}
      BY <1>0, <1>5, <3>1, Placed
    <3>3. nd.cur = frames[i].len /\ nd.body = Body(i, frames[i].len)
      BY <1>6, <2>1
    <3> HIDE DEF nd, i
    <3>4. str = [k \in 1 .. frames[i].len |-> Body(i, frames[i].len)[k]]
      BY <3>2, <3>3
    <3> QED
      BY <3>4 DEF Body
  <2> QED
    BY <2>1
<1>10. \A k \in DOMAIN str : /\ k \in 1 .. frames[i].len
                             /\ str[k] \in {Zero, Byte(i, HEAD_TOTAL_LEN + k)}
  <2> HIDE DEF nd, i
  <2>1. ASSUME NEW k \in 1 .. nd.cur
        PROVE  /\ k \in 1 .. frames[i].len
               /\ str[k] \in {Zero, Byte(i, HEAD_TOTAL_LEN + k)}
    <3>1. k \in 1 .. frames[i].len
      BY <1>6, <1>7, <1>8, <2>1
    <3>2. str[k] = IF k \in lost THEN Zero ELSE nd.body[k]
      BY <2>1
    <3> QED
      BY <1>6, <2>1, <3>1, <3>2
  <2>2. DOMAIN str = 1 .. nd.cur
    OBVIOUS
  <2> QED
    BY <2>1, <2>2
<1>11. delivered' = Append(delivered, str)
  BY <1>5
<1> HIDE DEF str, nd
<1>12. /\ Len(delivered') = Len(delivered) + 1 /\ delivered'[Len(delivered) + 1] = str
       /\ \A j \in 1 .. Len(delivered) : delivered'[j] = delivered[j]
  BY <1>3, <1>11
<1>13. StringsExact'
  <2>1. ASSUME NEW j \in 1 .. Len(delivered')
        PROVE  \/ delivered'[j] = Body(j, frames[j].len)
               \/ /\ j \in continued
                  /\ \A k \in DOMAIN delivered'[j] :
                        /\ k \in 1 .. frames[j].len
                        /\ delivered'[j][k] \in {Zero, Byte(j, HEAD_TOTAL_LEN + k)}
    <3>1. j \in 1 .. Len(delivered) \/ j = i
      BY <1>3, <1>12, <2>1
    <3>2. CASE j \in 1 .. Len(delivered)
      BY <1>2, <1>12, <3>2 DEF StringsExact
    <3>3. CASE j = i
      <4>1. delivered'[j] = str
        BY <1>12, <3>3
      <4> HIDE DEF i
      <4> QED
        BY <1>9, <1>10, <3>3, <4>1
    <3> QED
      BY <3>1, <3>2, <3>3
  <2>2. frames' = frames /\ continued' = continued
    BY <1>1
  <2> QED
    BY <2>1, <2>2 DEF StringsExact, Body, Byte
<1>14. SharedExact'
  BY <1>1, <1>2 DEF SharedExact
<1>15. PostsExact' /\ InHandExact' = InHandExact
  BY <1>1, <1>2 DEF Parse, PostsExact, Valid, InRange, InHandExact, Consumed, Cur
<1>16. Cur' = Cur /\ Consumed' = Consumed /\ Pending' = Pending /\ DataExact' = DataExact
  BY <1>1 DEF Cur, Consumed, Pending, DataExact
<1>17. Parse(E)'
  BY <1>1, <1>2, <1>15, <1>16 DEF Parse
<1> QED
  BY <1>13, <1>14, <1>17

(* Where the frames begin does not change. *)
LEMMA LayoutKept ==
    ASSUME NEW E, Layout(E), [RecvNext]_recvVars
    PROVE  Layout(E)'
<1>1. frames' = frames /\ stream' = stream
  BY DEF RecvNext, Pass, recvVars, HandleRead, ReadError, HeadShort, HeadInvalid, HeadThrows, HeadOverrun,
         HeadBodyShort, HeadBodyFull, BodyShort, BodyFull, ClearData, ClearLen, DealNode
<1> QED
  BY <1>1 DEF Layout, Total, Byte

(* A body that takes a third read loses the place for good. *)
LEMMA ExactStep ==
    ASSUME NEW V, NEW E, IInv(V, E), [RecvNext]_recvVars
    PROVE  Exact(E)'
<1>1. CASE confused
  <2>1. confused'
    BY <1>1 DEF RecvNext, Pass, recvVars, HandleRead, ReadError, HeadShort, HeadInvalid,
                HeadThrows, HeadOverrun, HeadBodyShort, HeadBodyFull, BodyShort, BodyFull, ClearData, ClearLen, DealNode
  <2> QED
    BY <2>1 DEF Exact
<1>2. CASE ~confused /\ confused'
  BY <1>2 DEF Exact
<1>3. CASE ~confused /\ ~confused'
  <2> SUFFICES Parse(E)' /\ SharedExact' /\ StringsExact'
    BY DEF Exact
  <2>1. CASE \E n \in 1 .. MAX_LENGTH : HandleRead(n)
    BY <1>3, <2>1, ExactRead
  <2>2. CASE ReadError \/ HeadInvalid \/ HeadThrows
    BY <1>3, <2>2, ExactEnd
  <2>3. CASE HeadShort
    BY <1>3, <2>3, ExactHeadShort
  <2>4. CASE HeadBodyShort
    BY <1>3, <2>4, ExactHeadBodyShort
  <2>5. CASE HeadBodyFull
    BY <1>3, <2>5, ExactHeadBodyFull
  <2>6. CASE BodyShort
    BY <1>3, <2>6 DEF BodyShort
  <2>7. CASE BodyFull
    BY <1>3, <2>7, ExactBodyFull
  <2>8. CASE ClearData \/ ClearLen
    BY <1>3, <2>8, ExactClear
  <2>9. CASE DealNode
    BY <1>3, <2>9, ExactDeal
  <2>11. CASE HeadOverrun
    BY <1>3, <2>11 DEF HeadOverrun
  <2>10. CASE UNCHANGED recvVars
    <3>1. Parse(E) /\ SharedExact /\ StringsExact
      BY <1>3 DEF IInv, Exact
    <3>2. Cur' = Cur /\ Consumed' = Consumed /\ Pending' = Pending
      BY <2>10 DEF recvVars, Cur, Consumed, Pending
    <3>3. DataExact' = DataExact
      BY <2>10 DEF recvVars, DataExact
    <3>4. InHandExact' = InHandExact
      BY <2>10, <3>2 DEF recvVars, InHandExact, Valid, InRange
    <3>5. PostsExact' = PostsExact
      BY <2>10 DEF recvVars, PostsExact, Valid, InRange
    <3>6. Parse(E)'
      BY <2>10, <3>1, <3>2, <3>3, <3>4, <3>5 DEF recvVars, Parse
    <3>7. SharedExact'
      BY <2>10, <3>1 DEF recvVars, SharedExact
    <3>8. StringsExact'
      BY <2>10, <3>1 DEF recvVars, StringsExact
    <3> QED
      BY <3>6, <3>7, <3>8
  <2> QED
    BY <2>1, <2>2, <2>3, <2>4, <2>5, <2>6, <2>7, <2>8, <2>9, <2>10, <2>11 DEF RecvNext, Pass
<1> QED
  BY <1>1, <1>2, <1>3

(* Nothing is received at first, and the stream has a layout. *)
LEMMA ExactInit ==
    ASSUME RecvInit PROVE \E V, E : IInv(V, E)
<1>1. PICK V : Bounded(V)
  BY BoundedInit
<1>2. frames \in Seq(Frame)
  BY FramingAssumption DEF RecvInit, FramingAssumption
<1>3. PICK E : Layout(E)
  BY <1>2, StreamLayout DEF RecvInit
<1>4. /\ taken = 0 /\ head_parse = FALSE /\ head = <<>> /\ pc = "reading" /\ heap = <<>>
      /\ posted_bodies = <<>> /\ continued = {} /\ delivered = <<>>
  BY DEF RecvInit
<1>5. Cur = 1 /\ Consumed = 0 /\ Pending = 0
  BY <1>4 DEF Cur, Consumed, Pending
<1>6. E[1] = 0
  BY <1>3 DEF Layout
<1>7. PostsExact /\ SharedExact /\ StringsExact
  <2>1. Len(frames) \in Nat
    BY <1>2
  <2> QED
    BY <1>4, <2>1 DEF PostsExact, SharedExact, StringsExact
<1>8. InHandExact
  BY <1>4, <1>5 DEF InHandExact
<1>9. Parse(E)
  BY <1>4, <1>5, <1>6, <1>7, <1>8 DEF Parse
<1> QED
  BY <1>1, <1>3, <1>7, <1>9 DEF IInv, Exact

(* The inductive invariant: while HandleRead has its place, the bytes not  *)
(* consumed begin after those of the frame in hand that are, what it holds *)
(* of that frame is its own bytes, and every posted node is a whole frame  *)
(* until Clear gets at it.                                                 *)
THEOREM Invariance == RecvSpec => [](\E V, E : IInv(V, E))
<1>1. RecvInit => \E V, E : IInv(V, E)
  BY ExactInit
<1>2. (\E V, E : IInv(V, E)) /\ [RecvNext]_recvVars => (\E V, E : IInv(V, E))'
  <2>1. ASSUME NEW V, NEW E, IInv(V, E), [RecvNext]_recvVars PROVE IInv(V, E)'
    BY <2>1, BoundedStep, LayoutKept, ExactStep DEF IInv
  <2> QED
    BY <2>1
<1> QED
  BY <1>1, <1>2, PTL DEF RecvSpec

(* HandleRead posts the frames of the stream, whole and in order, however  *)
(* the reads cut and glue them, as long as it keeps its place.             *)
THEOREM FramesPosted == RecvSpec => []PostedExact
<1>1. ASSUME NEW V, NEW E, IInv(V, E) PROVE PostedExact
  <2>1. CASE confused
    BY <2>1 DEF PostedExact
  <2>2. CASE ~confused
    <3>1. PostsExact /\ Len(posted_bodies) \in Nat
      BY <1>1, <2>2, ParseFacts DEF Parse
    <3>2. \A i \in 1 .. Len(posted_bodies) : BodyOf(i) = Body(i, frames[i].len)
      BY DEF BodyOf, Body, Byte
    <3>3. \A i, j \in 1 .. Len(posted_bodies) : j <= i => Valid(frames[j])
      BY <3>1 DEF PostsExact
    <3> QED
      BY <3>1, <3>2, <3>3 DEF PostsExact, PostedExact
  <2> QED
    BY <2>1, <2>2
<1>2. (\E V, E : IInv(V, E)) => PostedExact
  BY <1>1
<1> QED
  BY <1>2, Invariance, PTL

(* The callback of the logic thread gets the bytes of its own message, or  *)
(* zeroes where the session's Clear was quicker, never another's.          *)
THEOREM StringsDelivered == RecvSpec => []DeliveredExact
<1>1. ASSUME NEW V, NEW E, IInv(V, E) PROVE DeliveredExact
  <2>1. CASE confused
    BY <2>1 DEF DeliveredExact
  <2>2. CASE ~confused
    <3>1. StringsExact
      BY <1>1, <2>2, ParseFacts
    <3>2. ASSUME NEW i \in 1 .. Len(delivered)
          PROVE  \/ delivered[i] = BodyOf(i)
                 \/ /\ i \in continued
                    /\ \A k \in DOMAIN delivered[i] : delivered[i][k] \in {Zero, BodyOf(i)[k]}
      <4>1. BodyOf(i) = Body(i, frames[i].len)
        BY DEF BodyOf, Body, Byte
      <4>2. \A k \in 1 .. frames[i].len : BodyOf(i)[k] = Byte(i, HEAD_TOTAL_LEN + k)
        BY <4>1 DEF Body
      <4> QED
        BY <3>1, <4>1, <4>2 DEF StringsExact
    <3> QED
      BY <3>2 DEF DeliveredExact
  <2> QED
    BY <2>1, <2>2
<1>2. (\E V, E : IInv(V, E)) => DeliveredExact
  BY <1>1
<1> QED
  BY <1>2, Invariance, PTL
=============================================================================
