----------------------------- MODULE RecvFraming -----------------------------
(***************************************************************************)
(* The receive path of one CSession: CSession::HandleRead                  *)
(* (Network/asyncServer/src/CSession.cpp) cuts the byte stream of the peer *)
(* into messages and posts them to the logic thread.                       *)
(*                                                                         *)
(* The stream is a sequence of frames, a frame is HEAD_TOTAL_LEN bytes of  *)
(* id and length followed by the body.  A byte is named by its frame and   *)
(* its place in it; a completion of async_read_some brings any number of   *)
(* the next bytes.  One action is one pass through the while loop.  The    *)
(* node that is posted is shared with the logic thread, which copies its   *)
(* body when it gets to it, and HandleRead may still clear it.             *)
(***************************************************************************)
EXTENDS Integers, Sequences, FiniteSets

CONSTANTS HEAD_TOTAL_LEN,   \* Const.h: 4
          MAX_LENGTH,       \* Const.h: 2048, size of _data and limit of a body
          FrameSeqs         \* the streams a peer may send: sequences of frames

(* A frame: the length in its head, a signed short, and whether its id is  *)
(* in range.  A frame of negative length has no body.                      *)
Frame == [len : Int, idok : BOOLEAN]

ASSUME FramingAssumption ==
    /\ HEAD_TOTAL_LEN \in Nat \ {0}
    /\ MAX_LENGTH \in Nat \ {0}
    /\ FrameSeqs \subseteq Seq(Frame)

VARIABLES frames,       \* what the peer sends
          stream,       \* the same byte by byte
          taken,        \* number of bytes of the stream read so far
          data,         \* _data: the bytes of the current completion
          bytes,        \* bytes_transferred
          copy_len,     \* copy_len
          head_parse,   \* _b_head_parse
          head,         \* _recv_head_node: the first _cur_len bytes of a head
          node,         \* _recv_msg_node: [total, cur, body]
          pc,           \* "reading": async_read_some pending; "loop": in the loop;
                        \* "cleared": the session is; "terminated": the process is
          heap,         \* nodes posted to the logic thread, by order of posting
          posted_bodies, \* history: the body of each node when it was posted
          continued,    \* history: postings whose body came in several reads
          confused,     \* history: HandleRead has lost its place in the stream, or
                        \* has met a length of -1 and written outside a node
          delivered     \* history: the strings DealMsg passed to the callback

recvVars == <<frames, stream, taken, data, bytes, copy_len, head_parse, head, node, pc,
              heap, posted_bodies, continued, confused, delivered>>

-----------------------------------------------------------------------------
(* The bytes of the stream. *)
Zero == [frame |-> 0, at |-> 0]

BodyBytes(f) == IF f.len < 0 THEN 0 ELSE f.len

FrameBytes(i) == {[frame |-> i, at |-> k] :
                     k \in 1 .. HEAD_TOTAL_LEN + BodyBytes(frames[i])}

HeadOf(i) == [k \in 1 .. HEAD_TOTAL_LEN |-> [frame |-> i, at |-> k]]
BodyOf(i) == [k \in 1 .. frames[i].len |-> [frame |-> i, at |-> HEAD_TOTAL_LEN + k]]

(* One frame comes after the other: the place of a byte in the stream is   *)
(* its place in its frame, counted on from the bytes of earlier frames.    *)
Bytes == UNION {FrameBytes(i) : i \in DOMAIN frames}

Earlier(i) == Cardinality({b \in Bytes : b.frame < i})

Stream == [p \in 1 .. Cardinality(Bytes) |->
              CHOOSE b \in Bytes : Earlier(b.frame) + b.at = p]

(* What HandleRead checks of a head; and what it can post. *)
InRange(f) == f.idok /\ f.len <= MAX_LENGTH

Valid(f) == InRange(f) /\ 0 <= f.len

(* The comparison of the unsigned bytes_transferred with a signed length:  *)
(* a negative length counts as a huge one.                                 *)
Fewer(n, len) == n < len \/ len < 0

(* n bytes of _data from copy_len on; what was not received is zero. *)
Chunk(n) == [k \in 1 .. n |-> IF copy_len + k <= Len(data) THEN data[copy_len + k] ELSE Zero]

(* memcpy of n bytes into the body of a node at _cur_len. *)
CopyInto(nd, n) ==
    [k \in 1 .. nd.total |-> IF k \in nd.cur + 1 .. nd.cur + n
                             THEN Chunk(n)[k - nd.cur] ELSE nd.body[k]]

(* What the id and length fields of a head say.  Bytes that are not a head *)
(* may say anything; of the lengths out of range one is enough on a side.  *)
Junk == [len : -2 .. MAX_LENGTH + 1, idok : BOOLEAN]

Decode(h) == IF \E i \in DOMAIN frames : h = HeadOf(i)
             THEN {frames[h[1].frame]} ELSE Junk

NewNode(len) == [total |-> len, cur |-> 0, body |-> [k \in 1 .. len |-> Zero]]

(* The node of a length of -1: a buffer of no bytes.  Its constructor has  *)
(* written a zero before the buffer, and bodies are copied beyond it.      *)
Overrun == node.total = -1

RecvInit == /\ frames \in FrameSeqs
            /\ stream = Stream
            /\ taken = 0
            /\ data = <<>> /\ bytes = 0 /\ copy_len = 0
            /\ head_parse = FALSE
            /\ head = <<>>
            /\ node = NewNode(0)
            /\ pc = "reading"
            /\ heap = <<>> /\ posted_bodies = <<>> /\ continued = {}
            /\ confused = FALSE
            /\ delivered = <<>>

(* PostMsgToQue shares the node with the logic thread. *)
Post(nd) == /\ heap' = Append(heap, nd)
            /\ posted_bodies' = Append(posted_bodies, nd.body)

NoPost == UNCHANGED <<heap, posted_bodies, continued>>

(* async_read_some again, or the next pass of the loop. *)
RearmOr(next) == pc' = IF bytes' = 0 THEN "reading" ELSE next
-----------------------------------------------------------------------------
(* async_read_some completes with n bytes. *)
HandleRead(n) ==
    /\ pc = "reading"
    /\ taken + n <= Len(stream)
    /\ data' = SubSeq(stream, taken + 1, taken + n)
    /\ taken' = taken + n
    /\ bytes' = n
    /\ copy_len' = 0
    /\ pc' = "loop"
    /\ UNCHANGED <<frames, stream, head_parse, head, node, confused, delivered>>
    /\ NoPost

(* async_read_some fails: end of file, reset. ClearSession. *)
ReadError ==
    /\ pc = "reading"
    /\ pc' = "cleared"
    /\ UNCHANGED <<frames, stream, taken, data, bytes, copy_len, head_parse, head, node,
                   confused, delivered>>
    /\ NoPost

(* Faulty: the bytes of an incomplete head replace those read before. *)
ForgetHead ==
    /\ pc = "loop" /\ ~head_parse
    /\ bytes + Len(head) < HEAD_TOTAL_LEN
    /\ head' = Chunk(bytes)
    /\ pc' = "reading"
    /\ UNCHANGED <<frames, stream, taken, data, bytes, copy_len, head_parse, node,
                   confused, delivered>>
    /\ NoPost

(* The head is still incomplete: keep the bytes and read on. *)
HeadShort ==
    /\ pc = "loop" /\ ~head_parse
    /\ bytes + Len(head) < HEAD_TOTAL_LEN
    /\ head' = head \o Chunk(bytes)
    /\ pc' = "reading"
    /\ UNCHANGED <<frames, stream, taken, data, bytes, copy_len, head_parse, node,
                   confused, delivered>>
    /\ NoPost

(* The head is complete; remain: bytes of it that come from _data. *)
HeadRemain == HEAD_TOTAL_LEN - Len(head)

HeadComplete(f) ==
    /\ pc = "loop" /\ ~head_parse
    /\ bytes >= HeadRemain
    /\ f \in Decode(head \o Chunk(HeadRemain))

(* The id or the length is out of range: ClearSession, no further read. *)
HeadInvalid ==
    /\ \E f \in Decode(head \o Chunk(HeadRemain)) : HeadComplete(f) /\ ~InRange(f)
    /\ copy_len' = copy_len + HeadRemain
    /\ bytes' = bytes - HeadRemain
    /\ pc' = "cleared"
    /\ UNCHANGED <<frames, stream, taken, data, head_parse, head, node, confused, delivered>>
    /\ NoPost

(* A length below -1 passes the check.  new[] throws in the constructor of *)
(* the node, nothing catches it, and the process ends.                     *)
HeadThrows ==
    /\ \E f \in Decode(head \o Chunk(HeadRemain)) :
          HeadComplete(f) /\ InRange(f) /\ f.len < -1
    /\ copy_len' = copy_len + HeadRemain
    /\ bytes' = bytes - HeadRemain
    /\ pc' = "terminated"
    /\ UNCHANGED <<frames, stream, taken, data, head_parse, head, node, confused, delivered>>
    /\ NoPost

(* A length of -1 passes it too.  Every number of bytes is Fewer than such *)
(* a body's, so all that is left is copied to where the node has no room.  *)
HeadOverrun ==
    LET left == bytes - HeadRemain
    IN  /\ HeadComplete([len |-> -1, idok |-> TRUE])
        /\ copy_len' = copy_len + HeadRemain
        /\ bytes' = left
        /\ node' = [NewNode(-1) EXCEPT !.cur = left]
        /\ confused' = TRUE
        /\ head_parse' = TRUE
        /\ pc' = "reading"
        /\ UNCHANGED <<frames, stream, taken, data, head, delivered>>
        /\ NoPost

(* The body is not all there: copy what is, and read on. *)
HeadBodyShort ==
    \E len \in 0 .. MAX_LENGTH :
       LET nd == NewNode(len)
           from == copy_len + HeadRemain
           left == bytes - HeadRemain
       IN  /\ HeadComplete([len |-> len, idok |-> TRUE])
           /\ left < len
           /\ copy_len' = from
           /\ bytes' = left
           /\ node' = [nd EXCEPT !.cur = left,
                                 !.body = SubSeq(data, from + 1, from + left)
                                          \o SubSeq(@, left + 1, len)]
           /\ head_parse' = TRUE
           /\ pc' = "reading"
           /\ UNCHANGED <<frames, stream, taken, data, head, confused, delivered>>
           /\ NoPost

(* Faulty: after a whole message, go on from where its head ended. *)
BodyNotSkipped(len) == copy_len + HeadRemain

(* copy_len after a message that came with its head. *)
AfterMessage(len) == copy_len + HeadRemain + len

(* The whole body is there: post the message; go on with what follows. *)
HeadBodyFull ==
    \E len \in 0 .. MAX_LENGTH :
       LET from == copy_len + HeadRemain
       IN  /\ HeadComplete([len |-> len, idok |-> TRUE])
           /\ bytes - HeadRemain >= len
           /\ node' = [total |-> len, cur |-> len,
                       body |-> SubSeq(data, from + 1, from + len)]
           /\ copy_len' = AfterMessage(len)
           /\ bytes' = bytes - HeadRemain - len
           /\ Post(node')
           /\ head' = <<>>
           /\ RearmOr("loop")
           /\ UNCHANGED <<frames, stream, taken, data, head_parse, continued, confused, delivered>>

(* Bytes of the body still missing, by the count in _cur_len. *)
Remain == node.total - node.cur

(* A continued body is still incomplete: the bytes are copied, but         *)
(* _cur_len is not advanced.                                               *)
BodyShort ==
    /\ pc = "loop" /\ head_parse
    /\ Fewer(bytes, Remain)
    /\ node' = [node EXCEPT !.body = CopyInto(node, bytes)]
    /\ confused' = TRUE
    /\ pc' = "reading"
    /\ UNCHANGED <<frames, stream, taken, data, bytes, copy_len, head_parse, head, delivered>>
    /\ NoPost

(* Faulty: one byte too many is copied and counted. *)
BodyLengthOffByOne == Remain + 1

(* What completes the body. *)
BodyLength == Remain

(* A continued body is complete: post it.  copy_len is not advanced. *)
BodyFull ==
    /\ pc = "loop" /\ head_parse
    /\ ~Fewer(bytes, Remain)
    /\ node' = [node EXCEPT !.cur = node.cur + BodyLength,
                            !.body = CopyInto(node, BodyLength)]
    /\ bytes' = bytes - BodyLength
    /\ Post(node')
    /\ continued' = continued \cup {Len(posted_bodies')}
    /\ confused' = (confused \/ bytes' > 0)
    /\ head_parse' = FALSE
    /\ head' = <<>>
    /\ pc' = "clearing"
    /\ UNCHANGED <<frames, stream, taken, data, copy_len, delivered>>

(* _recv_msg_node->Clear() on the node just posted: memset ... *)
ClearData ==
    /\ pc = "clearing"
    /\ heap' = [heap EXCEPT ![Len(heap)].body = [k \in DOMAIN @ |-> Zero]]
    /\ pc' = "cleared_data"
    /\ UNCHANGED <<frames, stream, taken, data, bytes, copy_len, head_parse, head, node,
                   posted_bodies, continued, confused, delivered>>

(* ... then _cur_len = 0; then read on or go round the loop. *)
ClearLen ==
    /\ pc = "cleared_data"
    /\ heap' = [heap EXCEPT ![Len(heap)].cur = 0]
    /\ pc' = IF bytes = 0 THEN "reading" ELSE "loop"
    /\ UNCHANGED <<frames, stream, taken, data, bytes, copy_len, head_parse, head, node,
                   posted_bodies, continued, confused, delivered>>

(* DealMsg reaches the next node and copies _cur_len bytes of it.  No lock *)
(* covers the body: while HandleRead is in its memset, any of the bytes    *)
(* may be seen zeroed already; and any may have been overwritten by bytes  *)
(* copied outside another node.                                            *)
DealNode ==
    /\ pc # "terminated"
    /\ Len(delivered) < Len(heap)
    /\ LET i  == Len(delivered) + 1
           nd == heap[i]
       IN  \E lost \in IF Overrun \/ (pc = "clearing" /\ i = Len(heap))
                       THEN SUBSET (1 .. nd.cur) ELSE {{}} :
              delivered' = Append(delivered, [k \in 1 .. nd.cur |->
                              IF k \in lost THEN Zero ELSE nd.body[k]])
    /\ UNCHANGED <<frames, stream, taken, data, bytes, copy_len, head_parse, head, node,
                   pc, heap, posted_bodies, continued, confused>>

(* The passes of the loop. *)
Pass == \/ HeadShort \/ HeadInvalid \/ HeadThrows \/ HeadOverrun
        \/ HeadBodyShort \/ HeadBodyFull \/ BodyShort \/ BodyFull \/ ClearData \/ ClearLen

RecvNext == \/ \E n \in 1 .. MAX_LENGTH : HandleRead(n)
            \/ ReadError \/ Pass \/ DealNode

RecvSpec == RecvInit /\ [][RecvNext]_recvVars

(* A peer whose bytes arrive, and an io thread and a logic thread that run. *)
RecvFairness == /\ WF_recvVars(\E n \in 1 .. MAX_LENGTH : HandleRead(n))
                /\ WF_recvVars(Pass)
                /\ WF_recvVars(DealNode)

RecvFairSpec == RecvSpec /\ RecvFairness
-----------------------------------------------------------------------------
(* The values of the cursors.  HandleRead consumes only bytes it has       *)
(* received, and never posts a body longer than MAX_LENGTH, even after it  *)
(* has lost its place.  It never copies more of a body than the node holds *)
(* unless it has accepted a head that says -1: then it is in the body of   *)
(* that head for good, and nothing of it is ever posted.                   *)
InBounds ==
    /\ copy_len \in Nat /\ bytes \in Nat
    /\ copy_len + bytes <= Len(data)
    /\ Len(head) < HEAD_TOTAL_LEN
    /\ node.total <= MAX_LENGTH
    /\ \/ Overrun /\ head_parse /\ confused /\ pc \in {"reading", "loop", "cleared"}
       \/ /\ 0 <= node.cur /\ node.cur <= node.total
          /\ pc # "reading" \/ ~head_parse \/ node.cur < node.total
    /\ \A i \in 1 .. Len(heap) : 0 <= heap[i].cur /\ heap[i].cur <= heap[i].total

(* What HandleRead posts are the frames of the stream, in order, whole,    *)
(* and none after one with a bad head - however frames are cut and glued   *)
(* by TCP - unless a body took three reads or was followed by more bytes   *)
(* in the read that completed it, or a head of length -1 was accepted.     *)
PostedExact ==
    ~confused =>
       /\ Len(posted_bodies) <= Len(frames)
       /\ \A i \in 1 .. Len(posted_bodies) : posted_bodies[i] = BodyOf(i)
       /\ \A i, j \in 1 .. Len(posted_bodies) : j <= i => Valid(frames[j])

(* The logic thread's callback gets the body of the frame, even if the     *)
(* session has long gone on to other messages; only a body that came in    *)
(* two reads can be hit by Clear, and then shows zeroes, or nothing, but   *)
(* never bytes of another message.                                         *)
DeliveredExact ==
    ~confused =>
       \A i \in 1 .. Len(delivered) :
          \/ delivered[i] = BodyOf(i)
          \/ /\ i \in continued
             /\ \A k \in DOMAIN delivered[i] : delivered[i][k] \in {Zero, BodyOf(i)[k]}

(* Every frame of the stream is posted unless it or an earlier one is      *)
(* invalid, the connection or the process ends, or HandleRead loses its    *)
(* place or writes outside a node.                                         *)
EveryFramePosted ==
    <>(pc \in {"cleared", "terminated"} \/ confused \/ Len(posted_bodies) = Len(frames))

(* The comment on line 204: what is left after a complete message is       *)
(* certainly the head of the next one.                                     *)
LeftoverIsHead ==
    pc = "loop" /\ ~head_parse /\ head = <<>> /\ bytes > 0 =>
       data[copy_len + 1].at = 1
=============================================================================
