---------------------------- MODULE Session_proofs ----------------------------
(***************************************************************************)
(* Proofs about the two layers a session stands on, each by itself: its    *)
(* send path (SendQueue), for every queue limit, node length and bound,    *)
(* and the logic layer its messages go to (LogicSystem), for any set of io *)
(* threads and any number of messages.                                     *)
(*                                                                         *)
(* For SendQueue, the inductive invariant SendInv adds to the checked      *)
(* invariants what they rest on: nodes of the queue are consecutive (so    *)
(* the front's name is known), the session stays silent after an error,    *)
(* and the last unit on the wire is the one just before the unit the write *)
(* in flight will write.                                                   *)
(*                                                                         *)
(* For LogicSystem, NoLostWakeup is not inductive: it needs to know that   *)
(* the worker, once it has found the queue empty, still finds it empty     *)
(* when it blocks (the mutex is held in between), and that main stops only *)
(* after the last notification.  IInv adds what each place in DealMsg      *)
(* knows.                                                                  *)
(***************************************************************************)
EXTENDS SendQueue, LogicSystem, TLAPS

(* The queue holds the newest nodes, in the order of their pushes. *)
QueueConsecutive ==
    /\ Len(send_que) <= pushed
    /\ \A i \in 1 .. Len(send_que) : send_que[i] = pushed - Len(send_que) + i

(* The name of the front node, or of the next one to be pushed. *)
Front == pushed - Len(send_que) + 1

(* Everything before the unit u, and nothing else, is on the wire. *)
WrittenUpTo(u) == Channel!NextUnit = u

(* The wire ends just before what is still to be written. *)
WireInv ==
    /\ \A op \in ops : op.left > 0 =>
          WrittenUpTo([node |-> op.node, unit |-> Parts - op.left + 1])
    /\ \A op \in ops : op.left = 0 =>
          /\ ~op.ec
          /\ WrittenUpTo([node |-> op.node + 1, unit |-> 1])
    /\ ops = {} /\ ~cleared => WrittenUpTo([node |-> Front, unit |-> 1])

(* After HandleWrite has reported an error no write is in flight, and the  *)
(* failed node keeps the queue from being empty.                           *)
SilentInv == cleared => ops = {} /\ send_que # <<>>

SendInv == /\ SendTypeOK
           /\ QueueConsecutive
           /\ OneWriteOfFront
           /\ NoStall
           /\ SilentInv
           /\ WireInv
-----------------------------------------------------------------------------
(* Facts about a push and a pop of the queue, in the form the steps use. *)
LEMMA PushFacts ==
    ASSUME SendTypeOK, QueueConsecutive, SendPush
    PROVE  /\ send_que' \in Seq(Node)
           /\ Len(send_que') = Len(send_que) + 1
           /\ QueueConsecutive'
           /\ send_que' # <<>>
           /\ send_que = <<>> => Head(send_que') = pushed + 1
           /\ send_que # <<>> => Head(send_que') = Head(send_que)
<1>1. /\ send_que \in Seq(Node) /\ pushed \in Nat /\ pushed + 1 \in Node
      /\ send_que' = Append(send_que, pushed + 1) /\ pushed' = pushed + 1
  BY DEF SendTypeOK, SendPush, Node
<1>2. /\ send_que' \in Seq(Node)
      /\ Len(send_que') = Len(send_que) + 1
      /\ \A i \in 1 .. Len(send_que) : send_que'[i] = send_que[i]
      /\ send_que'[Len(send_que) + 1] = pushed + 1
  BY <1>1
<1>3. QueueConsecutive'
  BY <1>1, <1>2 DEF QueueConsecutive
<1>4. QED
  BY <1>1, <1>2, <1>3

(* A pop leaves consecutive names, beginning with the next. *)
LEMMA PopFacts ==
    ASSUME SendTypeOK, QueueConsecutive, send_que # <<>>,
           send_que' = Tail(send_que), pushed' = pushed
    PROVE  /\ send_que' \in Seq(Node)
           /\ Len(send_que') = Len(send_que) - 1
           /\ QueueConsecutive'
           /\ send_que' # <<>> => Head(send_que') = Head(send_que) + 1
<1>1. send_que \in Seq(Node) /\ pushed \in Nat
  BY DEF SendTypeOK
<1>2. /\ send_que' \in Seq(Node)
      /\ Len(send_que') = Len(send_que) - 1
      /\ \A i \in 1 .. Len(send_que') : send_que'[i] = send_que[i + 1]
  BY <1>1
<1>3. QueueConsecutive'
  BY <1>1, <1>2 DEF QueueConsecutive
<1>4. ASSUME send_que' # <<>> PROVE Head(send_que') = Head(send_que) + 1
  <2>1. Len(send_que) >= 2 /\ Len(send_que) \in Nat
    BY <1>1, <1>2, <1>4
  <2>2. Head(send_que') = send_que[2] /\ Head(send_que) = send_que[1]
    BY <1>1, <1>2, <1>4, <2>1
  <2>3. QED
    BY <1>1, <2>1, <2>2 DEF QueueConsecutive
<1>5. QED
  BY <1>2, <1>3, <1>4

(* The front node's name, from its place in the push order. *)
LEMMA FrontIsHead ==
    ASSUME SendTypeOK, QueueConsecutive, send_que # <<>>
    PROVE  Head(send_que) = Front /\ Front <= pushed /\ Front \in Node
<1>1. send_que \in Seq(Node) /\ pushed \in Nat /\ Len(send_que) \in Nat /\ Len(send_que) > 0
  BY DEF SendTypeOK
<1>2. Head(send_que) = send_que[1]
  BY <1>1
<1>3. QED
  BY <1>1, <1>2 DEF QueueConsecutive, Front, Node

(* Writing the expected unit makes its successor the expected one. *)
LEMMA AppendUnit ==
    ASSUME wire \in Seq(Unit), NEW u \in Unit, WrittenUpTo(u),
           wire' = Append(wire, u)
    PROVE  /\ wire' \in Seq(Unit)
           /\ Channel!NextUnit' = Channel!After(u)
<1>1. /\ wire' \in Seq(Unit) /\ Len(wire') = Len(wire) + 1
      /\ Len(wire) \in Nat /\ wire'[Len(wire')] = u
  OBVIOUS
<1>2. wire' # <<>>
  BY <1>1
<1>3. QED
  BY <1>1, <1>2 DEF Channel!NextUnit, Channel!After
-----------------------------------------------------------------------------
(* The invariant holds for a new session. *)
LEMMA SendInitInv == SendInit => SendInv
<1>1. SendInit => SendTypeOK
  <2> SUFFICES ASSUME SendInit PROVE SendTypeOK
    OBVIOUS
  <2>1. send_que \in Seq(Node) /\ wire \in Seq(Unit)
    BY DEF SendInit
  <2>2. Len(send_que) <= MAX_SENDQUE + 1
    BY SendAssumption DEF SendInit
  <2>3. QED
    BY <2>1, <2>2 DEF SendInit, SendTypeOK
<1>2. SendInit => QueueConsecutive /\ OneWriteOfFront /\ NoStall /\ SilentInv
  BY DEF SendInit, QueueConsecutive, OneWriteOfFront, NoStall, SilentInv
<1>3. SendInit => WireInv
  BY DEF SendInit, WireInv, WrittenUpTo, Front, Channel!NextUnit
<1>4. QED
  BY <1>1, <1>2, <1>3 DEF SendInv

(* A Send that is not refused keeps the invariant. *)
LEMMA PushInv == SendInv /\ SendPush => SendInv'
<1> SUFFICES ASSUME SendInv, SendPush PROVE SendInv'
  OBVIOUS
<1> USE DEF SendInv
<1>1. /\ send_que \in Seq(Node) /\ Len(send_que) \in Nat /\ pushed \in Nat
      /\ pushed' = pushed + 1 /\ Len(send_que) <= MAX_SENDQUE
      /\ ops' = ops \cup StartIfIdle
      /\ wire' = wire /\ cleared' = cleared /\ dropped' = dropped
  BY DEF SendTypeOK, SendPush
<1>2. /\ send_que' \in Seq(Node) /\ Len(send_que') = Len(send_que) + 1
      /\ QueueConsecutive' /\ send_que' # <<>>
      /\ send_que = <<>> => Head(send_que') = pushed + 1
      /\ send_que # <<>> => Head(send_que') = Head(send_que)
  BY PushFacts
<1>3. CASE send_que = <<>>
  <2>1. ops = {} /\ ~cleared
    BY <1>3 DEF OneWriteOfFront, SilentInv
  <2>2. ops' = {AsyncWrite(pushed + 1)} /\ AsyncWrite(pushed + 1) \in Op
    BY <1>1, <1>2, <1>3, <2>1, SendAssumption DEF StartIfIdle, AsyncWrite, Op, Node
  <2>3. SendTypeOK'
    BY <1>1, <1>2, <2>2, SendAssumption DEF SendTypeOK
  <2>4. OneWriteOfFront' /\ NoStall' /\ SilentInv'
    <3>1. AsyncWrite(pushed + 1).node = Head(send_que')
      BY <1>2, <1>3 DEF AsyncWrite
    <3>2. OneWriteOfFront'
      BY <1>2, <2>2, <3>1 DEF OneWriteOfFront
    <3>3. NoStall' /\ SilentInv'
      BY <1>1, <2>1, <2>2 DEF NoStall, SilentInv
    <3>4. QED
      BY <3>2, <3>3
  <2>5. WrittenUpTo([node |-> pushed + 1, unit |-> 1])
    BY <1>1, <1>3, <2>1 DEF WireInv, Front
  <2>6. WireInv'
    BY <1>1, <2>2, <2>5, SendAssumption
       DEF WireInv, WrittenUpTo, AsyncWrite, Channel!NextUnit, Channel!After
  <2>7. QED
    BY <1>2, <2>3, <2>4, <2>6
<1>4. CASE send_que # <<>>
  <2>1. ops' = ops
    BY <1>1, <1>4 DEF StartIfIdle
  <2>2. SendTypeOK'
    BY <1>1, <1>2, <2>1, SendAssumption DEF SendTypeOK
  <2>3. OneWriteOfFront' /\ NoStall' /\ SilentInv'
    BY <1>1, <1>2, <1>4, <2>1 DEF OneWriteOfFront, NoStall, SilentInv
  <2>4. Front' = Front
    BY <1>1, <1>2 DEF Front
  <2>5. WireInv'
    BY <1>1, <2>1, <2>4 DEF WireInv, WrittenUpTo, Channel!NextUnit, Channel!After
  <2>6. QED
    BY <1>2, <2>2, <2>3, <2>5
<1>5. QED
  BY <1>3, <1>4

(* A part written keeps the invariant. *)
LEMMA WriteSomeInv ==
    ASSUME SendInv, NEW op \in ops, WriteSome(op) PROVE SendInv'
<1> USE DEF SendInv
<1> DEFINE op2 == [node |-> op.node, left |-> op.left - 1, ec |-> FALSE]
           u == [node |-> op.node, unit |-> Parts - op.left + 1]
<1>1. /\ op \in Op /\ op.left > 0 /\ ~op.ec /\ op2 \in Op
      /\ u \in Unit
  BY SendAssumption DEF WriteSome, SendTypeOK, Op, Unit, Node
<1>2. ops = {op} /\ ops' = {op2} /\ ~cleared
  BY DEF OneWriteOfFront, WriteSome, SilentInv
<1>3. /\ UNCHANGED <<send_que, pushed, dropped, cleared>>
      /\ wire' = Append(wire, u) /\ wire \in Seq(Unit)
  BY DEF WriteSome, SendTypeOK
<1>4. WrittenUpTo(u)
  BY <1>1 DEF WireInv
<1>5. wire' \in Seq(Unit) /\ Channel!NextUnit' = Channel!After(u)
  BY <1>1, <1>3, <1>4, AppendUnit
<1>6. SendTypeOK'
  BY <1>1, <1>2, <1>3, <1>5 DEF SendTypeOK
<1>7. QueueConsecutive' /\ OneWriteOfFront' /\ NoStall' /\ SilentInv'
  BY <1>1, <1>2, <1>3 DEF QueueConsecutive, OneWriteOfFront, NoStall, SilentInv
<1>8. WireInv'
  <2>1. CASE op.left = 1
    <3>1. Channel!After(u) = [node |-> op.node + 1, unit |-> 1]
      BY <1>1, <2>1, SendAssumption DEF Channel!After, Op
    <3>2. QED
      BY <1>1, <1>2, <1>5, <2>1, <3>1 DEF WireInv, WrittenUpTo
  <2>2. CASE op.left > 1
    <3>1. Channel!After(u) = [node |-> op.node, unit |-> Parts - op2.left + 1]
      BY <1>1, <2>2, SendAssumption DEF Channel!After, Op
    <3>2. op2.left \in Nat /\ op2.left > 0 /\ op2.node = op.node
      BY <1>1, <2>2 DEF Op
    <3>3. WrittenUpTo([node |-> op2.node, unit |-> Parts - op2.left + 1])'
      BY <1>5, <3>1, <3>2 DEF WrittenUpTo
    <3>4. ops' = {op2} /\ op2.left # 0 /\ ops' # {}
      BY <1>2, <3>2
    <3> HIDE DEF op2
    <3>5. QED
      BY <3>3, <3>4 DEF WireInv
  <2>3. QED
    BY <1>1, <2>1, <2>2 DEF Op
<1>9. QED
  BY <1>6, <1>7, <1>8

(* A write that fails keeps the invariant. *)
LEMMA WriteErrorInv ==
    ASSUME SendInv, NEW op \in ops, WriteError(op) PROVE SendInv'
<1> USE DEF SendInv
<1> DEFINE op2 == [node |-> op.node, left |-> op.left, ec |-> TRUE]
<1>1. /\ op \in Op /\ op.left > 0 /\ op2 \in Op
  BY DEF WriteError, SendTypeOK, Op
<1>2. ops = {op} /\ ops' = {op2}
  BY DEF OneWriteOfFront, WriteError
<1>3. UNCHANGED <<send_que, wire, pushed, dropped, cleared>>
  BY DEF WriteError
<1>4. SendTypeOK' /\ QueueConsecutive'
  BY <1>1, <1>2, <1>3 DEF SendTypeOK, QueueConsecutive
<1>5. OneWriteOfFront' /\ NoStall' /\ SilentInv'
  BY <1>1, <1>2, <1>3 DEF OneWriteOfFront, NoStall, SilentInv
<1>6. WireInv'
  BY <1>1, <1>2, <1>3 DEF WireInv, WrittenUpTo, Channel!NextUnit, Channel!After
<1>7. QED
  BY <1>4, <1>5, <1>6

(* HandleWrite after a success keeps the invariant. *)
LEMMA HandleWriteOkInv ==
    ASSUME SendInv, NEW op \in ops, HandleWriteOk(op) PROVE SendInv'
<1> USE DEF SendInv
<1>1. /\ op \in Op /\ op.left = 0 /\ ops = {op} /\ ~cleared /\ send_que # <<>>
      /\ op.node = Head(send_que)
  BY DEF HandleWriteOk, SendTypeOK, OneWriteOfFront, SilentInv
<1>2. /\ send_que' = Tail(send_que) /\ ops' = ContinueIfMore
      /\ UNCHANGED <<wire, pushed, dropped, cleared>>
  BY <1>1 DEF HandleWriteOk
<1>3. /\ send_que' \in Seq(Node) /\ Len(send_que') = Len(send_que) - 1
      /\ QueueConsecutive' /\ Len(send_que) \in Nat
      /\ send_que' # <<>> => Head(send_que') = Head(send_que) + 1
  BY <1>1, <1>2, PopFacts DEF SendTypeOK
<1>4. /\ WrittenUpTo([node |-> op.node + 1, unit |-> 1])
      /\ op.node = Front /\ op.node \in Nat
  BY <1>1, FrontIsHead DEF WireInv, Node
<1>5. Channel!NextUnit' = Channel!NextUnit
  BY <1>2 DEF Channel!NextUnit, Channel!After
<1>6. CASE send_que' = <<>>
  <2>1. ops' = {}
    BY <1>2, <1>6 DEF ContinueIfMore
  <2>2. SendTypeOK'
    BY <1>2, <1>3, <2>1, SendAssumption DEF SendTypeOK
  <2>3. OneWriteOfFront' /\ NoStall' /\ SilentInv'
    BY <1>1, <1>2, <1>6, <2>1 DEF OneWriteOfFront, NoStall, SilentInv
  <2>4. Front' = op.node + 1
    BY <1>2, <1>3, <1>4 DEF Front, SendTypeOK
  <2>5. WireInv'
    BY <1>4, <1>5, <2>1, <2>4 DEF WireInv, WrittenUpTo
  <2>6. QED
    BY <1>3, <2>2, <2>3, <2>5
<1>7. CASE send_que' # <<>>
  <2> DEFINE op2 == AsyncWrite(op.node + 1)
  <2>1. /\ ops' = {op2} /\ op2 \in Op
        /\ op2.node = Head(send_que') /\ op2.left = Parts /\ op2.left # 0
        /\ op2.node = op.node + 1
    BY <1>1, <1>2, <1>3, <1>4, <1>7, SendAssumption
       DEF ContinueIfMore, AsyncWrite, Op, Node
  <2> HIDE DEF op2
  <2>2. SendTypeOK'
    BY <1>2, <1>3, <2>1, SendAssumption DEF SendTypeOK
  <2>3. OneWriteOfFront' /\ NoStall' /\ SilentInv'
    BY <1>1, <1>2, <1>7, <2>1 DEF OneWriteOfFront, NoStall, SilentInv
  <2>4. WrittenUpTo([node |-> op2.node, unit |-> Parts - op2.left + 1])'
    BY <1>4, <1>5, <2>1, SendAssumption DEF WrittenUpTo
  <2>5. WireInv'
    BY <2>1, <2>4 DEF WireInv
  <2>6. QED
    BY <1>3, <2>2, <2>3, <2>5
<1>8. QED
  BY <1>6, <1>7

(* HandleWrite after an error keeps the invariant. *)
LEMMA HandleWriteErrorInv ==
    ASSUME SendInv, NEW op \in ops, HandleWriteError(op) PROVE SendInv'
<1> USE DEF SendInv
<1>1. /\ ops = {op} /\ send_que # <<>> /\ ops' = {} /\ cleared' = TRUE
      /\ UNCHANGED <<send_que, wire, pushed, dropped>>
  BY DEF HandleWriteError, OneWriteOfFront
<1>2. SendTypeOK' /\ QueueConsecutive'
  BY <1>1 DEF SendTypeOK, QueueConsecutive
<1>3. OneWriteOfFront' /\ NoStall' /\ SilentInv' /\ WireInv'
  BY <1>1 DEF OneWriteOfFront, NoStall, SilentInv, WireInv
<1>4. QED
  BY <1>2, <1>3

(* Steps that leave queue, write and wire alone keep the invariant. *)
LEMMA UnchangedInv == SendInv /\ send_que' = send_que /\ ops' = ops /\ wire' = wire
                           /\ pushed' = pushed /\ cleared' = cleared
                           /\ dropped' \in Nat => SendInv'
  BY DEF SendInv, SendTypeOK, QueueConsecutive, OneWriteOfFront, NoStall, SilentInv,
     WireInv, WrittenUpTo, Front, Channel!NextUnit, Channel!After

(* Every step of the specification preserves the invariant. *)
LEMMA SendStepInv == SendInv /\ [SendNext]_sendVars => SendInv'
<1> SUFFICES ASSUME SendInv, [SendNext]_sendVars PROVE SendInv'
  OBVIOUS
<1>1. CASE SendFull
  BY <1>1, UnchangedInv DEF SendFull, SendInv, SendTypeOK
<1>2. CASE SendPush
  BY <1>2, PushInv
<1>3. ASSUME NEW op \in ops, WriteSome(op) PROVE SendInv'
  BY <1>3, WriteSomeInv
<1>4. ASSUME NEW op \in ops, WriteError(op) PROVE SendInv'
  BY <1>4, WriteErrorInv
<1>5. ASSUME NEW op \in ops, HandleWriteOk(op) PROVE SendInv'
  BY <1>5, HandleWriteOkInv
<1>6. ASSUME NEW op \in ops, HandleWriteError(op) PROVE SendInv'
  BY <1>6, HandleWriteErrorInv
<1>7. CASE UNCHANGED sendVars
  BY <1>7, UnchangedInv DEF sendVars, SendInv, SendTypeOK
<1>8. QED
  BY <1>1, <1>2, <1>3, <1>4, <1>5, <1>6, <1>7 DEF SendNext, Send, HandleWrite

(* The inductive invariant of the send path. *)
THEOREM SendInvariance == SendSpec => []SendInv
  BY SendInitInv, SendStepInv, PTL DEF SendSpec
-----------------------------------------------------------------------------
(* The values of the send path's state, with the limit on _send_que.       *)
THEOREM SendTypeCorrect == SendSpec => []SendTypeOK
<1>1. SendInv => SendTypeOK
  BY DEF SendInv
<1>2. QED
  BY <1>1, SendInvariance, PTL

(* CSession never has two writes in flight, and the one in flight is over  *)
(* the buffer of the queue's front node.                                   *)
THEOREM SingleWriter == SendSpec => []OneWriteOfFront
<1>1. SendInv => OneWriteOfFront
  BY DEF SendInv
<1>2. QED
  BY <1>1, SendInvariance, PTL

(* A queued message always has a write in flight to take it along, until   *)
(* a write fails.                                                          *)
THEOREM NeverStalled == SendSpec => []NoStall
<1>1. SendInv => NoStall
  BY DEF SendInv
<1>2. QED
  BY <1>1, SendInvariance, PTL

(* Every step is a step of the channel or a stutter. *)
LEMMA StepRefines == SendInv /\ [SendNext]_sendVars => [Channel!Next]_(Channel!vars)
<1> DEFINE Broken == cleared \/ (\E op \in ops : op.ec)
<1> SUFFICES ASSUME SendInv, [SendNext]_sendVars PROVE [Channel!Next]_(Channel!vars)
  OBVIOUS
<1> USE DEF SendInv
<1>1. CASE SendFull
  BY <1>1 DEF SendFull, Channel!vars
<1>2. CASE SendPush
  <2>1. pushed' = pushed + 1 /\ wire' = wire /\ cleared' = cleared
    BY <1>2 DEF SendPush
  <2>2. /\ \A op \in ops' : op \in ops \/ ~op.ec
        /\ \A op \in ops : op \in ops'
    BY <1>2 DEF SendPush, StartIfIdle, AsyncWrite
  <2>3. Broken' = Broken
    BY <2>1, <2>2
  <2>4. QED
    BY <2>1, <2>3 DEF Channel!Next, Channel!Accept
<1>3. ASSUME NEW op \in ops, WriteSome(op) PROVE [Channel!Next]_(Channel!vars)
  <2>1. /\ ops = {op} /\ ~op.ec /\ ~cleared /\ cleared' = cleared
        /\ ops' = {[node |-> op.node, left |-> op.left - 1, ec |-> FALSE]}
        /\ pushed' = pushed
    BY <1>3 DEF OneWriteOfFront, WriteSome, SilentInv
  <2>2. ~Broken /\ ~Broken'
    BY <2>1
  <2>3. /\ Channel!NextUnit = [node |-> op.node, unit |-> Parts - op.left + 1]
        /\ wire' = Append(wire, Channel!NextUnit)
    BY <1>3 DEF WireInv, WrittenUpTo, WriteSome
  <2>4. op.node <= pushed
    BY FrontIsHead DEF OneWriteOfFront
  <2>5. QED
    BY <2>1, <2>2, <2>3, <2>4 DEF Channel!Next, Channel!Emit
<1>4. ASSUME NEW op \in ops, WriteError(op) PROVE [Channel!Next]_(Channel!vars)
  <2>1. /\ ops = {op} /\ ~op.ec /\ ~cleared /\ cleared' = cleared
        /\ ops' = {[node |-> op.node, left |-> op.left, ec |-> TRUE]}
        /\ pushed' = pushed /\ wire' = wire
    BY <1>4 DEF OneWriteOfFront, WriteError, SilentInv
  <2>2. ~Broken /\ Broken'
    BY <2>1
  <2>3. QED
    BY <2>1, <2>2 DEF Channel!Next, Channel!Break
<1>5. ASSUME NEW op \in ops, HandleWriteOk(op) PROVE [Channel!Next]_(Channel!vars)
  <2>1. /\ ops = {op} /\ ~cleared /\ cleared' = cleared
        /\ pushed' = pushed /\ wire' = wire
        /\ \A o \in ops' : ~o.ec
    BY <1>5 DEF OneWriteOfFront, HandleWriteOk, SilentInv, ContinueIfMore, AsyncWrite
  <2>2. ~op.ec
    BY <1>5 DEF WireInv, HandleWriteOk
  <2>3. Broken' = Broken
    BY <2>1, <2>2
  <2>4. QED
    BY <2>1, <2>3 DEF Channel!vars
<1>6. ASSUME NEW op \in ops, HandleWriteError(op) PROVE [Channel!Next]_(Channel!vars)
  <2>1. op.ec /\ cleared' /\ pushed' = pushed /\ wire' = wire
    BY <1>6 DEF HandleWriteError
  <2>2. Broken' = Broken
    BY <2>1
  <2>3. QED
    BY <2>1, <2>2 DEF Channel!vars
<1>7. CASE UNCHANGED sendVars
  BY <1>7 DEF sendVars, Channel!vars
<1>8. QED
  BY <1>1, <1>2, <1>3, <1>4, <1>5, <1>6, <1>7 DEF SendNext, Send, HandleWrite

(* The send path implements the ordered channel: in-order, gap-free and    *)
(* never resumed after a failed write.                                     *)
THEOREM Refinement == SendSpec => ImplementsChannel
<1>1. SendInit => Channel!Init
  BY DEF SendInit, Channel!Init
<1>2. QED
  BY <1>1, StepRefines, SendInvariance, PTL DEF SendSpec, ImplementsChannel, Channel!SafeSpec

-----------------------------------------------------------------------------
(* LogicSystem. *)

(* What the worker knows at each place of the loop. *)
WorkerKnows ==
    /\ worker = "park" => msg_que = <<>>
    /\ worker = "go" => msg_que # <<>> \/ b_stop
    /\ worker = "deal" => msg_que # <<>>
    /\ worker = "drain" => b_stop
    /\ worker = "exit" => b_stop /\ msg_que = <<>>

(* main stops only after the io threads are joined. *)
StopAfterJoin ==
    /\ b_stop => owner \notin {"running", "joined"}
    /\ owner # "running" => \A t \in IoThreads : poster[t] = "idle"

IInv == /\ TypeOK
        /\ NoLostWakeup
        /\ DealtInOrder
        /\ WorkerKnows
        /\ StopAfterJoin

(* The invariant holds before the worker's first step. *)
LEMMA InitInv == Init => IInv
<1> SUFFICES ASSUME Init PROVE IInv
  OBVIOUS
<1>1. /\ msg_que = <<>> /\ posted = <<>> /\ dealt = <<>>
      /\ Len(msg_que) = 0 /\ Len(posted) = 0 /\ Len(dealt) = 0
  BY DEF Init
<1>2. /\ msg_que \in Seq(Message) /\ posted \in Seq(Message)
      /\ dealt \in Seq([msg : Message, called : BOOLEAN])
  BY <1>1
<1>3. TypeOK
  <2>1. poster \in [IoThreads -> {"idle", "notify"}]
    BY DEF Init
  <2>2. worker \in Holding \cup {"lock", "wait", "woken", "exit"}
    BY DEF Init
  <2>3. b_stop \in BOOLEAN /\ owner \in {"running", "joined", "notify", "join", "done"}
    BY DEF Init
  <2>4. QED
    BY <1>1, <1>2, <2>1, <2>2, <2>3 DEF TypeOK
<1>4. NoLostWakeup /\ DealtInOrder
  BY <1>1 DEF Init, NoLostWakeup, DealtInOrder
<1>5. WorkerKnows /\ StopAfterJoin
  BY DEF Init, WorkerKnows, StopAfterJoin
<1>6. QED
  BY <1>3, <1>4, <1>5 DEF IInv

(* Posting extends the queue and the history by the same message. *)
LEMMA PushOrder ==
    ASSUME TypeOK, DealtInOrder, NEW m \in Message,
           posted' = Append(posted, m), msg_que' = Append(msg_que, m), dealt' = dealt
    PROVE  /\ DealtInOrder'
           /\ msg_que' \in Seq(Message) /\ posted' \in Seq(Message)
           /\ Len(dealt') <= Len(posted')
           /\ Len(msg_que') = Len(msg_que) + 1
<1>1. /\ Len(msg_que) \in Nat /\ Len(posted) \in Nat /\ Len(dealt) \in Nat
      /\ Len(posted) = Len(dealt) + Len(msg_que)
  BY DEF TypeOK, DealtInOrder
<1>2. /\ msg_que' \in Seq(Message) /\ Len(msg_que') = Len(msg_que) + 1
      /\ \A i \in 1 .. Len(msg_que) : msg_que'[i] = msg_que[i]
      /\ msg_que'[Len(msg_que) + 1] = m
  BY DEF TypeOK
<1>3. /\ posted' \in Seq(Message) /\ Len(posted') = Len(posted) + 1
      /\ \A i \in 1 .. Len(posted) : posted'[i] = posted[i]
      /\ posted'[Len(posted) + 1] = m
  BY DEF TypeOK
<1>4. \A i \in 1 .. Len(dealt') : /\ dealt'[i].msg = posted'[i]
                                  /\ dealt'[i].called = (posted'[i] \in Registered)
  BY <1>1, <1>3 DEF DealtInOrder
<1>5. \A i \in 1 .. Len(msg_que') : msg_que'[i] = posted'[Len(dealt') + i]
  <2>1. ASSUME NEW i \in 1 .. Len(msg_que)
        PROVE  msg_que'[i] = posted'[Len(dealt') + i]
    <3>1. Len(dealt) + i \in 1 .. Len(posted)
      BY <1>1, <2>1
    <3>2. msg_que[i] = posted[Len(dealt) + i]
      BY <2>1, Zenon DEF DealtInOrder
    <3>3. QED
      BY <1>2, <1>3, <3>1, <3>2
  <2>2. Len(dealt) + (Len(msg_que) + 1) = Len(posted) + 1
    BY <1>1
  <2>3. \A i \in 1 .. Len(msg_que') : i \in 1 .. Len(msg_que) \/ i = Len(msg_que) + 1
    BY <1>1, <1>2
  <2>4. QED
    BY <1>2, <1>3, <2>1, <2>2, <2>3
<1>6. Len(posted') = Len(dealt') + Len(msg_que') /\ Len(dealt') <= Len(posted')
  BY <1>1, <1>2, <1>3
<1>7. DealtInOrder'
  BY <1>4, <1>5, <1>6 DEF DealtInOrder
<1>8. QED
  BY <1>2, <1>3, <1>6, <1>7

(* Dealing with the front moves it from the queue to the history. *)
LEMMA DealOrder ==
    ASSUME TypeOK, DealtInOrder, msg_que # <<>>, DealFront, posted' = posted
    PROVE  /\ DealtInOrder'
           /\ msg_que' \in Seq(Message)
           /\ dealt' \in Seq([msg : Message, called : BOOLEAN])
           /\ Len(dealt') <= Len(posted')
<1> DEFINE d == [msg |-> Head(msg_que), called |-> Head(msg_que) \in Registered]
<1>1. /\ Len(msg_que) \in Nat /\ Len(msg_que) > 0 /\ Len(posted) \in Nat
      /\ Len(dealt) \in Nat /\ Len(posted) = Len(dealt) + Len(msg_que)
  BY DEF TypeOK, DealtInOrder
<1>2. /\ Head(msg_que) = msg_que[1]
      /\ d \in [msg : Message, called : BOOLEAN]
  <2>1. Head(msg_que) = msg_que[1] /\ Head(msg_que) \in Message
    BY <1>1 DEF TypeOK
  <2>2. (Head(msg_que) \in Registered) \in BOOLEAN
    OBVIOUS
  <2>3. QED
    BY <2>1, <2>2
<1>3. /\ msg_que' \in Seq(Message) /\ Len(msg_que') = Len(msg_que) - 1
      /\ \A i \in 1 .. Len(msg_que') : msg_que'[i] = msg_que[i + 1]
  BY <1>1 DEF TypeOK, DealFront
<1>4. /\ dealt' \in Seq([msg : Message, called : BOOLEAN])
      /\ Len(dealt') = Len(dealt) + 1
      /\ \A i \in 1 .. Len(dealt) : dealt'[i] = dealt[i]
      /\ dealt'[Len(dealt) + 1] = d
  BY <1>2 DEF TypeOK, DealFront
<1>5. msg_que[1] = posted[Len(dealt) + 1]
  BY <1>1 DEF DealtInOrder
<1>6. \A i \in 1 .. Len(dealt') : /\ dealt'[i].msg = posted'[i]
                                  /\ dealt'[i].called = (posted'[i] \in Registered)
  <2>1. d.msg = msg_que[1] /\ d.called = (msg_que[1] \in Registered)
    BY <1>2
  <2>2. ASSUME NEW i \in 1 .. Len(dealt)
        PROVE  /\ dealt'[i].msg = posted'[i]
               /\ dealt'[i].called = (posted'[i] \in Registered)
    BY <1>4, <2>2 DEF DealtInOrder
  <2> HIDE DEF d
  <2>3. \A i \in 1 .. Len(dealt') : i \in 1 .. Len(dealt) \/ i = Len(dealt) + 1
    BY <1>1, <1>4
  <2>4. QED
    BY <1>4, <1>5, <2>1, <2>2, <2>3
<1>7. \A i \in 1 .. Len(msg_que') : msg_que'[i] = posted'[Len(dealt') + i]
  BY <1>1, <1>3, <1>4 DEF DealtInOrder
<1>8. Len(posted') = Len(dealt') + Len(msg_que') /\ Len(dealt') <= Len(posted')
  BY <1>1, <1>3, <1>4
<1>9. DealtInOrder'
  BY <1>6, <1>7, <1>8 DEF DealtInOrder
<1>10. QED
  BY <1>3, <1>4, <1>8, <1>9
-----------------------------------------------------------------------------
(* PostMsgToQue keeps the invariant. *)
LEMMA PostInv ==
    ASSUME IInv, NEW t \in IoThreads, NEW m \in Message, PostMsgToQue(t, m)
    PROVE  IInv'
<1> USE DEF IInv
<1>1. /\ owner = "running" /\ worker \notin Holding /\ poster[t] = "idle"
      /\ msg_que' = Append(msg_que, m)
      /\ poster' = [poster EXCEPT ![t] = IF NeedsNotify THEN "notify" ELSE "idle"]
      /\ UNCHANGED <<b_stop, worker, owner, dealt>>
  BY DEF PostMsgToQue
<1>2. /\ DealtInOrder' /\ msg_que' \in Seq(Message) /\ posted' \in Seq(Message)
      /\ Len(dealt') <= Len(posted') /\ Len(msg_que') = Len(msg_que) + 1
  BY <1>1, PushOrder DEF PostMsgToQue
<1>3. /\ poster \in [IoThreads -> {"idle", "notify"}]
      /\ poster' \in [IoThreads -> {"idle", "notify"}]
      /\ poster'[t] = (IF NeedsNotify THEN "notify" ELSE "idle")
      /\ \A u \in IoThreads \ {t} : poster'[u] = poster[u]
  BY <1>1 DEF TypeOK
<1>4. TypeOK'
  BY <1>1, <1>2, <1>3 DEF TypeOK
<1>5. NoLostWakeup'
  <2> SUFFICES ASSUME worker = "wait"
               PROVE  \E u \in IoThreads : poster'[u] = "notify"
    BY <1>1 DEF NoLostWakeup
  <2>1. CASE msg_que = <<>>
    <3>1. NeedsNotify
      BY <1>1, <1>2, <2>1 DEF NeedsNotify
    <3>2. QED
      BY <1>3, <3>1
  <2>2. CASE msg_que # <<>>
    <3>1. PICK u \in IoThreads : poster[u] = "notify"
      BY <2>2 DEF NoLostWakeup
    <3>2. u # t
      BY <1>1, <3>1
    <3>3. QED
      BY <1>3, <3>1, <3>2
  <2>3. QED
    BY <2>1, <2>2
<1>6. WorkerKnows' /\ StopAfterJoin'
  <2>1. worker \notin {"park", "go", "deal", "drain"}
    BY <1>1 DEF Holding
  <2>2. worker # "exit"
    BY <1>1 DEF WorkerKnows, StopAfterJoin
  <2>3. QED
    BY <1>1, <2>1, <2>2 DEF WorkerKnows, StopAfterJoin
<1>7. QED
  BY <1>2, <1>4, <1>5, <1>6

(* A notification leaves the worker awake, so the notifier is not missed. *)
LEMMA PostNotifyInv ==
    ASSUME IInv, NEW t \in IoThreads, PostNotify(t) PROVE IInv'
<1> USE DEF IInv
<1>1. /\ poster[t] = "notify" /\ poster' = [poster EXCEPT ![t] = "idle"]
      /\ UNCHANGED <<msg_que, b_stop, owner, posted, dealt>>
      /\ worker' # "wait"
      /\ worker' = worker \/ worker' = "woken"
  BY DEF PostNotify, NotifyOne
<1>2. /\ poster' \in [IoThreads -> {"idle", "notify"}]
      /\ \A u \in IoThreads : poster[u] = "idle" => poster'[u] = "idle"
  BY <1>1 DEF TypeOK
<1>3. TypeOK'
  BY <1>1, <1>2 DEF TypeOK
<1>4. NoLostWakeup' /\ DealtInOrder'
  BY <1>1 DEF NoLostWakeup, DealtInOrder
<1>5. WorkerKnows' /\ StopAfterJoin'
  BY <1>1, <1>2 DEF WorkerKnows, StopAfterJoin
<1>6. QED
  BY <1>3, <1>4, <1>5

(* Steps of DealMsg that only move the worker. *)
LEMMA MoveInv ==
    ASSUME IInv, UNCHANGED <<msg_que, b_stop, poster, owner, posted, dealt>>,
           worker' \in Holding \cup {"lock", "wait", "woken", "exit"},
           WorkerKnows', worker' = "wait" => msg_que = <<>>
    PROVE  IInv'
  BY DEF IInv, TypeOK, NoLostWakeup, DealtInOrder, WorkerKnows, StopAfterJoin

(* Steps of DealMsg that deal with the front. *)
LEMMA DealInv ==
    ASSUME IInv, msg_que # <<>>, DealFront,
           UNCHANGED <<b_stop, poster, owner, posted>>,
           \/ worker = "deal" /\ worker' = "lock"
           \/ worker = "drain" /\ worker' = "drain"
    PROVE  IInv'
<1> USE DEF IInv
<1>1. /\ DealtInOrder' /\ msg_que' \in Seq(Message)
      /\ dealt' \in Seq([msg : Message, called : BOOLEAN])
      /\ Len(dealt') <= Len(posted')
  BY DealOrder
<1>2. TypeOK'
  BY <1>1 DEF TypeOK, Holding
<1>3. NoLostWakeup' /\ WorkerKnows' /\ StopAfterJoin'
  BY DEF NoLostWakeup, WorkerKnows, StopAfterJoin
<1>4. QED
  BY <1>1, <1>2, <1>3

(* Every step of DealMsg and a spurious wakeup keep the invariant. *)
LEMMA DealMsgInv == IInv /\ (DealMsg \/ Spurious) => IInv'
<1> SUFFICES ASSUME IInv, DealMsg \/ Spurious PROVE IInv'
  OBVIOUS
<1> USE DEF IInv
<1>1. CASE Acquire
  BY <1>1, MoveInv DEF Acquire, Move, WorkerKnows, Holding
<1>2. CASE Test
  BY <1>2, MoveInv DEF Test, Move, WorkerKnows, Holding
<1>3. CASE Park
  BY <1>3, MoveInv DEF Park, Move, WorkerKnows, Holding
<1>4. CASE Spurious
  BY <1>4, MoveInv DEF Spurious, Move, WorkerKnows, Holding
<1>5. CASE Branch
  BY <1>5, MoveInv DEF Branch, Move, WorkerKnows, Holding
<1>6. CASE Deal
  BY <1>6, DealInv DEF Deal, WorkerKnows
<1>7. CASE Drain
  <2>1. CASE worker = "drain" /\ msg_que # <<>> /\ DealFront
             /\ UNCHANGED <<b_stop, worker, poster, owner, posted>>
    BY <2>1, DealInv
  <2>2. CASE msg_que = <<>> /\ Move("drain", "exit")
    BY <2>2, MoveInv DEF Move, WorkerKnows, Holding
  <2>3. QED
    BY <1>7, <2>1, <2>2 DEF Drain
<1>8. QED
  BY <1>1, <1>2, <1>3, <1>4, <1>5, <1>6, <1>7 DEF DealMsg

(* The steps of main: join the io threads, then ~LogicSystem. *)
LEMMA OwnerInv == IInv /\ (JoinIoThreads \/ SetStop \/ StopNotify \/ StopJoin) => IInv'
<1> SUFFICES ASSUME IInv, JoinIoThreads \/ SetStop \/ StopNotify \/ StopJoin
             PROVE  IInv'
  OBVIOUS
<1> USE DEF IInv
<1>1. /\ UNCHANGED <<msg_que, poster, posted, dealt>>
      /\ b_stop' = b_stop \/ b_stop' = TRUE
      /\ worker' = worker \/ worker' = "woken"
      /\ b_stop => b_stop'
  BY DEF JoinIoThreads, SetStop, StopNotify, StopJoin, NotifyOne
<1>2. owner' \in {"running", "joined", "notify", "join", "done"}
  BY DEF JoinIoThreads, SetStop, StopNotify, StopJoin
<1>3. TypeOK' /\ DealtInOrder'
  BY <1>1, <1>2 DEF TypeOK, DealtInOrder
<1>4. NoLostWakeup' /\ WorkerKnows'
  BY <1>1 DEF NoLostWakeup, WorkerKnows
<1>5. StopAfterJoin'
  BY DEF JoinIoThreads, SetStop, StopNotify, StopJoin, StopAfterJoin
<1>6. QED
  BY <1>3, <1>4, <1>5

(* The invariant is inductive. *)
LEMMA StepInv == IInv /\ [Next]_vars => IInv'
<1> SUFFICES ASSUME IInv, [Next]_vars PROVE IInv'
  OBVIOUS
<1>1. ASSUME NEW t \in IoThreads, NEW m \in Message, PostMsgToQue(t, m) PROVE IInv'
  BY <1>1, PostInv
<1>2. ASSUME NEW t \in IoThreads, PostNotify(t) PROVE IInv'
  BY <1>2, PostNotifyInv
<1>3. CASE DealMsg \/ Spurious
  BY <1>3, DealMsgInv
<1>4. CASE JoinIoThreads \/ SetStop \/ StopNotify \/ StopJoin
  BY <1>4, OwnerInv
<1>5. CASE UNCHANGED vars
  BY <1>5 DEF vars, IInv, TypeOK, NoLostWakeup, DealtInOrder, WorkerKnows, StopAfterJoin
<1>6. QED
  BY <1>1, <1>2, <1>3, <1>4, <1>5 DEF Next

(* The inductive invariant of the logic layer. *)
THEOREM Invariance == Spec => []IInv
  BY InitInv, StepInv, PTL DEF Spec
-----------------------------------------------------------------------------
(* The values of the logic layer's state. *)
THEOREM TypeCorrect == Spec => []TypeOK
<1>1. IInv => TypeOK
  BY DEF IInv
<1>2. QED
  BY <1>1, Invariance, PTL

(* PostMsgToQue may notify only for the first message of an empty queue:   *)
(* the worker never sleeps over a message nobody will wake it for.         *)
THEOREM WakeupSafe == Spec => []NoLostWakeup
<1>1. IInv => NoLostWakeup
  BY DEF IInv
<1>2. QED
  BY <1>1, Invariance, PTL

(* Exactly once, in the order of the posts, however many io threads post.  *)
THEOREM InOrder == Spec => []DealtInOrder
<1>1. IInv => DealtInOrder
  BY DEF IInv
<1>2. QED
  BY <1>1, Invariance, PTL

(* Nothing is left behind when the worker leaves its loop. *)
THEOREM Drained == Spec => []DrainedAtExit
<1>1. IInv => DrainedAtExit
  BY DEF IInv, TypeOK, DealtInOrder, WorkerKnows, StopAfterJoin, DrainedAtExit
<1>2. QED
  BY <1>1, Invariance, PTL
=============================================================================
