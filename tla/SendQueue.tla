------------------------------ MODULE SendQueue ------------------------------
(***************************************************************************)
(* The send path of one CSession (Network/asyncServer/src/CSession.cpp).   *)
(*                                                                         *)
(* Any thread (in the server: the logic thread) calls Send; the io thread  *)
(* runs the HandleWrite completion handlers.  Both bodies run under        *)
(* _send_lock, hence one action each.  An async_write is a composed        *)
(* operation: it writes its buffer in several async_write_some calls, so   *)
(* two of them in flight at once would interleave on the wire, and its     *)
(* buffer is the front node's, which only _send_que keeps alive.           *)
(*                                                                         *)
(* A SendNode is named by the order in which Send pushes it; it is Parts   *)
(* units long.                                                             *)
(***************************************************************************)
EXTENDS Naturals, Sequences

CONSTANTS MAX_SENDQUE,   \* Const.h: 1000
          Parts,         \* writes an async_write may need for one node
          MaxSends,      \* bound: nodes pushed in a run
          MaxDrops       \* bound: calls of Send dropped in a run

ASSUME SendAssumption == /\ MAX_SENDQUE \in Nat
                         /\ Parts \in Nat \ {0}
                         /\ MaxSends \in Nat
                         /\ MaxDrops \in Nat

VARIABLES send_que,   \* _send_que
          ops,        \* the async_write operations in flight
          wire,       \* what the socket has taken, unit by unit
          pushed,     \* nodes pushed so far, the name of the newest one
          dropped,    \* messages Send discarded
          cleared     \* HandleWrite has called ClearSession

sendVars == <<send_que, ops, wire, pushed, dropped, cleared>>

Node == Nat \ {0}
Op   == [node : Node, left : 0 .. Parts, ec : BOOLEAN]
Unit == [node : Node, unit : 1 .. Parts]

(* Faulty: one unit more than the node holds. *)
AsyncWriteTooLong(n) == [node |-> n, left |-> Parts + 1, ec |-> FALSE]

(* boost::asio::async_write over the buffer of a node. *)
AsyncWrite(n) == [node |-> n, left |-> Parts, ec |-> FALSE]

(* Faulty: every Send starts a write. *)
AlwaysStart == {AsyncWrite(Head(send_que'))}

(* The write Send starts: none while a queued node is pending, otherwise   *)
(* that of the new front.                                                  *)
StartIfIdle == IF send_que = <<>> THEN {AsyncWrite(Head(send_que'))} ELSE {}

(* Faulty: the handler leaves the rest of the queue to the next Send. *)
ContinueNever == {}

(* The write HandleWrite starts after its pop: that of the next node. *)
ContinueIfMore == IF send_que' # <<>> THEN {AsyncWrite(Head(send_que'))} ELSE {}

SendInit == /\ send_que = <<>>
            /\ ops = {}
            /\ wire = <<>>
            /\ pushed = 0
            /\ dropped = 0
            /\ cleared = FALSE

-----------------------------------------------------------------------------
(* Send finds the queue over its limit and discards the message. *)
SendFull ==
    /\ Len(send_que) > MAX_SENDQUE
    /\ dropped < MaxDrops
    /\ dropped' = dropped + 1
    /\ UNCHANGED <<send_que, ops, wire, pushed, cleared>>

(* Send pushes the node; it starts the write itself only when the queue    *)
(* was empty (pending = false).                                            *)
SendPush ==
    /\ Len(send_que) <= MAX_SENDQUE
    /\ pushed < MaxSends
    /\ pushed' = pushed + 1
    /\ send_que' = Append(send_que, pushed + 1)
    /\ ops' = ops \cup StartIfIdle
    /\ UNCHANGED <<wire, dropped, cleared>>

Send == SendFull \/ SendPush

(* One async_write_some of a composed write: the socket takes a unit. *)
WriteSome(op) ==
    /\ op.left > 0 /\ ~op.ec
    /\ wire' = Append(wire, [node |-> op.node, unit |-> Parts - op.left + 1])
    /\ ops' = (ops \ {op}) \cup {[node |-> op.node, left |-> op.left - 1, ec |-> FALSE]}
    /\ UNCHANGED <<send_que, pushed, dropped, cleared>>

(* An async_write_some reports an error: the peer reset the connection,    *)
(* Close() closed the socket, or the system call failed.                   *)
WriteError(op) ==
    /\ op.left > 0 /\ ~op.ec
    /\ ops' = (ops \ {op}) \cup {[node |-> op.node, left |-> op.left, ec |-> TRUE]}
    /\ UNCHANGED <<send_que, wire, pushed, dropped, cleared>>

(* HandleWrite, no error: pop the written node, write the next one. *)
HandleWriteOk(op) ==
    /\ op.left = 0
    /\ send_que' = Tail(send_que)
    /\ ops' = (ops \ {op}) \cup ContinueIfMore
    /\ UNCHANGED <<wire, pushed, dropped, cleared>>

(* Faulty: a failed write is popped and the queue goes on after the gap. *)
SkipFailedNode(op) ==
    /\ op.ec
    /\ send_que' = Tail(send_que)
    /\ ops' = (ops \ {op}) \cup ContinueIfMore
    /\ cleared' = TRUE
    /\ UNCHANGED <<wire, pushed, dropped>>

(* HandleWrite, error: ClearSession, and the queue stays as it is. *)
HandleWriteError(op) ==
    /\ op.ec
    /\ ops' = ops \ {op}
    /\ cleared' = TRUE
    /\ UNCHANGED <<send_que, wire, pushed, dropped>>

HandleWrite(op) == HandleWriteOk(op) \/ HandleWriteError(op)

SendNext == \/ Send
            \/ \E op \in ops : WriteSome(op) \/ WriteError(op) \/ HandleWrite(op)

(* The socket takes data or fails, and the io thread runs io_context::run, *)
(* which invokes every completion handler.  Callers of Send owe nothing.   *)
Fairness == /\ WF_sendVars(\E op \in ops : WriteSome(op) \/ WriteError(op))
            /\ WF_sendVars(\E op \in ops : HandleWrite(op))

SendSpec == SendInit /\ [][SendNext]_sendVars

SendFairSpec == SendSpec /\ Fairness
-----------------------------------------------------------------------------
(* The values of the variables; in particular _send_que never holds more   *)
(* than MAX_SENDQUE + 1 nodes, the limit being tested before the push.     *)
SendTypeOK == /\ send_que \in Seq(Node)
              /\ Len(send_que) <= MAX_SENDQUE + 1
              /\ ops \in SUBSET Op
              /\ wire \in Seq(Unit)
              /\ pushed \in Nat
              /\ dropped \in Nat
              /\ cleared \in BOOLEAN

(* Send and HandleWrite never have two async_write operations in flight on *)
(* the socket, and the buffer of the one in flight belongs to the front of *)
(* _send_que, so it is alive until its handler has run.                    *)
OneWriteOfFront ==
    \A op \in ops : /\ ops = {op}
                    /\ send_que # <<>>
                    /\ op.node = Head(send_que)

(* Messages wait in _send_que only while a write is in flight whose        *)
(* handler will take the next one; only a failed write strands them.       *)
NoStall == send_que # <<>> /\ ~cleared => ops # {}

(* What the peer reads is what FifoWire allows: nodes in the order of the  *)
(* pushes, each whole before the next, and after a failed write, which may *)
(* have left half a node on the wire, not one unit more, whatever Send is  *)
(* still called with.                                                      *)
Channel == INSTANCE FifoWire
             WITH accepted <- pushed,
                  broken <- cleared \/ (\E op \in ops : op.ec)

ImplementsChannel == Channel!SafeSpec

(* Every pushed node is written and popped unless a write fails first.     *)
(* (Sends are bounded: that each is in the end, is that in the end all     *)
(* are.)                                                                   *)
EverySendCompletes == <>[](send_que = <<>> \/ cleared)
=============================================================================
