--------------------------- MODULE CoroutineServer ---------------------------
(***************************************************************************)
(* The server of Network/coroutineServer: main accepts one connection and  *)
(* waits for a signal; a coroutine on the one thread of AsioIOServicePool  *)
(* reads the requests; the worker of LogicSystem answers them with Send;   *)
(* HandleWrite runs on the pool thread again.                              *)
(*                                                                         *)
(* What is different from asyncServer, and modelled here, is who keeps the *)
(* CSession alive and when Send lets go of _send_lock.  The lambda of the  *)
(* coroutine is [=], but its body never names shared_this: the coroutine   *)
(* holds only the pointer this.  References are held by the handler of     *)
(* async_accept, by _sessions, by the messages in the logic queue and by   *)
(* the handlers of writes.  ~CSession calls ClearSession, which locks the  *)
(* _mutex of CServer; a thread that holds it already waits for itself.     *)
(*                                                                         *)
(* The logic queue is a sequence and its worker takes the front of it,     *)
(* which LogicSystem shows of the wait and the notification.  What happens *)
(* after the coroutine has used a CSession that is gone is undefined, and  *)
(* not modelled: it takes no step then.                                    *)
(***************************************************************************)
EXTENDS Naturals, Sequences

CONSTANTS MAX_SENDQUE,   \* Const.h: 1000
          Parts,         \* writes an async_write may need for one node
          MaxReqs        \* bound: requests of the peer

ASSUME CoroutineAssumption == /\ MAX_SENDQUE \in Nat
                              /\ Parts \in Nat \ {0}
                              /\ MaxReqs \in Nat

VARIABLES main,       \* "run", "insert", "join" or "ended" (the CServer is gone)
          accepting,  \* the handler of async_accept exists
          co,         \* where the coroutine is
          io,         \* the pool thread: "free", "write": HandleWrite is about to call
                      \* async_write, or "locked": it waits for the _mutex it holds
          in_map,     \* the session is in _sessions
          late,       \* history: it was inserted after its coroutine had ended
          freed,      \* ~CSession has begun
          nread, msg_que,
          worker,     \* "idle", or "write": Send is about to call async_write
          send_que, ops, wire, pushed, dropped, cleared   \* as in SendQueue

lifeVars == <<accepting, in_map, late, freed>>
logicVars == <<msg_que, worker>>
sendVars == <<send_que, ops, wire, pushed, dropped, cleared>>
vars == <<main, co, io, nread, lifeVars, logicVars, sendVars>>

(* StartAccept makes the one session of the server. *)
Init == /\ main = "run" /\ accepting = TRUE /\ co = "none" /\ io = "free"
        /\ in_map = FALSE /\ late = FALSE /\ freed = FALSE
        /\ nread = 0 /\ msg_que = <<>> /\ worker = "idle"
        /\ send_que = <<>> /\ ops = {} /\ wire = <<>>
        /\ pushed = 0 /\ dropped = 0 /\ cleared = FALSE

(* There is a shared_ptr to the session, beside the one in _sessions. *)
HeldElsewhere == accepting \/ ops # {} \/ io = "write" \/ msg_que # <<>>

Held == in_map \/ HeldElsewhere

(* ~CSession runs when the last one goes. *)
Count == freed' = (freed \/ ~Held')

AsyncWrite(n) == [node |-> n, left |-> Parts, ec |-> FALSE]

(* The pool thread takes up a handler or the coroutine. *)
PoolRuns == io = "free" /\ main # "ended"
-----------------------------------------------------------------------------
(* HandleAccept: Start spawns the coroutine ... *)
AcceptStart ==
    /\ main = "run" /\ accepting
    /\ main' = "insert"
    /\ co' = "head"
    /\ UNCHANGED <<io, nread, lifeVars, logicVars, sendVars>>

(* ... and then the session goes into _sessions under _mutex. *)
AcceptInsert ==
    /\ main = "insert" /\ io # "locked"
    /\ in_map' = TRUE
    /\ late' = (co = "ended")
    /\ accepting' = FALSE
    /\ main' = "run"
    /\ UNCHANGED <<co, io, nread, freed, logicVars, sendVars>>

(* No connection is accepted after an error, nor after the first one. *)
AcceptError ==
    /\ main = "run" /\ accepting
    /\ accepting' = FALSE
    /\ UNCHANGED <<main, co, io, nread, in_map, late, logicVars, sendVars>>
    /\ Count

(* The signal handler: io_context.stop(), then Stop resets the work ... *)
Signal ==
    /\ main = "run"
    /\ main' = "join"
    /\ UNCHANGED <<co, io, nread, lifeVars, logicVars, sendVars>>

(* ... and joins the pool thread, whose run() returns when nothing is      *)
(* pending.  Then the CServer, and after it io_context, are destroyed.     *)
Join ==
    /\ main = "join" /\ co \in {"none", "ended"} /\ io = "free" /\ ops = {}
    /\ main' = "ended"
    /\ accepting' = FALSE /\ in_map' = FALSE
    /\ UNCHANGED <<co, io, nread, late, logicVars, sendVars>>
    /\ Count
-----------------------------------------------------------------------------
(* The coroutine: the head of a frame, its body, PostMsgToQue. *)
ReadHead ==
    /\ co = "head" /\ PoolRuns /\ ~freed /\ ~cleared
    /\ nread < MaxReqs
    /\ co' = "body"
    /\ UNCHANGED <<main, io, nread, lifeVars, logicVars, sendVars>>

ReadBody ==
    /\ co = "body" /\ PoolRuns /\ ~freed /\ ~cleared
    /\ nread' = nread + 1
    /\ co' = "post"
    /\ UNCHANGED <<main, io, lifeVars, logicVars, sendVars>>

(* The worker holds the mutex of LogicSystem while it runs a callback. *)
Post ==
    /\ co = "post" /\ PoolRuns /\ worker = "idle"
    /\ msg_que' = Append(msg_que, nread)
    /\ co' = "head"
    /\ UNCHANGED <<main, io, nread, lifeVars, worker, sendVars>>

(* Faulty: the coroutine ends without ClearSession. *)
EndQuietly ==
    /\ co \in {"head", "body"} /\ PoolRuns /\ ~freed
    /\ co' = "ended"
    /\ UNCHANGED <<main, io, nread, lifeVars, logicVars, sendVars>>

(* The peer is gone, a head is not valid, a body is empty, or the socket   *)
(* was closed: Close and ClearSession, which erases under _mutex.  If      *)
(* nobody else holds the session, ~CSession runs inside the erase and      *)
(* locks _mutex once more.                                                 *)
ReadEnds ==
    /\ co \in {"head", "body"} /\ PoolRuns /\ ~freed
    /\ in_map' = FALSE
    /\ co' = IF HeldElsewhere THEN "ended" ELSE "clear"
    /\ io' = IF HeldElsewhere THEN "free" ELSE "locked"
    /\ freed' = ~HeldElsewhere
    /\ UNCHANGED <<main, nread, accepting, late, logicVars, sendVars>>

Coroutine == ReadHead \/ ReadBody \/ Post \/ ReadEnds
-----------------------------------------------------------------------------
(* Faulty: Send asks whether a write is in flight, not whether a node is   *)
(* queued.                                                                 *)
NoWriteInFlight == ops = {}

(* Send starts a write only for the first node of the queue. *)
QueueEmpty == send_que = <<>>

(* The worker deals with the front message: Send under _send_lock drops    *)
(* the answer, queues it, or queues it and lets the lock go to write it.   *)
Deal ==
    /\ worker = "idle" /\ msg_que # <<>>
    /\ \/ /\ Len(send_que) > MAX_SENDQUE
          /\ dropped' = dropped + 1
          /\ msg_que' = Tail(msg_que)
          /\ UNCHANGED <<worker, send_que, pushed>>
       \/ /\ Len(send_que) <= MAX_SENDQUE
          /\ pushed' = pushed + 1
          /\ send_que' = Append(send_que, pushed + 1)
          /\ worker' = IF QueueEmpty THEN "write" ELSE "idle"
          /\ msg_que' = IF QueueEmpty THEN msg_que ELSE Tail(msg_que)
          /\ UNCHANGED dropped
    /\ UNCHANGED <<main, co, io, nread, accepting, in_map, late, ops, wire, cleared>>
    /\ Count

(* A message whose id has no callback is only popped. *)
DealUnknown ==
    /\ worker = "idle" /\ msg_que # <<>>
    /\ msg_que' = Tail(msg_que)
    /\ UNCHANGED <<main, co, io, nread, accepting, in_map, late, worker, sendVars>>
    /\ Count

(* The end of Send, without the lock; the message is popped after it. *)
SendWrite ==
    /\ worker = "write"
    /\ ops' = ops \cup {AsyncWrite(Head(send_que))}
    /\ worker' = "idle"
    /\ msg_que' = Tail(msg_que)
    /\ UNCHANGED <<main, co, io, nread, lifeVars, send_que, wire, pushed, dropped, cleared>>

Logic == Deal \/ DealUnknown \/ SendWrite
-----------------------------------------------------------------------------
(* A composed write takes another unit, or fails. *)
WriteSome ==
    /\ main # "ended"
    /\ \E op \in ops :
          /\ op.left > 0 /\ ~op.ec
          /\ \/ /\ wire' = Append(wire, [node |-> op.node, unit |-> Parts - op.left + 1])
                /\ ops' = (ops \ {op})
                            \cup {[node |-> op.node, left |-> op.left - 1, ec |-> FALSE]}
             \/ /\ ops' = (ops \ {op})
                            \cup {[node |-> op.node, left |-> op.left, ec |-> TRUE]}
                /\ UNCHANGED wire
    /\ UNCHANGED <<main, co, io, nread, lifeVars, logicVars, send_que, pushed, dropped, cleared>>

(* HandleWrite pops the node under _send_lock; if there is another, it     *)
(* lets the lock go and writes that one.                                   *)
HandleWriteOk ==
    /\ PoolRuns
    /\ \E op \in ops : op.left = 0 /\ ops' = ops \ {op}
    /\ send_que' = Tail(send_que)
    /\ io' = IF send_que' # <<>> THEN "write" ELSE "free"
    /\ UNCHANGED <<main, co, nread, accepting, in_map, late, logicVars, wire, pushed, dropped, cleared>>
    /\ Count

HandleWriteNext ==
    /\ io = "write"
    /\ ops' = ops \cup {AsyncWrite(Head(send_que))}
    /\ io' = "free"
    /\ UNCHANGED <<main, co, nread, lifeVars, logicVars, send_que, wire, pushed, dropped, cleared>>

(* A failed write: Close and ClearSession.  The handler holds the session  *)
(* until it returns, and the coroutine may still be reading.               *)
HandleWriteError ==
    /\ PoolRuns
    /\ \E op \in ops : op.ec /\ ops' = ops \ {op}
    /\ cleared' = TRUE
    /\ in_map' = FALSE
    /\ UNCHANGED <<main, co, io, nread, accepting, late, logicVars, send_que, wire, pushed, dropped>>
    /\ Count

HandleWrite == HandleWriteOk \/ HandleWriteNext \/ HandleWriteError

Next == \/ AcceptStart \/ AcceptInsert \/ AcceptError \/ Signal \/ Join
        \/ Coroutine \/ Logic \/ WriteSome \/ HandleWrite

(* The threads go on, writes end one way or the other and their handlers   *)
(* run.  The peer and the user are under no obligation.                    *)
Fairness == /\ WF_vars(AcceptInsert) /\ WF_vars(Logic)
            /\ WF_vars(WriteSome) /\ WF_vars(HandleWrite)

FairSpec == Init /\ [][Next]_vars /\ Fairness
-----------------------------------------------------------------------------
(* Between its unlock and its async_write a caller has in effect started   *)
(* the write of the front: Send and HandleWrite still behave as SendQueue, *)
(* no second write is started meanwhile and the nodes stay in order.       *)
Starting == IF worker = "write" \/ io = "write" THEN {AsyncWrite(Head(send_que))} ELSE {}

Out == INSTANCE SendQueue WITH ops <- ops \cup Starting, MaxSends <- MaxReqs, MaxDrops <- MaxReqs

SendImpl == Out!SendSpec

(* Once the coroutine has ended, the session is destroyed, whoever was the *)
(* last to hold it - unless it was inserted into _sessions afterwards, or  *)
(* the server has been stopped.                                            *)
SessionFreed == <>[](co \in {"clear", "ended"} => freed \/ late \/ main = "ended")

(* What the comment on shared_this in Start calls a pseudo-closure: the    *)
(* session is there as long as the coroutine is.                           *)
PseudoClosure == freed => co \in {"none", "ended"}
=============================================================================
