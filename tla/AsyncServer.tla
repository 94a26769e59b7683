----------------------------- MODULE AsyncServer -----------------------------
(***************************************************************************)
(* The server of Network/asyncServer as a whole.  The main thread runs the *)
(* accept loop of CServer and, on a signal, stops the pool; each thread of *)
(* AsioIOServicePool runs the completion handlers of its sessions; the     *)
(* worker of LogicSystem deals with the requests and calls Send.           *)
(*                                                                         *)
(* The send path of each session and the logic layer are those of          *)
(* SendQueue and LogicSystem, in step with their surroundings: the         *)
(* properties SendImpl and LogicImpl say that they refine those modules.   *)
(* A completed read brings one request (RecvFraming has the general case). *)
(* Sessions are numbered in the order in which start_accept makes them.    *)
(* Every ClearSession and every insertion is an interval, because nothing  *)
(* protects the map _sessions; what the map holds after two of them have   *)
(* overlapped is any subset.                                               *)
(***************************************************************************)
EXTENDS Naturals, Sequences, FiniteSets

CONSTANTS MaxSessions,   \* bound: CSession objects made by start_accept
          PoolSize,      \* io_contexts in the pool, one thread each
          MaxReqs,       \* bound: requests of the peer of each session
          MAX_SENDQUE,   \* Const.h: 1000
          Unregistered   \* the requests whose msg_id has no callback

Sessions  == 1 .. MaxSessions
IoThreads == 0 .. PoolSize - 1
Request   == UNION {[ses : {s}, req : 1 .. MaxReqs[s]] : s \in Sessions}

ASSUME ServerAssumption == /\ MaxSessions \in Nat \ {0}
                           /\ PoolSize \in Nat \ {0}
                           /\ MaxReqs \in [1 .. MaxSessions -> Nat]
                           /\ MAX_SENDQUE \in Nat
                           /\ Unregistered \subseteq Request

VARIABLES main,       \* where the main thread is
          current,    \* the session waiting in async_accept
          stopped,    \* the threads whose io_context is stopped
          sessions,   \* _sessions
          raced,      \* two operations on _sessions have overlapped
          late,       \* history: sessions inserted after their read had ended
          rd,         \* read operation or handler of each session
          nread,      \* requests read from each peer
          wr,         \* "erase": HandleWrite is in ClearSession
          msg_que, worker, posted, dealt,     \* as in LogicSystem
          send_que, ops, wire, dropped, cleared,  \* of each session, as in SendQueue
          replied     \* the requests answered by each Send that pushed a node

acceptVars == <<main, current, stopped>>
mapVars    == <<sessions, raced, late>>
logicVars  == <<msg_que, worker, posted, dealt>>
sendVars   == <<send_que, ops, wire, dropped, cleared, replied>>
vars == <<acceptVars, mapVars, rd, nread, wr, logicVars, sendVars>>

(* GetIOService hands the io_contexts out in turn, one to each session made. *)
Thread(s) == (s - 1) % PoolSize

(* A pool thread is inside a handler. *)
Busy(t) == \E s \in Sessions :
              Thread(s) = t /\ (rd[s] \in {"post", "notify", "erase"} \/ wr[s] = "erase")

(* A pool thread takes up the next completion of session s. *)
CanRun(s) == Thread(s) \notin stopped /\ ~Busy(Thread(s))

Init == /\ main = "accept" /\ current = 1 /\ stopped = {}
        /\ sessions = {} /\ raced = FALSE /\ late = {}
        /\ rd = [s \in Sessions |-> "none"]
        /\ nread = [s \in Sessions |-> 0]
        /\ wr = [s \in Sessions |-> "idle"]
        /\ msg_que = <<>> /\ worker = "lock" /\ posted = <<>> /\ dealt = <<>>
        /\ send_que = [s \in Sessions |-> <<>>]
        /\ ops = [s \in Sessions |-> {}]
        /\ wire = [s \in Sessions |-> <<>>]
        /\ dropped = [s \in Sessions |-> 0]
        /\ cleared = [s \in Sessions |-> FALSE]
        /\ replied = [s \in Sessions |-> <<>>]
-----------------------------------------------------------------------------
(* Operations on _sessions. *)
InMap == {s \in Sessions : rd[s] = "erase" \/ wr[s] = "erase"}
            \cup (IF main = "inserting" THEN {0} ELSE {})

BeginMap == raced' = (raced \/ InMap # {})

EndMap(result) == sessions' \in IF raced THEN SUBSET (sessions \cup result) ELSE {result}

(* start_accept: the next session, bounded by MaxSessions. *)
StartAccept == current' = current + 1 /\ main' = "accept"

Listening == main = "accept" /\ current <= MaxSessions

(* handle_accept: Start posts the first read ... *)
AcceptOk ==
    /\ Listening
    /\ rd' = [rd EXCEPT ![current] = "pending"]
    /\ main' = "insert"
    /\ UNCHANGED <<current, stopped, mapVars, nread, wr, logicVars, sendVars>>

(* ... then the session goes into _sessions, and start_accept goes on. *)
InsertBegin ==
    /\ main = "insert"
    /\ main' = "inserting"
    /\ BeginMap
    /\ UNCHANGED <<current, stopped, sessions, late, rd, nread, wr, logicVars, sendVars>>

InsertEnd ==
    /\ main = "inserting"
    /\ EndMap(sessions \cup {current})
    /\ late' = IF rd[current] = "ended" THEN late \cup {current} ELSE late
    /\ StartAccept
    /\ UNCHANGED <<stopped, raced, rd, nread, wr, logicVars, sendVars>>

(* handle_accept with an error: the session is dropped, accept again. *)
AcceptError ==
    /\ Listening
    /\ StartAccept
    /\ UNCHANGED <<stopped, mapVars, rd, nread, wr, logicVars, sendVars>>

(* The signal handler: ioc.stop(), then AsioIOServicePool::Stop. *)
Signal ==
    /\ main = "accept"
    /\ main' = "stopping"
    /\ UNCHANGED <<current, stopped, mapVars, rd, nread, wr, logicVars, sendVars>>

StopContext ==
    /\ main = "stopping"
    /\ stopped # IoThreads
    /\ stopped' = stopped \cup {Cardinality(stopped)}
    /\ UNCHANGED <<main, current, mapVars, rd, nread, wr, logicVars, sendVars>>

(* Faulty: go on while a pool thread is still in its handler. *)
StopNoJoin == stopped = IoThreads

(* Faulty: only work.reset(), so that run() waits for every pending read. *)
StopByWorkReset == stopped = IoThreads /\ \A s \in Sessions : rd[s] \in {"none", "ended"}

(* The joins at the end of Stop. *)
AllJoined == stopped = IoThreads /\ \A t \in IoThreads : ~Busy(t)

(* Stop returns, main returns: ~CServer. *)
JoinIoThreads ==
    /\ main = "stopping"
    /\ AllJoined
    /\ main' = "joined"
    /\ sessions' = {}
    /\ UNCHANGED <<current, stopped, raced, late, rd, nread, wr, logicVars, sendVars>>
-----------------------------------------------------------------------------
(* HandleRead with a request of the peer. *)
HandleRead(s) ==
    /\ rd[s] = "pending" /\ CanRun(s)
    /\ nread[s] < MaxReqs[s]
    /\ nread' = [nread EXCEPT ![s] = @ + 1]
    /\ rd' = [rd EXCEPT ![s] = "post"]
    /\ UNCHANGED <<acceptVars, mapVars, wr, logicVars, sendVars>>

(* HandleRead with an error: the peer is gone.  ClearSession begins. *)
ReadError(s) ==
    /\ rd[s] = "pending" /\ CanRun(s)
    /\ rd' = [rd EXCEPT ![s] = "erase"]
    /\ BeginMap
    /\ UNCHANGED <<acceptVars, sessions, late, nread, wr, logicVars, sendVars>>

(* Faulty: the handler of a failed read leaves the session in the map. *)
ReadEndedOnly(s) ==
    /\ rd[s] = "erase"
    /\ rd' = [rd EXCEPT ![s] = "ended"]
    /\ UNCHANGED <<acceptVars, mapVars, nread, wr, logicVars, sendVars>>

(* ClearSession ends, and with it the session's reading. *)
ReadErased(s) ==
    /\ rd[s] = "erase"
    /\ rd' = [rd EXCEPT ![s] = "ended"]
    /\ EndMap(sessions \ {s})
    /\ UNCHANGED <<acceptVars, raced, late, nread, wr, logicVars, sendVars>>

Holding == {"test", "park", "go", "deal", "drain"}

Request0(s) == [ses |-> s, req |-> nread[s]]

(* PostMsgToQue under _mutex; a notification only for the first message.   *)
(* When it returns, HandleRead starts the next read.                       *)
Post(s) ==
    /\ rd[s] = "post"
    /\ worker \notin Holding
    /\ posted' = Append(posted, Request0(s))
    /\ msg_que' = Append(msg_que, Request0(s))
    /\ rd' = [rd EXCEPT ![s] = IF Len(msg_que') = 1 THEN "notify" ELSE "pending"]
    /\ UNCHANGED <<acceptVars, mapVars, nread, wr, worker, dealt, sendVars>>

NotifyOne == worker' = IF worker = "wait" THEN "woken" ELSE worker

PostNotify(s) ==
    /\ rd[s] = "notify"
    /\ rd' = [rd EXCEPT ![s] = "pending"]
    /\ NotifyOne
    /\ UNCHANGED <<acceptVars, mapVars, nread, wr, msg_que, posted, dealt, sendVars>>
-----------------------------------------------------------------------------
AsyncWrite(n) == [node |-> n, left |-> 1, ec |-> FALSE]

(* The socket takes the node of a write, or fails. *)
WriteSome(s) ==
    /\ \E op \in ops[s] :
          /\ op.left > 0 /\ ~op.ec
          /\ wire' = [wire EXCEPT ![s] = Append(@, [node |-> op.node, unit |-> 1])]
          /\ ops' = [ops EXCEPT ![s] = (@ \ {op}) \cup {[node |-> op.node, left |-> 0, ec |-> FALSE]}]
    /\ UNCHANGED <<acceptVars, mapVars, rd, nread, wr, logicVars,
                   send_que, dropped, cleared, replied>>

WriteError(s) ==
    /\ \E op \in ops[s] :
          /\ op.left > 0 /\ ~op.ec
          /\ ops' = [ops EXCEPT ![s] =
                        (@ \ {op}) \cup {[node |-> op.node, left |-> op.left, ec |-> TRUE]}]
    /\ UNCHANGED <<acceptVars, mapVars, rd, nread, wr, logicVars,
                   send_que, wire, dropped, cleared, replied>>

(* HandleWrite on the thread of the session. *)
HandleWriteOk(s) ==
    /\ CanRun(s)
    /\ \E op \in ops[s] :
          /\ op.left = 0
          /\ send_que' = [send_que EXCEPT ![s] = Tail(@)]
          /\ ops' = [ops EXCEPT ![s] = (@ \ {op})
                        \cup (IF send_que'[s] # <<>> THEN {AsyncWrite(Head(send_que'[s]))} ELSE {})]
    /\ UNCHANGED <<acceptVars, mapVars, rd, nread, wr, logicVars,
                   wire, dropped, cleared, replied>>

HandleWriteError(s) ==
    /\ CanRun(s)
    /\ \E op \in ops[s] :
          /\ op.ec
          /\ ops' = [ops EXCEPT ![s] = @ \ {op}]
    /\ cleared' = [cleared EXCEPT ![s] = TRUE]
    /\ wr' = [wr EXCEPT ![s] = "erase"]
    /\ BeginMap
    /\ UNCHANGED <<acceptVars, sessions, late, rd, nread, logicVars,
                   send_que, wire, dropped, replied>>

WriteErased(s) ==
    /\ wr[s] = "erase"
    /\ wr' = [wr EXCEPT ![s] = "idle"]
    /\ EndMap(sessions \ {s})
    /\ UNCHANGED <<acceptVars, raced, late, rd, nread, logicVars, sendVars>>
-----------------------------------------------------------------------------
Move(from, to) ==
    /\ worker = from
    /\ worker' = to
    /\ UNCHANGED <<acceptVars, mapVars, rd, nread, wr, msg_que, posted, dealt, sendVars>>

BStop == main \in {"notify", "join", "done"}

Wait == \/ Move("lock", "test") \/ Move("woken", "test")
        \/ Move("test", IF msg_que = <<>> /\ ~BStop THEN "park" ELSE "go")
        \/ Move("park", "wait")
        \/ Move("go", IF BStop THEN "drain" ELSE "deal")

Spurious == Move("wait", "woken")

(* Faulty: the answer goes to the newest session. *)
SendToNewest(m) ==
    LET s == IF current \in Sessions THEN current ELSE m.ses
    IN  /\ replied' = [replied EXCEPT ![s] = Append(@, m.req)]
        /\ send_que' = [send_que EXCEPT ![s] = Append(@, Len(replied'[s]))]
        /\ ops' = [ops EXCEPT ![s] = @ \cup
                      (IF send_que[s] = <<>> THEN {AsyncWrite(Len(replied'[s]))} ELSE {})]
        /\ UNCHANGED dropped

(* Faulty: every answer starts a write of its own. *)
SendAlwaysWrites(m) ==
    LET s == m.ses
    IN  /\ replied' = [replied EXCEPT ![s] = Append(@, m.req)]
        /\ send_que' = [send_que EXCEPT ![s] = Append(@, Len(replied'[s]))]
        /\ ops' = [ops EXCEPT ![s] = @ \cup {AsyncWrite(Len(replied'[s]))}]
        /\ UNCHANGED dropped

(* session->Send, called by the callback of request m. *)
Send(m) ==
    LET s == m.ses
    IN  IF Len(send_que[s]) > MAX_SENDQUE
        THEN /\ dropped' = [dropped EXCEPT ![s] = @ + 1]
             /\ UNCHANGED <<send_que, ops, replied>>
        ELSE /\ replied' = [replied EXCEPT ![s] = Append(@, m.req)]
             /\ send_que' = [send_que EXCEPT ![s] = Append(@, Len(replied'[s]))]
             /\ ops' = [ops EXCEPT ![s] = @ \cup
                           (IF send_que[s] = <<>> THEN {AsyncWrite(Len(replied'[s]))} ELSE {})]
             /\ UNCHANGED dropped

(* Faulty: the front message is dealt with and stays in the queue. *)
DealWithoutPop ==
    LET m == Head(msg_que)
    IN  /\ IF m \in Unregistered THEN UNCHANGED <<send_que, ops, dropped, replied>> ELSE Send(m)
        /\ dealt' = Append(dealt, [msg |-> m, called |-> m \notin Unregistered])
        /\ UNCHANGED <<acceptVars, mapVars, rd, nread, wr, posted, wire, cleared, msg_que>>

(* Look up the callback of the front message, run it, pop the message. *)
DealFront ==
    LET m == Head(msg_que)
    IN  /\ IF m \in Unregistered THEN UNCHANGED <<send_que, ops, dropped, replied>> ELSE Send(m)
        /\ dealt' = Append(dealt, [msg |-> m, called |-> m \notin Unregistered])
        /\ msg_que' = Tail(msg_que)
        /\ UNCHANGED <<acceptVars, mapVars, rd, nread, wr, posted, wire, cleared>>

Deal == worker = "deal" /\ DealFront /\ worker' = "lock"

Drain == \/ worker = "drain" /\ msg_que # <<>> /\ DealFront /\ UNCHANGED worker
         \/ msg_que = <<>> /\ Move("drain", "exit")

DealMsg == Wait \/ Deal \/ Drain

(* ~LogicSystem, when the static objects are destroyed. *)
SetStop ==
    /\ main = "joined"
    /\ main' = "notify"
    /\ UNCHANGED <<current, stopped, mapVars, rd, nread, wr, logicVars, sendVars>>

StopNotify ==
    /\ main = "notify"
    /\ NotifyOne
    /\ main' = "join"
    /\ UNCHANGED <<current, stopped, mapVars, rd, nread, wr, msg_que, posted, dealt, sendVars>>

StopJoin ==
    /\ main = "join" /\ worker = "exit"
    /\ main' = "done"
    /\ UNCHANGED <<current, stopped, mapVars, rd, nread, wr, logicVars, sendVars>>

Next == \/ AcceptOk \/ InsertBegin \/ InsertEnd \/ AcceptError
        \/ Signal \/ StopContext \/ JoinIoThreads
        \/ SetStop \/ StopNotify \/ StopJoin
        \/ DealMsg \/ Spurious
        \/ \E s \in Sessions :
              \/ HandleRead(s) \/ ReadError(s) \/ ReadErased(s) \/ Post(s) \/ PostNotify(s)
              \/ WriteSome(s) \/ WriteError(s) \/ WriteErased(s)
              \/ HandleWriteOk(s) \/ HandleWriteError(s)

Spec == Init /\ [][Next]_vars

(* Threads that are able to go on do so, ready completions are handled,    *)
(* writes end one way or the other, and a thread that waits for _mutex     *)
(* gets it if it is free again and again.  Peers, the signal and spurious  *)
(* wakeups are under no obligation.                                        *)
Fairness ==
    /\ WF_vars(InsertBegin \/ InsertEnd)
    /\ WF_vars(StopContext \/ JoinIoThreads)
    /\ WF_vars(DealMsg)
    /\ \A s \in Sessions :
          /\ WF_vars(ReadErased(s) \/ PostNotify(s) \/ WriteErased(s))
          /\ SF_vars(Post(s))
          /\ WF_vars(WriteSome(s) \/ WriteError(s))
          /\ WF_vars(HandleWriteOk(s) \/ HandleWriteError(s))

FairSpec == Spec /\ Fairness
-----------------------------------------------------------------------------
(* The io threads, the worker and main drive the logic layer only in the   *)
(* ways LogicSystem allows: nobody posts once Stop has returned, and a     *)
(* wakeup is never lost.                                                   *)
Logic == INSTANCE LogicSystem
           WITH Message <- Request, Registered <- Request \ Unregistered,
                MaxPosts <- Cardinality(Request),
                b_stop <- BStop,
                poster <- [t \in IoThreads |->
                              IF \E s \in Sessions : Thread(s) = t /\ rd[s] = "notify"
                              THEN "notify" ELSE "idle"],
                owner <- IF main \in {"joined", "notify", "join", "done"}
                         THEN main ELSE "running"

LogicImpl == Logic!Spec

(* Between the worker, which calls Send, and its io thread, which runs the *)
(* handlers, every session's send path behaves as SendQueue.               *)
Out(s) == INSTANCE SendQueue
            WITH Parts <- 1, MaxSends <- MaxReqs[s], MaxDrops <- MaxReqs[s],
                 send_que <- send_que[s], ops <- ops[s], wire <- wire[s],
                 pushed <- Len(replied[s]), dropped <- dropped[s], cleared <- cleared[s]

SendImpl == /\ \A s \in Sessions : Out(s)!SendInit
            /\ [][\A s \in Sessions : [Out(s)!SendNext]_(Out(s)!sendVars)]_vars

(* The places in dealt of the requests of session s whose callback has run. *)
Answered(s) == {i \in DOMAIN dealt : dealt[i].called /\ dealt[i].msg.ses = s}

(* From the socket through the logic thread and back: what is queued for a *)
(* peer are the answers to its own requests, in the order in which it sent *)
(* them, each once; only a full send queue leaves one out.                 *)
RepliesInOrder ==
    \A s \in Sessions :
       /\ Len(replied[s]) + dropped[s] = Cardinality(Answered(s))
       /\ \A i, j \in DOMAIN replied[s] : i < j => replied[s][i] < replied[s][j]
       /\ \A i \in DOMAIN replied[s] :
             \E j \in Answered(s) : dealt[j].msg.req = replied[s][i]

(* Nothing refers to the session any more. *)
Released(s) ==
    /\ s \notin sessions
    /\ rd[s] = "ended" /\ wr[s] = "idle" /\ ops[s] = {}
    /\ \A i \in DOMAIN msg_que : msg_que[i].ses # s
    /\ s = current => main # "insert" /\ main # "inserting"

(* Once the peer is gone, the CSession object is destroyed, whatever is    *)
(* still on its way through the logic thread and the socket - unless the   *)
(* peer was gone before the session was in the map, two operations on the  *)
(* map have met, or the server was stopped.                                *)
SessionReleased ==
    \A s \in Sessions :
       (rd[s] = "ended") ~>
          \/ Released(s)
          \/ s \in late \/ raced
          \/ main \notin {"accept", "insert", "inserting"}

(* AsioIOServicePool::Stop returns: the joins do not wait for a handler    *)
(* that waits, through a mutex, for another.                               *)
StopReturns == (main = "stopping") ~> (main = "joined")
=============================================================================
