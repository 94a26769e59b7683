-------------------------- MODULE AsyncServer_proofs --------------------------
(***************************************************************************)
(* Proofs about AsyncServer, for any number of sessions, pool threads and  *)
(* requests, any queue limit and any set of unregistered requests.         *)
(*                                                                         *)
(* A pool thread is inside one handler at a time (OneHandler), and once    *)
(* main has joined the pool it is in none (NoneAfterJoin): that is what    *)
(* LogicSystem takes for granted of its io threads.  RepliesInOrder rests  *)
(* on the order of the posts: a session posts its requests one after the   *)
(* other (PostedInOrder), the worker deals with them in the order of the   *)
(* posts (DealtAsPosted), so an answer is newer than all those before it.  *)
(***************************************************************************)
EXTENDS AsyncServer, FiniteSetTheorems, TLAPS

Joined == {"joined", "notify", "join", "done"}

MainPlaces == {"accept", "insert", "inserting", "stopping"} \cup Joined

InHandler == {"post", "notify", "erase"}

ReadPlaces == {"none", "pending", "ended"} \cup InHandler

WorkerPlaces == Holding \cup {"lock", "wait", "woken", "exit"}

Op == [node : Nat, left : {0, 1}, ec : BOOLEAN]

(* The values of the variables. *)
TypeOK ==
    /\ main \in MainPlaces
    /\ current \in Nat \ {0}
    /\ sessions \subseteq Sessions
    /\ raced \in BOOLEAN
    /\ late \subseteq Sessions
    /\ rd \in [Sessions -> ReadPlaces]
    /\ nread \in [Sessions -> Nat]
    /\ wr \in [Sessions -> {"idle", "erase"}]
    /\ msg_que \in Seq(Request)
    /\ worker \in WorkerPlaces
    /\ posted \in Seq(Request)
    /\ dealt \in Seq([msg : Request, called : BOOLEAN])
    /\ send_que \in [Sessions -> Seq(Nat)]
    /\ ops \in [Sessions -> SUBSET Op]
    /\ wire \in [Sessions -> Seq([node : Nat, unit : {1}])]
    /\ dropped \in [Sessions -> Nat]
    /\ cleared \in [Sessions -> BOOLEAN]
    /\ replied \in [Sessions -> Seq(Nat)]

(* Sessions are started one after the other. *)
NotStarted ==
    /\ main \in {"insert", "inserting"} => current \in Sessions
    /\ \A s \in Sessions :
          s > current \/ (s = current /\ main = "accept") => rd[s] = "none"

(* A pool thread is inside at most one handler. *)
OneHandler ==
    \A s, u \in Sessions :
       Thread(s) = Thread(u) =>
          /\ rd[s] \in InHandler => wr[u] # "erase"
          /\ s # u => ~(rd[s] \in InHandler /\ rd[u] \in InHandler)
          /\ s # u => ~(wr[s] = "erase" /\ wr[u] = "erase")

(* Nor is it in one when main has joined it, and it never will be again. *)
NoneAfterJoin ==
    main \in Joined => /\ stopped = IoThreads
                       /\ \A s \in Sessions : rd[s] \notin InHandler /\ wr[s] # "erase"

(* What the worker knows of the queue at each place of the loop. *)
WorkerKnows ==
    /\ worker = "go" => msg_que # <<>> \/ BStop
    /\ worker = "deal" => msg_que # <<>>

(* The worker deals with the messages in the order of the posts. *)
DealtAsPosted ==
    /\ Len(posted) = Len(dealt) + Len(msg_que)
    /\ \A i \in DOMAIN dealt : dealt[i].msg = posted[i]
    /\ \A i \in DOMAIN msg_que : msg_que[i] = posted[Len(dealt) + i]

(* A session posts its requests in the order in which it reads them. *)
PostedInOrder ==
    /\ \A i, j \in DOMAIN posted :
          posted[i].ses = posted[j].ses /\ i < j => posted[i].req < posted[j].req
    /\ \A i \in DOMAIN posted : posted[i].req <= nread[posted[i].ses]
    /\ \A s \in Sessions : rd[s] = "post" =>
          \A i \in DOMAIN posted : posted[i].ses = s => posted[i].req < nread[s]

ReadBound ==
    \A s \in Sessions : /\ nread[s] <= MaxReqs[s]
                        /\ rd[s] = "post" => nread[s] > 0

(* The write in flight is that of the front of the queue. *)
OneWrite ==
    \A s \in Sessions : \A op \in ops[s] : ops[s] = {op} /\ send_que[s] # <<>>

IInv == /\ TypeOK
        /\ NotStarted
        /\ OneHandler
        /\ NoneAfterJoin
        /\ WorkerKnows
        /\ DealtAsPosted
        /\ PostedInOrder
        /\ ReadBound
        /\ OneWrite
        /\ RepliesInOrder
-----------------------------------------------------------------------------
(* The invariant holds before main accepts. *)
LEMMA InitInv == Init => IInv
<1> SUFFICES ASSUME Init PROVE IInv
  OBVIOUS
<1> USE DEF Init
<1>1. TypeOK
  <2>1. /\ msg_que \in Seq(Request) /\ posted \in Seq(Request)
        /\ dealt \in Seq([msg : Request, called : BOOLEAN])
    OBVIOUS
  <2>2. /\ send_que \in [Sessions -> Seq(Nat)] /\ replied \in [Sessions -> Seq(Nat)]
        /\ wire \in [Sessions -> Seq([node : Nat, unit : {1}])]
    <3>1. <<>> \in Seq(Nat) /\ <<>> \in Seq([node : Nat, unit : {1}])
      OBVIOUS
    <3>2. QED
      BY <3>1
  <2>3. /\ rd \in [Sessions -> ReadPlaces] /\ wr \in [Sessions -> {"idle", "erase"}]
        /\ main \in MainPlaces /\ worker \in WorkerPlaces
    BY DEF ReadPlaces, MainPlaces, WorkerPlaces
  <2>4. /\ nread \in [Sessions -> Nat] /\ ops \in [Sessions -> SUBSET Op]
        /\ dropped \in [Sessions -> Nat] /\ cleared \in [Sessions -> BOOLEAN]
    OBVIOUS
  <2>5. /\ current \in Nat \ {0}
        /\ sessions \subseteq Sessions /\ late \subseteq Sessions
    OBVIOUS
  <2>6. raced \in BOOLEAN
    OBVIOUS
  <2>7. QED
    BY <2>1, <2>2, <2>3, <2>4, <2>5, <2>6 DEF TypeOK
<1>2. NotStarted /\ OneHandler /\ NoneAfterJoin /\ WorkerKnows
  BY DEF NotStarted, OneHandler, NoneAfterJoin, WorkerKnows, InHandler, Joined
<1>3. DealtAsPosted /\ PostedInOrder
  BY DEF DealtAsPosted, PostedInOrder
<1>4. ReadBound
  BY ServerAssumption DEF ReadBound, Sessions
<1>5. OneWrite
  BY DEF OneWrite
<1>6. RepliesInOrder
  <2>1. \A s \in Sessions : Answered(s) = {}
    BY DEF Answered
  <2>2. \A s \in Sessions : Len(replied[s]) = 0 /\ dropped[s] = 0 /\ DOMAIN replied[s] = {}
    OBVIOUS
  <2>3. 0 + 0 = Cardinality({})
    BY FS_EmptySet
  <2>4. QED
    BY <2>1, <2>2, <2>3 DEF RepliesInOrder
<1>7. QED
  BY <1>1, <1>2, <1>3, <1>4, <1>5, <1>6 DEF IInv
-----------------------------------------------------------------------------
(* What the parts of the invariant are made of, for the actions that leave *)
(* it alone.                                                               *)
LEMMA QueueFrame ==
    ASSUME IInv, UNCHANGED logicVars, BStop => BStop'
    PROVE  WorkerKnows' /\ DealtAsPosted'
<1>1. UNCHANGED <<msg_que, worker, posted, dealt>>
  BY DEF logicVars
<1>2. WorkerKnows'
  BY <1>1 DEF IInv, WorkerKnows
<1>3. DealtAsPosted'
  BY <1>1 DEF IInv, DealtAsPosted
<1>4. QED
  BY <1>2, <1>3

(* What was posted stays in order while nothing is posted or read. *)
LEMMA OrderFrame ==
    ASSUME IInv, UNCHANGED <<posted, nread>>,
           \A s \in Sessions : rd'[s] = "post" => rd[s] = "post"
    PROVE  PostedInOrder' /\ ReadBound'
<1>1. PostedInOrder'
  BY DEF IInv, PostedInOrder
<1>2. ReadBound'
  BY DEF IInv, ReadBound
<1>3. QED
  BY <1>1, <1>2

(* The answers stay in order while none is queued. *)
LEMMA RepliesFrame ==
    ASSUME IInv, UNCHANGED <<dealt, dropped, replied>> PROVE RepliesInOrder'
<1>1. \A s \in Sessions : Answered(s)' = Answered(s)
  BY DEF Answered
<1>2. QED
  BY <1>1 DEF IInv, RepliesInOrder

(* Nothing changes on the send paths. *)
LEMMA SendFrame ==
    ASSUME IInv, UNCHANGED <<sendVars, dealt>> PROVE OneWrite' /\ RepliesInOrder'
<1>1. OneWrite'
  BY DEF IInv, OneWrite, sendVars
<1>2. RepliesInOrder'
  BY RepliesFrame DEF sendVars
<1>3. QED
  BY <1>1, <1>2

(* Handlers that end, or none that begin. *)
LEMMA HandlerFrame ==
    ASSUME IInv,
           \A s \in Sessions : rd'[s] \in InHandler => rd[s] \in InHandler,
           \A s \in Sessions : wr'[s] = "erase" => wr[s] = "erase"
    PROVE  OneHandler'
  BY DEF IInv, OneHandler, Thread

(* Before the pool is stopped, nothing is known of its handlers. *)
LEMMA JoinFrame ==
    ASSUME IInv, UNCHANGED stopped, main' \in Joined => main \in Joined,
           \A s \in Sessions : rd'[s] \in InHandler => rd[s] \in InHandler,
           \A s \in Sessions : wr'[s] = "erase" => wr[s] = "erase"
    PROVE  NoneAfterJoin'
  BY DEF IInv, NoneAfterJoin, IoThreads
-----------------------------------------------------------------------------
(* The main thread: the accept loop, and the end of the program. *)
AcceptActions == AcceptOk \/ InsertBegin \/ InsertEnd \/ AcceptError

(* Whatever a race makes of _sessions, it holds sessions. *)
LEMMA InsertType ==
    ASSUME IInv, NEW s \in Sessions, EndMap(sessions \cup {s}) \/ EndMap(sessions \ {s})
    PROVE  sessions' \subseteq Sessions
<1>1. sessions \subseteq Sessions
  BY DEF IInv, TypeOK
<1>2. CASE raced
  BY <1>1, <1>2 DEF EndMap
<1>3. CASE ~raced
  BY <1>1, <1>3 DEF EndMap
<1>4. QED
  BY <1>2, <1>3

(* The start of a change of _sessions. *)
LEMMA BeginType ==
    ASSUME IInv, BeginMap PROVE raced' \in BOOLEAN
  BY Zenon DEF BeginMap

(* start_accept, handle_accept and the insertion keep the invariant. *)
LEMMA AcceptInv == IInv /\ AcceptActions => IInv'
<1> SUFFICES ASSUME IInv, AcceptActions PROVE IInv'
  OBVIOUS
<1> USE DEF acceptVars, mapVars
<1>1. CASE AcceptOk
  <2>1. current \in Sessions /\ rd[current] = "none" /\ main = "accept"
    BY <1>1 DEF AcceptOk, Listening, IInv, TypeOK, NotStarted, Sessions
  <2>2. /\ rd' = [rd EXCEPT ![current] = "pending"] /\ main' = "insert"
        /\ UNCHANGED <<current, stopped, sessions, raced, late, nread, wr, logicVars, sendVars>>
    BY <1>1 DEF AcceptOk
  <2>3. rd' \in [Sessions -> ReadPlaces] /\ \A s \in Sessions : s # current => rd'[s] = rd[s]
    BY <2>1, <2>2 DEF IInv, TypeOK, ReadPlaces
  <2>4. TypeOK'
    BY <2>2, <2>3 DEF IInv, TypeOK, MainPlaces, logicVars, sendVars
  <2>5. NotStarted'
    BY <2>1, <2>2, <2>3 DEF IInv, NotStarted, TypeOK, Sessions
  <2>6. rd'[current] = "pending"
    BY <2>1, <2>2 DEF IInv, TypeOK
  <2>7. \A s \in Sessions : /\ rd'[s] \in InHandler => rd[s] \in InHandler
                            /\ rd'[s] = "post" => rd[s] = "post"
                            /\ wr'[s] = wr[s]
    BY <2>2, <2>3, <2>6 DEF InHandler
  <2>8. OneHandler' /\ NoneAfterJoin'
    BY <2>2, <2>7, HandlerFrame, JoinFrame DEF Joined
  <2>9. WorkerKnows' /\ DealtAsPosted' /\ OneWrite' /\ RepliesInOrder'
    BY <2>1, <2>2, QueueFrame, SendFrame DEF BStop, logicVars
  <2>10. PostedInOrder' /\ ReadBound'
    BY <2>2, <2>7, OrderFrame DEF logicVars
  <2>11. QED
    BY <2>4, <2>5, <2>8, <2>9, <2>10 DEF IInv
<1>2. CASE InsertBegin
  <2>1. /\ main = "insert" /\ main' = "inserting"
        /\ UNCHANGED <<current, stopped, sessions, late, rd, nread, wr, logicVars, sendVars>>
    BY <1>2 DEF InsertBegin
  <2>2. raced' \in BOOLEAN
    BY <1>2, BeginType DEF InsertBegin
  <2>3. TypeOK'
    BY <2>1, <2>2 DEF IInv, TypeOK, MainPlaces, logicVars, sendVars
  <2>4. NotStarted'
    BY <2>1 DEF IInv, NotStarted
  <2>5. OneHandler' /\ NoneAfterJoin'
    BY <2>1, HandlerFrame, JoinFrame DEF Joined
  <2>6. WorkerKnows' /\ DealtAsPosted' /\ OneWrite' /\ RepliesInOrder'
    BY <2>1, QueueFrame, SendFrame DEF BStop, logicVars
  <2>7. PostedInOrder' /\ ReadBound'
    BY <2>1, OrderFrame DEF logicVars
  <2>8. QED
    BY <2>3, <2>4, <2>5, <2>6, <2>7 DEF IInv
<1>3. CASE InsertEnd
  <2>1. /\ main = "inserting" /\ main' = "accept" /\ current' = current + 1
        /\ UNCHANGED <<stopped, raced, rd, nread, wr, logicVars, sendVars>>
    BY <1>3 DEF InsertEnd, StartAccept
  <2>2. current \in Sessions /\ late' \subseteq Sessions
    BY <1>3, <2>1 DEF InsertEnd, IInv, NotStarted, TypeOK
  <2>3. sessions' \subseteq Sessions
    BY <1>3, <2>2, InsertType DEF InsertEnd
  <2>4. current' \in Nat \ {0}
    BY <2>1 DEF IInv, TypeOK
  <2>5. TypeOK'
    BY <2>1, <2>2, <2>3, <2>4 DEF IInv, TypeOK, MainPlaces, logicVars, sendVars
  <2>6. NotStarted'
    BY <2>1 DEF IInv, NotStarted, TypeOK, Sessions
  <2>7. OneHandler' /\ NoneAfterJoin'
    BY <2>1, HandlerFrame, JoinFrame DEF Joined
  <2>8. WorkerKnows' /\ DealtAsPosted' /\ OneWrite' /\ RepliesInOrder'
    BY <2>1, QueueFrame, SendFrame DEF BStop, logicVars
  <2>9. PostedInOrder' /\ ReadBound'
    BY <2>1, OrderFrame DEF logicVars
  <2>10. QED
    BY <2>5, <2>6, <2>7, <2>8, <2>9 DEF IInv
<1>4. CASE AcceptError
  <2>1. /\ main = "accept" /\ main' = "accept" /\ current' = current + 1
        /\ UNCHANGED <<stopped, sessions, raced, late, rd, nread, wr, logicVars, sendVars>>
    BY <1>4 DEF AcceptError, Listening, StartAccept
  <2>2. current' \in Nat \ {0}
    BY <2>1 DEF IInv, TypeOK
  <2>3. TypeOK'
    BY <2>1, <2>2 DEF IInv, TypeOK, MainPlaces, logicVars, sendVars
  <2>4. NotStarted'
    BY <2>1 DEF IInv, NotStarted, TypeOK, Sessions
  <2>5. OneHandler' /\ NoneAfterJoin'
    BY <2>1, HandlerFrame, JoinFrame DEF Joined
  <2>6. WorkerKnows' /\ DealtAsPosted' /\ OneWrite' /\ RepliesInOrder'
    BY <2>1, QueueFrame, SendFrame DEF BStop, logicVars
  <2>7. PostedInOrder' /\ ReadBound'
    BY <2>1, OrderFrame DEF logicVars
  <2>8. QED
    BY <2>3, <2>4, <2>5, <2>6, <2>7 DEF IInv
<1>5. QED
  BY <1>1, <1>2, <1>3, <1>4 DEF AcceptActions

StopActions == Signal \/ StopContext \/ JoinIoThreads \/ SetStop \/ StopNotify \/ StopJoin

(* Facts about the numbers and the requests. *)
LEMMA UpTo ==
    ASSUME NEW n \in Nat PROVE IsFiniteSet(1 .. n) /\ Cardinality(1 .. n) = n
<1>1. IsFiniteSet(1 .. n) /\ Cardinality(1 .. n) = IF 1 > n THEN 0 ELSE n - 1 + 1
  BY FS_Interval
<1>2. CASE n = 0
  BY <1>1, <1>2
<1>3. CASE n # 0
  BY <1>1, <1>3
<1>4. QED
  BY <1>2, <1>3

(* The fields of a request. *)
LEMMA RequestType ==
    \A r \in Request : /\ r.ses \in Sessions /\ r.req \in Nat /\ r.req <= MaxReqs[r.ses]
                       /\ r.req > 0 /\ r = [ses |-> r.ses, req |-> r.req]
<1>1. ASSUME NEW s \in Sessions, NEW r \in [ses : {s}, req : 1 .. MaxReqs[s]]
      PROVE  /\ r.ses = s /\ r.req \in Nat /\ r.req <= MaxReqs[s] /\ r.req > 0
             /\ r = [ses |-> r.ses, req |-> r.req]
  <2>1. MaxReqs[s] \in Nat
    BY ServerAssumption DEF Sessions
  <2>2. r.req \in 1 .. MaxReqs[s]
    OBVIOUS
  <2>3. QED
    BY <2>1, <2>2
<1>2. QED
  BY <1>1 DEF Request

(* The io_context a session is given is one of the pool. *)
LEMMA ThreadType == \A s \in Sessions : Thread(s) \in IoThreads
  BY ServerAssumption DEF Sessions, Thread, IoThreads

(* What the steps of main after the accept loop leave alone. *)
LEMMA StopFrame ==
    ASSUME IInv, UNCHANGED <<current, rd, nread, wr, msg_que, posted, dealt, sendVars>>,
           main # "accept" => main' # "accept", main' \notin {"insert", "inserting"}
    PROVE  /\ NotStarted' /\ OneHandler' /\ DealtAsPosted' /\ PostedInOrder' /\ ReadBound'
           /\ OneWrite' /\ RepliesInOrder'
<1>1. NotStarted'
  BY DEF IInv, NotStarted
<1>2. OneHandler'
  BY HandlerFrame
<1>3. DealtAsPosted'
  BY DEF IInv, DealtAsPosted
<1>4. PostedInOrder' /\ ReadBound'
  BY OrderFrame
<1>5. OneWrite' /\ RepliesInOrder'
  BY SendFrame
<1>6. QED
  BY <1>1, <1>2, <1>3, <1>4, <1>5

(* The signal, Stop and the destructors keep the invariant. *)
LEMMA StopInv == IInv /\ StopActions => IInv'
<1> SUFFICES ASSUME IInv, StopActions PROVE IInv'
  OBVIOUS
<1> USE DEF mapVars, logicVars
<1>1. CASE Signal
  <2>1. /\ main = "accept" /\ main' = "stopping"
        /\ UNCHANGED <<current, stopped, sessions, raced, late, rd, nread, wr, logicVars, sendVars>>
    BY <1>1 DEF Signal
  <2>2. TypeOK'
    BY <2>1 DEF IInv, TypeOK, MainPlaces, sendVars
  <2>3. NoneAfterJoin'
    BY <2>1, JoinFrame DEF Joined
  <2>4. WorkerKnows'
    BY <2>1, QueueFrame DEF BStop
  <2>5. QED
    BY <2>1, <2>2, <2>3, <2>4, StopFrame DEF IInv
<1>2. CASE StopContext
  <2>1. /\ main = "stopping" /\ main' = "stopping"
        /\ UNCHANGED <<current, sessions, raced, late, rd, nread, wr, logicVars, sendVars>>
    BY <1>2 DEF StopContext
  <2>2. TypeOK'
    BY <2>1 DEF IInv, TypeOK, MainPlaces, sendVars
  <2>3. NoneAfterJoin'
    BY <2>1 DEF NoneAfterJoin, Joined
  <2>4. WorkerKnows'
    BY <2>1, QueueFrame DEF BStop
  <2>5. QED
    BY <2>1, <2>2, <2>3, <2>4, StopFrame DEF IInv
<1>3. CASE JoinIoThreads
  <2>1. /\ main = "stopping" /\ main' = "joined" /\ AllJoined /\ sessions' = {}
        /\ UNCHANGED <<current, stopped, raced, late, rd, nread, wr, logicVars, sendVars>>
    BY <1>3 DEF JoinIoThreads
  <2>2. TypeOK'
    BY <2>1 DEF IInv, TypeOK, MainPlaces, Joined, sendVars
  <2>3. \A s \in Sessions : rd[s] \notin InHandler /\ wr[s] # "erase"
    BY <2>1, ThreadType DEF AllJoined, Busy, InHandler
  <2>4. NoneAfterJoin'
    BY <2>1, <2>3 DEF NoneAfterJoin, AllJoined, IoThreads
  <2>5. WorkerKnows'
    BY <2>1, QueueFrame DEF BStop
  <2>6. QED
    BY <2>1, <2>2, <2>4, <2>5, StopFrame DEF IInv
<1>4. CASE SetStop
  <2>1. /\ main = "joined" /\ main' = "notify"
        /\ UNCHANGED <<current, stopped, sessions, raced, late, rd, nread, wr, logicVars, sendVars>>
    BY <1>4 DEF SetStop
  <2>2. TypeOK'
    BY <2>1 DEF IInv, TypeOK, MainPlaces, Joined, sendVars
  <2>3. NoneAfterJoin'
    BY <2>1, JoinFrame DEF Joined
  <2>4. WorkerKnows'
    BY <2>1, QueueFrame DEF BStop
  <2>5. QED
    BY <2>1, <2>2, <2>3, <2>4, StopFrame DEF IInv
<1>5. CASE StopNotify
  <2>1. /\ main = "notify" /\ main' = "join"
        /\ UNCHANGED <<current, stopped, sessions, raced, late, rd, nread, wr,
                       msg_que, posted, dealt, sendVars>>
    BY <1>5 DEF StopNotify
  <2>2. worker' \in {worker, "woken"}
    BY <1>5 DEF StopNotify, NotifyOne
  <2>3. TypeOK'
    BY <2>1, <2>2 DEF IInv, TypeOK, MainPlaces, WorkerPlaces, Joined, sendVars
  <2>4. NoneAfterJoin'
    BY <2>1, JoinFrame DEF Joined
  <2>5. WorkerKnows'
    BY <2>1, <2>2 DEF IInv, WorkerKnows, BStop
  <2>6. QED
    BY <2>1, <2>3, <2>4, <2>5, StopFrame DEF IInv
<1>6. CASE StopJoin
  <2>1. /\ main = "join" /\ main' = "done"
        /\ UNCHANGED <<current, stopped, sessions, raced, late, rd, nread, wr, logicVars, sendVars>>
    BY <1>6 DEF StopJoin
  <2>2. TypeOK'
    BY <2>1 DEF IInv, TypeOK, MainPlaces, Joined, sendVars
  <2>3. NoneAfterJoin'
    BY <2>1, JoinFrame DEF Joined
  <2>4. WorkerKnows'
    BY <2>1, QueueFrame DEF BStop
  <2>5. QED
    BY <2>1, <2>2, <2>3, <2>4, StopFrame DEF IInv
<1>7. QED
  BY <1>1, <1>2, <1>3, <1>4, <1>5, <1>6 DEF StopActions
-----------------------------------------------------------------------------
(* The pool threads: reading and posting. *)
LEMMA FreeThread ==
    ASSUME IInv, NEW s \in Sessions, CanRun(s)
    PROVE  /\ main \notin Joined
           /\ \A u \in Sessions : Thread(u) = Thread(s) => rd[u] \notin InHandler /\ wr[u] # "erase"
<1>1. main \notin Joined
  BY ThreadType DEF CanRun, IInv, NoneAfterJoin
<1>2. \A u \in Sessions : Thread(u) = Thread(s) => rd[u] \notin InHandler /\ wr[u] # "erase"
  BY DEF CanRun, Busy, InHandler
<1>3. QED
  BY <1>1, <1>2

(* A handler that begins on a free thread is the only one there. *)
LEMMA HandlerBegins ==
    ASSUME IInv, NEW s \in Sessions, CanRun(s), UNCHANGED main,
           \A u \in Sessions : u # s => rd'[u] = rd[u] /\ wr'[u] = wr[u],
           rd'[s] \notin InHandler \/ wr'[s] # "erase"
    PROVE  OneHandler' /\ NoneAfterJoin'
<1>1. \A u \in Sessions : Thread(u) = Thread(s) => rd[u] \notin InHandler /\ wr[u] # "erase"
  BY FreeThread
<1>2. ASSUME NEW v \in Sessions, NEW u \in Sessions, Thread(v) = Thread(u)
      PROVE  /\ rd'[v] \in InHandler => wr'[u] # "erase"
             /\ v # u => ~(rd'[v] \in InHandler /\ rd'[u] \in InHandler)
             /\ v # u => ~(wr'[v] = "erase" /\ wr'[u] = "erase")
  <2>1. CASE v # s /\ u # s
    BY <1>2, <2>1 DEF IInv, OneHandler
  <2>2. CASE v = s /\ u = s
    BY <2>2
  <2>3. CASE v = s /\ u # s
    BY <1>1, <1>2, <2>3
  <2>4. CASE v # s /\ u = s
    BY <1>1, <1>2, <2>4
  <2>5. QED
    BY <2>1, <2>2, <2>3, <2>4
<1>3. OneHandler'
  BY <1>2 DEF OneHandler, Thread
<1>4. NoneAfterJoin'
  BY FreeThread DEF NoneAfterJoin
<1>5. QED
  BY <1>3, <1>4

ReadActions(s) == HandleRead(s) \/ ReadError(s) \/ ReadErased(s) \/ Post(s) \/ PostNotify(s)

(* A session that does anything has been started. *)
LEMMA StartedFrame ==
    ASSUME IInv, NEW s \in Sessions, rd[s] # "none", UNCHANGED <<main, current>>,
           \A u \in Sessions : u # s => rd'[u] = rd[u]
    PROVE  NotStarted'
  BY DEF IInv, NotStarted

(* What HandleRead posts is a request of its session. *)
LEMMA PostedType ==
    ASSUME IInv, NEW s \in Sessions, rd[s] = "post"
    PROVE  Request0(s) \in Request
<1>1. /\ nread[s] \in Nat /\ nread[s] > 0 /\ nread[s] <= MaxReqs[s] /\ MaxReqs[s] \in Nat
  BY ServerAssumption DEF IInv, TypeOK, ReadBound, Sessions
<1>2. nread[s] \in 1 .. MaxReqs[s]
  BY <1>1
<1>3. Request0(s) \in [ses : {s}, req : 1 .. MaxReqs[s]]
  BY <1>2 DEF Request0
<1>4. QED
  BY <1>3 DEF Request

(* The queue and the history grow by the same request, the newest of its   *)
(* session.                                                                *)
LEMMA PostFacts ==
    ASSUME IInv, NEW s \in Sessions, rd[s] = "post",
           posted' = Append(posted, Request0(s)), msg_que' = Append(msg_que, Request0(s)),
           UNCHANGED <<dealt, nread>>, rd'[s] # "post",
           \A u \in Sessions : u # s => rd'[u] = rd[u]
    PROVE  /\ posted' \in Seq(Request) /\ msg_que' \in Seq(Request) /\ msg_que' # <<>>
           /\ DealtAsPosted' /\ PostedInOrder' /\ ReadBound'
<1> DEFINE r == Request0(s)
<1>1. nread[s] \in Nat
  BY DEF IInv, TypeOK
<1>2. r.ses = s /\ r.req = nread[s]
  BY DEF Request0
<1>3. r \in Request
  BY PostedType
<1>4. posted \in Seq(Request) /\ msg_que \in Seq(Request)
      /\ dealt \in Seq([msg : Request, called : BOOLEAN])
  BY DEF IInv, TypeOK
<1> DEFINE p == Append(posted, r)
           q == Append(msg_que, r)
<1>5. posted' = p /\ msg_que' = q
  OBVIOUS
<1> HIDE DEF r
<1>6. /\ p \in Seq(Request) /\ DOMAIN p = 1 .. Len(posted) + 1 /\ Len(p) = Len(posted) + 1
      /\ p[Len(posted) + 1] = r
      /\ \A i \in DOMAIN posted : p[i] = posted[i]
  BY <1>3, <1>4
<1>7. /\ q \in Seq(Request) /\ DOMAIN q = 1 .. Len(msg_que) + 1 /\ Len(q) = Len(msg_que) + 1
      /\ q[Len(msg_que) + 1] = r
      /\ \A i \in DOMAIN msg_que : q[i] = msg_que[i]
  BY <1>3, <1>4
<1> HIDE DEF p, q
<1>8. /\ Len(posted) \in Nat /\ Len(msg_que) \in Nat /\ Len(dealt) \in Nat
      /\ DOMAIN posted = 1 .. Len(posted) /\ DOMAIN msg_que = 1 .. Len(msg_que)
      /\ DOMAIN dealt = 1 .. Len(dealt)
      /\ Len(posted) = Len(dealt) + Len(msg_que)
  BY <1>4 DEF IInv, DealtAsPosted
<1>9. /\ Len(p) = Len(dealt) + Len(q)
      /\ \A i \in DOMAIN dealt : dealt[i].msg = p[i]
      /\ \A i \in DOMAIN q : q[i] = p[Len(dealt) + i]
  <2>1. Len(p) = Len(dealt) + Len(q)
    BY <1>6, <1>7, <1>8
  <2>2. ASSUME NEW i \in DOMAIN dealt PROVE dealt[i].msg = p[i]
    <3>1. i \in DOMAIN posted
      BY <1>8
    <3>2. QED
      BY <1>6, <3>1 DEF IInv, DealtAsPosted
  <2>3. ASSUME NEW i \in DOMAIN q PROVE q[i] = p[Len(dealt) + i]
    <3>1. CASE i \in DOMAIN msg_que
      <4>1. Len(dealt) + i \in DOMAIN posted /\ msg_que[i] = posted[Len(dealt) + i]
        BY <1>8, <3>1 DEF IInv, DealtAsPosted
      <4>2. QED
        BY <1>6, <1>7, <3>1, <4>1
    <3>2. CASE i = Len(msg_que) + 1
      BY <1>6, <1>7, <1>8, <3>2
    <3>3. QED
      BY <1>7, <1>8, <3>1, <3>2
  <2>4. QED
    BY <2>1, <2>2, <2>3
<1>10. DealtAsPosted'
  BY <1>5, <1>9 DEF DealtAsPosted
<1>11. ASSUME NEW i \in DOMAIN p
       PROVE  p[i] = r \/ (i \in DOMAIN posted /\ p[i] = posted[i])
  <2>1. i \in 1 .. Len(posted) + 1
    BY <1>6, <1>11
  <2>2. i \in 1 .. Len(posted) \/ i = Len(posted) + 1
    BY <1>8, <2>1
  <2>3. QED
    BY <1>6, <1>8, <2>2
<1>12. ASSUME NEW i \in DOMAIN posted PROVE posted[i].ses \in Sessions /\ posted[i].req \in Nat
  <2>1. posted[i] \in Request
    BY <1>4
  <2>2. QED
    BY <2>1, RequestType
<1>13. ASSUME NEW i \in DOMAIN p, NEW j \in DOMAIN p, p[i].ses = p[j].ses, i < j
       PROVE  p[i].req < p[j].req
  <2>1. i \in DOMAIN posted /\ p[i] = posted[i]
    BY <1>6, <1>8, <1>13
  <2>2. CASE j \in DOMAIN posted
    BY <1>6, <1>13, <2>1, <2>2 DEF IInv, PostedInOrder
  <2>3. CASE j = Len(posted) + 1
    <3>1. posted[i].ses = s
      BY <1>2, <1>6, <1>13, <2>1, <2>3
    <3>2. QED
      BY <1>2, <1>6, <2>1, <2>3, <3>1 DEF IInv, PostedInOrder
  <2>4. j \in 1 .. Len(posted) + 1
    BY <1>6, <1>13
  <2>5. j \in 1 .. Len(posted) \/ j = Len(posted) + 1
    BY <1>8, <2>4
  <2>6. QED
    BY <1>8, <2>2, <2>3, <2>5
<1>14. ASSUME NEW i \in DOMAIN p PROVE p[i].req <= nread[p[i].ses]
  <2>1. CASE p[i] = r
    BY <1>1, <1>2, <2>1
  <2>2. CASE i \in DOMAIN posted /\ p[i] = posted[i]
    BY <2>2 DEF IInv, PostedInOrder
  <2>3. QED
    BY <1>11, <2>1, <2>2
<1>15. ASSUME NEW u \in Sessions, rd'[u] = "post", NEW i \in DOMAIN p, p[i].ses = u
       PROVE  p[i].req < nread[u]
  <2>1. u # s /\ rd[u] = "post"
    BY <1>15
  <2>2. i \in DOMAIN posted /\ p[i] = posted[i]
    BY <1>2, <1>11, <1>15, <2>1
  <2>3. QED
    BY <1>15, <2>1, <2>2 DEF IInv, PostedInOrder
<1>16. PostedInOrder'
  BY <1>5, <1>13, <1>14, <1>15 DEF PostedInOrder
<1>17. ReadBound'
  BY DEF IInv, ReadBound
<1>18. q # <<>>
  BY <1>7, <1>8
<1>19. QED
  BY <1>5, <1>6, <1>7, <1>10, <1>16, <1>17, <1>18

(* A completed read keeps the invariant. *)
LEMMA HandleReadInv ==
    ASSUME IInv, NEW s \in Sessions, HandleRead(s) PROVE IInv'
<1> USE DEF acceptVars, mapVars, logicVars
<1> DEFINE n == [nread EXCEPT ![s] = @ + 1]
<1>1. /\ rd[s] = "pending" /\ CanRun(s) /\ nread[s] < MaxReqs[s]
      /\ nread' = n /\ rd' = [rd EXCEPT ![s] = "post"]
      /\ UNCHANGED <<main, current, stopped, sessions, raced, late, wr, logicVars, sendVars>>
  BY DEF HandleRead
<1>2. /\ nread[s] \in Nat /\ n \in [Sessions -> Nat] /\ n[s] = nread[s] + 1
      /\ \A u \in Sessions : u # s => n[u] = nread[u]
  BY DEF IInv, TypeOK
<1> HIDE DEF n
<1>3. /\ rd' \in [Sessions -> ReadPlaces] /\ rd'[s] = "post"
      /\ \A u \in Sessions : u # s => rd'[u] = rd[u]
  BY <1>1 DEF IInv, TypeOK, ReadPlaces, InHandler
<1>4. TypeOK'
  BY <1>1, <1>2, <1>3 DEF IInv, TypeOK, sendVars
<1>5. NotStarted'
  BY <1>1, <1>3, StartedFrame
<1>6. wr'[s] # "erase"
  BY <1>1, FreeThread
<1>7. OneHandler' /\ NoneAfterJoin'
  BY <1>1, <1>3, <1>6, HandlerBegins
<1>8. WorkerKnows' /\ DealtAsPosted' /\ OneWrite' /\ RepliesInOrder'
  BY <1>1, QueueFrame, SendFrame DEF BStop
<1>9. \A i \in DOMAIN posted : posted[i].req \in Nat /\ posted[i].ses \in Sessions
  BY RequestType DEF IInv, TypeOK
<1>10. ASSUME NEW i \in DOMAIN posted
       PROVE  /\ posted[i].req <= n[posted[i].ses]
              /\ posted[i].ses = s => posted[i].req < n[s]
  <2>1. posted[i].req <= nread[posted[i].ses]
    BY <1>10 DEF IInv, PostedInOrder
  <2>2. CASE posted[i].ses = s
    BY <1>2, <1>9, <1>10, <2>1, <2>2
  <2>3. CASE posted[i].ses # s
    BY <1>2, <1>9, <1>10, <2>1, <2>3
  <2>4. QED
    BY <2>2, <2>3
<1>11. ASSUME NEW u \in Sessions, u # s, rd'[u] = "post", NEW i \in DOMAIN posted, posted[i].ses = u
       PROVE  posted[i].req < n[u]
  BY <1>2, <1>3, <1>11 DEF IInv, PostedInOrder
<1>12. PostedInOrder'
  BY <1>1, <1>10, <1>11 DEF IInv, PostedInOrder
<1>13. ASSUME NEW u \in Sessions
       PROVE  n[u] <= MaxReqs[u] /\ (rd'[u] = "post" => n[u] > 0)
  <2>1. CASE u = s
    <3>1. MaxReqs[s] \in Nat
      BY ServerAssumption DEF Sessions
    <3>2. QED
      BY <1>1, <1>2, <2>1, <3>1
  <2>2. CASE u # s
    BY <1>2, <1>3, <1>13, <2>2 DEF IInv, ReadBound
  <2>3. QED
    BY <2>1, <2>2
<1>14. ReadBound'
  BY <1>1, <1>13 DEF ReadBound
<1>15. QED
  BY <1>4, <1>5, <1>7, <1>8, <1>12, <1>14 DEF IInv

(* So do the failed read and the rest of the receive path. *)
LEMMA ReadInv ==
    ASSUME IInv, NEW s \in Sessions, ReadActions(s) PROVE IInv'
<1> USE DEF acceptVars, mapVars, logicVars
<1>1. CASE HandleRead(s)
  BY <1>1, HandleReadInv
<1>2. CASE ReadError(s)
  <2>1. /\ rd[s] = "pending" /\ CanRun(s) /\ rd' = [rd EXCEPT ![s] = "erase"]
        /\ UNCHANGED <<main, current, stopped, sessions, late, nread, wr, logicVars, sendVars>>
    BY <1>2 DEF ReadError
  <2>2. /\ rd' \in [Sessions -> ReadPlaces] /\ rd'[s] = "erase"
        /\ \A u \in Sessions : u # s => rd'[u] = rd[u]
    BY <2>1 DEF IInv, TypeOK, ReadPlaces, InHandler
  <2>3. raced' \in BOOLEAN
    BY <1>2, BeginType DEF ReadError
  <2>4. TypeOK'
    BY <2>1, <2>2, <2>3 DEF IInv, TypeOK, sendVars
  <2>5. wr'[s] # "erase"
    BY <2>1, FreeThread
  <2>6. OneHandler' /\ NoneAfterJoin'
    BY <2>1, <2>2, <2>5, HandlerBegins
  <2>7. WorkerKnows' /\ DealtAsPosted' /\ OneWrite' /\ RepliesInOrder'
    BY <2>1, QueueFrame, SendFrame DEF BStop
  <2>8. PostedInOrder' /\ ReadBound' /\ NotStarted'
    BY <2>1, <2>2, OrderFrame, StartedFrame
  <2>9. QED
    BY <2>4, <2>6, <2>7, <2>8 DEF IInv
<1>3. CASE ReadErased(s)
  <2>1. /\ rd[s] = "erase" /\ rd' = [rd EXCEPT ![s] = "ended"]
        /\ UNCHANGED <<main, current, stopped, raced, late, nread, wr, logicVars, sendVars>>
    BY <1>3 DEF ReadErased
  <2>2. /\ rd' \in [Sessions -> ReadPlaces] /\ rd'[s] = "ended"
        /\ \A u \in Sessions : u # s => rd'[u] = rd[u]
    BY <2>1 DEF IInv, TypeOK, ReadPlaces, InHandler
  <2>3. sessions' \subseteq Sessions
    BY <1>3, InsertType DEF ReadErased
  <2>4. TypeOK'
    BY <2>1, <2>2, <2>3 DEF IInv, TypeOK, sendVars
  <2>5. \A u \in Sessions : rd'[u] \in InHandler => rd[u] \in InHandler
    BY <2>2 DEF InHandler
  <2>6. OneHandler' /\ NoneAfterJoin'
    BY <2>1, <2>5, HandlerFrame, JoinFrame
  <2>7. WorkerKnows' /\ DealtAsPosted' /\ OneWrite' /\ RepliesInOrder'
    BY <2>1, QueueFrame, SendFrame DEF BStop
  <2>8. PostedInOrder' /\ ReadBound' /\ NotStarted'
    BY <2>1, <2>2, OrderFrame, StartedFrame
  <2>9. QED
    BY <2>4, <2>6, <2>7, <2>8 DEF IInv
<1>4. CASE Post(s)
  <2>1. /\ rd[s] = "post" /\ worker \notin Holding
        /\ posted' = Append(posted, Request0(s)) /\ msg_que' = Append(msg_que, Request0(s))
        /\ rd' = [rd EXCEPT ![s] = IF Len(msg_que') = 1 THEN "notify" ELSE "pending"]
        /\ UNCHANGED <<main, current, stopped, sessions, raced, late, nread, wr, worker,
                       dealt, sendVars>>
    BY <1>4 DEF Post
  <2>2. /\ rd' \in [Sessions -> ReadPlaces] /\ rd'[s] \in {"notify", "pending"}
        /\ \A u \in Sessions : u # s => rd'[u] = rd[u]
    BY <2>1 DEF IInv, TypeOK, ReadPlaces, InHandler
  <2>3. /\ posted' \in Seq(Request) /\ msg_que' \in Seq(Request) /\ msg_que' # <<>>
        /\ DealtAsPosted' /\ PostedInOrder' /\ ReadBound'
    BY <2>1, <2>2, PostFacts
  <2>4. TypeOK'
    BY <2>1, <2>2, <2>3 DEF IInv, TypeOK, sendVars
  <2>5. \A u \in Sessions : rd'[u] \in InHandler => rd[u] \in InHandler
    BY <2>1, <2>2 DEF InHandler
  <2>6. OneHandler' /\ NoneAfterJoin'
    BY <2>1, <2>5, HandlerFrame, JoinFrame
  <2>7. OneWrite' /\ RepliesInOrder'
    BY <2>1, SendFrame
  <2>8. WorkerKnows' /\ NotStarted'
    BY <2>1, <2>2, <2>3, StartedFrame DEF WorkerKnows
  <2>9. QED
    BY <2>3, <2>4, <2>6, <2>7, <2>8 DEF IInv
<1>5. CASE PostNotify(s)
  <2>1. /\ rd[s] = "notify" /\ rd' = [rd EXCEPT ![s] = "pending"]
        /\ UNCHANGED <<main, current, stopped, sessions, raced, late, nread, wr, msg_que,
                       posted, dealt, sendVars>>
    BY <1>5 DEF PostNotify
  <2>2. /\ rd' \in [Sessions -> ReadPlaces] /\ rd'[s] = "pending"
        /\ \A u \in Sessions : u # s => rd'[u] = rd[u]
    BY <2>1 DEF IInv, TypeOK, ReadPlaces, InHandler
  <2>3. worker' \in {worker, "woken"}
    BY <1>5 DEF PostNotify, NotifyOne
  <2>4. TypeOK'
    BY <2>1, <2>2, <2>3 DEF IInv, TypeOK, WorkerPlaces, sendVars
  <2>5. \A u \in Sessions : rd'[u] \in InHandler => rd[u] \in InHandler
    BY <2>2 DEF InHandler
  <2>6. OneHandler' /\ NoneAfterJoin'
    BY <2>1, <2>5, HandlerFrame, JoinFrame
  <2>7. OneWrite' /\ RepliesInOrder' /\ DealtAsPosted'
    BY <2>1, SendFrame DEF IInv, DealtAsPosted
  <2>8. WorkerKnows'
    BY <2>1, <2>3 DEF IInv, WorkerKnows, BStop
  <2>9. PostedInOrder' /\ ReadBound' /\ NotStarted'
    BY <2>1, <2>2, OrderFrame, StartedFrame
  <2>10. QED
    BY <2>4, <2>6, <2>7, <2>8, <2>9 DEF IInv
<1>6. QED
  BY <1>1, <1>2, <1>3, <1>4, <1>5 DEF ReadActions
-----------------------------------------------------------------------------
(* The pool threads: writing. *)
WriteActions(s) ==
    WriteSome(s) \/ WriteError(s) \/ WriteErased(s) \/ HandleWriteOk(s) \/ HandleWriteError(s)

(* What writing leaves alone. *)
LEMMA WriteFrame ==
    ASSUME IInv, UNCHANGED <<acceptVars, rd, nread, logicVars, dropped, replied>>
    PROVE  /\ NotStarted' /\ WorkerKnows' /\ DealtAsPosted' /\ PostedInOrder' /\ ReadBound'
           /\ RepliesInOrder'
<1> USE DEF acceptVars, logicVars
<1>1. NotStarted'
  BY DEF IInv, NotStarted
<1>2. WorkerKnows' /\ DealtAsPosted' /\ RepliesInOrder'
  BY QueueFrame, RepliesFrame DEF BStop
<1>3. PostedInOrder' /\ ReadBound'
  BY OrderFrame
<1>4. QED
  BY <1>1, <1>2, <1>3

(* What the socket makes of a write in flight. *)
LEMMA OpUpdate ==
    ASSUME NEW op \in Op
    PROVE  /\ [node |-> op.node, left |-> 0, ec |-> FALSE] \in Op
           /\ [node |-> op.node, left |-> op.left, ec |-> TRUE] \in Op
           /\ [node |-> op.node, unit |-> 1] \in [node : Nat, unit : {1}]
  BY DEF Op

(* Progress, failure and completion of async_write keep the invariant. *)
LEMMA WriteInv ==
    ASSUME IInv, NEW s \in Sessions, WriteActions(s) PROVE IInv'
<1> USE DEF acceptVars, mapVars, logicVars, sendVars
<1>1. /\ ops \in [Sessions -> SUBSET Op] /\ send_que \in [Sessions -> Seq(Nat)]
      /\ wire \in [Sessions -> Seq([node : Nat, unit : {1}])]
      /\ wr \in [Sessions -> {"idle", "erase"}] /\ cleared \in [Sessions -> BOOLEAN]
      /\ \A op \in ops[s] : ops[s] = {op} /\ send_que[s] # <<>>
  BY DEF IInv, TypeOK, OneWrite
<1>2. CASE WriteSome(s)
  <2>1. PICK op \in ops[s] :
           /\ wire' = [wire EXCEPT ![s] = Append(@, [node |-> op.node, unit |-> 1])]
           /\ ops' = [ops EXCEPT ![s] = (@ \ {op}) \cup {[node |-> op.node, left |-> 0, ec |-> FALSE]}]
    BY <1>2 DEF WriteSome
  <2>2. op \in Op /\ [node |-> op.node, left |-> 0, ec |-> FALSE] \in Op /\ ops[s] \ {op} = {}
        /\ [node |-> op.node, unit |-> 1] \in [node : Nat, unit : {1}]
    BY <1>1, OpUpdate
  <2>3. ops' \in [Sessions -> SUBSET Op] /\ wire' \in [Sessions -> Seq([node : Nat, unit : {1}])]
    <3>1. Append(wire[s], [node |-> op.node, unit |-> 1]) \in Seq([node : Nat, unit : {1}])
      BY <1>1, <2>2
    <3>2. QED
      BY <1>1, <2>1, <2>2, <3>1
  <2>4. UNCHANGED <<acceptVars, mapVars, rd, nread, wr, logicVars,
                    send_que, dropped, cleared, replied>>
    BY <1>2 DEF WriteSome
  <2>5. TypeOK'
    BY <2>3, <2>4 DEF IInv, TypeOK
  <2>6. OneWrite'
    BY <1>1, <2>1, <2>2, <2>4 DEF IInv, OneWrite
  <2>7. OneHandler' /\ NoneAfterJoin'
    BY <2>4, HandlerFrame, JoinFrame
  <2>8. QED
    BY <2>4, <2>5, <2>6, <2>7, WriteFrame DEF IInv
<1>3. CASE WriteError(s)
  <2>1. PICK op \in ops[s] :
           ops' = [ops EXCEPT ![s] = (@ \ {op}) \cup {[node |-> op.node, left |-> op.left, ec |-> TRUE]}]
    BY <1>3 DEF WriteError
  <2>2. op \in Op /\ [node |-> op.node, left |-> op.left, ec |-> TRUE] \in Op /\ ops[s] \ {op} = {}
    BY <1>1, OpUpdate
  <2>3. ops' \in [Sessions -> SUBSET Op]
    BY <1>1, <2>1, <2>2
  <2>4. UNCHANGED <<acceptVars, mapVars, rd, nread, wr, logicVars,
                    send_que, wire, dropped, cleared, replied>>
    BY <1>3 DEF WriteError
  <2>5. TypeOK'
    BY <2>3, <2>4 DEF IInv, TypeOK
  <2>6. OneWrite'
    BY <1>1, <2>1, <2>2, <2>4 DEF IInv, OneWrite
  <2>7. OneHandler' /\ NoneAfterJoin'
    BY <2>4, HandlerFrame, JoinFrame
  <2>8. QED
    BY <2>4, <2>5, <2>6, <2>7, WriteFrame DEF IInv
<1>4. CASE WriteErased(s)
  <2>1. /\ wr' = [wr EXCEPT ![s] = "idle"]
        /\ UNCHANGED <<acceptVars, raced, late, rd, nread, logicVars, sendVars>>
    BY <1>4 DEF WriteErased
  <2>2. sessions' \subseteq Sessions
    BY <1>4, InsertType DEF WriteErased
  <2>3. wr' \in [Sessions -> {"idle", "erase"}] /\ \A u \in Sessions : wr'[u] = "erase" => wr[u] = "erase"
    BY <1>1, <2>1
  <2>4. TypeOK'
    BY <2>1, <2>2, <2>3 DEF IInv, TypeOK
  <2>5. OneWrite'
    BY <2>1 DEF IInv, OneWrite
  <2>6. OneHandler' /\ NoneAfterJoin'
    BY <2>1, <2>3, HandlerFrame, JoinFrame
  <2>7. QED
    BY <2>1, <2>4, <2>5, <2>6, WriteFrame DEF IInv
<1>5. CASE HandleWriteOk(s)
  <2>1. PICK op \in ops[s] :
           /\ send_que' = [send_que EXCEPT ![s] = Tail(@)]
           /\ ops' = [ops EXCEPT ![s] = (@ \ {op})
                        \cup (IF send_que'[s] # <<>> THEN {AsyncWrite(Head(send_que'[s]))} ELSE {})]
    BY <1>5 DEF HandleWriteOk
  <2>2. ops[s] \ {op} = {} /\ send_que[s] # <<>>
    BY <1>1
  <2>3. /\ send_que'[s] = Tail(send_que[s]) /\ send_que' \in [Sessions -> Seq(Nat)]
        /\ \A u \in Sessions : u # s => send_que'[u] = send_que[u]
    BY <1>1, <2>1, <2>2
  <2>4. UNCHANGED <<acceptVars, mapVars, rd, nread, wr, logicVars,
                    wire, dropped, cleared, replied>>
    BY <1>5 DEF HandleWriteOk
  <2>5. /\ ops'[s] = IF send_que'[s] # <<>> THEN {AsyncWrite(Head(send_que'[s]))} ELSE {}
        /\ \A u \in Sessions : u # s => ops'[u] = ops[u]
    BY <1>1, <2>1, <2>2
  <2>6. ops' \in [Sessions -> SUBSET Op]
    <3>1. send_que'[s] # <<>> => AsyncWrite(Head(send_que'[s])) \in Op
      <4>1. send_que'[s] \in Seq(Nat)
        BY <2>3
      <4>2. send_que'[s] # <<>> => Head(send_que'[s]) \in Nat
        BY <4>1
      <4>3. QED
        BY <4>2 DEF AsyncWrite, Op
    <3>2. ops'[s] \in SUBSET Op
      BY <2>5, <3>1
    <3>3. ops' = [ops EXCEPT ![s] = ops'[s]]
      BY <1>1, <2>1
    <3>4. QED
      BY <1>1, <3>2, <3>3
  <2>7. TypeOK'
    BY <2>3, <2>4, <2>6 DEF IInv, TypeOK
  <2>8. OneWrite'
    BY <2>3, <2>5 DEF IInv, OneWrite
  <2>9. OneHandler' /\ NoneAfterJoin'
    BY <2>4, HandlerFrame, JoinFrame
  <2>10. QED
    BY <2>4, <2>7, <2>8, <2>9, WriteFrame DEF IInv
<1>6. CASE HandleWriteError(s)
  <2>1. PICK op \in ops[s] : ops' = [ops EXCEPT ![s] = @ \ {op}]
    BY <1>6 DEF HandleWriteError
  <2>2. /\ CanRun(s) /\ cleared' = [cleared EXCEPT ![s] = TRUE]
        /\ wr' = [wr EXCEPT ![s] = "erase"]
        /\ UNCHANGED <<acceptVars, sessions, late, rd, nread, logicVars,
                       send_que, wire, dropped, replied>>
    BY <1>6 DEF HandleWriteError
  <2>3. /\ ops' \in [Sessions -> SUBSET Op] /\ ops'[s] = {}
        /\ \A u \in Sessions : u # s => ops'[u] = ops[u]
    BY <1>1, <2>1
  <2>4. /\ wr' \in [Sessions -> {"idle", "erase"}] /\ cleared' \in [Sessions -> BOOLEAN]
        /\ \A u \in Sessions : u # s => wr'[u] = wr[u]
    BY <1>1, <2>2
  <2>5. raced' \in BOOLEAN
    BY <1>6, BeginType DEF HandleWriteError
  <2>6. TypeOK'
    BY <2>2, <2>3, <2>4, <2>5 DEF IInv, TypeOK
  <2>7. OneWrite'
    BY <2>2, <2>3 DEF IInv, OneWrite
  <2>8. rd'[s] \notin InHandler
    BY <2>2, FreeThread
  <2>9. OneHandler' /\ NoneAfterJoin'
    BY <2>2, <2>4, <2>8, HandlerBegins
  <2>10. QED
    BY <2>2, <2>6, <2>7, <2>9, WriteFrame DEF IInv
<1>7. QED
  BY <1>2, <1>3, <1>4, <1>5, <1>6 DEF WriteActions
-----------------------------------------------------------------------------
(* The worker. *)
LEMMA ElementType ==
    ASSUME NEW S, NEW q \in Seq(S) PROVE \A i \in DOMAIN q : q[i] \in S
  OBVIOUS

(* The messages dealt with, and how many of them a session answered. *)
LEMMA DealtType ==
    ASSUME IInv
    PROVE  /\ dealt \in Seq([msg : Request, called : BOOLEAN]) /\ Len(dealt) \in Nat
           /\ DOMAIN dealt = 1 .. Len(dealt)
           /\ \A i \in DOMAIN dealt : dealt[i].msg \in Request
           /\ \A s : IsFiniteSet(Answered(s)) /\ Cardinality(Answered(s)) \in Nat
<1>1. /\ dealt \in Seq([msg : Request, called : BOOLEAN]) /\ Len(dealt) \in Nat
      /\ DOMAIN dealt = 1 .. Len(dealt)
  BY DEF IInv, TypeOK
<1>2. \A i \in DOMAIN dealt : dealt[i].msg \in Request
  <2>1. \A i \in DOMAIN dealt : dealt[i] \in [msg : Request, called : BOOLEAN]
    BY <1>1, ElementType, Zenon
  <2>2. QED
    BY <2>1
<1>3. IsFiniteSet(1 .. Len(dealt))
  BY <1>1, FS_Interval
<1>4. \A s : Answered(s) \in SUBSET (1 .. Len(dealt))
  BY <1>1 DEF Answered
<1>5. \A s : IsFiniteSet(Answered(s)) /\ Cardinality(Answered(s)) \in Nat
  BY <1>3, <1>4, FS_Subset, FS_CardinalityType
<1>6. QED
  BY <1>1, <1>2, <1>5

(* The front message is newer than every one that has been dealt with. *)
LEMMA FrontIsNewest ==
    ASSUME IInv, msg_que # <<>>
    PROVE  /\ Head(msg_que) \in Request
           /\ \A i \in DOMAIN dealt : dealt[i].msg.ses = Head(msg_que).ses =>
                 dealt[i].msg.req < Head(msg_que).req
<1>1. /\ msg_que \in Seq(Request) /\ Len(msg_que) > 0 /\ Len(msg_que) \in Nat
      /\ posted \in Seq(Request) /\ Head(msg_que) = msg_que[1]
  BY DEF IInv, TypeOK
<1>2. /\ Len(dealt) \in Nat /\ DOMAIN dealt = 1 .. Len(dealt)
  BY DealtType
<1>3. Len(dealt) + 1 \in DOMAIN posted /\ msg_que[1] = posted[Len(dealt) + 1]
  BY <1>1, <1>2 DEF IInv, DealtAsPosted
<1>4. ASSUME NEW i \in DOMAIN dealt, dealt[i].msg.ses = Head(msg_que).ses
      PROVE  dealt[i].msg.req < Head(msg_que).req
  <2>1. i \in DOMAIN posted /\ i < Len(dealt) + 1 /\ dealt[i].msg = posted[i]
    BY <1>1, <1>2, <1>3, <1>4 DEF IInv, DealtAsPosted
  <2>2. QED
    BY <1>1, <1>3, <1>4, <2>1 DEF IInv, PostedInOrder
<1>5. QED
  BY <1>1, <1>4

(* Dealing with the front moves it from the queue to the history. *)
LEMMA DealOrder ==
    ASSUME IInv, msg_que # <<>>, DealFront
    PROVE  /\ DealtAsPosted' /\ msg_que' \in Seq(Request)
           /\ dealt' \in Seq([msg : Request, called : BOOLEAN])
           /\ dealt' = Append(dealt, [msg |-> Head(msg_que), called |-> Head(msg_que) \notin Unregistered])
<1> DEFINE d == [msg |-> Head(msg_que), called |-> Head(msg_que) \notin Unregistered]
           ds == Append(dealt, d)
           q == Tail(msg_que)
<1>1. dealt' = ds /\ msg_que' = q /\ posted' = posted
  BY DEF DealFront
<1>2. /\ msg_que \in Seq(Request) /\ Len(msg_que) > 0 /\ Len(msg_que) \in Nat
      /\ posted \in Seq(Request) /\ Head(msg_que) = msg_que[1] /\ Head(msg_que) \in Request
      /\ DOMAIN msg_que = 1 .. Len(msg_que) /\ DOMAIN posted = 1 .. Len(posted)
  BY FrontIsNewest DEF IInv, TypeOK
<1>3. /\ dealt \in Seq([msg : Request, called : BOOLEAN]) /\ Len(dealt) \in Nat
      /\ DOMAIN dealt = 1 .. Len(dealt)
  BY DealtType
<1>4. d \in [msg : Request, called : BOOLEAN] /\ d.msg = msg_que[1]
  <2>1. (Head(msg_que) \notin Unregistered) \in BOOLEAN
    OBVIOUS
  <2>2. QED
    BY <1>2, <2>1
<1> HIDE DEF d
<1>5. /\ ds \in Seq([msg : Request, called : BOOLEAN]) /\ Len(ds) = Len(dealt) + 1
      /\ DOMAIN ds = 1 .. Len(dealt) + 1
      /\ \A i \in DOMAIN dealt : ds[i] = dealt[i]
      /\ ds[Len(dealt) + 1] = d
  BY <1>3, <1>4
<1>6. /\ q \in Seq(Request) /\ Len(q) = Len(msg_que) - 1
      /\ DOMAIN q = 1 .. Len(msg_que) - 1
      /\ \A i \in DOMAIN q : q[i] = msg_que[i + 1]
  BY <1>2
<1> HIDE DEF ds, q
<1>7. /\ Len(posted) = Len(dealt) + Len(msg_que)
      /\ \A i \in DOMAIN dealt : dealt[i].msg = posted[i]
      /\ \A i \in DOMAIN msg_que : msg_que[i] = posted[Len(dealt) + i]
  BY DEF IInv, DealtAsPosted
<1>8. Len(posted) = Len(ds) + Len(q)
  BY <1>2, <1>3, <1>5, <1>6, <1>7
<1>9. ASSUME NEW i \in DOMAIN ds PROVE ds[i].msg = posted[i]
  <2>1. i \in 1 .. Len(dealt) + 1
    BY <1>5, <1>9
  <2>2. CASE i \in 1 .. Len(dealt)
    BY <1>3, <1>5, <1>7, <2>2
  <2>3. CASE i = Len(dealt) + 1
    <3>1. 1 \in DOMAIN msg_que
      BY <1>2
    <3>2. QED
      BY <1>4, <1>5, <1>7, <2>3, <3>1
  <2>4. QED
    BY <1>3, <2>1, <2>2, <2>3
<1>10. ASSUME NEW i \in DOMAIN q PROVE q[i] = posted[Len(ds) + i]
  <2>1. i \in 1 .. Len(msg_que) - 1
    BY <1>6, <1>10
  <2>2. i \in Nat /\ i + 1 \in 1 .. Len(msg_que)
    BY <1>2, <2>1
  <2>3. Len(ds) + i = Len(dealt) + (i + 1)
    BY <1>3, <1>5, <2>2
  <2>4. QED
    BY <1>2, <1>6, <1>7, <1>10, <2>2, <2>3
<1>11. DealtAsPosted'
  BY <1>1, <1>8, <1>9, <1>10 DEF DealtAsPosted
<1>12. QED
  BY <1>1, <1>5, <1>6, <1>11 DEF d

(* What the callback of the front message adds to the answered ones. *)
LEMMA AnsweredNext ==
    ASSUME IInv, msg_que # <<>>, DealFront, NEW s
    PROVE  /\ Head(msg_que) \notin Unregistered /\ Head(msg_que).ses = s =>
                 Answered(s)' = Answered(s) \cup {Len(dealt) + 1}
           /\ Head(msg_que) \in Unregistered \/ Head(msg_que).ses # s =>
                 Answered(s)' = Answered(s)
           /\ dealt'[Len(dealt) + 1].msg = Head(msg_que)
           /\ \A i \in Answered(s) : dealt'[i] = dealt[i]
           /\ Len(dealt) + 1 \notin Answered(s)
<1> DEFINE m == Head(msg_que)
           d == [msg |-> m, called |-> m \notin Unregistered]
           ds == Append(dealt, d)
           A == {i \in DOMAIN ds : ds[i].called /\ ds[i].msg.ses = s}
<1>1. dealt' = ds
  BY DEF DealFront
<1>2. /\ dealt \in Seq([msg : Request, called : BOOLEAN]) /\ Len(dealt) \in Nat
      /\ DOMAIN dealt = 1 .. Len(dealt)
  BY DealtType
<1>3. d \in [msg : Request, called : BOOLEAN] /\ d.msg = m /\ d.called = (m \notin Unregistered)
  <2>1. (m \notin Unregistered) \in BOOLEAN
    OBVIOUS
  <2>2. m \in Request
    BY FrontIsNewest
  <2>3. d \in [msg : Request, called : BOOLEAN]
    BY <2>1, <2>2
  <2>4. d.msg = m /\ d.called = (m \notin Unregistered)
    BY Zenon
  <2>5. QED
    BY <2>3, <2>4, Zenon
<1> HIDE DEF d
<1>4. /\ DOMAIN ds = DOMAIN dealt \cup {Len(dealt) + 1}
      /\ \A i \in DOMAIN dealt : ds[i] = dealt[i]
      /\ ds[Len(dealt) + 1] = d
      /\ Len(dealt) + 1 \notin DOMAIN dealt
  BY <1>2, <1>3
<1> HIDE DEF ds
<1>5. Answered(s)' = A
  BY <1>1 DEF Answered
<1>6. ASSUME m \notin Unregistered, m.ses = s PROVE A = Answered(s) \cup {Len(dealt) + 1}
  BY <1>3, <1>4, <1>6 DEF Answered
<1>7. ASSUME m \in Unregistered \/ m.ses # s PROVE A = Answered(s)
  BY <1>3, <1>4, <1>7 DEF Answered
<1>8. /\ \A i \in Answered(s) : ds[i] = dealt[i]
      /\ Len(dealt) + 1 \notin Answered(s)
  BY <1>4 DEF Answered
<1> HIDE DEF A
<1>9. QED
  BY <1>1, <1>3, <1>4, <1>5, <1>6, <1>7, <1>8

(* Send pushes at most one node, and starts its write if it is alone. *)
LEMMA SendType ==
    ASSUME IInv, NEW m \in Request, Send(m)
    PROVE  /\ send_que' \in [Sessions -> Seq(Nat)]
           /\ ops' \in [Sessions -> SUBSET Op]
           /\ dropped' \in [Sessions -> Nat]
           /\ replied' \in [Sessions -> Seq(Nat)]
           /\ OneWrite'
<1> DEFINE s == m.ses
<1>1. s \in Sessions /\ m.req \in Nat
  BY RequestType
<1>2. /\ send_que \in [Sessions -> Seq(Nat)] /\ ops \in [Sessions -> SUBSET Op]
      /\ dropped \in [Sessions -> Nat] /\ replied \in [Sessions -> Seq(Nat)]
      /\ OneWrite
  BY DEF IInv, TypeOK
<1>3. CASE Len(send_que[s]) > MAX_SENDQUE
  <2>1. dropped' = [dropped EXCEPT ![s] = @ + 1] /\ UNCHANGED <<send_que, ops, replied>>
    BY <1>3 DEF Send
  <2>2. OneWrite'
    BY <1>2, <2>1 DEF OneWrite
  <2>3. dropped' \in [Sessions -> Nat]
    BY <1>1, <1>2, <2>1
  <2>4. QED
    BY <1>2, <2>1, <2>2, <2>3
<1>4. CASE ~(Len(send_que[s]) > MAX_SENDQUE)
  <2>1. /\ replied' = [replied EXCEPT ![s] = Append(@, m.req)]
        /\ send_que' = [send_que EXCEPT ![s] = Append(@, Len(replied'[s]))]
        /\ ops' = [ops EXCEPT ![s] = @ \cup
                      (IF send_que[s] = <<>> THEN {AsyncWrite(Len(replied'[s]))} ELSE {})]
        /\ UNCHANGED dropped
    BY <1>4 DEF Send
  <2>2. replied'[s] \in Seq(Nat) /\ replied' \in [Sessions -> Seq(Nat)]
    BY <1>1, <1>2, <2>1
  <2>3. PICK n \in Nat : Len(replied'[s]) = n
    BY <2>2
  <2>4. /\ Append(send_que[s], n) \in Seq(Nat) /\ Append(send_que[s], n) # <<>>
    <3>1. send_que[s] \in Seq(Nat)
      BY <1>1, <1>2
    <3>2. Append(send_que[s], n) \in Seq(Nat) /\ Len(Append(send_que[s], n)) = Len(send_que[s]) + 1
      BY <3>1
    <3>3. QED
      BY <3>1, <3>2
  <2>5. /\ send_que' \in [Sessions -> Seq(Nat)] /\ send_que'[s] # <<>>
        /\ \A u \in Sessions : u # s => send_que'[u] = send_que[u]
    BY <1>1, <1>2, <2>1, <2>3, <2>4
  <2>6. AsyncWrite(n) \in Op
    BY DEF AsyncWrite, Op
  <2>7. CASE send_que[s] = <<>>
    <3>1. ops[s] = {}
      BY <1>1, <1>2, <2>7 DEF OneWrite
    <3>2. ops' = [ops EXCEPT ![s] = {AsyncWrite(n)}]
      BY <2>1, <2>3, <2>7, <3>1
    <3>3. ops' \in [Sessions -> SUBSET Op]
      BY <1>1, <1>2, <2>6, <3>2
    <3>4. OneWrite'
      BY <1>1, <1>2, <2>5, <3>2 DEF OneWrite
    <3>5. QED
      BY <1>2, <2>1, <2>2, <2>5, <3>3, <3>4
  <2>8. CASE send_que[s] # <<>>
    <3>1. ops' = ops
      BY <1>2, <2>1, <2>8
    <3>2. OneWrite'
      BY <1>2, <2>5, <3>1 DEF OneWrite
    <3>3. QED
      BY <1>2, <2>1, <2>2, <2>5, <3>1, <3>2
  <2>9. QED
    BY <2>7, <2>8
<1>5. QED
  BY <1>3, <1>4

(* The answers stay in order when the front message is dealt with. *)
LEMMA DealReplies ==
    ASSUME IInv, msg_que # <<>>, DealFront
    PROVE  RepliesInOrder'
<1> DEFINE m == Head(msg_que)
           n == Len(dealt) + 1
<1>1. m \in Request /\ m.ses \in Sessions /\ m.req \in Nat
      /\ \A i \in DOMAIN dealt : dealt[i].msg.ses = m.ses => dealt[i].msg.req < m.req
  BY FrontIsNewest, RequestType
<1>2. /\ \A s : IsFiniteSet(Answered(s)) /\ Cardinality(Answered(s)) \in Nat
      /\ dropped \in [Sessions -> Nat] /\ replied \in [Sessions -> Seq(Nat)]
  BY DealtType DEF IInv, TypeOK
<1> SUFFICES ASSUME NEW s \in Sessions
             PROVE  /\ (Len(replied[s]) + dropped[s] = Cardinality(Answered(s)))'
                    /\ (\A i, j \in DOMAIN replied[s] : i < j => replied[s][i] < replied[s][j])'
                    /\ (\A i \in DOMAIN replied[s] :
                           \E j \in Answered(s) : dealt[j].msg.req = replied[s][i])'
  BY DEF RepliesInOrder
<1>3. /\ Len(replied[s]) + dropped[s] = Cardinality(Answered(s))
      /\ \A i, j \in DOMAIN replied[s] : i < j => replied[s][i] < replied[s][j]
      /\ \A i \in DOMAIN replied[s] :
            \E j \in Answered(s) : dealt[j].msg.req = replied[s][i]
  BY DEF IInv, RepliesInOrder
<1>4. /\ m \notin Unregistered /\ m.ses = s => Answered(s)' = Answered(s) \cup {n}
      /\ m \in Unregistered \/ m.ses # s => Answered(s)' = Answered(s)
      /\ dealt'[n].msg = m
      /\ \A i \in Answered(s) : dealt'[i] = dealt[i]
      /\ n \notin Answered(s)
  BY AnsweredNext
<1>5. CASE m \in Unregistered \/ m.ses # s
  <2>1. replied'[s] = replied[s] /\ dropped'[s] = dropped[s]
    <3>1. CASE m \in Unregistered
      BY <3>1 DEF DealFront
    <3>2. CASE m \notin Unregistered /\ m.ses # s
      BY <1>1, <1>2, <3>2 DEF DealFront, Send
    <3>3. QED
      BY <1>5, <3>1, <3>2
  <2>2. Answered(s)' = Answered(s) /\ \A i \in Answered(s) : dealt'[i] = dealt[i]
    BY <1>4, <1>5
  <2>3. QED
    BY <1>3, <2>1, <2>2
<1>6. CASE m \notin Unregistered /\ m.ses = s
  <2>1. Answered(s)' = Answered(s) \cup {n}
    BY <1>4, <1>6
  <2>2. Cardinality(Answered(s) \cup {n}) = Cardinality(Answered(s)) + 1
    BY <1>2, <1>4, FS_AddElement
  <2>3. Send(m)
    BY <1>6 DEF DealFront
  <2>4. /\ replied[s] \in Seq(Nat) /\ Len(replied[s]) \in Nat /\ dropped[s] \in Nat
        /\ DOMAIN replied[s] = 1 .. Len(replied[s])
    BY <1>2
  <2>5. CASE Len(send_que[s]) > MAX_SENDQUE
    <3>1. replied' = replied /\ dropped' = [dropped EXCEPT ![s] = @ + 1]
      BY <1>6, <2>3, <2>5 DEF Send
    <3>2. PICK k \in Nat : dropped'[s] = k /\ k = dropped[s] + 1
      BY <1>2, <2>4, <3>1
    <3>3. Len(replied[s]) + k = Cardinality(Answered(s) \cup {n})
      BY <1>2, <1>3, <2>2, <2>4, <3>2
    <3>4. \A i \in DOMAIN replied[s] :
             \E j \in Answered(s) \cup {n} : dealt'[j].msg.req = replied[s][i]
      BY <1>3, <1>4
    <3>5. QED
      BY <1>3, <2>1, <3>1, <3>2, <3>3, <3>4
  <2>6. CASE ~(Len(send_que[s]) > MAX_SENDQUE)
    <3> DEFINE r == Append(replied[s], m.req)
    <3>1. replied'[s] = r /\ dropped' = dropped
      BY <1>2, <1>6, <2>3, <2>6 DEF Send
    <3>2. /\ r \in Seq(Nat) /\ Len(r) = Len(replied[s]) + 1
          /\ DOMAIN r = DOMAIN replied[s] \cup {Len(replied[s]) + 1}
          /\ r[Len(replied[s]) + 1] = m.req
          /\ \A i \in DOMAIN replied[s] : r[i] = replied[s][i]
      BY <1>1, <2>4
    <3> HIDE DEF r
    <3>3. Len(r) + dropped[s] = Cardinality(Answered(s) \cup {n})
      BY <1>2, <1>3, <2>2, <2>4, <3>2
    <3>4. ASSUME NEW i \in DOMAIN replied[s] PROVE replied[s][i] < m.req
      <4>1. PICK j \in Answered(s) : dealt[j].msg.req = replied[s][i]
        BY <1>3, <3>4
      <4>2. j \in DOMAIN dealt /\ dealt[j].msg.ses = m.ses
        BY <1>6 DEF Answered
      <4>3. QED
        BY <1>1, <4>1, <4>2
    <3>5. ASSUME NEW i \in DOMAIN r, NEW j \in DOMAIN r, i < j PROVE r[i] < r[j]
      <4>1. i \in DOMAIN replied[s]
        BY <2>4, <3>2, <3>5
      <4>2. CASE j \in DOMAIN replied[s]
        BY <1>3, <3>2, <3>5, <4>1, <4>2
      <4>3. CASE j = Len(replied[s]) + 1
        BY <3>2, <3>4, <4>1, <4>3
      <4>4. QED
        BY <3>2, <3>5, <4>2, <4>3
    <3>6. ASSUME NEW i \in DOMAIN r
          PROVE  \E j \in Answered(s) \cup {n} : dealt'[j].msg.req = r[i]
      <4>1. CASE i \in DOMAIN replied[s]
        BY <1>3, <1>4, <3>2, <4>1
      <4>2. CASE i = Len(replied[s]) + 1
        BY <1>4, <3>2, <4>2
      <4>3. QED
        BY <3>2, <3>6, <4>1, <4>2
    <3>7. QED
      BY <2>1, <3>1, <3>3, <3>5, <3>6
  <2>7. QED
    BY <2>5, <2>6
<1>7. QED
  BY <1>5, <1>6

(* Calling the callback for the front of the queue keeps the invariant. *)
LEMMA DealFrontInv ==
    ASSUME IInv, msg_que # <<>>, DealFront, worker' \in WorkerPlaces \ {"go", "deal"}
    PROVE  IInv'
<1> USE DEF acceptVars, mapVars
<1>1. Head(msg_que) \in Request
  BY FrontIsNewest
<1>2. UNCHANGED <<main, current, stopped, sessions, raced, late, rd, nread, wr, posted, wire, cleared>>
  BY DEF DealFront
<1>3. /\ DealtAsPosted' /\ msg_que' \in Seq(Request)
      /\ dealt' \in Seq([msg : Request, called : BOOLEAN])
  BY DealOrder
<1>4. /\ send_que' \in [Sessions -> Seq(Nat)] /\ ops' \in [Sessions -> SUBSET Op]
      /\ dropped' \in [Sessions -> Nat] /\ replied' \in [Sessions -> Seq(Nat)]
      /\ OneWrite'
  <2>1. CASE Head(msg_que) \in Unregistered
    <3>1. UNCHANGED <<send_que, ops, dropped, replied>>
      BY <2>1 DEF DealFront
    <3>2. OneWrite'
      BY <3>1 DEF IInv, OneWrite
    <3>3. QED
      BY <3>1, <3>2 DEF IInv, TypeOK
  <2>2. CASE Head(msg_que) \notin Unregistered
    BY <1>1, <2>2, SendType DEF DealFront
  <2>3. QED
    BY <2>1, <2>2
<1>5. TypeOK'
  BY <1>2, <1>3, <1>4 DEF IInv, TypeOK
<1>6. NotStarted'
  BY <1>2 DEF IInv, NotStarted
<1>7. OneHandler' /\ NoneAfterJoin'
  BY <1>2, HandlerFrame, JoinFrame
<1>8. WorkerKnows'
  BY DEF WorkerKnows
<1>9. PostedInOrder' /\ ReadBound'
  BY <1>2, OrderFrame
<1>10. RepliesInOrder'
  BY DealReplies
<1>11. QED
  BY <1>3, <1>4, <1>5, <1>6, <1>7, <1>8, <1>9, <1>10 DEF IInv

(* So does the worker going on to another place. *)
LEMMA MoveInv ==
    ASSUME IInv, NEW from, NEW to \in WorkerPlaces, Move(from, to),
           to = "go" => msg_que # <<>> \/ BStop,
           to = "deal" => msg_que # <<>>
    PROVE  IInv'
<1>1. /\ worker' = to
      /\ UNCHANGED <<main, current, stopped, sessions, raced, late, rd, nread, wr,
                     msg_que, posted, dealt, sendVars>>
  BY DEF Move, acceptVars, mapVars
<1>2. TypeOK'
  BY <1>1 DEF IInv, TypeOK, sendVars
<1>3. NotStarted'
  BY <1>1 DEF IInv, NotStarted
<1>4. OneHandler' /\ NoneAfterJoin'
  BY <1>1, HandlerFrame, JoinFrame
<1>5. WorkerKnows'
  BY <1>1 DEF WorkerKnows, BStop
<1>6. DealtAsPosted'
  BY <1>1 DEF IInv, DealtAsPosted
<1>7. PostedInOrder' /\ ReadBound'
  BY <1>1, OrderFrame
<1>8. OneWrite' /\ RepliesInOrder'
  BY <1>1, SendFrame
<1>9. QED
  BY <1>2, <1>3, <1>4, <1>5, <1>6, <1>7, <1>8 DEF IInv

(* DealMsg and spurious wakeups keep the invariant. *)
LEMMA WorkerInv == IInv /\ (DealMsg \/ Spurious) => IInv'
<1> SUFFICES ASSUME IInv, DealMsg \/ Spurious PROVE IInv'
  OBVIOUS
<1> USE DEF WorkerPlaces, Holding
<1>1. CASE Move("lock", "test")
  BY <1>1, MoveInv
<1>2. CASE Move("woken", "test")
  BY <1>2, MoveInv
<1>3. CASE Move("test", IF msg_que = <<>> /\ ~BStop THEN "park" ELSE "go")
  <2>1. CASE msg_que = <<>> /\ ~BStop
    BY <1>3, <2>1, MoveInv
  <2>2. CASE ~(msg_que = <<>> /\ ~BStop)
    BY <1>3, <2>2, MoveInv
  <2>3. QED
    BY <2>1, <2>2
<1>4. CASE Move("park", "wait")
  BY <1>4, MoveInv
<1>5. CASE Move("go", IF BStop THEN "drain" ELSE "deal")
  <2>1. CASE BStop
    BY <1>5, <2>1, MoveInv
  <2>2. CASE ~BStop
    <3>1. msg_que # <<>>
      BY <1>5, <2>2 DEF IInv, WorkerKnows, Move
    <3>2. QED
      BY <1>5, <2>2, <3>1, MoveInv
  <2>3. QED
    BY <2>1, <2>2
<1>6. CASE Spurious
  BY <1>6, MoveInv DEF Spurious
<1>7. CASE Deal
  BY <1>7, DealFrontInv DEF Deal, IInv, WorkerKnows
<1>8. CASE Drain
  <2>1. CASE worker = "drain" /\ msg_que # <<>> /\ DealFront /\ UNCHANGED worker
    BY <2>1, DealFrontInv
  <2>2. CASE Move("drain", "exit")
    BY <2>2, MoveInv
  <2>3. QED
    BY <1>8, <2>1, <2>2 DEF Drain
<1>9. QED
  BY <1>1, <1>2, <1>3, <1>4, <1>5, <1>6, <1>7, <1>8 DEF DealMsg, Wait
-----------------------------------------------------------------------------
(* Steps that change nothing keep the invariant. *)
LEMMA StutterInv == IInv /\ UNCHANGED vars => IInv'
<1> SUFFICES ASSUME IInv, UNCHANGED vars PROVE IInv'
  OBVIOUS
<1>1. UNCHANGED <<main, current, stopped, sessions, raced, late, rd, nread, wr,
                  logicVars, sendVars>>
  BY DEF vars, acceptVars, mapVars
<1>2. TypeOK'
  BY <1>1 DEF IInv, TypeOK, logicVars, sendVars
<1>3. NotStarted'
  BY <1>1 DEF IInv, NotStarted
<1>4. OneHandler' /\ NoneAfterJoin'
  BY <1>1, HandlerFrame, JoinFrame
<1>5. WorkerKnows' /\ DealtAsPosted' /\ OneWrite' /\ RepliesInOrder'
  BY <1>1, QueueFrame, SendFrame DEF BStop, logicVars
<1>6. PostedInOrder' /\ ReadBound'
  BY <1>1, OrderFrame DEF logicVars
<1>7. QED
  BY <1>2, <1>3, <1>4, <1>5, <1>6 DEF IInv

(* The invariant is inductive. *)
LEMMA StepInv == IInv /\ [Next]_vars => IInv'
<1>1. ASSUME IInv, NEW s \in Sessions, ReadActions(s) \/ WriteActions(s) PROVE IInv'
  BY <1>1, ReadInv, WriteInv
<1>2. IInv /\ Next => IInv'
  BY <1>1, AcceptInv, StopInv, WorkerInv
     DEF Next, AcceptActions, StopActions, ReadActions, WriteActions
<1>3. QED
  BY <1>2, StutterInv

(* The inductive invariant holds in every state of every run. *)
THEOREM Invariance == Spec => []IInv
  BY InitInv, StepInv, PTL DEF Spec

(* From the socket through the logic thread and back, with any number of   *)
(* sessions on any number of pool threads: what is queued for a peer are   *)
(* answers to its own requests, in the order of the requests, each once,   *)
(* and those not queued are the ones dropped by Send on a full queue.      *)
THEOREM AnswersInOrder == Spec => []RepliesInOrder
  BY Invariance, PTL DEF IInv

(* A thread of AsioIOServicePool is in one handler at a time, and in none  *)
(* after the joins of Stop: no session posts to LogicSystem any more when  *)
(* ~LogicSystem begins.                                                    *)
THEOREM HandlersSerialised == Spec => [](OneHandler /\ NoneAfterJoin)
  BY Invariance, PTL DEF IInv
-----------------------------------------------------------------------------
(* Each step is a step of LogicSystem or leaves it alone. *)
LEMMA RequestFinite == IsFiniteSet(Request)
<1> DEFINE Of(s) == [ses : {s}, req : 1 .. MaxReqs[s]]
           All == {Of(s) : s \in Sessions}
<1>1. ASSUME NEW s \in Sessions PROVE IsFiniteSet(Of(s))
  <2> DEFINE f == [k \in 1 .. MaxReqs[s] |-> [ses |-> s, req |-> k]]
  <2>1. IsFiniteSet(1 .. MaxReqs[s])
    BY ServerAssumption, FS_Interval DEF Sessions
  <2>2. f \in Surjection(1 .. MaxReqs[s], Of(s))
    <3>1. f \in [1 .. MaxReqs[s] -> Of(s)]
      OBVIOUS
    <3>2. ASSUME NEW r \in Of(s) PROVE \E k \in 1 .. MaxReqs[s] : f[k] = r
      <4>1. r = [ses |-> s, req |-> r.req] /\ r.req \in 1 .. MaxReqs[s]
        BY <3>2
      <4>2. QED
        BY <4>1
    <3>3. QED
      BY <3>1, <3>2, Zenon DEF Surjection
  <2>3. QED
    BY <2>1, <2>2, FS_Surjection
<1>2. IsFiniteSet(All)
  <2> DEFINE g == [s \in Sessions |-> Of(s)]
  <2>1. IsFiniteSet(Sessions)
    BY ServerAssumption, FS_Interval DEF Sessions
  <2>2. g \in Surjection(Sessions, All)
    BY Zenon DEF Surjection
  <2>3. QED
    BY <2>1, <2>2, FS_Surjection
<1>3. \A T \in All : IsFiniteSet(T)
  BY <1>1
<1>4. IsFiniteSet(UNION All)
  BY <1>2, <1>3, FS_UNION
<1>5. QED
  BY <1>4 DEF Request

(* There is room in LogicSystem's bound for the message of a session that  *)
(* is about to post, for it has not been posted before.                    *)
LEMMA PostBound ==
    ASSUME IInv, NEW s \in Sessions, rd[s] = "post"
    PROVE  Len(posted) < Cardinality(Request)
<1> DEFINE r == Request0(s)
           S == 1 .. Len(posted)
           T == Request \ {r}
<1>1. r \in Request
  BY PostedType
<1>2. /\ posted \in Seq(Request) /\ Len(posted) \in Nat /\ DOMAIN posted = S
      /\ \A i \in S : posted[i] \in Request
      /\ posted = [i \in S |-> posted[i]]
  BY DEF IInv, TypeOK
<1>3. ASSUME NEW i \in S PROVE posted[i] # r
  <2>1. posted[i].ses = s => posted[i].req < nread[s]
    BY <1>2, <1>3 DEF IInv, PostedInOrder
  <2>2. r.ses = s /\ r.req = nread[s] /\ nread[s] \in Nat
    BY DEF Request0, IInv, TypeOK
  <2>3. QED
    BY <2>1, <2>2
<1>4. ASSUME NEW i \in S, NEW j \in S, i # j PROVE posted[i] # posted[j]
  <2>1. posted[i].req \in Nat /\ posted[j].req \in Nat
    BY <1>2, RequestType
  <2>2. \A a, b \in S : posted[a].ses = posted[b].ses /\ a < b => posted[a].req < posted[b].req
    BY <1>2 DEF IInv, PostedInOrder
  <2>3. i < j \/ j < i
    BY <1>2, <1>4
  <2>4. QED
    BY <1>4, <2>1, <2>2, <2>3
<1>5. posted \in Injection(S, T)
  <2>1. posted \in [S -> T]
    BY <1>2, <1>3
  <2>2. QED
    BY <1>4, <2>1 DEF Injection, IsInjective
<1>6. IsFiniteSet(T) /\ Cardinality(T) = Cardinality(Request) - 1 /\ Cardinality(Request) \in Nat
  BY <1>1, RequestFinite, FS_RemoveElement, FS_CardinalityType
<1>7. Cardinality(S) = Len(posted)
  BY <1>2, UpTo
<1>8. Cardinality(S) <= Cardinality(T)
  BY <1>5, <1>6, FS_Injection
<1>9. QED
  BY <1>2, <1>6, <1>7, <1>8

(* The state of LogicSystem, as AsyncServer implements it. *)
Poster == [t \in IoThreads |-> IF \E s \in Sessions : Thread(s) = t /\ rd[s] = "notify"
                               THEN "notify" ELSE "idle"]

Owner == IF main \in {"joined", "notify", "join", "done"} THEN main ELSE "running"

logicState == <<msg_que, BStop, worker, Poster, Owner, posted, dealt>>

(* The io threads that owe a notification stay the same. *)
LEMMA PosterFrame ==
    ASSUME \A s \in Sessions : rd'[s] = "notify" <=> rd[s] = "notify"
    PROVE  Poster' = Poster
<1>1. ASSUME NEW t \in IoThreads
      PROVE  (\E s \in Sessions : Thread(s) = t /\ rd'[s] = "notify")
                <=> (\E s \in Sessions : Thread(s) = t /\ rd[s] = "notify")
  OBVIOUS
<1>2. QED
  BY <1>1, Zenon DEF Poster, Thread

(* The server starts with the logic layer as LogicSystem has it. *)
LEMMA LogicInit == Init => Logic!Init
<1> SUFFICES ASSUME Init PROVE Logic!Init
  OBVIOUS
<1>1. Poster = [t \in IoThreads |-> "idle"]
  BY DEF Init, Poster
<1>2. /\ msg_que = <<>> /\ ~BStop /\ worker = "lock" /\ Owner = "running"
      /\ posted = <<>> /\ dealt = <<>>
  BY DEF Init, BStop, Owner
<1>3. QED
  BY <1>1, <1>2 DEF Logic!Init, Poster, Owner, BStop

(* A session's post is a PostMsgToQue of its thread. *)
LEMMA LogicPost ==
    ASSUME IInv, NEW s \in Sessions, Post(s), NEW m \in Request, m = Request0(s)
    PROVE  Logic!PostMsgToQue(Thread(s), m)
<1> DEFINE t == Thread(s)
<1>1. /\ rd[s] = "post" /\ worker \notin Holding
      /\ posted' = Append(posted, m) /\ msg_que' = Append(msg_que, m)
      /\ rd' = [rd EXCEPT ![s] = IF Len(msg_que') = 1 THEN "notify" ELSE "pending"]
      /\ UNCHANGED <<main, worker, dealt>>
  BY DEF Post, acceptVars
<1>2. Owner = "running"
  BY <1>1 DEF IInv, NoneAfterJoin, InHandler, Joined, Owner
<1>3. t \in IoThreads
  BY ThreadType
<1>4. \A u \in Sessions : Thread(u) = t => rd[u] # "notify"
  BY <1>1 DEF IInv, OneHandler, InHandler
<1>5. Poster[t] = "idle"
  BY <1>3, <1>4 DEF Poster
<1>6. /\ rd'[s] = IF Len(msg_que') = 1 THEN "notify" ELSE "pending"
      /\ \A u \in Sessions : u # s => rd'[u] = rd[u]
  BY <1>1 DEF IInv, TypeOK
<1>7. Poster' = [Poster EXCEPT ![t] = IF Len(msg_que') = 1 THEN "notify" ELSE "idle"]
  <2>1. ASSUME NEW x \in IoThreads, x # t
        PROVE  (\E u \in Sessions : Thread(u) = x /\ rd'[u] = "notify")
                  <=> (\E u \in Sessions : Thread(u) = x /\ rd[u] = "notify")
    BY <1>6, <2>1
  <2>2. (\E u \in Sessions : Thread(u) = t /\ rd'[u] = "notify") <=> Len(msg_que') = 1
    BY <1>4, <1>6
  <2>3. QED
    BY <1>3, <2>1, <2>2 DEF Poster, Thread
<1>8. Len(posted) < Cardinality(Request)
  BY <1>1, PostBound
<1>9. UNCHANGED <<BStop, Owner>>
  BY <1>1 DEF BStop, Owner
<1>10. QED
  BY <1>1, <1>2, <1>5, <1>7, <1>8, <1>9
     DEF Logic!PostMsgToQue, Logic!NeedsNotify, Logic!Holding, Holding, Poster, Owner, BStop

(* Its notification is that of the thread. *)
LEMMA LogicNotify ==
    ASSUME IInv, NEW s \in Sessions, PostNotify(s)
    PROVE  Logic!PostNotify(Thread(s))
<1> DEFINE t == Thread(s)
<1>1. /\ rd[s] = "notify" /\ rd' = [rd EXCEPT ![s] = "pending"] /\ NotifyOne
      /\ UNCHANGED <<main, msg_que, posted, dealt>>
  BY DEF PostNotify, acceptVars
<1>2. t \in IoThreads
  BY ThreadType
<1>3. \A u \in Sessions : u # s /\ Thread(u) = t => rd[u] # "notify"
  BY <1>1 DEF IInv, OneHandler, InHandler
<1>4. rd'[s] = "pending" /\ \A u \in Sessions : u # s => rd'[u] = rd[u]
  BY <1>1 DEF IInv, TypeOK
<1>5. Poster[t] = "notify"
  BY <1>1, <1>2 DEF Poster
<1>6. Poster' = [Poster EXCEPT ![t] = "idle"]
  <2>1. ASSUME NEW x \in IoThreads, x # t
        PROVE  (\E u \in Sessions : Thread(u) = x /\ rd'[u] = "notify")
                  <=> (\E u \in Sessions : Thread(u) = x /\ rd[u] = "notify")
    BY <1>4, <2>1
  <2>2. ~(\E u \in Sessions : Thread(u) = t /\ rd'[u] = "notify")
    BY <1>3, <1>4
  <2>3. QED
    BY <1>2, <2>1, <2>2 DEF Poster, Thread
<1>7. UNCHANGED <<BStop, Owner>>
  BY <1>1 DEF BStop, Owner
<1>8. QED
  BY <1>1, <1>5, <1>6, <1>7 DEF Logic!PostNotify, Logic!NotifyOne, NotifyOne, Poster, Owner, BStop

(* The worker's moves are those of LogicSystem. *)
LEMMA LogicMove ==
    ASSUME NEW from, NEW to, Move(from, to)
    PROVE  Logic!Move(from, to) /\ UNCHANGED <<BStop, Poster, Owner>>
<1>1. worker = from /\ worker' = to /\ UNCHANGED <<main, rd, msg_que, posted, dealt>>
  BY DEF Move, acceptVars
<1>2. UNCHANGED <<BStop, Poster, Owner>>
  BY <1>1 DEF BStop, Poster, Owner, Thread
<1>3. QED
  BY <1>1, <1>2 DEF Logic!Move, Poster, Owner, BStop

(* Dealing with the front is the same there. *)
LEMMA LogicDeal ==
    ASSUME IInv, msg_que # <<>>, DealFront
    PROVE  Logic!DealFront /\ UNCHANGED <<BStop, Poster, Owner, posted>>
<1>1. UNCHANGED <<main, rd, posted>> /\ msg_que' = Tail(msg_que)
      /\ dealt' = Append(dealt, [msg |-> Head(msg_que), called |-> Head(msg_que) \notin Unregistered])
  BY DEF DealFront, acceptVars
<1>2. (Head(msg_que) \notin Unregistered) = (Head(msg_que) \in Request \ Unregistered)
  BY FrontIsNewest
<1>3. Logic!DealFront
  BY <1>1, <1>2, Zenon DEF Logic!DealFront
<1>4. UNCHANGED <<BStop, Poster, Owner>>
  BY <1>1 DEF BStop, Poster, Owner, Thread
<1>5. QED
  BY <1>1, <1>3, <1>4

(* DealMsg as a whole. *)
LEMMA LogicWorker ==
    ASSUME IInv, DealMsg PROVE Logic!DealMsg
<1>1. CASE Move("lock", "test") \/ Move("woken", "test")
  BY <1>1, LogicMove DEF Logic!DealMsg, Logic!Acquire
<1>2. CASE Move("test", IF msg_que = <<>> /\ ~BStop THEN "park" ELSE "go")
  BY <1>2, LogicMove DEF Logic!DealMsg, Logic!Test
<1>3. CASE Move("park", "wait")
  BY <1>3, LogicMove DEF Logic!DealMsg, Logic!Park
<1>4. CASE Move("go", IF BStop THEN "drain" ELSE "deal")
  BY <1>4, LogicMove DEF Logic!DealMsg, Logic!Branch
<1>5. CASE Deal
  <2>1. msg_que # <<>> /\ DealFront /\ worker = "deal" /\ worker' = "lock"
    BY <1>5 DEF Deal, IInv, WorkerKnows
  <2>2. Logic!Deal
    BY <2>1, LogicDeal DEF Logic!Deal, Poster, Owner, BStop
  <2>3. QED
    BY <2>2 DEF Logic!DealMsg
<1>6. CASE Drain
  <2>1. CASE worker = "drain" /\ msg_que # <<>> /\ DealFront /\ UNCHANGED worker
    <3>1. Logic!Drain
      BY <2>1, LogicDeal DEF Logic!Drain, Poster, Owner, BStop
    <3>2. QED
      BY <3>1 DEF Logic!DealMsg
  <2>2. CASE msg_que = <<>> /\ Move("drain", "exit")
    BY <2>2, LogicMove DEF Logic!DealMsg, Logic!Drain
  <2>3. QED
    BY <1>6, <2>1, <2>2 DEF Drain
<1>7. QED
  BY <1>1, <1>2, <1>3, <1>4, <1>5, <1>6 DEF DealMsg, Wait

(* Stopping the server is, for the logic layer, one of its own steps. *)
LEMMA LogicMain ==
    ASSUME IInv, StopActions
    PROVE  Logic!JoinIoThreads \/ Logic!SetStop \/ Logic!StopNotify \/ Logic!StopJoin
             \/ UNCHANGED logicState
<1>1. CASE Signal \/ StopContext
  <2>1. /\ main \in {"accept", "stopping"} /\ main' = "stopping"
        /\ UNCHANGED <<rd, msg_que, worker, posted, dealt>>
    BY <1>1 DEF Signal, StopContext, logicVars
  <2>2. UNCHANGED <<BStop, Poster, Owner>>
    BY <2>1 DEF BStop, Poster, Owner, Thread
  <2>3. QED
    BY <2>1, <2>2 DEF logicState
<1>2. CASE JoinIoThreads
  <2>1. /\ main = "stopping" /\ main' = "joined" /\ AllJoined
        /\ UNCHANGED <<rd, msg_que, worker, posted, dealt>>
    BY <1>2 DEF JoinIoThreads, logicVars
  <2>2. \A s \in Sessions : rd[s] # "notify"
    BY <2>1, ThreadType DEF AllJoined, Busy
  <2>3. \A t \in IoThreads : Poster[t] = "idle"
    BY <2>2 DEF Poster
  <2>4. UNCHANGED <<BStop, Poster>> /\ Owner = "running" /\ Owner' = "joined"
    BY <2>1 DEF BStop, Poster, Owner, Thread
  <2>5. QED
    BY <2>1, <2>3, <2>4 DEF Logic!JoinIoThreads, Poster, Owner, BStop
<1>3. CASE SetStop
  <2>1. /\ main = "joined" /\ main' = "notify"
        /\ UNCHANGED <<rd, msg_que, worker, posted, dealt>>
    BY <1>3 DEF SetStop, logicVars
  <2>2. BStop' = TRUE /\ UNCHANGED Poster /\ Owner = "joined" /\ Owner' = "notify"
    BY <2>1 DEF BStop, Poster, Owner, Thread
  <2>3. QED
    BY <2>1, <2>2 DEF Logic!SetStop, Poster, Owner, BStop
<1>4. CASE StopNotify
  <2>1. /\ main = "notify" /\ main' = "join" /\ NotifyOne
        /\ UNCHANGED <<rd, msg_que, posted, dealt>>
    BY <1>4 DEF StopNotify
  <2>2. UNCHANGED <<BStop, Poster>> /\ Owner = "notify" /\ Owner' = "join"
    BY <2>1 DEF BStop, Poster, Owner, Thread
  <2>3. QED
    BY <2>1, <2>2 DEF Logic!StopNotify, Logic!NotifyOne, NotifyOne, Poster, Owner, BStop
<1>5. CASE StopJoin
  <2>1. /\ main = "join" /\ main' = "done" /\ worker = "exit"
        /\ UNCHANGED <<rd, msg_que, worker, posted, dealt>>
    BY <1>5 DEF StopJoin, logicVars
  <2>2. UNCHANGED <<BStop, Poster>> /\ Owner = "join" /\ Owner' = "done"
    BY <2>1 DEF BStop, Poster, Owner, Thread
  <2>3. QED
    BY <2>1, <2>2 DEF Logic!StopJoin, Poster, Owner, BStop
<1>6. QED
  BY <1>1, <1>2, <1>3, <1>4, <1>5 DEF StopActions

(* Accepting, reading and writing leave the logic layer alone. *)
LEMMA LogicStutter ==
    ASSUME UNCHANGED <<logicVars, BStop, Owner>>,
           \A s \in Sessions : rd'[s] = "notify" <=> rd[s] = "notify"
    PROVE  UNCHANGED logicState
<1>1. UNCHANGED Poster
  BY PosterFrame
<1>2. QED
  BY <1>1 DEF logicVars, logicState

(* Accepting, reading and writing do not concern the logic layer. *)
LEMMA LogicOthers ==
    ASSUME IInv,
           \/ AcceptActions
           \/ \E s \in Sessions :
                 HandleRead(s) \/ ReadError(s) \/ ReadErased(s) \/ WriteActions(s)
    PROVE  UNCHANGED logicState
<1>1. CASE AcceptOk
  <2>1. /\ current \in Sessions /\ rd[current] = "none" /\ main = "accept" /\ main' = "insert"
        /\ rd' = [rd EXCEPT ![current] = "pending"] /\ UNCHANGED logicVars
    BY <1>1 DEF AcceptOk, Listening, IInv, TypeOK, NotStarted, Sessions
  <2>2. \A s \in Sessions : rd'[s] = "notify" <=> rd[s] = "notify"
    BY <2>1 DEF IInv, TypeOK
  <2>3. QED
    BY <2>1, <2>2, LogicStutter DEF BStop, Owner
<1>2. CASE InsertBegin \/ InsertEnd \/ AcceptError
  <2>1. /\ main \in {"insert", "inserting", "accept"} /\ main' \in {"inserting", "accept"}
        /\ UNCHANGED <<rd, logicVars>>
    BY <1>2 DEF InsertBegin, InsertEnd, AcceptError, Listening, StartAccept
  <2>2. QED
    BY <2>1, LogicStutter DEF BStop, Owner
<1>3. ASSUME NEW s \in Sessions, HandleRead(s) \/ ReadError(s) \/ ReadErased(s)
      PROVE  UNCHANGED logicState
  <2>1. /\ rd[s] \in {"pending", "erase"} /\ UNCHANGED <<main, logicVars>>
        /\ \E x \in {"post", "erase", "ended"} : rd' = [rd EXCEPT ![s] = x]
    BY <1>3 DEF HandleRead, ReadError, ReadErased, acceptVars
  <2>2. \A u \in Sessions : rd'[u] = "notify" <=> rd[u] = "notify"
    BY <2>1 DEF IInv, TypeOK
  <2>3. QED
    BY <2>1, <2>2, LogicStutter DEF BStop, Owner
<1>4. ASSUME NEW s \in Sessions, WriteActions(s) PROVE UNCHANGED logicState
  <2>1. UNCHANGED <<main, rd, logicVars>>
    BY <1>4 DEF WriteActions, WriteSome, WriteError, WriteErased, HandleWriteOk, HandleWriteError,
                acceptVars
  <2>2. QED
    BY <2>1, LogicStutter DEF BStop, Owner
<1>5. QED
  BY <1>1, <1>2, <1>3, <1>4 DEF AcceptActions

(* Every step of the server is one of the logic layer or none. *)
LEMMA LogicStep == IInv /\ [Next]_vars => [Logic!Next]_(Logic!vars)
<1> SUFFICES ASSUME IInv, [Next]_vars PROVE Logic!Next \/ UNCHANGED Logic!vars
  OBVIOUS
<1>1. UNCHANGED logicState => UNCHANGED Logic!vars
  BY DEF logicState, Logic!vars, Poster, Owner, BStop
<1>2. CASE DealMsg
  BY <1>2, LogicWorker DEF Logic!Next
<1>3. CASE Spurious
  BY <1>3, LogicMove DEF Spurious, Logic!Next, Logic!Spurious
<1>4. CASE StopActions
  BY <1>1, <1>4, LogicMain DEF Logic!Next
<1>5. ASSUME NEW s \in Sessions, Post(s) PROVE Logic!Next
  <2>1. rd[s] = "post"
    BY <1>5 DEF Post
  <2>2. PICK m \in Request : m = Request0(s)
    BY <2>1, PostedType
  <2>3. Thread(s) \in IoThreads /\ Logic!PostMsgToQue(Thread(s), m)
    BY <1>5, <2>2, LogicPost, ThreadType
  <2>4. QED
    BY <2>3 DEF Logic!Next
<1>6. ASSUME NEW s \in Sessions, PostNotify(s) PROVE Logic!Next
  BY <1>6, LogicNotify, ThreadType DEF Logic!Next
<1>7. CASE \/ AcceptActions
           \/ \E s \in Sessions :
                 HandleRead(s) \/ ReadError(s) \/ ReadErased(s) \/ WriteActions(s)
  BY <1>1, <1>7, LogicOthers
<1>8. CASE UNCHANGED vars
  <2>1. UNCHANGED <<main, rd, logicVars>>
    BY <1>8 DEF vars, acceptVars
  <2>2. QED
    BY <1>1, <2>1, LogicStutter DEF BStop, Owner
<1>9. QED
  BY <1>2, <1>3, <1>4, <1>5, <1>6, <1>7, <1>8
     DEF Next, AcceptActions, StopActions, WriteActions

(* The io threads, the worker and main drive the logic layer only in the   *)
(* ways LogicSystem allows: no post once Stop has returned, no second call *)
(* from a thread that is still to notify, and every request at most once.  *)
THEOREM LogicRefinement == Spec => LogicImpl
<1>1. Init => Logic!Init
  BY LogicInit
<1>2. IInv /\ [Next]_vars => [Logic!Next]_(Logic!vars)
  BY LogicStep
<1>3. QED
  BY <1>1, <1>2, Invariance, PTL DEF Spec, LogicImpl, Logic!Spec
-----------------------------------------------------------------------------
(* Of each session, each step is a step of SendQueue or leaves it alone.   *)
LEMMA SendInit == Init => \A s \in Sessions : Out(s)!SendInit
  BY DEF Init, Out!SendInit

(* Steps that leave all send paths alone. *)
LEMMA SendStutter ==
    ASSUME NEW s \in Sessions, UNCHANGED sendVars
    PROVE  UNCHANGED (Out(s)!sendVars)
  BY DEF sendVars, Out!sendVars

(* The handlers of async_write are steps of the send path of their session. *)
LEMMA WriteStep ==
    ASSUME IInv, NEW s \in Sessions, WriteActions(s), NEW u \in Sessions
    PROVE  [Out(u)!SendNext]_(Out(u)!sendVars)
<1>1. /\ ops \in [Sessions -> SUBSET Op] /\ send_que \in [Sessions -> Seq(Nat)]
      /\ wire \in [Sessions -> Seq([node : Nat, unit : {1}])]
      /\ cleared \in [Sessions -> BOOLEAN]
  BY DEF IInv, TypeOK
<1>2. CASE u # s
  <2>1. /\ send_que'[u] = send_que[u] /\ ops'[u] = ops[u] /\ wire'[u] = wire[u]
        /\ replied'[u] = replied[u] /\ dropped'[u] = dropped[u] /\ cleared'[u] = cleared[u]
    BY <1>1, <1>2 DEF WriteActions, WriteSome, WriteError, WriteErased, HandleWriteOk,
                      HandleWriteError, sendVars
  <2>2. QED
    BY <2>1 DEF Out!sendVars
<1>3. ASSUME WriteSome(s) PROVE Out(s)!SendNext
  <2>1. PICK op \in ops[s] :
           /\ op.left > 0 /\ ~op.ec
           /\ wire' = [wire EXCEPT ![s] = Append(@, [node |-> op.node, unit |-> 1])]
           /\ ops' = [ops EXCEPT ![s] = (@ \ {op}) \cup {[node |-> op.node, left |-> 0, ec |-> FALSE]}]
    BY <1>3 DEF WriteSome
  <2>2. op \in Op /\ op.left = 1
    BY <1>1, <2>1 DEF Op
  <2>3. UNCHANGED <<send_que, dropped, cleared, replied>>
    BY <1>3 DEF WriteSome
  <2>4. /\ wire'[s] = Append(wire[s], [node |-> op.node, unit |-> 1])
        /\ ops'[s] = (ops[s] \ {op}) \cup {[node |-> op.node, left |-> 0, ec |-> FALSE]}
    BY <1>1, <2>1
  <2>5. 1 - op.left + 1 = 1 /\ op.left - 1 = 0
    BY <2>2
  <2>6. Out(s)!WriteSome(op)
    BY <2>1, <2>3, <2>4, <2>5 DEF Out!WriteSome
  <2>7. QED
    BY <2>6 DEF Out!SendNext
<1>4. ASSUME WriteError(s) PROVE Out(s)!SendNext
  <2>1. PICK op \in ops[s] :
           /\ op.left > 0 /\ ~op.ec
           /\ ops' = [ops EXCEPT ![s] = (@ \ {op}) \cup {[node |-> op.node, left |-> op.left, ec |-> TRUE]}]
    BY <1>4 DEF WriteError
  <2>2. UNCHANGED <<send_que, wire, dropped, cleared, replied>>
    BY <1>4 DEF WriteError
  <2>3. ops'[s] = (ops[s] \ {op}) \cup {[node |-> op.node, left |-> op.left, ec |-> TRUE]}
    BY <1>1, <2>1
  <2>4. Out(s)!WriteError(op)
    BY <2>1, <2>2, <2>3 DEF Out!WriteError
  <2>5. QED
    BY <2>4 DEF Out!SendNext
<1>5. ASSUME HandleWriteOk(s) PROVE Out(s)!SendNext
  <2>1. PICK op \in ops[s] :
           /\ op.left = 0
           /\ send_que' = [send_que EXCEPT ![s] = Tail(@)]
           /\ ops' = [ops EXCEPT ![s] = (@ \ {op})
                        \cup (IF send_que'[s] # <<>> THEN {AsyncWrite(Head(send_que'[s]))} ELSE {})]
    BY <1>5 DEF HandleWriteOk
  <2>2. UNCHANGED <<wire, dropped, cleared, replied>>
    BY <1>5 DEF HandleWriteOk
  <2>3. /\ send_que'[s] = Tail(send_que[s])
        /\ ops'[s] = (ops[s] \ {op})
              \cup (IF send_que'[s] # <<>> THEN {AsyncWrite(Head(send_que'[s]))} ELSE {})
    BY <1>1, <2>1
  <2>4. Out(s)!HandleWriteOk(op)
    BY <2>1, <2>2, <2>3 DEF Out!HandleWriteOk, Out!ContinueIfMore, Out!AsyncWrite, AsyncWrite
  <2>5. QED
    BY <2>4 DEF Out!SendNext, Out!HandleWrite
<1>6. ASSUME HandleWriteError(s) PROVE Out(s)!SendNext
  <2>1. PICK op \in ops[s] : op.ec /\ ops' = [ops EXCEPT ![s] = @ \ {op}]
    BY <1>6 DEF HandleWriteError
  <2>2. cleared' = [cleared EXCEPT ![s] = TRUE] /\ UNCHANGED <<send_que, wire, dropped, replied>>
    BY <1>6 DEF HandleWriteError
  <2>3. ops'[s] = ops[s] \ {op} /\ cleared'[s] = TRUE
    BY <1>1, <2>1, <2>2
  <2>4. Out(s)!HandleWriteError(op)
    BY <2>1, <2>2, <2>3 DEF Out!HandleWriteError
  <2>5. QED
    BY <2>4 DEF Out!SendNext, Out!HandleWrite
<1>7. ASSUME WriteErased(s) PROVE UNCHANGED (Out(s)!sendVars)
  BY <1>7, SendStutter DEF WriteErased
<1>8. QED
  BY <1>2, <1>3, <1>4, <1>5, <1>6, <1>7 DEF WriteActions

(* The callback of a request is the answer to it, and Send is called with  *)
(* fewer answers than there are requests.                                  *)
LEMMA AnswerBound ==
    ASSUME IInv, msg_que # <<>>, NEW s \in Sessions, Head(msg_que).ses = s
    PROVE  Cardinality(Answered(s)) < MaxReqs[s]
<1> DEFINE m == Head(msg_que)
           A == Answered(s)
           T == 1 .. m.req - 1
           f == [i \in A |-> dealt[i].msg.req]
<1>1. /\ m \in Request /\ m.req \in Nat /\ m.req > 0 /\ m.req <= MaxReqs[s]
      /\ \A i \in DOMAIN dealt : dealt[i].msg.ses = s => dealt[i].msg.req < m.req
  BY FrontIsNewest, RequestType
<1>2. /\ dealt \in Seq([msg : Request, called : BOOLEAN]) /\ DOMAIN dealt = 1 .. Len(dealt)
      /\ Len(dealt) \in Nat /\ IsFiniteSet(A)
  BY DealtType
<1>3. ASSUME NEW i \in A
      PROVE  /\ i \in DOMAIN dealt /\ dealt[i].msg \in Request /\ dealt[i].msg.ses = s
             /\ dealt[i].msg.req \in Nat
             /\ dealt[i].msg.req \in T
  <2>1. i \in DOMAIN dealt /\ dealt[i].msg.ses = s
    BY <1>3 DEF Answered
  <2>2. dealt[i].msg \in Request
    BY <2>1, DealtType
  <2>3. dealt[i].msg.req \in Nat /\ dealt[i].msg.req > 0 /\ dealt[i].msg.req < m.req
    BY <1>1, <2>1, <2>2, RequestType
  <2>4. QED
    BY <1>1, <2>1, <2>2, <2>3
<1>4. ASSUME NEW i \in A, NEW j \in A, i # j PROVE f[i] # f[j]
  <2>1. \A k \in DOMAIN dealt : dealt[k].msg = posted[k] /\ k \in DOMAIN posted
    BY <1>2 DEF IInv, DealtAsPosted, TypeOK
  <2>2. \A a, b \in DOMAIN dealt : dealt[a].msg.ses = dealt[b].msg.ses /\ a < b
                                     => dealt[a].msg.req < dealt[b].msg.req
    BY <2>1 DEF IInv, PostedInOrder
  <2>3. i < j \/ j < i
    BY <1>2, <1>3, <1>4
  <2>4. dealt[i].msg.req # dealt[j].msg.req
    BY <1>3, <2>2, <2>3
  <2>5. QED
    BY <2>4
<1>5. f \in Injection(A, T)
  <2>1. f \in [A -> T]
    BY <1>3
  <2> HIDE DEF f
  <2>2. QED
    BY <1>4, <2>1 DEF Injection, IsInjective
<1>6. IsFiniteSet(T) /\ Cardinality(T) = m.req - 1
  BY <1>1, UpTo
<1>7. Cardinality(A) <= Cardinality(T)
  BY <1>5, <1>6, FS_Injection
<1>8. Cardinality(A) \in Nat /\ MaxReqs[s] \in Nat
  BY DealtType, ServerAssumption DEF Sessions
<1>9. QED
  BY <1>1, <1>6, <1>7, <1>8

(* The answer of a callback is a Send of its session. *)
LEMMA SendStep ==
    ASSUME IInv, msg_que # <<>>, DealFront, NEW u \in Sessions
    PROVE  [Out(u)!SendNext]_(Out(u)!sendVars)
<1> DEFINE m == Head(msg_que)
<1>1. /\ ops \in [Sessions -> SUBSET Op] /\ send_que \in [Sessions -> Seq(Nat)]
      /\ replied \in [Sessions -> Seq(Nat)] /\ dropped \in [Sessions -> Nat]
      /\ m \in Request /\ m.ses \in Sessions /\ m.req \in Nat
  BY FrontIsNewest, RequestType DEF IInv, TypeOK
<1>2. UNCHANGED <<wire, cleared>>
  BY DEF DealFront
<1>3. CASE m \in Unregistered
  <2>1. UNCHANGED <<send_que, ops, dropped, replied>>
    BY <1>3 DEF DealFront
  <2>2. QED
    BY <1>2, <2>1 DEF Out!sendVars
<1>4. CASE m \notin Unregistered /\ m.ses # u
  <2>1. /\ send_que'[u] = send_que[u] /\ ops'[u] = ops[u]
        /\ replied'[u] = replied[u] /\ dropped'[u] = dropped[u]
    BY <1>1, <1>4 DEF DealFront, Send
  <2>2. QED
    BY <1>2, <2>1 DEF Out!sendVars
<1>5. CASE m \notin Unregistered /\ m.ses = u
  <2>1. Send(m)
    BY <1>5 DEF DealFront
  <2>2. /\ Len(replied[u]) \in Nat /\ dropped[u] \in Nat /\ MaxReqs[u] \in Nat
        /\ Len(replied[u]) + dropped[u] < MaxReqs[u]
    BY <1>1, <1>5, AnswerBound, ServerAssumption DEF IInv, RepliesInOrder, Sessions
  <2>3. CASE Len(send_que[u]) > MAX_SENDQUE
    <3>1. /\ dropped'[u] = dropped[u] + 1
          /\ UNCHANGED <<send_que, ops, replied>>
      BY <1>1, <1>5, <2>1, <2>3 DEF Send
    <3>2. dropped[u] < MaxReqs[u]
      BY <2>2
    <3>3. Out(u)!SendFull
      BY <1>2, <2>3, <3>1, <3>2 DEF Out!SendFull
    <3>4. QED
      BY <3>3 DEF Out!SendNext, Out!Send
  <2>4. CASE ~(Len(send_que[u]) > MAX_SENDQUE)
    <3>1. /\ replied'[u] = Append(replied[u], m.req)
          /\ send_que'[u] = Append(send_que[u], Len(replied'[u]))
          /\ ops'[u] = ops[u] \cup
                          (IF send_que[u] = <<>> THEN {AsyncWrite(Len(replied'[u]))} ELSE {})
          /\ UNCHANGED dropped
      BY <1>1, <1>5, <2>1, <2>4 DEF Send
    <3>2. PICK n \in Nat : n = Len(replied[u]) + 1
      BY <2>2
    <3>3. Len(replied'[u]) = n
      BY <1>1, <3>1, <3>2
    <3>4. send_que'[u] = Append(send_que[u], n)
      BY <3>1, <3>3
    <3>5. send_que[u] = <<>> => Head(send_que'[u]) = n
      BY <3>4
    <3>6. /\ Len(send_que[u]) <= MAX_SENDQUE /\ Len(replied[u]) < MaxReqs[u]
      BY <1>1, <2>2, <2>4, ServerAssumption
    <3>7. ops'[u] = ops[u] \cup (IF send_que[u] = <<>> THEN {AsyncWrite(Head(send_que'[u]))} ELSE {})
      BY <3>1, <3>3, <3>5
    <3>8. Out(u)!SendPush
      BY <1>2, <3>1, <3>2, <3>3, <3>4, <3>6, <3>7
         DEF Out!SendPush, Out!StartIfIdle, Out!AsyncWrite, AsyncWrite
    <3>9. QED
      BY <3>8 DEF Out!SendNext, Out!Send
  <2>5. QED
    BY <2>3, <2>4
<1>6. QED
  BY <1>3, <1>4, <1>5

(* Every step of the server is one of each send path or none. *)
LEMMA ChannelStep == IInv /\ [Next]_vars => \A u \in Sessions : [Out(u)!SendNext]_(Out(u)!sendVars)
<1> SUFFICES ASSUME IInv, [Next]_vars, NEW u \in Sessions
             PROVE  [Out(u)!SendNext]_(Out(u)!sendVars)
  OBVIOUS
<1>1. CASE \E s \in Sessions : WriteActions(s)
  BY <1>1, WriteStep
<1>2. CASE Deal \/ (worker = "drain" /\ msg_que # <<>> /\ DealFront /\ UNCHANGED worker)
  <2>1. msg_que # <<>> /\ DealFront
    BY <1>2 DEF Deal, IInv, WorkerKnows
  <2>2. QED
    BY <2>1, SendStep
<1>3. CASE UNCHANGED sendVars
  BY <1>3, SendStutter
<1>4. AcceptActions \/ StopActions => UNCHANGED sendVars
  BY DEF AcceptActions, AcceptOk, InsertBegin, InsertEnd, AcceptError,
         StopActions, Signal, StopContext, JoinIoThreads, SetStop, StopNotify, StopJoin
<1>5. \A s \in Sessions : ReadActions(s) => UNCHANGED sendVars
  BY DEF ReadActions, HandleRead, ReadError, ReadErased, Post, PostNotify
<1>6. \A from, to : Move(from, to) => UNCHANGED sendVars
  BY DEF Move
<1>7. UNCHANGED vars => UNCHANGED sendVars
  BY DEF vars
<1>8. CASE DealMsg \/ Spurious
  BY <1>2, <1>3, <1>6, <1>8 DEF DealMsg, Wait, Drain, Spurious
<1>9. QED
  BY <1>1, <1>3, <1>4, <1>5, <1>7, <1>8
     DEF Next, AcceptActions, StopActions, ReadActions, WriteActions

(* Between the worker, which calls Send, and its pool thread, which runs   *)
(* the handlers, every session's send path behaves as SendQueue: what is   *)
(* proved of SendQueue holds of each session of the server.                *)
THEOREM SendRefinement == Spec => SendImpl
<1>1. Init => \A s \in Sessions : Out(s)!SendInit
  BY SendInit
<1>2. IInv /\ [Next]_vars => [\A s \in Sessions : [Out(s)!SendNext]_(Out(s)!sendVars)]_vars
  BY ChannelStep
<1>3. QED
  BY <1>1, <1>2, Invariance, PTL DEF Spec, SendImpl
=============================================================================
