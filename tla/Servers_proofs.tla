--------------------------- MODULE Servers_proofs ---------------------------
(***************************************************************************)
(* Proofs about the servers of MCServers, for every number of connections, *)
(* of messages and of requests.                                            *)
(*                                                                         *)
(* WebSocket: the handlers of reads and of writes meet on send_que; the    *)
(* invariant says what the front of the queue is while a write is in       *)
(* flight, and that an empty queue means everything has been echoed.  A    *)
(* queue that is not empty while nothing is written stays so for ever,     *)
(* and nothing needs to be known of what it holds.                         *)
(*                                                                         *)
(* CoroutineServer: the write that a caller is about to start counts as    *)
(* started (Starting); the invariant says that there is at most one of     *)
(* those and of the writes in flight together.                             *)
(***************************************************************************)
EXTENDS MCServers, TLAPS

(* One connection: what was received, queued and sent, and how far the     *)
(* write in flight is.                                                     *)
ConnTypeOK(c) ==
    /\ rcvd[c] \in Nat
    /\ web_que[c] \in Seq(Nat)
    /\ write[c] \in {"none", "flying", "done", "failed"}
    /\ sent[c] \in Seq(Nat)

ConnInv(c) ==
    /\ web_que[c] = <<>> => write[c] = "none" /\ Len(sent[c]) = rcvd[c]
    /\ write[c] = "flying" => /\ Head(web_que[c]) = Len(sent[c]) + 1
                              /\ Len(web_que[c]) = 1 => rcvd[c] = Len(sent[c]) + 1
    /\ write[c] = "done" => (Len(web_que[c]) = 1 => rcvd[c] = Len(sent[c]))

ConnEchoed(c) == \A i \in DOMAIN sent[c] : sent[c][i] \in {i, Web!Garbage}

WebTypeOK == /\ DOMAIN rcvd = Web!Conns /\ rcvd = [c \in Web!Conns |-> rcvd[c]]
             /\ DOMAIN web_que = Web!Conns /\ web_que = [c \in Web!Conns |-> web_que[c]]
             /\ DOMAIN write = Web!Conns /\ write = [c \in Web!Conns |-> write[c]]
             /\ DOMAIN sent = Web!Conns /\ sent = [c \in Web!Conns |-> sent[c]]

WebInv == /\ WebTypeOK
          /\ \A c \in Web!Conns : ConnTypeOK(c) /\ ConnInv(c) /\ ConnEchoed(c)

-----------------------------------------------------------------------------
(* What each handler does to its own connection c, as a relation between   *)
(* the values before (r, q, w, s) and after.                               *)
LEMMA WebInitInv == WebIdle \/ Web!Init => WebInv
<1>1. <<>> \in Seq(Nat) /\ Len(<<>>) = 0 /\ DOMAIN <<>> = {}
  OBVIOUS
<1>2. WebIdle \/ Web!Init =>
        /\ rcvd = [c \in Web!Conns |-> 0]
        /\ web_que = [c \in Web!Conns |-> <<>>]
        /\ write = [c \in Web!Conns |-> "none"]
        /\ sent = [c \in Web!Conns |-> <<>>]
  BY DEF WebIdle, Web!Init
<1> SUFFICES ASSUME WebIdle \/ Web!Init PROVE WebInv
  OBVIOUS
<1>3. WebTypeOK
  BY <1>2 DEF WebTypeOK
<1>4. ASSUME NEW c \in Web!Conns PROVE ConnTypeOK(c) /\ ConnInv(c) /\ ConnEchoed(c)
  <2>1. rcvd[c] = 0 /\ web_que[c] = <<>> /\ write[c] = "none" /\ sent[c] = <<>>
    BY <1>2, <1>4
  <2> QED
    BY <1>1, <2>1 DEF ConnTypeOK, ConnInv, ConnEchoed
<1> QED
  BY <1>3, <1>4 DEF WebInv

(* An append keeps what the sequence says of its places. *)
LEMMA EchoAppend ==
    ASSUME NEW s \in Seq(Nat), NEW m \in {Len(s) + 1, Web!Garbage},
           \A i \in DOMAIN s : s[i] \in {i, Web!Garbage}
    PROVE  /\ Append(s, m) \in Seq(Nat)
           /\ Len(Append(s, m)) = Len(s) + 1
           /\ \A i \in DOMAIN Append(s, m) : Append(s, m)[i] \in {i, Web!Garbage}
  BY DEF Web!Garbage

(* A connection whose variables keep their values keeps its invariant. *)
LEMMA OtherConn ==
    ASSUME NEW c,
           rcvd'[c] = rcvd[c], web_que'[c] = web_que[c],
           write'[c] = write[c], sent'[c] = sent[c],
           ConnTypeOK(c), ConnInv(c), ConnEchoed(c)
    PROVE  (ConnTypeOK(c) /\ ConnInv(c) /\ ConnEchoed(c))'
  BY DEF ConnTypeOK, ConnInv, ConnEchoed

(* Every step of the websocket server preserves the invariant. *)
LEMMA WebStep == WebInv /\ [Web!Next]_webVars => WebInv'
<1> SUFFICES ASSUME WebInv, [Web!Next]_webVars PROVE WebInv'
  OBVIOUS
<1>t. \A c \in Web!Conns : ConnTypeOK(c) /\ ConnInv(c) /\ ConnEchoed(c)
  BY DEF WebInv
<1>1. CASE UNCHANGED <<rcvd, web_que, write, sent>>
  BY <1>1 DEF WebInv, WebTypeOK, ConnTypeOK, ConnInv, ConnEchoed
<1>2. ASSUME NEW d \in Web!Conns, Web!Read(d) PROVE WebInv'
  <2>1. /\ rcvd' = [rcvd EXCEPT ![d] = @ + 1]
        /\ web_que' = [web_que EXCEPT ![d] = Append(@, rcvd[d] + 1)]
        /\ \/ /\ web_que[d] = <<>>
              /\ write' = [write EXCEPT ![d] = "done"]
              /\ sent' = [sent EXCEPT ![d] = Append(@, rcvd[d] + 1)]
           \/ /\ web_que[d] = <<>>
              /\ write' = [write EXCEPT ![d] = "flying"]
              /\ sent' = sent
           \/ /\ web_que[d] # <<>>
              /\ write' = write /\ sent' = sent
    BY <1>2 DEF Web!Read, Web!AsyncSend, Web!AsyncWrite
  <2>2. WebTypeOK'
    BY <2>1 DEF WebInv, WebTypeOK
  <2>3. ASSUME NEW c \in Web!Conns, c # d
        PROVE  (ConnTypeOK(c) /\ ConnInv(c) /\ ConnEchoed(c))'
    <3>1. /\ rcvd'[c] = rcvd[c] /\ web_que'[c] = web_que[c]
          /\ write'[c] = write[c] /\ sent'[c] = sent[c]
      BY <2>1, <2>3 DEF WebInv, WebTypeOK
    <3> QED
      BY <1>t, <2>3, <3>1, OtherConn
  <2>4. (ConnTypeOK(d) /\ ConnInv(d) /\ ConnEchoed(d))'
    <3>0. ConnTypeOK(d) /\ ConnInv(d) /\ ConnEchoed(d)
      BY <1>t, <1>2
    <3>1. /\ rcvd'[d] = rcvd[d] + 1
          /\ web_que'[d] = Append(web_que[d], rcvd[d] + 1)
          /\ \/ /\ web_que[d] = <<>>
                /\ write'[d] = "done" /\ sent'[d] = Append(sent[d], rcvd[d] + 1)
             \/ /\ web_que[d] = <<>>
                /\ write'[d] = "flying" /\ sent'[d] = sent[d]
             \/ /\ web_que[d] # <<>>
                /\ write'[d] = write[d] /\ sent'[d] = sent[d]
      BY <1>2, <2>1 DEF WebInv, WebTypeOK
    <3>2. /\ Append(web_que[d], rcvd[d] + 1) \in Seq(Nat)
          /\ Append(web_que[d], rcvd[d] + 1) # <<>>
          /\ Len(Append(web_que[d], rcvd[d] + 1)) = Len(web_que[d]) + 1
          /\ web_que[d] # <<>> => Head(Append(web_que[d], rcvd[d] + 1)) = Head(web_que[d])
          /\ web_que[d] # <<>> => Len(web_que[d]) > 0
          /\ web_que[d] = <<>> => Head(Append(web_que[d], rcvd[d] + 1)) = rcvd[d] + 1
      BY <3>0 DEF ConnTypeOK
    <3>3. CASE /\ web_que[d] = <<>>
               /\ write'[d] = "done" /\ sent'[d] = Append(sent[d], rcvd[d] + 1)
      <4>1. Len(sent[d]) = rcvd[d] /\ sent[d] \in Seq(Nat)
        BY <3>0, <3>3 DEF ConnInv, ConnTypeOK
      <4>2. /\ sent'[d] \in Seq(Nat) /\ Len(sent'[d]) = rcvd[d] + 1
            /\ \A i \in DOMAIN sent'[d] : sent'[d][i] \in {i, Web!Garbage}
        BY <3>0, <3>3, <4>1, EchoAppend DEF ConnEchoed
      <4> QED
        BY <3>0, <3>1, <3>2, <3>3, <4>2 DEF ConnTypeOK, ConnInv, ConnEchoed
    <3>4. CASE /\ web_que[d] = <<>>
               /\ write'[d] = "flying" /\ sent'[d] = sent[d]
      BY <3>0, <3>1, <3>2, <3>4 DEF ConnTypeOK, ConnInv, ConnEchoed
    <3>5. CASE /\ web_que[d] # <<>>
               /\ write'[d] = write[d] /\ sent'[d] = sent[d]
      BY <3>0, <3>1, <3>2, <3>5 DEF ConnTypeOK, ConnInv, ConnEchoed
    <3> QED
      BY <3>1, <3>3, <3>4, <3>5
  <2> QED
    BY <2>2, <2>3, <2>4 DEF WebInv
<1>3. ASSUME NEW d \in Web!Conns, Web!WriteLate(d) PROVE WebInv'
  <2>0. ConnTypeOK(d) /\ ConnInv(d) /\ ConnEchoed(d) /\ write[d] = "flying"
    BY <1>t, <1>3 DEF Web!WriteLate
  <2>1. /\ rcvd' = rcvd /\ web_que' = web_que
        /\ \/ /\ \E m \in {Web!Garbage, Head(web_que[d])} :
                    sent' = [sent EXCEPT ![d] = Append(@, m)]
              /\ write' = [write EXCEPT ![d] = "done"]
           \/ write' = [write EXCEPT ![d] = "failed"] /\ sent' = sent
    BY <1>3 DEF Web!WriteLate
  <2>2. WebTypeOK'
    BY <2>1 DEF WebInv, WebTypeOK
  <2>3. ASSUME NEW c \in Web!Conns, c # d
        PROVE  (ConnTypeOK(c) /\ ConnInv(c) /\ ConnEchoed(c))'
    <3>1. /\ rcvd'[c] = rcvd[c] /\ web_que'[c] = web_que[c]
          /\ write'[c] = write[c] /\ sent'[c] = sent[c]
      BY <2>1, <2>3 DEF WebInv, WebTypeOK
    <3> QED
      BY <1>t, <2>3, <3>1, OtherConn
  <2>4. (ConnTypeOK(d) /\ ConnInv(d) /\ ConnEchoed(d))'
    <3>1. /\ rcvd'[d] = rcvd[d] /\ web_que'[d] = web_que[d]
          /\ \/ /\ \E m \in {Web!Garbage, Head(web_que[d])} : sent'[d] = Append(sent[d], m)
                /\ write'[d] = "done"
             \/ write'[d] = "failed" /\ sent'[d] = sent[d]
      BY <1>3, <2>1 DEF WebInv, WebTypeOK
    <3>2. web_que[d] # <<>> /\ Head(web_que[d]) = Len(sent[d]) + 1
      BY <2>0 DEF ConnInv
    <3>3. ASSUME NEW m \in {Web!Garbage, Head(web_que[d])},
                 sent'[d] = Append(sent[d], m), write'[d] = "done"
          PROVE  (ConnTypeOK(d) /\ ConnInv(d) /\ ConnEchoed(d))'
      <4>1. m \in {Len(sent[d]) + 1, Web!Garbage}
        BY <3>2, <3>3
      <4>2. /\ sent'[d] \in Seq(Nat) /\ Len(sent'[d]) = Len(sent[d]) + 1
            /\ \A i \in DOMAIN sent'[d] : sent'[d][i] \in {i, Web!Garbage}
        BY <2>0, <3>3, <4>1, EchoAppend DEF ConnEchoed, ConnTypeOK
      <4> QED
        BY <2>0, <3>1, <3>2, <3>3, <4>2 DEF ConnTypeOK, ConnInv, ConnEchoed
    <3>4. CASE write'[d] = "failed" /\ sent'[d] = sent[d]
      BY <2>0, <3>1, <3>2, <3>4 DEF ConnTypeOK, ConnInv, ConnEchoed
    <3> QED
      BY <3>1, <3>3, <3>4
  <2> QED
    BY <2>2, <2>3, <2>4 DEF WebInv
<1>4. ASSUME NEW d \in Web!Conns, Web!Written(d) \/ Web!WriteError(d) PROVE WebInv'
  <2>0. ConnTypeOK(d) /\ ConnInv(d) /\ ConnEchoed(d)
    BY <1>t, <1>4
  <2> DEFINE rest == Tail(web_que[d])
  <2>1. /\ rcvd' = rcvd /\ sent' = sent
        /\ write' = [write EXCEPT ![d] = "none"]
        /\ \/ /\ write[d] = "done"
              /\ web_que' = [web_que EXCEPT ![d] =
                               IF rest = <<>> THEN rest ELSE Append(rest, Head(rest))]
           \/ write[d] = "failed" /\ web_que' = web_que
    BY <1>4 DEF Web!Written, Web!WriteError
  <2>2. WebTypeOK'
    BY <2>1 DEF WebInv, WebTypeOK
  <2>3. ASSUME NEW c \in Web!Conns, c # d
        PROVE  (ConnTypeOK(c) /\ ConnInv(c) /\ ConnEchoed(c))'
    <3>1. /\ rcvd'[c] = rcvd[c] /\ web_que'[c] = web_que[c]
          /\ write'[c] = write[c] /\ sent'[c] = sent[c]
      BY <2>1, <2>3 DEF WebInv, WebTypeOK
    <3> QED
      BY <1>t, <2>3, <3>1, OtherConn
  <2>4. (ConnTypeOK(d) /\ ConnInv(d) /\ ConnEchoed(d))'
    <3>1. /\ rcvd'[d] = rcvd[d] /\ sent'[d] = sent[d] /\ write'[d] = "none"
          /\ \/ /\ write[d] = "done"
                /\ web_que'[d] = IF rest = <<>> THEN rest ELSE Append(rest, Head(rest))
             \/ write[d] = "failed" /\ web_que'[d] = web_que[d]
      BY <1>4, <2>1 DEF WebInv, WebTypeOK
    <3>2. /\ web_que[d] \in Seq(Nat)
          /\ write[d] \in {"done", "failed"} => web_que[d] # <<>>
      BY <2>0 DEF ConnInv, ConnTypeOK
    <3>3. CASE write[d] = "done" /\ rest = <<>>
      <4>1. /\ Len(rest) = Len(web_que[d]) - 1 /\ Len(web_que[d]) \in Nat
            /\ Len(<<>>) = 0 /\ <<>> \in Seq(Nat)
        BY <3>2, <3>3
      <4>2. Len(web_que[d]) = 1
        <5>1. Len(rest) = 0
          BY <3>3, <4>1
        <5> HIDE DEF rest
        <5> QED
          BY <4>1, <5>1
      <4>3. web_que'[d] = <<>>
        BY <3>1, <3>3
      <4> QED
        BY <2>0, <3>1, <3>3, <4>1, <4>2, <4>3 DEF ConnTypeOK, ConnInv, ConnEchoed
    <3>4. CASE write[d] = "done" /\ rest # <<>>
      <4>1. rest \in Seq(Nat)
        BY <3>2, <3>4
      <4>2. Append(rest, Head(rest)) \in Seq(Nat) /\ Append(rest, Head(rest)) # <<>>
        BY <4>1, <3>4
      <4> QED
        BY <2>0, <3>1, <3>4, <4>2 DEF ConnTypeOK, ConnInv, ConnEchoed
    <3>5. CASE write[d] = "failed" /\ web_que'[d] = web_que[d]
      BY <2>0, <3>1, <3>2, <3>5 DEF ConnTypeOK, ConnInv, ConnEchoed
    <3> QED
      BY <3>1, <3>3, <3>4, <3>5
  <2> QED
    BY <2>2, <2>3, <2>4 DEF WebInv
<1>5. ASSUME NEW d \in Web!Conns, Web!AsyncAccept(d) \/ Web!ReadError(d) PROVE WebInv'
  BY <1>1, <1>5 DEF Web!AsyncAccept, Web!ReadError
<1>6. CASE Web!StartAccept
  BY <1>1, <1>6 DEF Web!StartAccept
<1>7. CASE UNCHANGED webVars
  BY <1>1, <1>7 DEF webVars
<1>8. CASE Web!Next
  <2>1. \/ Web!StartAccept
        \/ \E d \in Web!Conns : \/ Web!AsyncAccept(d) \/ Web!ReadError(d)
                               \/ Web!Read(d) \/ Web!WriteLate(d)
                               \/ Web!Written(d) \/ Web!WriteError(d)
    BY <1>8 DEF Web!Next, Web!Writing
  <2> QED
    BY <1>2, <1>3, <1>4, <1>5, <1>6, <2>1
<1> QED
  BY <1>7, <1>8

(* ServersSpec: a step of the one server leaves the variables of the other *)
(* two alone.                                                              *)
THEOREM WebInvariance == ServersSpec => []WebInv
<1>1. ServersInit => WebInv
  BY WebInitInv DEF ServersInit
<1>2. WebInv /\ [ServersNext]_<<vars, webVars, httpVars>> => WebInv'
  <2> SUFFICES ASSUME WebInv, [ServersNext]_<<vars, webVars, httpVars>> PROVE WebInv'
    OBVIOUS
  <2>1. [Web!Next]_webVars
    BY DEF ServersNext
  <2> QED
    BY <2>1, WebStep
<1> QED
  BY <1>1, <1>2, PTL DEF ServersSpec

(* What a peer of the websocket server reads back are its own messages in  *)
(* order, each once, however reads and completions of writes meet.         *)
THEOREM EchoInOrder == ServersSpec => []EchoedInOrder
<1>1. WebInv => EchoedInOrder
  BY DEF WebInv, ConnEchoed, EchoedInOrder, Web!EchoedInOrder
<1> QED
  BY <1>1, WebInvariance, PTL
-----------------------------------------------------------------------------
(* The send path of coroutineServer.                                       *)
CoTypeOK ==
    /\ io \in {"free", "write", "locked"}
    /\ worker \in {"idle", "write"}
    /\ nread \in Nat /\ pushed \in Nat /\ dropped \in Nat
    /\ msg_que \in Seq(Nat)
    /\ send_que \in Seq(Out!Node)
    /\ ops \in SUBSET Out!Op

(* One caller at a time is between its unlock and its async_write, and     *)
(* never while a write is in flight; the queue holds what it writes.  The  *)
(* message that is being answered is still in the logic queue.             *)
OneStart ==
    /\ worker = "write" => /\ ops = {} /\ io # "write"
                           /\ msg_que # <<>> /\ send_que # <<>>
    /\ io = "write" => ops = {} /\ send_que # <<>>
    /\ \A op \in ops : ops = {op} /\ send_que # <<>>

(* An answer is pushed or dropped once for each request that was read.  A  *)
(* request is counted where it is: in the coroutine, or in the queue,      *)
(* where it stays until its answer has been written.                       *)
Answers == pushed + dropped + Len(msg_que)

RequestsCounted ==
    /\ nread <= MaxReqs
    /\ co = "body" => nread < MaxReqs
    /\ worker = "idle" /\ co # "post" => Answers <= nread
    /\ worker = "idle" /\ co = "post" => Answers + 1 <= nread
    /\ worker = "write" /\ co # "post" => Answers <= nread + 1
    /\ worker = "write" /\ co = "post" => Answers <= nread

CoInv == CoTypeOK /\ OneStart /\ RequestsCounted

(* The invariant holds before a connection is there, and for the others. *)
LEMMA CoInitInv == Stopped \/ Init => CoInv /\ Out!SendInit
<1> SUFFICES ASSUME Stopped \/ Init PROVE CoInv /\ Out!SendInit
  OBVIOUS
<1>1. /\ co = "none" /\ io = "free" /\ worker = "idle"
      /\ nread = 0 /\ pushed = 0 /\ dropped = 0
      /\ msg_que = <<>> /\ send_que = <<>> /\ ops = {}
      /\ wire = <<>> /\ cleared = FALSE
  BY DEF Stopped, Init
<1>2. <<>> \in Seq(Nat) /\ <<>> \in Seq(Out!Node) /\ Len(<<>>) = 0
  OBVIOUS
<1>3. CoTypeOK /\ OneStart
  BY <1>1, <1>2 DEF CoTypeOK, OneStart
<1>4. RequestsCounted
  BY <1>1, <1>2, CoroutineAssumption DEF RequestsCounted, Answers, CoroutineAssumption
<1>5. Out!SendInit
  BY <1>1 DEF Out!SendInit, Starting
<1> QED
  BY <1>3, <1>4, <1>5 DEF CoInv

(* Steps that leave the queue, its writes and the two callers alone.       *)
LEMMA SendStutter ==
    ASSUME UNCHANGED sendVars, worker' = worker, (io' = "write") <=> (io = "write")
    PROVE  UNCHANGED Out!sendVars
<1>1. Starting' = Starting
  BY DEF Starting, sendVars, AsyncWrite
<1> QED
  BY <1>1 DEF Out!sendVars, sendVars

(* Every step keeps CoInv and is a step of SendQueue, or none.             *)
LEMMA CoTypeStep ==
    ASSUME CoInv, Next PROVE CoTypeOK'
<1>0. CoTypeOK /\ OneStart
  BY DEF CoInv
<1>1. CASE AcceptStart \/ AcceptInsert \/ AcceptError \/ Signal \/ Join \/ ReadHead
  BY <1>0, <1>1 DEF AcceptStart, AcceptInsert, AcceptError, Signal, Join, ReadHead,
        CoTypeOK, logicVars, sendVars
<1>2. CASE ReadBody
  BY <1>0, <1>2 DEF ReadBody, CoTypeOK, logicVars, sendVars
<1>3. CASE Post
  <2>1. msg_que' = Append(msg_que, nread) /\ nread' = nread
    BY <1>3 DEF Post
  <2>2. msg_que' \in Seq(Nat)
    BY <1>0, <2>1 DEF CoTypeOK
  <2> QED
    BY <1>0, <1>3, <2>1, <2>2 DEF Post, CoTypeOK, sendVars
<1>4. CASE ReadEnds
  BY <1>0, <1>4 DEF ReadEnds, CoTypeOK, logicVars, sendVars
<1>5. CASE Deal
  <2>1. /\ msg_que \in Seq(Nat) /\ msg_que # <<>> /\ send_que \in Seq(Out!Node)
        /\ pushed + 1 \in Out!Node
    BY <1>0, <1>5 DEF Deal, CoTypeOK, Out!Node
  <2>2. /\ Tail(msg_que) \in Seq(Nat)
        /\ Append(send_que, pushed + 1) \in Seq(Out!Node)
    BY <2>1
  <2>3. /\ msg_que' \in {msg_que, Tail(msg_que)}
        /\ send_que' \in {send_que, Append(send_que, pushed + 1)}
        /\ pushed' \in {pushed, pushed + 1} /\ dropped' \in {dropped, dropped + 1}
        /\ ops' = ops /\ io' = io /\ nread' = nread
    BY <1>5 DEF Deal
  <2>4. worker' \in {"idle", "write"}
    BY <1>0, <1>5 DEF Deal, CoTypeOK
  <2>5. msg_que' \in Seq(Nat) /\ send_que' \in Seq(Out!Node)
    BY <2>1, <2>2, <2>3
  <2>6. pushed' \in Nat /\ dropped' \in Nat
    BY <1>0, <2>3 DEF CoTypeOK
  <2> QED
    BY <1>0, <2>3, <2>4, <2>5, <2>6 DEF CoTypeOK
<1>6. CASE DealUnknown
  <2>1. msg_que \in Seq(Nat) /\ msg_que # <<>>
    BY <1>0, <1>6 DEF DealUnknown, CoTypeOK
  <2>2. Tail(msg_que) \in Seq(Nat)
    BY <2>1
  <2> QED
    BY <1>0, <1>6, <2>2 DEF DealUnknown, CoTypeOK, sendVars
<1>7. CASE SendWrite
  <2>1. msg_que \in Seq(Nat) /\ msg_que # <<>> /\ send_que \in Seq(Out!Node) /\ send_que # <<>>
    BY <1>0, <1>7 DEF SendWrite, CoTypeOK, OneStart
  <2>2. Tail(msg_que) \in Seq(Nat) /\ Head(send_que) \in Out!Node
    BY <2>1
  <2>3. AsyncWrite(Head(send_que)) \in Out!Op
    BY <2>2, CoroutineAssumption DEF AsyncWrite, Out!Op, CoroutineAssumption
  <2> QED
    BY <1>0, <1>7, <2>2, <2>3 DEF SendWrite, CoTypeOK
<1>8. CASE WriteSome
  <2>1. PICK op \in ops :
           /\ op.left > 0
           /\ \/ ops' = (ops \ {op})
                          \cup {[node |-> op.node, left |-> op.left - 1, ec |-> FALSE]}
              \/ ops' = (ops \ {op})
                          \cup {[node |-> op.node, left |-> op.left, ec |-> TRUE]}
    BY <1>8 DEF WriteSome
  <2>2. op \in Out!Op
    BY <1>0, <2>1 DEF CoTypeOK
  <2>3. /\ [node |-> op.node, left |-> op.left - 1, ec |-> FALSE] \in Out!Op
        /\ [node |-> op.node, left |-> op.left, ec |-> TRUE] \in Out!Op
    BY <2>1, <2>2, CoroutineAssumption DEF Out!Op, CoroutineAssumption
  <2>4. ops' \in SUBSET Out!Op
    BY <1>0, <2>1, <2>3 DEF CoTypeOK
  <2> QED
    BY <1>0, <1>8, <2>4 DEF WriteSome, CoTypeOK, logicVars
<1>9. CASE HandleWriteOk
  <2>1. PICK op \in ops : ops' = ops \ {op}
    BY <1>9 DEF HandleWriteOk
  <2>2. send_que \in Seq(Out!Node) /\ send_que # <<>>
    BY <1>0, <2>1 DEF CoTypeOK, OneStart
  <2>3. Tail(send_que) \in Seq(Out!Node)
    BY <2>2
  <2> QED
    BY <1>0, <1>9, <2>1, <2>3 DEF HandleWriteOk, CoTypeOK, logicVars
<1>10. CASE HandleWriteNext
  <2>1. send_que \in Seq(Out!Node) /\ send_que # <<>>
    BY <1>0, <1>10 DEF HandleWriteNext, CoTypeOK, OneStart
  <2>2. Head(send_que) \in Out!Node
    BY <2>1
  <2>3. AsyncWrite(Head(send_que)) \in Out!Op
    BY <2>2, CoroutineAssumption DEF AsyncWrite, Out!Op, CoroutineAssumption
  <2> QED
    BY <1>0, <1>10, <2>3 DEF HandleWriteNext, CoTypeOK, logicVars
<1>11. CASE HandleWriteError
  BY <1>0, <1>11 DEF HandleWriteError, CoTypeOK, logicVars
<1> QED
  BY <1>1, <1>2, <1>3, <1>4, <1>5, <1>6, <1>7, <1>8, <1>9, <1>10, <1>11
     DEF Next, Coroutine, Logic, HandleWrite

(* Send starts a write only when none is in flight or starting. *)
LEMMA OneStartStep ==
    ASSUME CoInv, Next PROVE OneStart'
<1>0. CoTypeOK /\ OneStart
  BY DEF CoInv
<1>1. CASE AcceptStart \/ AcceptInsert \/ AcceptError \/ Signal \/ Join \/ ReadHead \/ ReadBody
  BY <1>0, <1>1 DEF AcceptStart, AcceptInsert, AcceptError, Signal, Join, ReadHead, ReadBody,
        OneStart, logicVars, sendVars
<1>3. CASE Post
  <2>1. /\ msg_que' = Append(msg_que, nread) /\ worker' = worker /\ worker = "idle"
        /\ io' = io /\ ops' = ops /\ send_que' = send_que
    BY <1>3 DEF Post, sendVars
  <2> QED
    BY <1>0, <2>1 DEF OneStart
<1>4. CASE ReadEnds
  <2>1. /\ msg_que' = msg_que /\ worker' = worker /\ ops' = ops /\ send_que' = send_que
        /\ io = "free" /\ io' # "write"
    BY <1>4 DEF ReadEnds, PoolRuns, logicVars, sendVars
  <2> QED
    BY <1>0, <2>1 DEF OneStart
<1>5. CASE Deal
  <2>1. /\ ops' = ops /\ io' = io /\ msg_que # <<>>
        /\ \/ worker' = "idle" /\ send_que' = send_que
           \/ /\ send_que' = Append(send_que, pushed + 1)
              /\ worker' = "write" => send_que = <<>> /\ msg_que' = msg_que
    BY <1>5 DEF Deal, QueueEmpty
  <2>2. Append(send_que, pushed + 1) # <<>>
    BY <1>0 DEF CoTypeOK
  <2> QED
    BY <1>0, <2>1, <2>2 DEF OneStart
<1>6. CASE DealUnknown
  BY <1>0, <1>6 DEF DealUnknown, OneStart, sendVars
<1>7. CASE SendWrite
  BY <1>0, <1>7 DEF SendWrite, OneStart
<1>8. CASE WriteSome
  <2>1. PICK op \in ops :
           \/ ops' = (ops \ {op})
                       \cup {[node |-> op.node, left |-> op.left - 1, ec |-> FALSE]}
           \/ ops' = (ops \ {op})
                       \cup {[node |-> op.node, left |-> op.left, ec |-> TRUE]}
    BY <1>8 DEF WriteSome
  <2>2. ops = {op} /\ send_que # <<>> /\ worker # "write" /\ io # "write"
    BY <1>0, <2>1 DEF OneStart
  <2>3. \E x : ops' = {x}
    BY <2>1, <2>2
  <2>4. worker' = worker /\ io' = io /\ send_que' = send_que
    BY <1>8 DEF WriteSome, logicVars
  <2> QED
    BY <2>2, <2>3, <2>4 DEF OneStart
<1>9. CASE HandleWriteOk
  <2>1. PICK op \in ops : ops' = ops \ {op}
    BY <1>9 DEF HandleWriteOk
  <2>2. ops' = {} /\ worker # "write"
    BY <1>0, <2>1 DEF OneStart
  <2>3. worker' = worker /\ (io' = "write" => send_que' # <<>>)
    BY <1>9 DEF HandleWriteOk, logicVars
  <2> QED
    BY <2>2, <2>3 DEF OneStart
<1>10. CASE HandleWriteNext
  BY <1>0, <1>10 DEF HandleWriteNext, OneStart, logicVars
<1>11. CASE HandleWriteError
  <2>1. PICK op \in ops : ops' = ops \ {op}
    BY <1>11 DEF HandleWriteError
  <2>2. ops' = {} /\ worker # "write" /\ io # "write"
    BY <1>0, <1>11, <2>1 DEF OneStart, HandleWriteError, PoolRuns
  <2> QED
    BY <1>11, <2>2 DEF HandleWriteError, OneStart, logicVars
<1> QED
  BY <1>1, <1>3, <1>4, <1>5, <1>6, <1>7, <1>8, <1>9, <1>10, <1>11
     DEF Next, Coroutine, Logic, HandleWrite

(* Requests are dealt with one by one, as they were read. *)
LEMMA CountStep ==
    ASSUME CoInv, Next PROVE RequestsCounted'
<1>0. CoTypeOK /\ OneStart /\ RequestsCounted
  BY DEF CoInv
<1>t. /\ nread \in Nat /\ pushed \in Nat /\ dropped \in Nat /\ Len(msg_que) \in Nat
      /\ msg_que \in Seq(Nat) /\ worker \in {"idle", "write"} /\ MaxReqs \in Nat
  BY <1>0, CoroutineAssumption DEF CoTypeOK, CoroutineAssumption
<1>1. CASE /\ UNCHANGED <<nread, pushed, dropped, msg_que, worker>>
           /\ co' = co \/ co' \notin {"post", "body"}
  BY <1>0, <1>t, <1>1 DEF RequestsCounted, Answers
<1>2. CASE ReadHead
  <2>1. /\ co = "head" /\ co' = "body" /\ nread < MaxReqs
        /\ UNCHANGED <<nread, pushed, dropped, msg_que, worker>>
    BY <1>2 DEF ReadHead, logicVars, sendVars
  <2> QED
    BY <1>0, <1>t, <2>1 DEF RequestsCounted, Answers
<1>3. CASE ReadBody
  <2>1. /\ co = "body" /\ co' = "post" /\ nread' = nread + 1
        /\ UNCHANGED <<pushed, dropped, msg_que, worker>>
    BY <1>3 DEF ReadBody, logicVars, sendVars
  <2> QED
    BY <1>0, <1>t, <2>1 DEF RequestsCounted, Answers
<1>4. CASE Post
  <2>1. /\ co = "post" /\ co' = "head" /\ worker = "idle"
        /\ msg_que' = Append(msg_que, nread)
        /\ UNCHANGED <<nread, pushed, dropped, worker>>
    BY <1>4 DEF Post, sendVars
  <2>2. Len(Append(msg_que, nread)) = Len(msg_que) + 1
    BY <1>t
  <2> QED
    BY <1>0, <1>t, <2>1, <2>2 DEF RequestsCounted, Answers
<1>5. CASE Deal \/ DealUnknown
  <2>1. /\ worker = "idle" /\ msg_que # <<>> /\ co' = co /\ nread' = nread
        /\ \/ /\ worker' = "idle" /\ msg_que' = Tail(msg_que)
              /\ \/ pushed' = pushed + 1 /\ dropped' = dropped
                 \/ pushed' = pushed /\ dropped' = dropped + 1
                 \/ pushed' = pushed /\ dropped' = dropped
           \/ /\ worker' = "write" /\ msg_que' = msg_que
              /\ pushed' = pushed + 1 /\ dropped' = dropped
    <3>1. CASE Deal
      BY <3>1 DEF Deal
    <3>2. CASE DealUnknown
      BY <3>2 DEF DealUnknown, sendVars
    <3> QED
      BY <1>5, <3>1, <3>2
  <2>2. Len(Tail(msg_que)) = Len(msg_que) - 1
    BY <1>t, <2>1
  <2> QED
    <3>1. Answers \in Nat
      BY <1>t DEF Answers
    <3>2. CASE worker' = "idle" /\ msg_que' = Tail(msg_que)
      <4>0. Len(msg_que') = Len(msg_que) - 1
        BY <2>2, <3>2
      <4>1. Answers' = Answers \/ Answers' = Answers - 1
        <5>1. CASE pushed' = pushed + 1 /\ dropped' = dropped
          BY <1>t, <4>0, <5>1 DEF Answers
        <5>2. CASE pushed' = pushed /\ dropped' = dropped + 1
          BY <1>t, <4>0, <5>2 DEF Answers
        <5>3. CASE pushed' = pushed /\ dropped' = dropped
          BY <1>t, <4>0, <5>3 DEF Answers
        <5> QED
          BY <2>1, <3>2, <5>1, <5>2, <5>3
      <4> HIDE DEF Answers
      <4>2. /\ nread' = nread /\ co' = co /\ worker = "idle"
            /\ nread <= MaxReqs /\ (co = "body" => nread < MaxReqs)
            /\ co # "post" => Answers <= nread
            /\ co = "post" => Answers + 1 <= nread
        <5>1. nread' = nread /\ co' = co /\ worker = "idle"
          BY <2>1
        <5>2. RequestsCounted
          BY <1>0
        <5> QED
          BY <5>1, <5>2 DEF RequestsCounted
      <4>3. /\ co # "post" => Answers' <= nread
            /\ co = "post" => Answers' + 1 <= nread
        BY <1>t, <3>1, <4>1, <4>2
      <4> QED
        BY <3>2, <4>2, <4>3 DEF RequestsCounted
    <3>3. CASE /\ worker' = "write" /\ msg_que' = msg_que
               /\ pushed' = pushed + 1 /\ dropped' = dropped
      <4>1. Answers' = Answers + 1
        BY <1>t, <3>3 DEF Answers
      <4> HIDE DEF Answers
      <4> QED
        BY <1>0, <1>t, <2>1, <3>1, <3>3, <4>1 DEF RequestsCounted
    <3> QED
      BY <2>1, <3>2, <3>3
<1>6. CASE SendWrite
  <2>1. /\ worker = "write" /\ worker' = "idle" /\ msg_que' = Tail(msg_que)
        /\ UNCHANGED <<co, nread, pushed, dropped>>
    BY <1>6 DEF SendWrite
  <2>2. Len(msg_que') = Len(msg_que) - 1
    BY <1>0, <1>t, <2>1 DEF OneStart
  <2>3. Answers' = Answers - 1 /\ Answers \in Nat
    <3>1. pushed' = pushed /\ dropped' = dropped
      BY <2>1
    <3> QED
      BY <1>t, <2>2, <3>1 DEF Answers
  <2> HIDE DEF Answers
  <2> QED
    BY <1>0, <1>t, <2>1, <2>3 DEF RequestsCounted
<1>7. CASE AcceptStart \/ AcceptInsert \/ AcceptError \/ Signal \/ Join \/ ReadEnds
  <2>1. UNCHANGED <<nread, pushed, dropped, msg_que, worker>>
    BY <1>7 DEF AcceptStart, AcceptInsert, AcceptError, Signal, Join, ReadEnds,
          logicVars, sendVars
  <2>2. co' = co \/ co' \in {"head", "ended", "clear"}
    BY <1>7 DEF AcceptStart, AcceptInsert, AcceptError, Signal, Join, ReadEnds
  <2> QED
    BY <1>1, <2>1, <2>2
<1>8. CASE WriteSome \/ HandleWrite
  BY <1>1, <1>8 DEF WriteSome, HandleWrite, HandleWriteOk, HandleWriteNext, HandleWriteError,
        logicVars
<1> QED
  BY <1>2, <1>3, <1>4, <1>5, <1>6, <1>7, <1>8 DEF Next, Coroutine, Logic

(* Every step is a step of SendQueue on the writes in flight and the one   *)
(* about to start, or leaves them alone.                                   *)
LEMMA SendStep ==
    ASSUME CoInv, Next PROVE [Out!SendNext]_Out!sendVars
<1>0. CoTypeOK /\ OneStart /\ RequestsCounted
  BY DEF CoInv
<1>t. /\ nread \in Nat /\ pushed \in Nat /\ dropped \in Nat /\ Len(msg_que) \in Nat
      /\ msg_que \in Seq(Nat) /\ send_que \in Seq(Out!Node) /\ MaxReqs \in Nat
  BY <1>0, CoroutineAssumption DEF CoTypeOK, CoroutineAssumption
<1>1. CASE AcceptStart \/ AcceptInsert \/ AcceptError \/ Signal \/ Join
  BY <1>1, SendStutter
     DEF AcceptStart, AcceptInsert, AcceptError, Signal, Join, logicVars, sendVars
<1>2. CASE Coroutine
  BY <1>2, SendStutter
     DEF Coroutine, ReadHead, ReadBody, Post, ReadEnds, PoolRuns, logicVars, sendVars
<1>3. CASE DealUnknown
  BY <1>3, SendStutter DEF DealUnknown, sendVars
<1>4. CASE Deal
  <2>1. /\ worker = "idle" /\ msg_que # <<>> /\ io' = io
        /\ UNCHANGED <<ops, wire, cleared>>
    BY <1>4 DEF Deal
  <2>2. pushed < MaxReqs /\ dropped < MaxReqs
    <3>1. Len(msg_que) > 0
      BY <1>t, <2>1
    <3> QED
      BY <1>0, <1>t, <2>1, <3>1 DEF RequestsCounted, Answers
  <2>3. CASE /\ Len(send_que) > MAX_SENDQUE
             /\ dropped' = dropped + 1
             /\ UNCHANGED <<worker, send_que, pushed>>
    <3>1. Starting' = Starting
      BY <2>1, <2>3 DEF Starting, AsyncWrite
    <3>2. Out!SendFull
      BY <2>1, <2>2, <2>3, <3>1 DEF Out!SendFull
    <3> QED
      BY <3>2 DEF Out!SendNext, Out!Send
  <2>4. CASE /\ Len(send_que) <= MAX_SENDQUE
             /\ pushed' = pushed + 1
             /\ send_que' = Append(send_que, pushed + 1)
             /\ worker' = IF QueueEmpty THEN "write" ELSE "idle"
             /\ UNCHANGED dropped
    <3>1. CASE send_que = <<>>
      <4>1. ops = {} /\ io # "write"
        BY <1>0, <3>1 DEF OneStart
      <4>2. Starting = {} /\ Starting' = {AsyncWrite(Head(send_que'))}
        BY <2>1, <2>4, <3>1, <4>1 DEF Starting, QueueEmpty, AsyncWrite
      <4>3. Out!StartIfIdle = {AsyncWrite(Head(send_que'))}
        BY <3>1 DEF Out!StartIfIdle, Out!AsyncWrite, AsyncWrite
      <4> QED
        BY <2>1, <2>2, <2>4, <4>2, <4>3 DEF Out!SendPush, Out!Send, Out!SendNext
    <3>2. CASE send_que # <<>>
      <4>1. Head(send_que') = Head(send_que)
        BY <1>t, <2>4, <3>2
      <4>2. Starting' = Starting
        BY <2>1, <2>4, <3>2, <4>1 DEF Starting, QueueEmpty, AsyncWrite
      <4>3. Out!StartIfIdle = {}
        BY <3>2 DEF Out!StartIfIdle
      <4> QED
        BY <2>1, <2>2, <2>4, <4>2, <4>3 DEF Out!SendPush, Out!Send, Out!SendNext
    <3> QED
      BY <3>1, <3>2
  <2> QED
    BY <1>4, <2>3, <2>4 DEF Deal
<1>5. CASE SendWrite \/ HandleWriteNext
  <2>1. /\ ops' = ops \cup {AsyncWrite(Head(send_que))}
        /\ Starting = {AsyncWrite(Head(send_que))}
        /\ UNCHANGED <<send_que, wire, pushed, dropped, cleared>>
    BY <1>5 DEF SendWrite, HandleWriteNext, Starting
  <2>2. worker' # "write" /\ io' # "write"
    BY <1>0, <1>5 DEF SendWrite, HandleWriteNext, OneStart, logicVars
  <2>3. Starting' = {}
    BY <2>2 DEF Starting
  <2> QED
    BY <2>1, <2>3 DEF Out!sendVars
<1>6. CASE WriteSome \/ HandleWriteOk \/ HandleWriteError
  <2>1. PICK op \in ops :
          \/ /\ op.left > 0 /\ ~op.ec
             /\ \/ /\ wire' = Append(wire, [node |-> op.node, unit |-> Parts - op.left + 1])
                   /\ ops' = (ops \ {op})
                        \cup {[node |-> op.node, left |-> op.left - 1, ec |-> FALSE]}
                \/ /\ ops' = (ops \ {op})
                        \cup {[node |-> op.node, left |-> op.left, ec |-> TRUE]}
                   /\ UNCHANGED wire
             /\ UNCHANGED <<io, worker, send_que, pushed, dropped, cleared>>
          \/ /\ op.left = 0 /\ ops' = ops \ {op}
             /\ send_que' = Tail(send_que)
             /\ io' = IF send_que' # <<>> THEN "write" ELSE "free"
             /\ UNCHANGED <<worker, wire, pushed, dropped, cleared>>
          \/ /\ op.ec /\ ops' = ops \ {op}
             /\ cleared' = TRUE
             /\ UNCHANGED <<io, worker, send_que, wire, pushed, dropped>>
    BY <1>6 DEF WriteSome, HandleWriteOk, HandleWriteError, logicVars
  <2>2. ops = {op} /\ worker # "write" /\ io # "write"
    BY <1>0, <2>1 DEF OneStart
  <2>3. Starting = {} /\ op \in ops \cup Starting
    BY <2>2 DEF Starting
  <2>4. CASE /\ op.left > 0 /\ ~op.ec
             /\ \/ /\ wire' = Append(wire, [node |-> op.node, unit |-> Parts - op.left + 1])
                   /\ ops' = (ops \ {op})
                        \cup {[node |-> op.node, left |-> op.left - 1, ec |-> FALSE]}
                \/ /\ ops' = (ops \ {op})
                        \cup {[node |-> op.node, left |-> op.left, ec |-> TRUE]}
                   /\ UNCHANGED wire
             /\ UNCHANGED <<io, worker, send_que, pushed, dropped, cleared>>
    <3>1. Starting' = {}
      BY <2>2, <2>4 DEF Starting
    <3>2. Out!WriteSome(op) \/ Out!WriteError(op)
      BY <2>3, <2>4, <3>1 DEF Out!WriteSome, Out!WriteError
    <3> QED
      BY <2>3, <3>2 DEF Out!SendNext
  <2>5. CASE /\ op.left = 0 /\ ops' = ops \ {op}
             /\ send_que' = Tail(send_que)
             /\ io' = IF send_que' # <<>> THEN "write" ELSE "free"
             /\ UNCHANGED <<worker, wire, pushed, dropped, cleared>>
    <3>1. Starting' = Out!ContinueIfMore
      BY <2>2, <2>5 DEF Starting, Out!ContinueIfMore, Out!AsyncWrite, AsyncWrite
    <3>2. Out!HandleWriteOk(op)
      BY <2>3, <2>5, <3>1 DEF Out!HandleWriteOk
    <3> QED
      BY <2>3, <3>2 DEF Out!SendNext, Out!HandleWrite
  <2>6. CASE /\ op.ec /\ ops' = ops \ {op}
             /\ cleared' = TRUE
             /\ UNCHANGED <<io, worker, send_que, wire, pushed, dropped>>
    <3>1. Starting' = {}
      BY <2>2, <2>6 DEF Starting
    <3>2. Out!HandleWriteError(op)
      BY <2>3, <2>6, <3>1 DEF Out!HandleWriteError
    <3> QED
      BY <2>3, <3>2 DEF Out!SendNext, Out!HandleWrite
  <2> QED
    BY <2>1, <2>4, <2>5, <2>6
<1> QED
  BY <1>1, <1>2, <1>3, <1>4, <1>5, <1>6 DEF Next, Logic, HandleWrite

(* Steps that change nothing keep the invariant. *)
LEMMA CoUnchanged ==
    ASSUME CoInv, UNCHANGED vars PROVE CoInv' /\ UNCHANGED Out!sendVars
<1>1. UNCHANGED Out!sendVars
  BY SendStutter DEF vars, logicVars, sendVars
<1>2. CoTypeOK'
  BY DEF CoInv, CoTypeOK, vars, logicVars, sendVars
<1>3. OneStart'
  BY DEF CoInv, OneStart, vars, logicVars, sendVars
<1>4. RequestsCounted'
  BY DEF CoInv, RequestsCounted, Answers, vars, logicVars, sendVars
<1> QED
  BY <1>1, <1>2, <1>3, <1>4 DEF CoInv

(* The invariant is inductive, and every step is one of the send path or none. *)
LEMMA CoStep == CoInv /\ [Next]_vars => CoInv' /\ [Out!SendNext]_Out!sendVars
  BY CoTypeStep, OneStartStep, CountStep, SendStep, CoUnchanged DEF CoInv

(* The coroutine server keeps its invariant: a caller that has let         *)
(* _send_lock go before its async_write is the only one to write.          *)
THEOREM CoInvariance == ServersSpec => []CoInv
<1>1. ServersInit => CoInv
  BY CoInitInv DEF ServersInit
<1>2. CoInv /\ [ServersNext]_<<vars, webVars, httpVars>> => CoInv'
  <2>1. [ServersNext]_<<vars, webVars, httpVars>> => [Next]_vars
    BY DEF ServersNext
  <2> QED
    BY <2>1, CoStep
<1> QED
  BY <1>1, <1>2, PTL DEF ServersSpec

(* Send and HandleWrite of coroutineServer, which start their writes after *)
(* letting _send_lock go, implement SendQueue: no second write is started  *)
(* meanwhile, the queue keeps its limit and nodes are written in order.    *)
THEOREM SendRefinement == ServersSpec => SendImpl
<1>1. ServersInit => Out!SendInit
  BY CoInitInv DEF ServersInit
<1>2. CoInv /\ [ServersNext]_<<vars, webVars, httpVars>> => [Out!SendNext]_Out!sendVars
  <2>1. [ServersNext]_<<vars, webVars, httpVars>> => [Next]_vars
    BY DEF ServersNext
  <2> QED
    BY <2>1, CoStep
<1> QED
  BY <1>1, <1>2, CoInvariance, PTL DEF ServersSpec, SendImpl, Out!SendSpec
=============================================================================
