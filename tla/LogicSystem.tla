----------------------------- MODULE LogicSystem -----------------------------
(***************************************************************************)
(* The logic layer (Network/asyncServer/src/LogicSystem.cpp): io threads   *)
(* post messages, one worker thread runs DealMsg, and the destructor stops *)
(* the worker when main returns.                                           *)
(*                                                                         *)
(* _mutex is held by the worker between its steps "test", "park", "go",    *)
(* "deal" and "drain"; the critical section of PostMsgToQue is one action, *)
(* enabled while the worker does not hold the mutex.  _b_stop is read and  *)
(* written without regard to the mutex.  Waiting on _consume releases the  *)
(* mutex and blocks in one step (Park), but evaluating the predicate comes *)
(* before it (Test).                                                       *)
(***************************************************************************)
EXTENDS Naturals, Sequences

CONSTANTS IoThreads,   \* the threads of AsioIOServicePool
          Message,     \* the LogicNodes that may be posted
          Registered,  \* those whose _msg_id is a key of _fun_callback
          MaxPosts     \* bound: messages posted in a run

ASSUME LogicAssumption == /\ Registered \subseteq Message
                          /\ MaxPosts \in Nat

VARIABLES msg_que,     \* _msg_que
          b_stop,      \* _b_stop
          worker,      \* where the worker is in DealMsg
          poster,      \* "notify": the thread is between unlock and notify_one
          owner,       \* where main is on its way through ~LogicSystem
          posted,      \* history: every message pushed
          dealt        \* history: every message popped, was its callback run?

vars == <<msg_que, b_stop, worker, poster, owner, posted, dealt>>

Holding == {"test", "park", "go", "deal", "drain"}

Init == /\ msg_que = <<>>
        /\ b_stop = FALSE
        /\ worker = "lock"
        /\ poster = [t \in IoThreads |-> "idle"]
        /\ owner = "running"
        /\ posted = <<>>
        /\ dealt = <<>>

-----------------------------------------------------------------------------
(* _consume.notify_one(): the worker is the only thread that waits. *)
NotifyOne == worker' = IF worker = "wait" THEN "woken" ELSE worker

(* Faulty: notify only when messages pile up. *)
NotifyWhenMany == Len(msg_que') > 1

(* PostMsgToQue notifies only for the first message of the queue. *)
NeedsNotify == Len(msg_que') = 1

(* PostMsgToQue, under the lock. *)
PostMsgToQue(t, m) ==
    /\ owner = "running"
    /\ poster[t] = "idle"
    /\ worker \notin Holding
    /\ Len(posted) < MaxPosts
    /\ posted' = Append(posted, m)
    /\ msg_que' = Append(msg_que, m)
    /\ poster' = [poster EXCEPT ![t] = IF NeedsNotify THEN "notify" ELSE "idle"]
    /\ UNCHANGED <<b_stop, worker, owner, dealt>>

(* PostMsgToQue, after lock.unlock(). *)
PostNotify(t) ==
    /\ poster[t] = "notify"
    /\ poster' = [poster EXCEPT ![t] = "idle"]
    /\ NotifyOne
    /\ UNCHANGED <<msg_que, b_stop, owner, posted, dealt>>

-----------------------------------------------------------------------------
Move(from, to) ==
    /\ worker = from
    /\ worker' = to
    /\ UNCHANGED <<msg_que, b_stop, poster, owner, posted, dealt>>

(* The unique_lock at the top of the loop, and the lock that wait() takes  *)
(* again after a notification.                                             *)
Acquire == Move("lock", "test") \/ Move("woken", "test")

(* The predicate of wait(). *)
Test == Move("test", IF msg_que = <<>> /\ ~b_stop THEN "park" ELSE "go")

(* wait() releases the mutex and blocks; it may return spuriously. *)
Park == Move("park", "wait")
Spurious == Move("wait", "woken")

(* The test of _b_stop after wait(). *)
Branch == Move("go", IF b_stop THEN "drain" ELSE "deal")

(* Faulty: continue on an unregistered id without popping the message. *)
KeepUnknown ==
    /\ dealt' = Append(dealt, [msg |-> Head(msg_que), called |-> Head(msg_que) \in Registered])
    /\ msg_que' = IF Head(msg_que) \in Registered THEN Tail(msg_que) ELSE msg_que

(* Faulty: an unregistered id reaches the callback of the end iterator. *)
CallUnknown ==
    /\ dealt' = Append(dealt, [msg |-> Head(msg_que), called |-> TRUE])
    /\ msg_que' = Tail(msg_que)

(* Look the front's callback up, run it if there is one, pop the front. *)
DealFront ==
    /\ dealt' = Append(dealt, [msg |-> Head(msg_que), called |-> Head(msg_que) \in Registered])
    /\ msg_que' = Tail(msg_que)

(* Not stopped: one message, then the end of the iteration unlocks. *)
Deal ==
    /\ worker = "deal"
    /\ DealFront
    /\ worker' = "lock"
    /\ UNCHANGED <<b_stop, poster, owner, posted>>

(* Faulty: leave at once. *)
ExitUndrained ==
    /\ worker = "drain"
    /\ worker' = "exit"
    /\ UNCHANGED <<msg_que, b_stop, poster, owner, posted, dealt>>

(* Stopped: deal with every queued message, then leave the loop. *)
Drain ==
    \/ /\ worker = "drain" /\ msg_que # <<>>
       /\ DealFront
       /\ UNCHANGED <<b_stop, worker, poster, owner, posted>>
    \/ /\ msg_que = <<>>
       /\ Move("drain", "exit")

DealMsg == Acquire \/ Test \/ Park \/ Branch \/ Deal \/ Drain
-----------------------------------------------------------------------------
(* main has called AsioIOServicePool::Stop, which joins the io threads. *)
JoinIoThreads ==
    /\ owner = "running"
    /\ \A t \in IoThreads : poster[t] = "idle"
    /\ owner' = "joined"
    /\ UNCHANGED <<msg_que, b_stop, worker, poster, posted, dealt>>

(* ~LogicSystem: set _b_stop, without the mutex. *)
SetStop ==
    /\ owner = "joined"
    /\ b_stop' = TRUE
    /\ owner' = "notify"
    /\ UNCHANGED <<msg_que, worker, poster, posted, dealt>>

(* Faulty: join without waking the worker. *)
StopSilently ==
    /\ owner = "notify"
    /\ owner' = "join"
    /\ UNCHANGED <<msg_que, b_stop, worker, poster, posted, dealt>>

(* ~LogicSystem: notify_one. *)
StopNotify ==
    /\ owner = "notify"
    /\ NotifyOne
    /\ owner' = "join"
    /\ UNCHANGED <<msg_que, b_stop, poster, posted, dealt>>

(* ~LogicSystem: join. *)
StopJoin ==
    /\ owner = "join"
    /\ worker = "exit"
    /\ owner' = "done"
    /\ UNCHANGED <<msg_que, b_stop, worker, poster, posted, dealt>>

Next == \/ \E t \in IoThreads : PostNotify(t) \/ \E m \in Message : PostMsgToQue(t, m)
        \/ DealMsg \/ Spurious
        \/ JoinIoThreads \/ SetStop \/ StopNotify \/ StopJoin

Spec == Init /\ [][Next]_vars

(* Threads that can take a step do; nothing obliges io threads to post,    *)
(* main to stop or a wait to return spuriously.                            *)
LogicFairness == /\ WF_vars(DealMsg)
                 /\ \A t \in IoThreads : WF_vars(PostNotify(t))
                 /\ WF_vars(SetStop \/ StopNotify \/ StopJoin)

FairSpec == Spec /\ LogicFairness
-----------------------------------------------------------------------------
(* The values of the variables; no message is dealt with that was not      *)
(* posted.                                                                 *)
TypeOK ==
    /\ msg_que \in Seq(Message)
    /\ b_stop \in BOOLEAN
    /\ worker \in Holding \cup {"lock", "wait", "woken", "exit"}
    /\ poster \in [IoThreads -> {"idle", "notify"}]
    /\ owner \in {"running", "joined", "notify", "join", "done"}
    /\ posted \in Seq(Message)
    /\ dealt \in Seq([msg : Message, called : BOOLEAN])
    /\ Len(dealt) <= Len(posted)

(* Notifying only at size 1 loses no wakeup: a worker asleep over a        *)
(* non-empty queue has a notify_one on its way.                            *)
NoLostWakeup ==
    worker = "wait" /\ msg_que # <<>> => \E t \in IoThreads : poster[t] = "notify"

(* DealMsg deals with the messages in the order in which the io threads    *)
(* posted them, each exactly once, and runs a callback for those whose id  *)
(* is registered and for no other.                                         *)
DealtInOrder ==
    /\ Len(posted) = Len(dealt) + Len(msg_que)
    /\ \A i \in 1 .. Len(dealt) : /\ dealt[i].msg = posted[i]
                                  /\ dealt[i].called = (posted[i] \in Registered)
    /\ \A i \in 1 .. Len(msg_que) : msg_que[i] = posted[Len(dealt) + i]

(* The worker leaves its loop only when every message ever posted has been *)
(* dealt with, and nobody can post any more.                               *)
DrainedAtExit == worker = "exit" => Len(dealt) = Len(posted) /\ owner # "running"

(* Every message posted is dealt with, even one posted while the worker    *)
(* falls asleep, wakes or is being stopped.  (Posts are bounded: that each *)
(* is in the end, is that in the end all are.)                             *)
EveryMsgDealt == <>[](Len(dealt) = Len(posted))

(* The destructor returns if _b_stop was set while the worker was not      *)
(* between the predicate and the sleep of wait().                          *)
CleanStop == (owner = "notify" /\ worker # "park") ~> (owner = "done")

(* The comment on line 38: once in the stopped state, the worker takes     *)
(* everything out of the queue and leaves the loop.                        *)
StopEndsDealMsg == b_stop ~> (worker = "exit")
=============================================================================
