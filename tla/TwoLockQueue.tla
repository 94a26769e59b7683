---------------------------- MODULE TwoLockQueue ----------------------------
(***************************************************************************)
(* threadsafe_queue of Concurrent/day22-ThreadPool (ThreadSafeQue.h): a    *)
(* list with one mutex for its head and one for its tail, the last node    *)
(* having no data.  The pools of the lesson are built on it (QueuePools).  *)
(*                                                                         *)
(* Operations: a value is pushed, Pop is try_pop, "wait" is wait_and_pop,  *)
(* "timed" is wait_and_pop_timeout, "steal" is try_steal, "exit" is Exit.  *)
(* push and Exit notify without head_mutex, so a notification can come     *)
(* between the predicate of a wait and its sleep; it is lost then.         *)
(***************************************************************************)
EXTENDS ContainerThreads

VARIABLES tail,
          head_mutex, tail_mutex,  \* the thread that holds it, or Nobody
          bstop

lockVars == <<tail, head_mutex, tail_mutex, bstop>>

Waits == {"wait", "timed"}
Pops == Waits \cup {Pop}

EmptyNode(p) == [data |-> NoData, next |-> Null, prev |-> p, alive |-> TRUE]

Init == /\ ThreadsInit
        /\ nodes = <<EmptyNode(Null)>> /\ head = 1 /\ tail = 1
        /\ old = [t \in Threads |-> Null]
        /\ head_mutex = Nobody /\ tail_mutex = Nobody
        /\ bstop = FALSE
-----------------------------------------------------------------------------
(* push: under tail_mutex the last node gets the data and a successor ... *)
PushFill(t) ==
    /\ Calls(t, Value) /\ tail_mutex = Nobody
    /\ tail_mutex' = t
    /\ LET n == Address
       IN  nodes' = [Place(n, EmptyNode(tail)) EXCEPT ![tail].data = Operation(t),
                                                      ![tail].next = n]
    /\ Goto(t, "move")
    /\ UNCHANGED <<head, todo, old, popped, empties, tail, head_mutex, bstop>>

(* ... which becomes the last node. *)
PushMove(t) ==
    /\ pc[t] = "move"
    /\ tail' = nodes[tail].next
    /\ tail_mutex' = Nobody
    /\ Goto(t, "notify")
    /\ UNCHANGED <<nodes, head, todo, old, popped, empties, head_mutex, bstop>>

Asleep == {t \in Threads : pc[t] = "asleep"}

(* notify_one, after the mutex has been released. *)
PushNotify(t) ==
    /\ pc[t] = "notify"
    /\ todo' = [todo EXCEPT ![t] = Tail(@)]
    /\ \/ \E w \in Asleep : pc' = [pc EXCEPT ![t] = "idle", ![w] = "relock"]
       \/ Asleep = {} /\ pc' = [pc EXCEPT ![t] = "idle"]
    /\ UNCHANGED <<nodes, head, old, popped, empties, lockVars>>

(* Exit: the flag, and then notify_all. *)
ExitSet(t) ==
    /\ Calls(t, {"exit"})
    /\ bstop' = TRUE
    /\ Goto(t, "wake_all")
    /\ UNCHANGED <<nodes, head, todo, old, popped, empties, tail, head_mutex, tail_mutex>>

ExitNotify(t) ==
    /\ pc[t] = "wake_all"
    /\ pc' = [u \in Threads |-> IF u = t THEN "idle"
                                ELSE IF u \in Asleep THEN "relock" ELSE pc[u]]
    /\ todo' = [todo EXCEPT ![t] = Tail(@)]
    /\ UNCHANGED <<nodes, head, old, popped, empties, lockVars>>
-----------------------------------------------------------------------------
(* The mutex at the beginning of a pop, and after a sleep. *)
PopLock(t) ==
    /\ Calls(t, Pops) \/ pc[t] \in {"relock", "timeout"}
    /\ head_mutex = Nobody
    /\ head_mutex' = t
    /\ Goto(t, IF pc[t] = "timeout" THEN "last_look" ELSE "look")
    /\ UNCHANGED <<nodes, head, todo, old, popped, empties, tail, tail_mutex, bstop>>

(* get_tail, under tail_mutex, and the comparison with head (in a wait     *)
(* with the flag as well).  An empty queue ends try_pop, and a timed wait  *)
(* whose time is over; another wait goes on to sleep.                      *)
PopLook(t) ==
    /\ pc[t] \in {"look", "last_look"} /\ tail_mutex = Nobody
    /\ old' = [old EXCEPT ![t] = tail]
    /\ IF head # tail \/ (Operation(t) \in Waits /\ bstop)
       THEN Goto(t, "take") /\ UNCHANGED <<todo, empties, head_mutex>>
       ELSE IF Operation(t) \in Waits /\ pc[t] = "look"
            THEN Goto(t, "sleep") /\ UNCHANGED <<todo, empties, head_mutex>>
            ELSE Return(t) /\ empties' = empties + 1 /\ head_mutex' = Nobody
    /\ UNCHANGED <<nodes, head, popped, tail, tail_mutex, bstop>>

(* pop_head: the first node leaves the list and is deleted.  After Exit a  *)
(* wait returns nothing, whatever the queue holds.                         *)
PopTake(t) ==
    /\ pc[t] = "take"
    /\ head_mutex' = Nobody
    /\ IF Operation(t) \in Waits /\ bstop
       THEN UNCHANGED <<nodes, head, popped>>
       ELSE /\ Result(t, head)
            /\ nodes' = [nodes EXCEPT ![head].alive = FALSE, ![head].data = NoData]
            /\ head' = nodes[head].next
    /\ Return(t)
    /\ UNCHANGED <<old, empties, tail, tail_mutex, bstop>>

(* The wait releases the mutex and sleeps. *)
PopSleep(t) ==
    /\ pc[t] = "sleep"
    /\ head_mutex' = Nobody
    /\ Goto(t, "asleep")
    /\ UNCHANGED <<nodes, head, todo, old, popped, empties, tail, tail_mutex, bstop>>

(* The time of a timed wait is over, or a wait wakes up for no reason. *)
PopWake(t) ==
    /\ pc[t] = "asleep"
    /\ \/ Goto(t, "relock")
       \/ Operation(t) = "timed" /\ Goto(t, "timeout")
    /\ UNCHANGED <<nodes, head, todo, old, popped, empties, lockVars>>

(* Faulty: the node before the last is taken without head_mutex. *)
StealTailOnly(t) ==
    /\ Calls(t, {"steal"}) /\ tail_mutex = Nobody
    /\ IF head = tail
       THEN empties' = empties + 1 /\ UNCHANGED <<nodes, popped, tail>>
       ELSE LET p == nodes[tail].prev
            IN  /\ Result(t, p)
                /\ nodes' = [nodes EXCEPT ![p].data = NoData, ![p].next = Null,
                                          ![tail].alive = FALSE]
                /\ tail' = p
                /\ UNCHANGED empties
    /\ Return(t)
    /\ UNCHANGED <<head, old, head_mutex, tail_mutex, bstop>>

(* try_steal has both mutexes: the value of the node before the last, which*)
(* becomes the last one.                                                   *)
Steal(t) ==
    /\ Calls(t, {"steal"}) /\ tail_mutex = Nobody /\ head_mutex = Nobody
    /\ IF head = tail
       THEN empties' = empties + 1 /\ UNCHANGED <<nodes, popped, tail>>
       ELSE LET p == nodes[tail].prev
            IN  /\ Result(t, p)
                /\ nodes' = [nodes EXCEPT ![p].data = NoData, ![p].next = Null,
                                          ![tail].alive = FALSE]
                /\ tail' = p
                /\ UNCHANGED empties
    /\ Return(t)
    /\ UNCHANGED <<head, old, head_mutex, tail_mutex, bstop>>

Step(t) == \/ PushFill(t) \/ PushMove(t) \/ PushNotify(t) \/ ExitSet(t) \/ ExitNotify(t)
           \/ PopLock(t) \/ PopLook(t) \/ PopTake(t) \/ PopSleep(t) \/ PopWake(t)
           \/ Steal(t)
-----------------------------------------------------------------------------
(* The nodes that head owns, through next; the data of the last is not yet *)
(* in the queue.                                                           *)
Chain == ListFrom(head, [n \in DOMAIN nodes |-> nodes[n].next])

Items == LET upto == CHOOSE i \in DOMAIN Chain : Chain[i] = tail
         IN  [i \in 1 .. upto - 1 |-> nodes[Chain[i]].data]

Taking == {}

(* What a thread or a later operation follows: tail, the node before it if *)
(* there is a value to steal, and the head a pop has decided to take.      *)
Needed == {tail} \cup (IF head = tail THEN {} ELSE {nodes[tail].prev})
          \cup (IF \E t \in Threads : pc[t] = "take" THEN {head} ELSE {})

Deferred == {}

(* A push that has returned, or has stored its data. *)
Entered(v) == \E t \in Threads :
                 /\ \E i \in DOMAIN Program[t] : Program[t][i] = v
                 /\ \/ \A i \in DOMAIN todo[t] : todo[t][i] # v
                    \/ Operation(t) = v /\ pc[t] \in {"move", "notify"}
=============================================================================
