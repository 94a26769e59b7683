---------------------------- MODULE LockFreeQueue ----------------------------
(***************************************************************************)
(* The lock-free queue of Concurrent/day18-LockFreeQue (lockfreeque.h).    *)
(*                                                                         *)
(* Reference counts are split: a counted pointer (head, tail, next) counts *)
(* the threads that have copied it, the node counts, from zero downwards,  *)
(* the threads that have finished and how many counted pointers still lead *)
(* to it.  The node is deleted when both of its counts are zero.           *)
(*                                                                         *)
(* A compare-exchange loop that does nothing but retry is one step: the    *)
(* successful attempt.  Nodes are numbered and numbers are not reused, so  *)
(* a pointer to a deleted node is recognised.  The counts are integers:    *)
(* the 30 bits of internal_count wrap, which leaves its zero where it is.  *)
(* A compare-exchange of a counted pointer compares its two fields.        *)
(***************************************************************************)
EXTENDS ContainerThreads

VARIABLES tail,     \* tail: [ext, ptr], as head is
          new,      \* new_next of push, next of pop
          to,       \* new_tail of set_new_tail
          next      \* where a thread goes after it has given a node up

queueVars == <<tail, new, to, next>>

Counted(n) == [ext |-> 1, ptr |-> n]
NoNode == [ext |-> 0, ptr |-> Null]

(* Faulty: a new node counts one counted pointer. *)
NodeOfOne == [data |-> NoData, next |-> NoNode, internal |-> 0, external |-> 1, alive |-> TRUE]

(* The constructor of node: two counted pointers will lead to it. *)
Node == [data |-> NoData, next |-> NoNode, internal |-> 0, external |-> 2, alive |-> TRUE]

Init == /\ ThreadsInit
        /\ nodes = <<Node>>
        /\ head = Counted(1) /\ tail = Counted(1)
        /\ old = [t \in Threads |-> NoNode]
        /\ new = [t \in Threads |-> NoNode]
        /\ to = [t \in Threads |-> NoNode]
        /\ next = [t \in Threads |-> "idle"]

(* The counts of node n change, and if both are zero it is deleted.        *)
GiveUp(n, released, increase) ==
    LET i == nodes[n].internal + increase
        e == nodes[n].external - released
    IN  [nodes EXCEPT ![n].internal = i, ![n].external = e,
                      ![n].alive = ~(i = 0 /\ e = 0)]
-----------------------------------------------------------------------------
(* push: new_next gets a node of its own. *)
PushStart(t) ==
    /\ Calls(t, Value)
    /\ nodes' = Append(nodes, Node)
    /\ new' = [new EXCEPT ![t] = Counted(Len(nodes'))]
    /\ Goto(t, "push")
    /\ UNCHANGED <<head, tail, todo, old, to, next, popped, empties>>

(* increase_external_count(tail, old_tail) *)
PushAcquire(t) ==
    /\ pc[t] = "push"
    /\ tail' = [tail EXCEPT !.ext = @ + 1]
    /\ old' = [old EXCEPT ![t] = tail']
    /\ Goto(t, "data")
    /\ UNCHANGED <<nodes, head, todo, new, to, next, popped, empties>>

(* Faulty: the data pointer is stored without a comparison. *)
StoreData(t) ==
    /\ pc[t] = "data"
    /\ nodes' = [nodes EXCEPT ![old[t].ptr].data = Operation(t)]
    /\ Goto(t, "link")
    /\ UNCHANGED <<head, tail, todo, old, new, to, next, popped, empties>>

(* The data pointer of the last node is exchanged if it is null. *)
PushData(t) ==
    /\ pc[t] = "data"
    /\ IF nodes[old[t].ptr].data = NoData
       THEN /\ nodes' = [nodes EXCEPT ![old[t].ptr].data = Operation(t)]
            /\ Goto(t, "link")
       ELSE /\ UNCHANGED nodes
            /\ Goto(t, "help")
    /\ UNCHANGED <<head, tail, todo, old, new, to, next, popped, empties>>

(* The thread that stored its data links new_next, or drops it and goes    *)
(* on with the one linked by a helper.                                     *)
PushLink(t) ==
    LET n == old[t].ptr
    IN  /\ pc[t] = "link"
        /\ IF nodes[n].next = NoNode
           THEN /\ nodes' = [nodes EXCEPT ![n].next = new[t]]
                /\ to' = [to EXCEPT ![t] = new[t]]
           ELSE /\ nodes' = [nodes EXCEPT ![new[t].ptr].alive = FALSE]
                /\ to' = [to EXCEPT ![t] = nodes[n].next]
        /\ next' = [next EXCEPT ![t] = "done"]
        /\ Goto(t, "move")
        /\ UNCHANGED <<head, tail, todo, old, new, popped, empties>>

(* Faulty: it tries again until the thread that stored its data is done. *)
PushWait(t) ==
    /\ pc[t] = "help"
    /\ Goto(t, "data")
    /\ UNCHANGED <<nodes, head, tail, todo, old, new, to, next, popped, empties>>

(* Another thread links its own new_next for it, and makes a new one. *)
PushHelp(t) ==
    LET n == old[t].ptr
    IN  /\ pc[t] = "help"
        /\ IF nodes[n].next = NoNode
           THEN /\ nodes' = Append([nodes EXCEPT ![n].next = new[t]], Node)
                /\ to' = [to EXCEPT ![t] = new[t]]
                /\ new' = [new EXCEPT ![t].ptr = Len(nodes')]
           ELSE /\ to' = [to EXCEPT ![t] = nodes[n].next]
                /\ UNCHANGED <<nodes, new>>
        /\ next' = [next EXCEPT ![t] = "push"]
        /\ Goto(t, "move")
        /\ UNCHANGED <<head, tail, todo, old, popped, empties>>

(* Faulty: the tail is set whatever it is. *)
StoreTail(t) ==
    /\ pc[t] = "move"
    /\ tail' = to[t]
    /\ old' = [old EXCEPT ![t] = tail]
    /\ Goto(t, "free")
    /\ UNCHANGED <<nodes, head, todo, new, to, next, popped, empties>>

(* set_new_tail: one thread moves the tail on, the others release the old one. *)
MoveTail(t) ==
    /\ pc[t] = "move"
    /\ IF tail.ptr = old[t].ptr
       THEN /\ tail' = to[t]
            /\ old' = [old EXCEPT ![t] = tail]
            /\ Goto(t, "free")
       ELSE /\ Goto(t, "release")
            /\ UNCHANGED <<tail, old>>
    /\ UNCHANGED <<nodes, head, todo, new, to, next, popped, empties>>

Push(t) == \/ PushStart(t) \/ PushAcquire(t) \/ PushData(t)
           \/ PushLink(t) \/ PushHelp(t) \/ MoveTail(t)
-----------------------------------------------------------------------------
(* increase_external_count(head, old_head).  Two pops can go on for ever   *)
(* making each other's exchange fail by counting themselves again, so the  *)
(* count is capped.                                                        *)
PopAcquire(t) ==
    /\ head.ext < MaxCopies
    /\ Calls(t, {Pop}) \/ pc[t] = "pop"
    /\ head' = [head EXCEPT !.ext = @ + 1]
    /\ old' = [old EXCEPT ![t] = head']
    /\ Goto(t, "compare")
    /\ UNCHANGED <<nodes, tail, todo, new, to, next, popped, empties>>

(* Faulty, as in memoryleakque.h: an empty queue is not released. *)
PopEmptyKeep(t) ==
    /\ pc[t] = "compare"
    /\ IF old[t].ptr = tail.ptr
       THEN empties' = empties + 1 /\ Return(t)
       ELSE /\ Goto(t, "next")
            /\ UNCHANGED <<empties, todo>>
    /\ UNCHANGED <<nodes, head, tail, old, new, to, next, popped>>

(* Head and tail are equal: the queue is empty. *)
PopCompare(t) ==
    /\ pc[t] = "compare"
    /\ IF old[t].ptr = tail.ptr
       THEN /\ empties' = empties + 1
            /\ next' = [next EXCEPT ![t] = "done"]
            /\ Goto(t, "release")
       ELSE /\ Goto(t, "next")
            /\ UNCHANGED <<empties, next>>
    /\ UNCHANGED <<nodes, head, tail, todo, old, new, to, popped>>

PopNext(t) ==
    /\ pc[t] = "next"
    /\ new' = [new EXCEPT ![t] = nodes[old[t].ptr].next]
    /\ Goto(t, "exchange")
    /\ UNCHANGED <<nodes, head, tail, todo, old, to, next, popped, empties>>

(* head moves on, unless it or its count has changed. *)
PopExchange(t) ==
    /\ pc[t] = "exchange"
    /\ IF head = old[t]
       THEN /\ head' = new[t]
            /\ Goto(t, "take")
            /\ UNCHANGED next
       ELSE /\ next' = [next EXCEPT ![t] = "pop"]
            /\ Goto(t, "release")
            /\ UNCHANGED head
    /\ UNCHANGED <<nodes, tail, todo, old, new, to, popped, empties>>

(* The data pointer is exchanged for null and becomes the result. *)
PopTake(t) ==
    /\ pc[t] = "take"
    /\ Result(t, old[t].ptr)
    /\ nodes' = [nodes EXCEPT ![old[t].ptr].data = NoData]
    /\ next' = [next EXCEPT ![t] = "done"]
    /\ Goto(t, "free")
    /\ UNCHANGED <<head, tail, todo, old, new, to, empties>>

PopOp(t) == PopAcquire(t) \/ PopCompare(t) \/ PopNext(t) \/ PopExchange(t) \/ PopTake(t)
-----------------------------------------------------------------------------
(* The operation returns, or tries again. *)
Continue(t) == IF next[t] = "done"
               THEN Return(t)
               ELSE Goto(t, next[t]) /\ UNCHANGED todo

(* free_external_counter: the counted pointer old is gone, and the threads *)
(* that copied it are accounted for, but for itself and for this thread.   *)
FreeExternal(t) ==
    /\ pc[t] = "free"
    /\ nodes' = GiveUp(old[t].ptr, 1, old[t].ext - 2)
    /\ Continue(t)
    /\ UNCHANGED <<head, tail, old, new, to, next, popped, empties>>

ReleaseRef(t) ==
    /\ pc[t] = "release"
    /\ nodes' = GiveUp(old[t].ptr, 0, -1)
    /\ Continue(t)
    /\ UNCHANGED <<head, tail, old, new, to, next, popped, empties>>

Step(t) == Push(t) \/ PopOp(t) \/ FreeExternal(t) \/ ReleaseRef(t)

-----------------------------------------------------------------------------
(* The destructor, once every operation has returned: pop until the queue  *)
(* is empty, alone, and delete the node that is left.                      *)
DestroyPop ==
    LET n == head.ptr
    IN  /\ AllReturned /\ n \notin {Null, tail.ptr}
        /\ nodes' = [GiveUp(n, 1, head.ext + 1 - 2) EXCEPT ![n].data = NoData]
        /\ head' = nodes[n].next
        /\ popped' = popped \cup {[by |-> "destructor", nth |-> n, val |-> nodes[n].data]}
        /\ UNCHANGED <<pc, todo, old, empties, queueVars>>

DestroyLast ==
    /\ AllReturned /\ head.ptr # Null /\ head.ptr = tail.ptr
    /\ nodes' = [nodes EXCEPT ![head.ptr].alive = FALSE]
    /\ head' = NoNode
    /\ UNCHANGED <<pc, todo, old, popped, empties, queueVars>>

Destroy == DestroyPop \/ DestroyLast
-----------------------------------------------------------------------------
(* The nodes from head to tail; the last one has no data yet. *)
Chain == ListFrom(head.ptr, [n \in DOMAIN nodes |->
                                IF n = tail.ptr THEN Null ELSE nodes[n].next.ptr])

Items == [i \in 1 .. Len(Chain) - 1 |-> nodes[Chain[i]].data]

(* The nodes whose data is no longer in the queue and not yet returned. *)
Taking == {old[t].ptr : t \in {u \in Threads : pc[u] = "take"}}

(* The nodes a thread is going to read or write, or delete, and those that *)
(* head and tail lead to.                                                  *)
Needed ==
    {old[t].ptr : t \in {u \in Threads :
        pc[u] \in {"data", "link", "help", "next", "exchange", "take", "free", "release"}}}
    \cup {new[t].ptr : t \in {u \in Threads : pc[u] \in {"push", "data", "link", "help"}}}
    \cup (IF head.ptr = Null THEN {} ELSE {head.ptr, tail.ptr})

Deferred == {}

(* The values in nodes that are not in the queue and that no pop is        *)
(* taking.                                                                 *)
Lost == {nodes[n].data : n \in DOMAIN nodes \ (Taking \cup {Chain[i] : i \in DOMAIN Chain})}
            \ {NoData}

(* A push that has returned, or has stored its data. *)
Entered(v) == \E t \in Threads :
                 /\ \E i \in DOMAIN Program[t] : Program[t][i] = v
                 /\ \/ \A i \in DOMAIN todo[t] : todo[t][i] # v
                    \/ Operation(t) = v /\ (pc[t] = "link" \/ (next[t] = "done"
                                            /\ pc[t] \in {"move", "free", "release"}))

(* A push of a running thread returns even if another thread has stopped   *)
(* in the middle of its own: the helper links the node and moves the tail. *)
PushReturns == \A t \in Running : pc[t] = "push" ~> pc[t] = "idle"
=============================================================================
