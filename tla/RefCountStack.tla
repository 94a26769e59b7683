--------------------------- MODULE RefCountStack ---------------------------
(***************************************************************************)
(* ref_count_stack of Concurrent/day17-LockFreeStack (RefCountStack.h).    *)
(* head counts the pops that have copied it, a node counts, from zero      *)
(* downwards, those that have finished with it; the difference tells the   *)
(* last of them to delete the node.  single_ref_stack (SingleRefStack.h)   *)
(* is the same algorithm.                                                  *)
(***************************************************************************)
EXTENDS ContainerThreads

NoNode == [ext |-> 0, ptr |-> Null]

Init == /\ ThreadsInit
        /\ nodes = <<>> /\ head = NoNode
        /\ old = [t \in Threads |-> NoNode]

(* push: the new node is linked to the head that the exchange replaces. *)
Push(t) ==
    /\ Calls(t, Value)
    /\ LET n == Address
       IN  /\ nodes' = Place(n, [data |-> Operation(t), next |-> head,
                                 internal |-> 0, alive |-> TRUE])
           /\ head' = [ext |-> 1, ptr |-> n]
    /\ Return(t)
    /\ UNCHANGED <<old, popped, empties>>

(* increase_head_count.  The head that leads nowhere is counted as well;   *)
(* two pops can go on counting themselves for ever, so the count is capped.*)
PopCount(t) ==
    /\ head.ext < MaxCopies
    /\ Calls(t, {Pop}) \/ pc[t] = "pop"
    /\ head' = [head EXCEPT !.ext = @ + 1]
    /\ old' = [old EXCEPT ![t] = head']
    /\ IF head.ptr = Null THEN Return(t) /\ empties' = empties + 1
                          ELSE Goto(t, "exchange") /\ UNCHANGED <<todo, empties>>
    /\ UNCHANGED <<nodes, popped>>

(* Faulty: only the address is compared, not the count. *)
PopExchangePtr(t) ==
    /\ pc[t] = "exchange"
    /\ IF head.ptr = old[t].ptr
       THEN head' = nodes[old[t].ptr].next /\ Goto(t, "take")
       ELSE Goto(t, "release") /\ UNCHANGED head
    /\ UNCHANGED <<nodes, todo, old, popped, empties>>

PopExchange(t) ==
    /\ pc[t] = "exchange"
    /\ IF head = old[t]
       THEN head' = nodes[old[t].ptr].next /\ Goto(t, "take")
       ELSE Goto(t, "release") /\ UNCHANGED head
    /\ UNCHANGED <<nodes, todo, old, popped, empties>>

(* fetch_add on the internal count: the node is deleted if it reaches zero. *)
Add(n, node, k) == [nodes EXCEPT ![n] = [node EXCEPT !.internal = @ + k,
                                                     !.alive = node.internal + k # 0]]

(* The pop that moved head takes the data and accounts for the others. *)
PopTake(t) ==
    LET n == old[t].ptr
    IN  /\ pc[t] = "take"
        /\ Result(t, n)
        /\ nodes' = Add(n, [nodes[n] EXCEPT !.data = NoData], old[t].ext - 2)
        /\ Return(t)
        /\ UNCHANGED <<head, old, empties>>

(* A pop that failed has finished with the node, and tries again. *)
PopRelease(t) ==
    /\ pc[t] = "release"
    /\ nodes' = Add(old[t].ptr, nodes[old[t].ptr], -1)
    /\ Goto(t, "pop")
    /\ UNCHANGED <<head, todo, old, popped, empties>>

(* The destructor, once every operation has returned: pop, alone, until    *)
(* the stack is empty.                                                     *)
Destroy ==
    LET n == head.ptr
    IN  /\ AllReturned /\ n # Null
        /\ nodes' = Add(n, [nodes[n] EXCEPT !.data = NoData], head.ext + 1 - 2)
        /\ head' = nodes[n].next
        /\ popped' = popped \cup {[by |-> "destructor", nth |-> n, val |-> nodes[n].data]}
        /\ UNCHANGED <<pc, todo, old, empties>>

Step(t) == Push(t) \/ PopCount(t) \/ PopExchange(t) \/ PopTake(t) \/ PopRelease(t)
-----------------------------------------------------------------------------
Chain == ListFrom(head.ptr, [n \in DOMAIN nodes |-> nodes[n].next.ptr])

(* The nodes whose data is no longer in the stack and not yet returned. *)
Taking == {old[t].ptr : t \in {u \in Threads : pc[u] = "take"}}

(* The nodes a thread is going to read or write, or delete.                *)
Needed == {old[t].ptr : t \in {u \in Threads : pc[u] \in {"exchange", "take", "release"}}}

(* Nodes that are neither in the stack nor deleted when nobody is working. *)
Deferred == {}
=============================================================================
