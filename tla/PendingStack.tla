---------------------------- MODULE PendingStack ----------------------------
(***************************************************************************)
(* lock_free_stack of Concurrent/day17-LockFreeStack (LockFreeStack.h).    *)
(* The pops in progress are counted; a node is deleted by a pop that finds *)
(* itself alone, and is otherwise put on a list of nodes to be deleted.    *)
(***************************************************************************)
EXTENDS ContainerThreads

VARIABLES threads_in_pop,
          to_be_deleted,   \* the list, linked by next as the stack is
          mine             \* nodes_to_delete of each thread

pendingVars == <<threads_in_pop, to_be_deleted, mine>>

Init == /\ ThreadsInit
        /\ nodes = <<>> /\ head = Null
        /\ old = [t \in Threads |-> Null]
        /\ threads_in_pop = 0 /\ to_be_deleted = Null
        /\ mine = [t \in Threads |-> Null]

Push(t) ==
    /\ Calls(t, Value)
    /\ LET n == Address
       IN  /\ nodes' = Place(n, [data |-> Operation(t), next |-> head, alive |-> TRUE])
           /\ head' = n
    /\ Return(t)
    /\ UNCHANGED <<old, popped, empties, pendingVars>>

PopEnter(t) ==
    /\ Calls(t, {Pop})
    /\ threads_in_pop' = threads_in_pop + 1
    /\ Goto(t, "load")
    /\ UNCHANGED <<nodes, head, todo, old, popped, empties, to_be_deleted, mine>>

PopLoad(t) ==
    /\ pc[t] = "load"
    /\ old' = [old EXCEPT ![t] = head]
    /\ empties' = IF head = Null THEN empties + 1 ELSE empties
    /\ Goto(t, IF head = Null THEN "leave" ELSE "exchange")
    /\ UNCHANGED <<nodes, head, todo, popped, pendingVars>>

PopExchange(t) ==
    /\ pc[t] = "exchange"
    /\ IF head = old[t]
       THEN head' = nodes[old[t]].next /\ Goto(t, "take")
       ELSE Goto(t, "load") /\ UNCHANGED head
    /\ UNCHANGED <<nodes, todo, old, popped, empties, pendingVars>>

(* The data is taken; try_reclaim begins by reading the count. *)
PopTake(t) ==
    /\ pc[t] = "take"
    /\ Result(t, old[t])
    /\ nodes' = [nodes EXCEPT ![old[t]].data = NoData]
    /\ Goto(t, IF threads_in_pop = 1 THEN "grab" ELSE "chain")
    /\ UNCHANGED <<head, todo, old, empties, pendingVars>>

(* The list that begins with node n. *)
Listed(n) == ListFrom(n, [k \in DOMAIN nodes |-> nodes[k].next])

(* chain_pending_nodes: the list from first to last is put before the      *)
(* nodes that are to be deleted.                                           *)
Chained(first, last) == /\ nodes' = [nodes EXCEPT ![last].next = to_be_deleted]
                        /\ to_be_deleted' = first

(* Not alone: chain_pending_node. *)
PopChain(t) ==
    /\ pc[t] = "chain"
    /\ Chained(old[t], old[t])
    /\ Goto(t, "leave")
    /\ UNCHANGED <<head, todo, old, popped, empties, threads_in_pop, mine>>

PopLeave(t) ==
    /\ pc[t] = "leave"
    /\ threads_in_pop' = threads_in_pop - 1
    /\ Return(t)
    /\ UNCHANGED <<nodes, head, old, popped, empties, to_be_deleted, mine>>

PopGrab(t) ==
    /\ pc[t] = "grab"
    /\ mine' = [mine EXCEPT ![t] = to_be_deleted]
    /\ to_be_deleted' = Null
    /\ Goto(t, "last")
    /\ UNCHANGED <<nodes, head, todo, old, popped, empties, threads_in_pop>>

Deleted(S) == [n \in DOMAIN nodes |-> [nodes[n] EXCEPT !.alive = @ /\ n \notin S]]

(* The set of nodes a thread has taken from the list. *)
Mine(t) == LET list == Listed(mine[t]) IN {list[i] : i \in DOMAIN list}

(* Faulty: the list is deleted without a second look at the count. *)
PopLastDelete(t) ==
    /\ pc[t] = "last"
    /\ threads_in_pop' = threads_in_pop - 1
    /\ nodes' = Deleted(Mine(t) \cup {old[t]}) /\ Return(t)
    /\ UNCHANGED <<head, old, popped, empties, to_be_deleted, mine>>

(* Still alone when the count goes down: the list is deleted.  Otherwise   *)
(* it has to be put back.  The thread's own node is deleted either way.    *)
PopLast(t) ==
    /\ pc[t] = "last"
    /\ threads_in_pop' = threads_in_pop - 1
    /\ IF threads_in_pop = 1
       THEN nodes' = Deleted(Mine(t) \cup {old[t]}) /\ Return(t)
       ELSE IF mine[t] = Null
            THEN nodes' = Deleted({old[t]}) /\ Return(t)
            ELSE Goto(t, "rechain") /\ UNCHANGED <<nodes, todo>>
    /\ UNCHANGED <<head, old, popped, empties, to_be_deleted, mine>>

PopRechain(t) ==
    /\ pc[t] = "rechain"
    /\ LET list == Listed(mine[t]) IN Chained(mine[t], list[Len(list)])
    /\ Goto(t, "delete")
    /\ UNCHANGED <<head, todo, old, popped, empties, threads_in_pop, mine>>

PopDelete(t) ==
    /\ pc[t] = "delete"
    /\ nodes' = Deleted({old[t]})
    /\ Return(t)
    /\ UNCHANGED <<head, old, popped, empties, pendingVars>>

Step(t) == \/ Push(t) \/ PopEnter(t) \/ PopLoad(t) \/ PopExchange(t) \/ PopTake(t)
           \/ PopChain(t) \/ PopLeave(t) \/ PopGrab(t) \/ PopLast(t)
           \/ PopRechain(t) \/ PopDelete(t)
-----------------------------------------------------------------------------
Chain == Listed(head)

(* The nodes whose data is no longer in the stack and not yet returned. *)
Taking == {old[t] : t \in {u \in Threads : pc[u] = "take"}}

(* The nodes a thread is going to read or write, or delete. *)
Needed == {old[t] : t \in {u \in Threads :
              pc[u] \in {"exchange", "take", "chain", "grab", "last", "rechain", "delete"}}}
          \cup UNION {Mine(t) : t \in {u \in Threads : pc[u] \in {"last", "rechain"}}}

(* Nodes that are neither in the stack nor deleted when nobody is working. *)
Deferred == LET list == Listed(to_be_deleted) IN {list[i] : i \in DOMAIN list}
=============================================================================
