-------------------------- MODULE HazardPointerStack --------------------------
(***************************************************************************)
(* hazard_pointer_stack of Concurrent/day17-LockFreeStack                  *)
(* (HazardPointerStack.h).  A pop publishes the head it is going to use    *)
(* and reads head again; a node that some thread has published is not      *)
(* deleted but put on a list, which every later pop goes through.          *)
(***************************************************************************)
EXTENDS ContainerThreads

VARIABLES hp,         \* hazard_pointers: what each thread has published
          reclaim,    \* nodes_to_reclaim
          work,       \* the nodes a thread has still to delete or put on the list
          unread      \* the hazard pointers it has not yet compared with the first

hpVars == <<hp, reclaim, work, unread>>

Init == /\ ThreadsInit
        /\ nodes = <<>> /\ head = Null
        /\ old = [t \in Threads |-> Null] /\ hp = [t \in Threads |-> Null]
        /\ reclaim = <<>>
        /\ work = [t \in Threads |-> <<>>] /\ unread = [t \in Threads |-> {}]

Push(t) ==
    /\ Calls(t, Value)
    /\ LET n == Address
       IN  /\ nodes' = Place(n, [data |-> Operation(t), next |-> head, alive |-> TRUE])
           /\ head' = n
    /\ Return(t)
    /\ UNCHANGED <<old, popped, empties, hpVars>>

PopLoad(t) ==
    /\ Calls(t, {Pop})
    /\ old' = [old EXCEPT ![t] = head]
    /\ Goto(t, "publish")
    /\ UNCHANGED <<nodes, head, todo, popped, empties, hpVars>>

(* Faulty: the head is used as it was read, without reading it again. *)
PublishAndUse(t) ==
    /\ pc[t] = "publish"
    /\ hp' = [hp EXCEPT ![t] = old[t]]
    /\ Goto(t, IF old[t] = Null THEN "clear" ELSE "exchange")
    /\ UNCHANGED <<nodes, head, todo, old, popped, empties, reclaim, work, unread>>

PopPublish(t) ==
    /\ pc[t] = "publish"
    /\ hp' = [hp EXCEPT ![t] = old[t]]
    /\ Goto(t, "check")
    /\ UNCHANGED <<nodes, head, todo, old, popped, empties, reclaim, work, unread>>

(* head is read again, until it is what has been published. *)
PopCheck(t) ==
    /\ pc[t] = "check"
    /\ old' = [old EXCEPT ![t] = head]
    /\ Goto(t, IF head # old[t] THEN "publish" ELSE IF head = Null THEN "clear" ELSE "exchange")
    /\ empties' = IF head = old[t] /\ head = Null THEN empties + 1 ELSE empties
    /\ UNCHANGED <<nodes, head, todo, popped, hpVars>>

PopExchange(t) ==
    /\ pc[t] = "exchange"
    /\ IF head = old[t]
       THEN head' = nodes[old[t]].next /\ Goto(t, "clear") /\ UNCHANGED old
       ELSE old' = [old EXCEPT ![t] = head] /\ Goto(t, "publish") /\ UNCHANGED head
    /\ UNCHANGED <<nodes, todo, popped, empties, hpVars>>

PopClear(t) ==
    /\ pc[t] = "clear"
    /\ hp' = [hp EXCEPT ![t] = Null]
    /\ IF old[t] = Null
       THEN Return(t) /\ UNCHANGED <<nodes, popped, work, unread>>
       ELSE /\ Result(t, old[t])
            /\ nodes' = [nodes EXCEPT ![old[t]].data = NoData]
            /\ work' = [work EXCEPT ![t] = <<old[t]>>]
            /\ unread' = [unread EXCEPT ![t] = Threads \ {t}]
            /\ Goto(t, "scan")
            /\ UNCHANGED todo
    /\ UNCHANGED <<head, old, empties, reclaim>>

(* The first node of work is dealt with, the pointers for the next unread. *)
NextWork(t) == /\ work' = [work EXCEPT ![t] = Tail(@)]
               /\ unread' = [unread EXCEPT ![t] = Threads \ {t}]

(* outstanding_hazard_pointers_for compares one pointer (a thread's own is *)
(* null by now).  A node that is published goes to the list, reclaim_later *)
(* or add_to_reclaim_list; one that is not found at all is deleted.        *)
PopScan(t) ==
    /\ pc[t] \in {"scan", "sweep"} /\ work[t] # <<>>
    /\ LET n == Head(work[t])
       IN  \/ \E u \in unread[t] :
                 IF hp[u] = n
                 THEN NextWork(t) /\ reclaim' = <<n>> \o reclaim /\ UNCHANGED nodes
                 ELSE /\ unread' = [unread EXCEPT ![t] = @ \ {u}]
                      /\ UNCHANGED <<nodes, reclaim, work>>
           \/ /\ unread[t] = {}
              /\ nodes' = [nodes EXCEPT ![n].alive = FALSE]
              /\ NextWork(t)
              /\ UNCHANGED reclaim
    /\ UNCHANGED <<head, pc, todo, old, popped, empties, hp>>

(* After its own node, a pop takes the whole list and goes through it:     *)
(* delete_nodes_with_no_hazards.                                           *)
PopSweep(t) ==
    /\ pc[t] \in {"scan", "sweep"} /\ work[t] = <<>>
    /\ IF pc[t] = "scan"
       THEN /\ work' = [work EXCEPT ![t] = reclaim] /\ reclaim' = <<>>
            /\ Goto(t, "sweep") /\ UNCHANGED todo
       ELSE Return(t) /\ UNCHANGED <<work, reclaim>>
    /\ UNCHANGED <<nodes, head, old, popped, empties, hp, unread>>

Step(t) == \/ Push(t) \/ PopLoad(t) \/ PopPublish(t) \/ PopCheck(t) \/ PopExchange(t)
           \/ PopClear(t) \/ PopScan(t) \/ PopSweep(t)
-----------------------------------------------------------------------------
Chain == ListFrom(head, [n \in DOMAIN nodes |-> nodes[n].next])

(* The nodes whose data is no longer in the stack and not yet returned. *)
Taking == {old[t] : t \in {u \in Threads : pc[u] = "clear" /\ old[u] # Null}}

(* The nodes a thread is going to read or write, or delete. *)
Needed == Taking \cup {old[t] : t \in {u \in Threads : pc[u] = "exchange"}}
                 \cup UNION {{work[t][i] : i \in DOMAIN work[t]} : t \in Threads}

(* Nodes that are neither in the stack nor deleted when nobody is working. *)
Deferred == {reclaim[i] : i \in DOMAIN reclaim}
=============================================================================
