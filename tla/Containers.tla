------------------------------ MODULE Containers ------------------------------
(***************************************************************************)
(* The five containers together.  A behaviour is one of one of them, kind  *)
(* says which; they share the variables of ContainerThreads, and the       *)
(* others' own variables stay as they are.  What is asked of the five is   *)
(* the same, so it is asked once.                                          *)
(***************************************************************************)
EXTENDS ContainerThreads

CONSTANTS StackProgram,  \* the operations of each thread on a stack
          LockProgram    \* the same for the two-lock queue; Program is the queue's

ASSUME ProgramsAssumption == /\ StackProgram \in [Threads -> Seq(Value \cup Others)]
                             /\ LockProgram \in [Threads -> Seq(Value \cup Others)]

(* The operations of the two-lock queue that are no pushes, and each value pushed once. *)
ASSUME NamesAssumption == {"wait", "timed", "steal", "exit"} \subseteq Others

ASSUME OnceAssumption == PushedOnce(Program) /\ PushedOnce(StackProgram) /\ PushedOnce(LockProgram)

VARIABLES kind,
          tail, new, to, next,
          hp, reclaim, work, unread,
          threads_in_pop, to_be_deleted, mine,
          head_mutex, tail_mutex, bstop

Queue == INSTANCE LockFreeQueue
Count == INSTANCE RefCountStack WITH Program <- StackProgram
Hazard == INSTANCE HazardPointerStack WITH Program <- StackProgram
Pending == INSTANCE PendingStack WITH Program <- StackProgram
TwoLock == INSTANCE TwoLockQueue WITH Program <- LockProgram

qVars == <<tail, new, to, next>>
hVars == <<hp, reclaim, work, unread>>
pVars == <<threads_in_pop, to_be_deleted, mine>>
lVars == <<head_mutex, tail_mutex, bstop>>
allVars == <<kind, vars, qVars, hVars, pVars, lVars>>

QueueOff == tail = Null /\ new = Null /\ to = Null /\ next = Null
HazardOff == hp = Null /\ reclaim = Null /\ work = Null /\ unread = Null
PendingOff == threads_in_pop = Null /\ to_be_deleted = Null /\ mine = Null
LocksOff == head_mutex = Null /\ tail_mutex = Null /\ bstop = Null

Init ==
    \/ kind = "queue" /\ Queue!Init /\ HazardOff /\ PendingOff /\ LocksOff
    \/ kind = "count" /\ Count!Init /\ QueueOff /\ HazardOff /\ PendingOff /\ LocksOff
    \/ kind = "hazard" /\ Hazard!Init /\ QueueOff /\ PendingOff /\ LocksOff
    \/ kind = "pending" /\ Pending!Init /\ QueueOff /\ HazardOff /\ LocksOff
    \/ /\ kind = "locks" /\ TwoLock!Init /\ HazardOff /\ PendingOff
       /\ new = Null /\ to = Null /\ next = Null

queueOnly == <<kind, hVars, pVars, lVars>>
countOnly == <<kind, qVars, hVars, pVars, lVars>>
hazardOnly == <<kind, qVars, pVars, lVars>>
pendingOnly == <<kind, qVars, hVars, lVars>>
locksOnly == <<kind, new, to, next, hVars, pVars>>

Step(t) == \/ kind = "queue" /\ Queue!Step(t) /\ UNCHANGED queueOnly
           \/ kind = "count" /\ Count!Step(t) /\ UNCHANGED countOnly
           \/ kind = "hazard" /\ Hazard!Step(t) /\ UNCHANGED hazardOnly
           \/ kind = "pending" /\ Pending!Step(t) /\ UNCHANGED pendingOnly
           \/ kind = "locks" /\ TwoLock!Step(t) /\ UNCHANGED locksOnly

Destroy == \/ kind = "queue" /\ Queue!Destroy /\ UNCHANGED queueOnly
           \/ kind = "count" /\ Count!Destroy /\ UNCHANGED countOnly

Next == (\E t \in Threads : Step(t)) \/ Destroy

(* Only the running threads are sure to go on: another may stop anywhere,  *)
(* as a thread that is never scheduled again does.                         *)
FairSpec == Init /\ [][Next]_allVars /\ \A t \in Running : WF_allVars(Step(t))
-----------------------------------------------------------------------------
Of(queue, count, hazard, pending, locks) == CASE kind = "queue" -> queue
                                              [] kind = "count" -> count
                                              [] kind = "hazard" -> hazard
                                              [] kind = "pending" -> pending
                                              [] kind = "locks" -> locks

Chain == Of(Queue!Chain, Count!Chain, Hazard!Chain, Pending!Chain, TwoLock!Chain)
Needed == Of(Queue!Needed, Count!Needed, Hazard!Needed, Pending!Needed, TwoLock!Needed)
Deferred == Of(Queue!Deferred, Count!Deferred, Hazard!Deferred, Pending!Deferred,
               TwoLock!Deferred)
Taking == Of(Queue!Taking, Count!Taking, Hazard!Taking, Pending!Taking, TwoLock!Taking)
StackItems == [i \in DOMAIN Chain |-> nodes[Chain[i]].data]
Items == Of(Queue!Items, StackItems, StackItems, StackItems, TwoLock!Items)

(* No thread touches a node that has been deleted, and none is deleted     *)
(* twice: whatever a thread is going to use (counted, published or pending)*)
(* exists, and so does every node of the container.                        *)
NoUseAfterFree == Needed \cup {Chain[i] : i \in DOMAIN Chain} \subseteq Alive

(* When no operation is going on, no node is left but those in the         *)
(* container and those whose deletion was put off for the next pop:        *)
(* whichever thread was the last to use a node has deleted it.             *)
NoLeak == (\A t \in Threads : pc[t] = "idle")
              => Alive = Deferred \cup {Chain[i] : i \in DOMAIN Chain}

StackEntered(v) == /\ \E t \in Threads : \E i \in DOMAIN StackProgram[t] : StackProgram[t][i] = v
                   /\ \A t \in Threads : \A i \in DOMAIN todo[t] : todo[t][i] # v
Entered(v) == Of(Queue!Entered(v), StackEntered(v), StackEntered(v), StackEntered(v),
                 TwoLock!Entered(v))

(* The values in nodes that are out of the container, and that no pop is   *)
(* taking.  How a value gets there is what LostOnlyStale says.             *)
Lost == Of(Queue!Lost, {}, {}, {}, {})

(* The nodes whose data is in the container or on its way out of it. *)
Holding == {Chain[i] : i \in DOMAIN Chain} \cup Taking

(* A value pushed, unless it was lost, is held by one node of the container*)
(* or was returned by one pop, never by both and never by two, and a pop   *)
(* that does not find the container empty returns a value.                 *)
ExactlyOnce ==
    /\ \A v \in Value :
          Cardinality({n \in Holding : nodes[n].data = v})
            + Cardinality({r \in popped : r.val = v})
          = IF Entered(v) /\ v \notin Lost THEN 1 ELSE 0
    /\ \A r \in popped : r.val # NoData

(* A value is lost in one way only: push compares the data pointer of its  *)
(* copy of tail with null after a pop has emptied that very node, so that  *)
(* the value is stored in a node which the queue had left behind.  A value *)
(* that was in the container never is, whoever helps and whoever is slow.  *)
LostOnlyStale ==
    [][\A v \in Lost' \ Lost :
          \E t \in Threads : LET n == old[t].ptr
                             IN  /\ pc[t] = "data" /\ Operation(t) = v
                                 /\ n \notin Holding
                                 /\ nodes[n].data = NoData /\ nodes'[n].data = v]_allVars

(* The notes on lock-free programming: none of the structures has an ABA   *)
(* problem; and the test of the queue with two pushers, whose poppers run  *)
(* until every value pushed has come out.                                  *)
NothingLost == Lost = {}

(* The container as its callers see it: a push takes effect when tail (or  *)
(* the head of a stack) moves on - whichever thread moves it - and a pop   *)
(* when head does.                                                         *)
Abstract == INSTANCE Container
              WITH order <- IF kind \in {"queue", "locks"} THEN "fifo" ELSE "lifo",
                   items <- Items,
                   out <- {nodes[n].data : n \in Taking} \cup {r.val : r \in popped}

ImplementsContainer == Abstract!Spec

(* Pushes of the queue return, though another thread stops for good.       *)
PushReturns == Queue!PushReturns
=============================================================================
