--------------------------- MODULE ContainerThreads ---------------------------
(***************************************************************************)
(* What the concurrent containers of the lessons of day17, day18 and day22 *)
(* have in common: threads that push and pop, and nodes that are made and  *)
(* deleted.  RefCountStack, HazardPointerStack, PendingStack (day17),      *)
(* LockFreeQueue (day18) and TwoLockQueue (day22) add the pointers between *)
(* the nodes and the way nodes are protected and reclaimed.                *)
(*                                                                         *)
(* One action is one operation on an atomic, or one section under a mutex, *)
(* with the thread's own code up to the next.  A compare-exchange loop     *)
(* that does nothing but retry is one step: the successful attempt.        *)
(***************************************************************************)
EXTENDS Integers, Sequences, FiniteSets

CONSTANTS Threads,
          Running,  \* those that the operating system goes on running
          Value,    \* the values pushed, each once
          Others,   \* the names of the operations that are no pushes
          Pop,      \* one of them
          Program,  \* the operations each thread calls: a value is pushed
          MaxCopies \* bound: how far the external count of a head goes

Null == 0           \* the pointer that leads to no node
NoData == "none"    \* the data pointer that is null
Nobody == "nobody"  \* the holder of a mutex that is free

ASSUME ThreadsAssumption == /\ Pop \in Others /\ Others \cap Value = {} /\ NoData \notin Value
                            /\ Running \subseteq Threads /\ Nobody \notin Threads
                            /\ Program \in [Threads -> Seq(Value \cup Others)]
                            /\ MaxCopies \in Nat

(* A value names its push: no two pushes are of the same one. *)
PushedOnce(program) ==
    \A t, u \in Threads : \A i \in DOMAIN program[t], j \in DOMAIN program[u] :
       program[t][i] \in Value /\ program[t][i] = program[u][j] => t = u /\ i = j

VARIABLES nodes,    \* the nodes ever made, by number
          head,
          pc,       \* where each thread is in push or pop
          todo,     \* the operations each thread has still to finish
          old,      \* old_head (and old_tail) of each thread
          popped,   \* history: the values returned by pop
          empties   \* history: how often pop found the container empty

vars == <<nodes, head, pc, todo, old, popped, empties>>

ThreadsInit == /\ pc = [t \in Threads |-> "idle"]
               /\ todo = Program
               /\ popped = {} /\ empties = 0

Goto(t, place) == pc' = [pc EXCEPT ![t] = place]

Operation(t) == Head(todo[t])

(* Thread t calls one of the operations; to call one with a value is to push it. *)
Calls(t, operations) == pc[t] = "idle" /\ todo[t] # <<>> /\ Operation(t) \in operations

Return(t) == Goto(t, "idle") /\ todo' = [todo EXCEPT ![t] = Tail(@)]

AllReturned == \A t \in Threads : todo[t] = <<>>

(* pop returns the data of node n. *)
Result(t, n) == popped' = popped \cup {[by |-> t, nth |-> Len(todo[t]), val |-> nodes[n].data]}

Alive == {n \in DOMAIN nodes : nodes[n].alive}

(* The address of a new node: that of a deleted node if there is one. *)
Address == CHOOSE n \in 1 .. Len(nodes) + 1 :
              /\ n \notin Alive
              /\ \A m \in 1 .. n - 1 : m \in Alive

(* The nodes of a list from first on; succ leads from each to the next, and *)
(* from the last to none.  (Were they a ring, it would be gone round once.) *)
ListFrom(first, succ) ==
    LET at[i \in DOMAIN succ] == IF i = 1 THEN first
                                 ELSE IF at[i - 1] = Null THEN Null ELSE succ[at[i - 1]]
    IN  [i \in {j \in DOMAIN succ : at[j] # Null} |-> at[i]]

Place(n, node) == [m \in DOMAIN nodes \cup {n} |-> IF m = n THEN node ELSE nodes[m]]
=============================================================================
