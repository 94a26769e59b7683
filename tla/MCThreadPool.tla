---------------------------- MODULE MCThreadPool ----------------------------
(***************************************************************************)
(* The six pools for TLC.  A behaviour is one of ThreadPool or of one of   *)
(* the five pools of QueuePools, beside a pool of the other module that    *)
(* has come and gone and does nothing.                                     *)
(*                                                                         *)
(* ThreadPool: main commits "a", which commits "a1" and gets it, and "b",  *)
(* and gets only "b", so that the pool may be stopped while "a" and "a1"   *)
(* are queued, running or not yet committed, and while "a" waits for "a1". *)
(* QueuePools: two threads submit one task each, one after the other or at *)
(* once.                                                                   *)
(***************************************************************************)
EXTENDS ThreadPool

VARIABLES pool, ques, bstop, done, atm_index, thread, task, victim,
          submit, idx, left, owner, ran, missed

MCTasks == {"a", "a1", "b"}

MCCalls == [main |-> <<"a", "b">>, a |-> <<"a1">>, b |-> <<>>, a1 |-> <<>>]

MCGets == {"a1", "b"}

MCSubmits == [s1 |-> <<"a">>, s2 |-> <<"b">>]

Queues == INSTANCE QueuePools
            WITH Workers <- Cardinality(Workers), Submitters <- DOMAIN MCSubmits,
                 Submits <- MCSubmits, pc <- thread, job <- task, at <- submit, main <- owner

queueVars == <<pool, ques, bstop, done, atm_index, thread, task, victim, submit, idx, left,
               owner, ran, missed>>

(* A ThreadPool, and a pool of QueuePools, that are over. *)
Gone == /\ stop = TRUE /\ main_thread = "done"
        /\ tasks = <<>> /\ commits = <<>> /\ taken = <<>>
        /\ pc = [w \in Workers |-> "exit"] /\ job = [w \in Workers |-> Main]
        /\ at = [c \in Callers |-> "check"]
        /\ calls = [c \in Callers |-> Len(Calls[c])]
        /\ fut = [t \in Tasks |-> "empty"]

QueuesGone == /\ pool = "simple" /\ done = TRUE /\ owner = [at |-> "gone", q |-> 0]
              /\ ques = [i \in Queues!Index |-> <<>>] /\ bstop = {} /\ atm_index = 0
              /\ thread = [w \in Queues!Index |-> "exit"]
              /\ task = [w \in Queues!Index |-> Queues!NoTask]
              /\ victim = [w \in Queues!Index |-> 0]
              /\ submit = [s \in DOMAIN MCSubmits |-> "index"]
              /\ idx = [s \in DOMAIN MCSubmits |-> 0] /\ left = MCSubmits
              /\ ran = {} /\ missed = FALSE

PoolsInit == \/ PoolInit /\ QueuesGone
             \/ Gone /\ Queues!Init

PoolsNext == \/ PoolNext /\ UNCHANGED queueVars
             \/ Queues!Next /\ UNCHANGED poolVars

PoolsSpec == PoolsInit /\ [][PoolsNext]_<<poolVars, queueVars>> /\ PoolFairness /\ Queues!Fairness
-----------------------------------------------------------------------------
(* A task committed to ThreadPool is run to its end, unless stop leaves it *)
(* in the queue or it waits for one that is left there; and one that       *)
(* submit has queued in another pool is run by a worker of that pool,      *)
(* unless the pool is destroyed first or a notification was lost           *)
(* (ThreadPool, QueuePools).                                               *)
TasksRun == EveryTaskRuns /\ Queues!EveryTaskRuns

(* stop and the destructor return, unless a worker overslept a             *)
(* notification or runs a task that waits for one left in the queue        *)
(* (ThreadPool, QueuePools).                                               *)
PoolsEnd == StopEnds /\ Queues!PoolEnds
=============================================================================
