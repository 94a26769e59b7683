----------------------------- MODULE QueuePools -----------------------------
(***************************************************************************)
(* The five pools of Concurrent/day22-ThreadPool that are built on the     *)
(* two-lock queue:                                                         *)
(*   simple, future   one queue, polled with try_pop                       *)
(*   notify           one queue, wait_and_pop                              *)
(*   parallel         a queue for each worker, wait_and_pop                *)
(*   steal            a queue for each worker, try_pop, and try_steal from *)
(*                    the others                                           *)
(*                                                                         *)
(* A queue is a sequence here and its operations are atomic, which is what *)
(* TwoLockQueue is checked to be (Container), except that a worker in      *)
(* wait_and_pop keeps head_mutex from its predicate until it sleeps while  *)
(* push and Exit notify without that mutex.  A notification that comes in  *)
(* between and finds nobody else asleep is lost; missed records it.        *)
(***************************************************************************)
EXTENDS Naturals, Sequences, FiniteSets

CONSTANTS Workers,     \* how many; they and their queues are 0 .. Workers - 1
          Submitters,  \* threads that call submit
          Submits      \* the tasks each of them submits, in order

Index == 0 .. Workers - 1
NoTask == "none"

VARIABLES pool,       \* which of the five pools this is
          ques,       \* the queues (a pool with one queue uses the first)
          bstop,      \* the queues whose Exit has been called
          done,
          atm_index,
          pc, job,    \* each worker: where it is, its task
          victim,     \* the queue it looks into next
          at, idx,    \* each submitter: where it is in submit, its index
          left,       \* the tasks it has still to submit
          main,       \* the destructor: [at, the queue it is at]
          ran, missed \* history: tasks run; a notification was lost

queueVars == <<ques, bstop, atm_index>>
workerVars == <<pc, job, victim>>
submitVars == <<at, idx, left>>
vars == <<pool, done, queueVars, workerVars, submitVars, main, ran, missed>>

Kinds == {"simple", "future", "notify", "parallel", "steal"}
Shared == pool \in {"simple", "future", "notify"}
Waiting == pool \in {"notify", "parallel"}

Init == /\ pool \in Kinds
        /\ ques = [i \in Index |-> <<>>] /\ bstop = {} /\ done = FALSE /\ atm_index = 0
        /\ pc = [w \in Index |-> "loop"] /\ job = [w \in Index |-> NoTask]
        /\ victim = [w \in Index |-> 0]
        /\ at = [s \in Submitters |-> "index"] /\ idx = [s \in Submitters |-> 0]
        /\ left = Submits
        /\ main = [at |-> "work", q |-> 0]
        /\ ran = {} /\ missed = FALSE

QueueOf(w) == IF Shared THEN 0 ELSE w

Goto(w, place) == pc' = [pc EXCEPT ![w] = place]
-----------------------------------------------------------------------------
(* submit: the pools with several queues take them in turn.  Two callers   *)
(* that read atm_index at the same time get the same queue.                *)
SubmitIndex(s) ==
    /\ at[s] = "index" /\ left[s] # <<>> /\ main.at = "work"
    /\ idx' = [idx EXCEPT ![s] = IF Shared THEN 0 ELSE (atm_index + 1) % Workers]
    /\ at' = [at EXCEPT ![s] = "push"]
    /\ UNCHANGED <<pool, done, queueVars, workerVars, left, main, ran, missed>>

SubmitPush(s) ==
    /\ at[s] = "push"
    /\ atm_index' = idx[s]
    /\ ques' = [ques EXCEPT ![idx[s]] = Append(@, Head(left[s]))]
    /\ left' = [left EXCEPT ![s] = Tail(@)]
    /\ at' = [at EXCEPT ![s] = "notify"]
    /\ UNCHANGED <<pool, done, bstop, workerVars, idx, main, ran, missed>>

Asleep(q) == {w \in Index : pc[w] = "asleep" /\ QueueOf(w) = q}
FallingAsleep(q) == {w \in Index : pc[w] = "sleep" /\ QueueOf(w) = q}

(* Faulty: push does not notify. *)
NoNotify(s) ==
    /\ at[s] = "notify"
    /\ at' = [at EXCEPT ![s] = "index"]
    /\ UNCHANGED <<pool, done, queueVars, workerVars, idx, left, main, ran, missed>>

(* The end of push: notify_one. *)
SubmitNotify(s) ==
    LET q == idx[s]
    IN  /\ at[s] = "notify"
        /\ \/ \E w \in Asleep(q) : Goto(w, "look") /\ UNCHANGED missed
           \/ /\ Asleep(q) = {}
              /\ missed' = (missed \/ FallingAsleep(q) # {})
              /\ UNCHANGED pc
        /\ at' = [at EXCEPT ![s] = "index"]
        /\ UNCHANGED <<pool, done, queueVars, job, victim, idx, left, main, ran>>

Submit(s) == SubmitIndex(s) \/ SubmitPush(s) \/ SubmitNotify(s)
-----------------------------------------------------------------------------
(* worker_thread: while (!done) *)
Loop(w) ==
    /\ pc[w] = "loop"
    /\ Goto(w, IF done THEN "exit" ELSE IF Waiting THEN "look" ELSE "try")
    /\ UNCHANGED <<pool, done, queueVars, job, victim, submitVars, main, ran, missed>>

(* Worker w has the task at place i of queue q. *)
TakeFrom(w, q, i) ==
    /\ job' = [job EXCEPT ![w] = ques[q][i]]
    /\ ques' = [ques EXCEPT ![q] = SubSeq(@, 1, i - 1) \o SubSeq(@, i + 1, Len(@))]
    /\ Goto(w, "run")

(* try_pop; if it fails, the next round, or a look into the other queues. *)
Try(w) ==
    /\ pc[w] = "try"
    /\ IF ques[QueueOf(w)] # <<>>
       THEN TakeFrom(w, QueueOf(w), 1) /\ UNCHANGED victim
       ELSE /\ Goto(w, IF pool = "steal" THEN "steal" ELSE "loop")
            /\ victim' = [victim EXCEPT ![w] = 0]
            /\ UNCHANGED <<ques, job>>
    /\ UNCHANGED <<pool, done, bstop, atm_index, submitVars, main, ran, missed>>

(* try_steal takes from the other end of another worker's queue. *)
Steal(w) ==
    LET i == victim[w]
    IN  /\ pc[w] = "steal"
        /\ \/ /\ i \in Index \ {w} /\ ques[i] # <<>>
              /\ TakeFrom(w, i, Len(ques[i]))
              /\ UNCHANGED victim
           \/ /\ i \in Index /\ (i = w \/ ques[i] = <<>>)
              /\ victim' = [victim EXCEPT ![w] = i + 1]
              /\ UNCHANGED <<pc, job, ques>>
           \/ /\ i = Workers
              /\ Goto(w, "loop")
              /\ UNCHANGED <<job, ques, victim>>
        /\ UNCHANGED <<pool, done, bstop, atm_index, submitVars, main, ran, missed>>

(* wait_and_pop has head_mutex: a task, or nothing after Exit, or it goes  *)
(* on to sleep.                                                            *)
Look(w) ==
    LET q == QueueOf(w)
    IN  /\ pc[w] = "look" /\ FallingAsleep(q) = {}
        /\ \/ q \in bstop /\ Goto(w, "loop") /\ UNCHANGED <<job, ques>>
           \/ q \notin bstop /\ ques[q] # <<>> /\ TakeFrom(w, q, 1)
           \/ q \notin bstop /\ ques[q] = <<>> /\ Goto(w, "sleep") /\ UNCHANGED <<job, ques>>
        /\ UNCHANGED <<pool, done, bstop, atm_index, victim, submitVars, main, ran, missed>>

Sleep(w) ==
    /\ pc[w] = "sleep"
    /\ Goto(w, "asleep")
    /\ UNCHANGED <<pool, done, queueVars, job, victim, submitVars, main, ran, missed>>

(* A condition variable may wake up for no reason. *)
Spurious(w) ==
    /\ pc[w] = "asleep"
    /\ Goto(w, "look")
    /\ UNCHANGED <<pool, done, queueVars, job, victim, submitVars, main, ran, missed>>

Run(w) ==
    /\ pc[w] = "run"
    /\ ran' = ran \cup {job[w]}
    /\ job' = [job EXCEPT ![w] = NoTask]
    /\ Goto(w, "loop")
    /\ UNCHANGED <<pool, done, queueVars, victim, submitVars, main, missed>>

Work(w) == Loop(w) \/ Try(w) \/ Steal(w) \/ Look(w) \/ Sleep(w) \/ Run(w)
-----------------------------------------------------------------------------
(* The destructor, when nobody is in submit any more.  The simple and the  *)
(* future pool call no Exit.                                               *)
SetDone ==
    /\ main.at = "work" /\ \A s \in Submitters : at[s] = "index"
    /\ done' = TRUE
    /\ main' = [at |-> IF pool \in {"simple", "future"} THEN "join" ELSE "exit", q |-> 0]
    /\ UNCHANGED <<pool, queueVars, workerVars, submitVars, ran, missed>>

ExitFlag ==
    /\ main.at = "exit"
    /\ bstop' = bstop \cup {main.q}
    /\ main' = [main EXCEPT !.at = "notify"]
    /\ UNCHANGED <<pool, done, ques, atm_index, workerVars, submitVars, ran, missed>>

(* Faulty: Exit is called for the first queue only. *)
AfterFirst(q) == TRUE

(* The loop over the queues ends; the notify pool has only one. *)
LastQueue(q) == Shared \/ q = Workers - 1

ExitNotify ==
    LET q == main.q
    IN  /\ main.at = "notify"
        /\ pc' = [w \in Index |-> IF w \in Asleep(q) THEN "look" ELSE pc[w]]
        /\ missed' = (missed \/ FallingAsleep(q) # {})
        /\ main' = IF LastQueue(q) THEN [at |-> "join", q |-> 0] ELSE [at |-> "exit", q |-> q + 1]
        /\ UNCHANGED <<pool, done, queueVars, job, victim, submitVars, ran>>

Join == /\ main.at = "join" /\ \A w \in Index : pc[w] = "exit"
        /\ main' = [main EXCEPT !.at = "gone"]
        /\ UNCHANGED <<pool, done, queueVars, workerVars, submitVars, ran, missed>>

Destructor == ExitFlag \/ ExitNotify \/ Join
-----------------------------------------------------------------------------
Next == \/ \E w \in Index : Work(w) \/ Spurious(w)
        \/ \E s \in Submitters : Submit(s)
        \/ SetDone \/ Destructor

(* A worker gets a mutex that is free again and again; submit and the      *)
(* destructor go on once they have begun.  Nobody has to submit, to        *)
(* destroy the pool, or to wake up for no reason.                          *)
Fairness == /\ \A w \in Index : SF_vars(Work(w))
            /\ \A s \in Submitters : WF_vars(SubmitPush(s) \/ SubmitNotify(s))
            /\ WF_vars(Destructor)

FairSpec == Init /\ [][Next]_vars /\ Fairness
-----------------------------------------------------------------------------
(* Every task that submit has queued is run, in whichever queue it is and  *)
(* whoever sleeps, unless the pool is destroyed first (its destructor      *)
(* drops what is queued) or a notification was lost.  (No task is queued   *)
(* twice, so "each in the end" is "in the end all".)                       *)
EveryTaskRuns == <>[]((\A q \in Index : ques[q] = <<>>) \/ done \/ missed)

(* The destructor returns: every worker, asleep, at work or looking into   *)
(* another's queue, leaves its loop, unless a notification was lost.       *)
PoolEnds == <>[](~done \/ main.at = "gone" \/ missed)
=============================================================================
