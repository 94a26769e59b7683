----------------------------- MODULE ThreadPool -----------------------------
(***************************************************************************)
(* The thread pool of Concurrent/day22-ThreadPool (ThreadPool.h) and the   *)
(* functions that use it: workers sleep on one condition variable, commit  *)
(* queues a task and returns its future, stop ends the workers.            *)
(*                                                                         *)
(* What matters of a task is which tasks it commits itself and which of    *)
(* their futures it gets before it returns: pool_thread_quick_sort commits *)
(* one lower part after another and then gets them all.  The main thread   *)
(* does the same, and stops the pool when it returns from main.            *)
(*                                                                         *)
(* thread_num_ is not a variable of its own: it counts the workers that    *)
(* are not between its decrement and its increment.                        *)
(***************************************************************************)
EXTENDS Naturals, Sequences, FiniteSets, SequencesExt

CONSTANTS Workers,  \* the threads of pool_
          Tasks,    \* the tasks that are ever committed
          Main,     \* the main thread
          Calls,    \* the tasks that each task, and Main, commits, in order
          Gets      \* the tasks whose future is waited for by who commits them

Callers == Tasks \cup {Main}

(* A task is what one call of commit queues: it is committed in one place. *)
ASSUME PoolAssumption ==
    /\ IsFiniteSet(Workers)
    /\ Main \notin Tasks
    /\ Calls \in [Callers -> Seq(Tasks)]
    /\ \A c, d \in Callers : \A i \in DOMAIN Calls[c], j \in DOMAIN Calls[d] :
          Calls[c][i] = Calls[d][j] => c = d /\ i = j
    /\ Gets \subseteq Tasks

VARIABLES stop,    \* stop_
          tasks,   \* tasks_
          pc,      \* where each worker is
          job,     \* the task a worker has taken, or Main for none
          at,      \* where each caller is in commit
          calls,   \* how many calls of commit each caller has made
          fut,     \* the future of each task
          main_thread, \* the main thread: at work, or where it is in stop
          commits, \* history: the tasks queued
          taken    \* history: the tasks taken by workers

callVars == <<at, calls>>
poolVars == <<stop, tasks, pc, job, callVars, fut, main_thread, commits, taken>>

PoolInit == /\ stop = FALSE /\ tasks = <<>>
            /\ pc = [w \in Workers |-> "loop"]
            /\ job = [w \in Workers |-> Main]
            /\ at = [c \in Callers |-> "check"]
            /\ calls = [c \in Callers |-> 0]
            /\ fut = [t \in Tasks |-> "none"]
            /\ main_thread = "work"
            /\ commits = <<>> /\ taken = <<>>

ThreadNum == Cardinality({w \in Workers : pc[w] \notin {"run", "after"}})

(* cv_mt_ is held by a worker from its evaluation of the predicate until   *)
(* it sleeps; commit holds it for one step only.                           *)
MutexFree == \A w \in Workers : pc[w] \notin {"test", "park"}

Running(c) == IF c = Main THEN main_thread = "work" ELSE \E w \in Workers : pc[w] = "run" /\ job[w] = c

(* The task that caller c commits next. *)
NextCall(c) == Calls[c][calls[c] + 1]

Called(c) == [calls EXCEPT ![c] = @ + 1]
-----------------------------------------------------------------------------
(* commit: after stop it returns an empty future ... *)
CommitCheck(c) ==
    /\ Running(c) /\ at[c] = "check" /\ calls[c] < Len(Calls[c])
    /\ IF stop
       THEN /\ fut' = [fut EXCEPT ![NextCall(c)] = "empty"]
            /\ calls' = Called(c)
            /\ UNCHANGED at
       ELSE /\ at' = [at EXCEPT ![c] = "push"]
            /\ UNCHANGED <<fut, calls>>
    /\ UNCHANGED <<stop, tasks, pc, job, main_thread, commits, taken>>

(* ... else it queues the task under cv_mt_ ... *)
CommitPush(c) ==
    /\ at[c] = "push" /\ MutexFree
    /\ tasks' = Append(tasks, NextCall(c))
    /\ commits' = Append(commits, NextCall(c))
    /\ fut' = [fut EXCEPT ![NextCall(c)] = "queued"]
    /\ at' = [at EXCEPT ![c] = "notify"]
    /\ UNCHANGED <<stop, pc, job, calls, main_thread, taken>>

Waiting == {w \in Workers : pc[w] \in {"wait", "late"}}

(* cv_lock_.notify_one: some sleeping worker, if there is one. *)
NotifyOne == IF Waiting = {} THEN UNCHANGED pc
             ELSE \E w \in Waiting : pc' = [pc EXCEPT ![w] = "woken"]

(* Faulty: a notification only if the task is the only one. *)
NotifyFirst == IF Len(tasks) = 1 THEN NotifyOne ELSE UNCHANGED pc

NotifyForCommit == NotifyOne

(* ... and notifies outside the mutex. *)
CommitNotify(c) ==
    /\ at[c] = "notify"
    /\ NotifyForCommit
    /\ at' = [at EXCEPT ![c] = "check"]
    /\ calls' = Called(c)
    /\ UNCHANGED <<stop, tasks, job, fut, main_thread, commits, taken>>

Commit(c) == CommitCheck(c) \/ CommitPush(c) \/ CommitNotify(c)

(* The futures that caller c gets. *)
Awaited(c) == {t \in Gets : \E i \in DOMAIN Calls[c] : Calls[c][i] = t}

(* Caller c has made its calls and its gets have returned, or thrown at an *)
(* empty future (the last ones committed are the first ones it gets).      *)
Returned(c) ==
    /\ calls[c] = Len(Calls[c])
    /\ \/ \A t \in Awaited(c) : fut[t] = "done"
       \/ \E t \in Awaited(c) : fut[t] = "empty"
-----------------------------------------------------------------------------
Move(w, from, to) == /\ pc[w] = from
                     /\ pc' = [pc EXCEPT ![w] = to]
                     /\ UNCHANGED <<stop, tasks, job, callVars, fut, main_thread, commits, taken>>

(* while (!stop_) *)
Loop(w) == Move(w, "loop", IF stop THEN "exit" ELSE "lock")

Acquire(w) == MutexFree /\ (Move(w, "lock", "test") \/ Move(w, "woken", "test"))

(* Faulty: the task stays in the queue when a worker has taken it. *)
TakeWithoutPop(w) ==
    /\ pc[w] = "test" /\ tasks # <<>>
    /\ job' = [job EXCEPT ![w] = Head(tasks)]
    /\ taken' = Append(taken, Head(tasks))
    /\ pc' = [pc EXCEPT ![w] = "take"]
    /\ UNCHANGED <<stop, tasks, callVars, fut, main_thread, commits>>

(* The predicate of wait holds; the front task is moved out and popped. *)
Take(w) ==
    /\ pc[w] = "test" /\ tasks # <<>>
    /\ job' = [job EXCEPT ![w] = Head(tasks)]
    /\ taken' = Append(taken, Head(tasks))
    /\ tasks' = Tail(tasks)
    /\ pc' = [pc EXCEPT ![w] = "take"]
    /\ UNCHANGED <<stop, callVars, fut, main_thread, commits>>

(* The queue is empty: return if the pool is stopped, else go to sleep. *)
TestEmpty(w) == tasks = <<>> /\ Move(w, "test", IF stop THEN "exit" ELSE "park")

(* wait releases cv_mt_.  "late": stop_ was set after the predicate. *)
Sleep(w) == Move(w, "park", IF stop THEN "late" ELSE "wait")

Spurious(w) == Move(w, "wait", "woken") \/ Move(w, "late", "woken")

(* thread_num_-- and the call of the task. *)
Begin(w) ==
    /\ pc[w] = "take"
    /\ pc' = [pc EXCEPT ![w] = "run"]
    /\ fut' = [fut EXCEPT ![job[w]] = "running"]
    /\ UNCHANGED <<stop, tasks, job, callVars, main_thread, commits, taken>>

(* The task has returned: its future is ready. *)
End(w) ==
    /\ pc[w] = "run" /\ Returned(job[w])
    /\ pc' = [pc EXCEPT ![w] = "after"]
    /\ fut' = [fut EXCEPT ![job[w]] = "done"]
    /\ job' = [job EXCEPT ![w] = Main]
    /\ UNCHANGED <<stop, tasks, callVars, main_thread, commits, taken>>

(* thread_num_++ *)
After(w) == Move(w, "after", "loop")

Work(w) == \/ Loop(w) \/ Acquire(w) \/ Take(w) \/ TestEmpty(w) \/ Sleep(w)
           \/ Begin(w) \/ End(w) \/ After(w)
-----------------------------------------------------------------------------
(* The end of main and ~ThreadPool: stop_ is set without cv_mt_ ... *)
Stop ==
    /\ main_thread = "work" /\ Returned(Main)
    /\ stop' = TRUE
    /\ main_thread' = "notify"
    /\ UNCHANGED <<tasks, pc, job, callVars, fut, commits, taken>>

(* Faulty: stop wakes one worker only. *)
WakeOne == NotifyOne

WakeAll == pc' = [w \in Workers |-> IF w \in Waiting THEN "woken" ELSE pc[w]]

(* ... every sleeping worker is woken ... *)
StopNotify ==
    /\ main_thread = "notify"
    /\ WakeAll
    /\ main_thread' = "join"
    /\ UNCHANGED <<stop, tasks, job, callVars, fut, commits, taken>>

(* ... and joined. *)
StopJoin ==
    /\ main_thread = "join" /\ \A w \in Workers : pc[w] = "exit"
    /\ main_thread' = "done"
    /\ UNCHANGED <<stop, tasks, pc, job, callVars, fut, commits, taken>>

PoolNext == \/ \E c \in Callers : Commit(c)
            \/ \E w \in Workers : Work(w) \/ Spurious(w)
            \/ Stop \/ StopNotify \/ StopJoin

PoolSpec == PoolInit /\ [][PoolNext]_poolVars

(* Threads that are able to go on do so, and one that waits for cv_mt_     *)
(* gets it if the mutex is free again and again.                           *)
PoolFairness == /\ \A w \in Workers : SF_poolVars(Work(w))
                /\ \A c \in Callers : SF_poolVars(Commit(c))
                /\ WF_poolVars(Stop \/ StopNotify \/ StopJoin)

PoolFairSpec == PoolSpec /\ PoolFairness
-----------------------------------------------------------------------------
(* The values of the variables; a future is running or done only if a      *)
(* worker has taken its task, and ThreadNum never goes below zero workers. *)
TypeOK ==
    /\ stop \in BOOLEAN /\ tasks \in Seq(Tasks)
    /\ pc \in [Workers -> {"loop", "lock", "test", "park", "wait", "late", "woken",
                           "take", "run", "after", "exit"}]
    /\ job \in [Workers -> Callers]
    /\ at \in [Callers -> {"check", "push", "notify"}]
    /\ \A c \in Callers : calls[c] \in 0 .. Len(Calls[c])
    /\ fut \in [Tasks -> {"none", "empty", "queued", "running", "done"}]
    /\ main_thread \in {"work", "notify", "join", "done"}
    /\ stop <=> main_thread # "work"
    /\ \A w \in Workers : pc[w] \in {"take", "run"} <=> job[w] # Main
    /\ \A t \in Tasks : fut[t] = "running" <=> \E w \in Workers : pc[w] = "run" /\ job[w] = t
    /\ commits \in Seq(Tasks) /\ taken \in Seq(Tasks)

(* Workers that are awake and come to the queue before they sleep. *)
Coming == {w \in Workers : pc[w] \in {"after", "loop", "lock", "test", "woken"}}

Notifying == {c \in Callers : at[c] = "notify"}

(* notify_one outside the mutex loses no wakeup: until the pool is         *)
(* stopped, a worker sleeps only if for each queued task another worker is *)
(* on its way to the queue or a committer is about to notify.              *)
NoIdleSleeper ==
    ~stop /\ Waiting # {} => Len(tasks) <= Cardinality(Coming) + Cardinality(Notifying)

(* The queue hands every committed task to one worker, once, and in the    *)
(* order of the commits.                                                   *)
TakenInOrder == commits = taken \o tasks /\ IsInjective(commits)

(* stop leaves in the queue what no worker takes any more: a worker tests  *)
(* stop_ before it looks at the queue.                                     *)
Left(t) == stop /\ fut[t] = "queued"

(* Task t, running, waits for the future of a task that has not run. *)
BlockedOn(t, u) == fut[t] = "running" /\ u \in Awaited(t) /\ fut[u] \in {"queued", "running"}

(* A committed task runs to its end unless stop leaves it in the queue, or *)
(* it waits, directly or not, for one that is left.  With tasks that block *)
(* in get on other tasks this takes more workers than there are such       *)
(* tasks.  (No task is committed twice, so "each in the end" is "in the    *)
(* end all"; and nobody waits in a circle, so that who is blocked for good *)
(* is blocked on a task that is left.)                                     *)
EveryTaskRuns ==
    <>[](\A t \in Tasks : \/ fut[t] \in {"none", "empty", "done"}
                          \/ Left(t)
                          \/ stop /\ \E u \in Tasks : BlockedOn(t, u))

(* stop returns, unless a worker has read stop_ before it was set and goes *)
(* to sleep only after the notification, or runs a task that waits for one *)
(* left in the queue.                                                      *)
StopEnds ==
    <>[](\/ main_thread \in {"work", "done"}
         \/ \E w \in Workers : pc[w] = "late"
         \/ \E t, u \in Tasks : BlockedOn(t, u) /\ Left(u))

(* The result the walk-through in the documentation of the pool shows: the *)
(* sort returns.                                                           *)
SortReturns == <>(main_thread # "work")
=============================================================================
