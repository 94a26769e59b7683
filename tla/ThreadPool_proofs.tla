-------------------------- MODULE ThreadPool_proofs --------------------------
(***************************************************************************)
(* Proofs about ThreadPool, for any finite set of workers and any tasks    *)
(* that commit one another.                                                *)
(*                                                                         *)
(* NoIdleSleeper needs to know that a worker that goes to sleep leaves an  *)
(* empty queue (ParkEmpty): it keeps cv_mt_ from its test to its sleep.    *)
(* TakenInOrder, and that no two workers run the same task, need to know   *)
(* which calls of commit the queued tasks come from (PushedWereCalled): a  *)
(* caller about to push has not pushed this task before.                   *)
(***************************************************************************)
EXTENDS ThreadPool, FiniteSetTheorems, SequenceTheorems, TLAPS

Places == {"loop", "lock", "test", "park", "wait", "late", "woken",
           "take", "run", "after", "exit"}

(* A caller inside commit has a call to make. *)
InCommit ==
    /\ calls \in [Callers -> Nat]
    /\ \A c \in Callers : at[c] # "check" => calls[c] < Len(Calls[c])

(* Caller c has pushed the task of its i-th call, if it has pushed at all. *)
Past(c, i) == i <= calls[c] \/ (i = calls[c] + 1 /\ at[c] = "notify")

PushedWereCalled ==
    \A k \in DOMAIN commits :
       \E c \in Callers : \E i \in DOMAIN Calls[c] : commits[k] = Calls[c][i] /\ Past(c, i)

(* A worker has its task from the queue, and no other worker has it. *)
JobsTaken == \A w \in Workers : job[w] # Main => \E k \in DOMAIN taken : taken[k] = job[w]

JobsDistinct == \A v, w \in Workers : job[v] = job[w] /\ job[v] # Main => v = w

(* A worker that is going to sleep found the queue empty, and it still is. *)
ParkEmpty == \A w \in Workers : pc[w] = "park" => tasks = <<>>

IInv == /\ TypeOK
        /\ InCommit
        /\ PushedWereCalled
        /\ TakenInOrder
        /\ JobsTaken
        /\ JobsDistinct
        /\ ParkEmpty
        /\ IsFiniteSet(Notifying)
        /\ NoIdleSleeper
-----------------------------------------------------------------------------
(* The invariant holds when the pool is made. *)
LEMMA InitInv == PoolInit => IInv
<1> SUFFICES ASSUME PoolInit PROVE IInv
  OBVIOUS
<1> USE PoolAssumption DEF PoolInit
<1>1. TypeOK
  <2>1. tasks \in Seq(Tasks) /\ commits \in Seq(Tasks) /\ taken \in Seq(Tasks)
    OBVIOUS
  <2>2. /\ pc \in [Workers -> {"loop", "lock", "test", "park", "wait", "late", "woken",
                               "take", "run", "after", "exit"}]
        /\ job \in [Workers -> Callers]
        /\ at \in [Callers -> {"check", "push", "notify"}]
        /\ fut \in [Tasks -> {"none", "empty", "queued", "running", "done"}]
    BY DEF Callers
  <2>3. \A c \in Callers : calls[c] \in 0 .. Len(Calls[c])
    OBVIOUS
  <2>4. /\ \A w \in Workers : pc[w] \in {"take", "run"} <=> job[w] # Main
        /\ \A t \in Tasks : fut[t] = "running" <=> \E w \in Workers : pc[w] = "run" /\ job[w] = t
    OBVIOUS
  <2>5. QED
    BY <2>1, <2>2, <2>3, <2>4 DEF TypeOK
<1>2. InCommit /\ PushedWereCalled /\ JobsTaken /\ JobsDistinct /\ ParkEmpty
  BY DEF InCommit, PushedWereCalled, JobsTaken, JobsDistinct, ParkEmpty
<1>3. TakenInOrder
  BY DEF TakenInOrder, IsInjective
<1>4. IsFiniteSet(Notifying)
  <2>1. Notifying = {}
    BY DEF Notifying
  <2>2. QED
    BY <2>1, FS_EmptySet
<1>5. NoIdleSleeper
  BY DEF NoIdleSleeper, Waiting
<1>6. QED
  BY <1>1, <1>2, <1>3, <1>4, <1>5 DEF IInv

(* The task a caller is going to queue is not in the queue, nor with a     *)
(* worker, nor was it ever.                                                *)
LEMMA NewCall ==
    ASSUME IInv, NEW c \in Callers, at[c] # "notify", calls[c] < Len(Calls[c])
    PROVE  /\ NextCall(c) \in Tasks /\ NextCall(c) # Main
           /\ \A k \in DOMAIN commits : commits[k] # NextCall(c)
           /\ \A w \in Workers : job[w] # NextCall(c)
<1> USE PoolAssumption
<1>1. /\ calls[c] \in Nat /\ Calls[c] \in Seq(Tasks)
      /\ calls[c] + 1 \in DOMAIN Calls[c]
  BY DEF IInv, InCommit
<1>2. NextCall(c) \in Tasks /\ NextCall(c) # Main
  BY <1>1 DEF NextCall
<1>3. ASSUME NEW k \in DOMAIN commits, commits[k] = NextCall(c) PROVE FALSE
  <2>1. PICK d \in Callers : \E i \in DOMAIN Calls[d] : commits[k] = Calls[d][i] /\ Past(d, i)
    BY <1>3 DEF IInv, PushedWereCalled
  <2>2. PICK i \in DOMAIN Calls[d] : commits[k] = Calls[d][i] /\ Past(d, i)
    BY <2>1
  <2>3. Calls[d][i] = Calls[c][calls[c] + 1]
    BY <1>3, <2>2 DEF NextCall
  <2>4. d = c /\ i = calls[c] + 1
    BY <1>1, <2>3
  <2>5. QED
    BY <1>1, <2>2, <2>4 DEF Past
<1>4. ASSUME NEW w \in Workers, job[w] = NextCall(c) PROVE FALSE
  <2>1. PICK k \in DOMAIN taken : taken[k] = NextCall(c)
    BY <1>2, <1>4 DEF IInv, JobsTaken
  <2>2. k \in DOMAIN commits /\ commits[k] = taken[k]
    BY <2>1 DEF IInv, TypeOK, TakenInOrder
  <2>3. QED
    BY <1>3, <2>1, <2>2
<1>5. QED
  BY <1>2, <1>3, <1>4

(* Workers are finitely many, and so are those on their way to the queue. *)
LEMMA ComingFinite == IsFiniteSet(Coming) /\ Cardinality(Coming) \in Nat
<1>1. Coming \in SUBSET Workers
  BY DEF Coming
<1>2. QED
  BY <1>1, PoolAssumption, FS_Subset, FS_CardinalityType

(* A worker that comes or goes changes their number by one. *)
LEMMA ComingStep ==
    ASSUME NEW w \in Workers, pc \in [Workers -> Places], NEW to \in Places,
           pc' = [pc EXCEPT ![w] = to]
    PROVE  /\ Cardinality(Coming') \in Nat
           /\ to \in {"after", "loop", "lock", "test", "woken"} /\ w \notin Coming
                 => Cardinality(Coming') = Cardinality(Coming) + 1
           /\ to \in {"after", "loop", "lock", "test", "woken"}
                 => Cardinality(Coming') >= Cardinality(Coming)
           /\ w \notin Coming => Cardinality(Coming') >= Cardinality(Coming)
           /\ Cardinality(Coming') >= Cardinality(Coming) - 1
<1>1. IsFiniteSet(Coming) /\ Cardinality(Coming) \in Nat
  BY ComingFinite
<1>2. CASE to \in {"after", "loop", "lock", "test", "woken"}
  <2>1. Coming' = Coming \cup {w}
    BY <1>2 DEF Coming
  <2>2. QED
    BY <1>1, <1>2, <2>1, FS_AddElement
<1>3. CASE to \notin {"after", "loop", "lock", "test", "woken"}
  <2>1. Coming' = Coming \ {w}
    BY <1>3 DEF Coming
  <2>2. IsFiniteSet(Coming') /\ Cardinality(Coming') \in Nat
    BY <1>1, <2>1, FS_RemoveElement, FS_CardinalityType
  <2>3. QED
    BY <1>1, <1>3, <2>1, <2>2, FS_RemoveElement
<1>4. QED
  BY <1>2, <1>3
-----------------------------------------------------------------------------
(* A worker that goes on without touching the queue or a task. *)
LEMMA MoveInv ==
    ASSUME IInv, NEW w \in Workers, NEW from, NEW to, Move(w, from, to),
           from \notin {"take", "run"},
           to \in {"loop", "lock", "test", "park", "wait", "late", "woken", "after", "exit"},
           to = "park" => tasks = <<>>,
           NoIdleSleeper'
    PROVE  IInv'
<1>1. /\ pc' = [pc EXCEPT ![w] = to] /\ pc[w] = from
      /\ UNCHANGED <<stop, tasks, job, at, calls, fut, main_thread, commits, taken>>
  BY DEF Move, callVars
<1>2. TypeOK'
  <2>1. pc' \in [Workers -> {"loop", "lock", "test", "park", "wait", "late", "woken",
                               "take", "run", "after", "exit"}]
    BY <1>1 DEF IInv, TypeOK
  <2>2. \A v \in Workers : /\ pc'[v] = "run" <=> pc[v] = "run"
                           /\ pc'[v] = "take" <=> pc[v] = "take"
    BY <1>1 DEF IInv, TypeOK
  <2>3. QED
    BY <1>1, <2>1, <2>2 DEF IInv, TypeOK
<1>3. InCommit' /\ PushedWereCalled' /\ TakenInOrder' /\ JobsTaken' /\ JobsDistinct'
  <2>1. InCommit'
    BY <1>1 DEF IInv, InCommit
  <2>2. PushedWereCalled'
    BY <1>1 DEF IInv, PushedWereCalled, Past
  <2>3. TakenInOrder'
    BY <1>1 DEF IInv, TakenInOrder
  <2>4. JobsTaken' /\ JobsDistinct'
    BY <1>1 DEF IInv, JobsTaken, JobsDistinct
  <2>5. QED
    BY <2>1, <2>2, <2>3, <2>4
<1>4. ParkEmpty'
  BY <1>1 DEF IInv, TypeOK, ParkEmpty
<1>5. IsFiniteSet(Notifying')
  BY <1>1 DEF IInv, Notifying
<1>6. QED
  BY <1>2, <1>3, <1>4, <1>5 DEF IInv

(* What NoIdleSleeper says, with the numbers typed. *)
LEMMA Counts ==
    ASSUME IInv
    PROVE  /\ Cardinality(Coming) \in Nat /\ Cardinality(Notifying) \in Nat
           /\ Len(tasks) \in Nat
           /\ pc \in [Workers -> Places]
  BY ComingFinite, FS_CardinalityType DEF IInv, TypeOK, Places

(* More workers on their way, and the same queue. *)
LEMMA SleeperKept ==
    ASSUME IInv, UNCHANGED <<stop, tasks, at>>, NEW w \in Workers, NEW to \in Places,
           pc' = [pc EXCEPT ![w] = to], to \notin {"wait", "late"},
           to \in {"after", "loop", "lock", "test", "woken"} \/ w \notin Coming
    PROVE  NoIdleSleeper'
<1>1. Cardinality(Coming') \in Nat /\ Cardinality(Coming') >= Cardinality(Coming)
  BY ComingStep, Counts
<1>2. Notifying' = Notifying
  BY DEF Notifying
<1>3. Waiting' # {} => Waiting # {}
  BY Counts DEF Waiting
<1>4. QED
  BY <1>1, <1>2, <1>3, Counts DEF IInv, NoIdleSleeper

(* What a worker does without taking or ending a task keeps the invariant. *)
LEMMA WorkerMoves ==
    ASSUME IInv, NEW w \in Workers,
           Loop(w) \/ Acquire(w) \/ TestEmpty(w) \/ Sleep(w) \/ After(w) \/ Spurious(w)
    PROVE  IInv'
<1>1. CASE Loop(w)
  <2>1. CASE stop
    <3>1. NoIdleSleeper'
      BY <1>1, <2>1 DEF Loop, Move, NoIdleSleeper
    <3>2. QED
      BY <1>1, <2>1, <3>1, MoveInv DEF Loop
  <2>2. CASE ~stop
    <3>1. NoIdleSleeper'
      BY <1>1, <2>2, SleeperKept DEF Places, Loop, Move, callVars
    <3>2. QED
      BY <1>1, <2>2, <3>1, MoveInv DEF Loop
  <2>3. QED
    BY <2>1, <2>2
<1>2. CASE Acquire(w)
  <2>1. NoIdleSleeper'
    BY <1>2, SleeperKept DEF Places, Acquire, Move, callVars
  <2>2. QED
    BY <1>2, <2>1, MoveInv DEF Acquire
<1>3. CASE TestEmpty(w)
  <2>1. Len(tasks') = 0
    BY <1>3 DEF TestEmpty, Move
  <2>2. NoIdleSleeper'
    <3>1. IsFiniteSet(Notifying')
      BY <1>3 DEF TestEmpty, Move, callVars, IInv, Notifying
    <3>2. Cardinality(Notifying') \in Nat /\ Cardinality(Coming') \in Nat
      BY <3>1, <1>3, ComingStep, Counts, FS_CardinalityType DEF Places, TestEmpty, Move
    <3>3. QED
      BY <2>1, <3>2 DEF NoIdleSleeper
  <2>3. QED
    BY <1>3, <2>2, MoveInv DEF TestEmpty
<1>4. CASE Sleep(w)
  <2>1. Len(tasks') = 0
    BY <1>4 DEF Sleep, Move, IInv, ParkEmpty
  <2>2. NoIdleSleeper'
    <3>1. IsFiniteSet(Notifying')
      BY <1>4 DEF Sleep, Move, callVars, IInv, Notifying
    <3>2. Cardinality(Notifying') \in Nat /\ Cardinality(Coming') \in Nat
      BY <3>1, <1>4, ComingStep, Counts, FS_CardinalityType DEF Places, Sleep, Move
    <3>3. QED
      BY <2>1, <3>2 DEF NoIdleSleeper
  <2>3. QED
    BY <1>4, <2>2, MoveInv DEF Sleep
<1>5. CASE After(w)
  <2>1. NoIdleSleeper'
    BY <1>5, SleeperKept DEF Places, After, Move, callVars
  <2>2. QED
    BY <1>5, <2>1, MoveInv DEF After
<1>6. CASE Spurious(w)
  <2>1. NoIdleSleeper'
    BY <1>6, SleeperKept DEF Places, Spurious, Move, callVars
  <2>2. QED
    BY <1>6, <2>1, MoveInv DEF Spurious
<1>7. QED
  BY <1>1, <1>2, <1>3, <1>4, <1>5, <1>6
-----------------------------------------------------------------------------
(* The queue and what was taken from it, when its front is taken: the      *)
(* front was never taken before.                                           *)
LEMMA TakeOrder ==
    ASSUME IInv, NEW w \in Workers, Take(w)
    PROVE  /\ tasks \in Seq(Tasks) /\ tasks # <<>> /\ Head(tasks) \in Tasks
           /\ tasks' \in Seq(Tasks) /\ taken' \in Seq(Tasks) /\ commits' = commits
           /\ Len(tasks') = Len(tasks) - 1
           /\ taken' = Append(taken, Head(tasks))
           /\ TakenInOrder'
           /\ \A k \in DOMAIN taken : taken[k] # Head(tasks)
<1>1. /\ tasks \in Seq(Tasks) /\ taken \in Seq(Tasks) /\ commits \in Seq(Tasks)
      /\ tasks # <<>> /\ tasks' = Tail(tasks) /\ taken' = Append(taken, Head(tasks))
      /\ commits' = commits
  BY DEF IInv, TypeOK, Take
<1>2. Head(tasks) \in Tasks /\ Tail(tasks) \in Seq(Tasks) /\ Len(tasks') = Len(tasks) - 1
  BY <1>1
<1>3. taken' \in Seq(Tasks)
  BY <1>1, <1>2
<1>4. taken \o tasks = taken' \o tasks'
  <2>1. taken \o tasks \in Seq(Tasks) /\ taken' \o tasks' \in Seq(Tasks)
    BY <1>1, <1>2, <1>3
  <2>2. Len(taken \o tasks) = Len(taken' \o tasks')
    BY <1>1, <1>2, <1>3
  <2>3. ASSUME NEW i \in 1 .. Len(taken \o tasks)
        PROVE  (taken \o tasks)[i] = (taken' \o tasks')[i]
    BY <1>1, <1>2, <1>3
  <2>4. QED
    BY <2>1, <2>2, <2>3, SeqEqual
<1>5. TakenInOrder'
  BY <1>1, <1>4 DEF IInv, TakenInOrder
<1>6. ASSUME NEW k \in DOMAIN taken, taken[k] = Head(tasks) PROVE FALSE
  <2>1. commits = taken \o tasks /\ \A i, j \in DOMAIN commits : commits[i] = commits[j] => i = j
    BY DEF IInv, TakenInOrder, IsInjective
  <2>2. k \in DOMAIN commits /\ commits[k] = taken[k] /\ k \in 1 .. Len(taken)
    BY <1>1, <2>1
  <2>3. Len(taken) + 1 \in DOMAIN commits /\ commits[Len(taken) + 1] = Head(tasks)
    BY <1>1, <2>1
  <2>4. k # Len(taken) + 1
    BY <1>1, <2>2
  <2>5. QED
    BY <1>6, <2>1, <2>2, <2>3, <2>4
<1>7. QED
  BY <1>1, <1>2, <1>3, <1>5, <1>6

(* Taking a task off the queue keeps the invariant. *)
LEMMA TakeInv ==
    ASSUME IInv, NEW w \in Workers, Take(w)
    PROVE  IInv'
<1> USE PoolAssumption
<1>1. /\ pc[w] = "test" /\ pc' = [pc EXCEPT ![w] = "take"]
      /\ job' = [job EXCEPT ![w] = Head(tasks)]
      /\ stop' = stop /\ at' = at /\ calls' = calls /\ fut' = fut /\ main_thread' = main_thread
  BY DEF Take, callVars
<1>2. /\ tasks # <<>> /\ Head(tasks) \in Tasks
      /\ tasks' \in Seq(Tasks) /\ taken' \in Seq(Tasks) /\ commits' = commits
      /\ Len(tasks') = Len(tasks) - 1
      /\ taken' = Append(taken, Head(tasks))
      /\ TakenInOrder'
      /\ \A k \in DOMAIN taken : taken[k] # Head(tasks)
  BY TakeOrder
<1>3. pc \in [Workers -> Places] /\ job \in [Workers -> Callers]
  BY DEF IInv, TypeOK, Places
<1>4. TypeOK'
  <2>1. pc' \in [Workers -> Places] /\ job' \in [Workers -> Callers]
    BY <1>1, <1>2, <1>3 DEF Places, Callers
  <2>2. \A v \in Workers : pc'[v] \in {"take", "run"} <=> job'[v] # Main
    BY <1>1, <1>2, <1>3 DEF IInv, TypeOK
  <2>3. \A t \in Tasks : fut'[t] = "running" <=> \E v \in Workers : pc'[v] = "run" /\ job'[v] = t
    <3>1. \A v \in Workers : pc'[v] = "run" <=> pc[v] = "run"
      BY <1>1, <1>3
    <3>2. \A v \in Workers : pc[v] = "run" => job'[v] = job[v]
      BY <1>1, <1>3
    <3>3. QED
      BY <1>1, <3>1, <3>2 DEF IInv, TypeOK
  <2>4. QED
    BY <1>1, <1>2, <2>1, <2>2, <2>3 DEF IInv, TypeOK, Places
<1>5. InCommit'
  BY <1>1 DEF IInv, InCommit
<1>6. PushedWereCalled'
  BY <1>1, <1>2 DEF IInv, PushedWereCalled, Past
<1>7. JobsTaken'
  <2>1. taken \in Seq(Tasks)
    BY DEF IInv, TypeOK
  <2>2. ASSUME NEW v \in Workers, job'[v] # Main
        PROVE  \E k \in DOMAIN taken' : taken'[k] = job'[v]
    <3>1. CASE v = w
      <4>1. Len(taken) + 1 \in DOMAIN taken' /\ taken'[Len(taken) + 1] = Head(tasks)
        BY <1>2, <2>1
      <4>2. job'[v] = Head(tasks)
        BY <1>1, <1>3, <3>1
      <4>3. QED
        BY <4>1, <4>2
    <3>2. CASE v # w
      <4>1. PICK k \in DOMAIN taken : taken[k] = job[v]
        BY <1>1, <1>3, <2>2, <3>2 DEF IInv, JobsTaken
      <4>2. k \in DOMAIN taken' /\ taken'[k] = taken[k]
        BY <1>2, <2>1, <4>1
      <4>3. QED
        BY <1>1, <1>3, <3>2, <4>1, <4>2
    <3>3. QED
      BY <3>1, <3>2
  <2>3. QED
    BY <2>2 DEF JobsTaken
<1>8. JobsDistinct'
  <2>1. \A v \in Workers : job[v] # Head(tasks)
    BY <1>2 DEF IInv, JobsTaken
  <2>2. \A v \in Workers : job'[v] = IF v = w THEN Head(tasks) ELSE job[v]
    BY <1>1, <1>3
  <2>3. QED
    BY <2>1, <2>2 DEF IInv, JobsDistinct
<1>9. ParkEmpty'
  BY <1>1, <1>2, <1>3 DEF IInv, ParkEmpty
<1>10. Notifying' = Notifying
  BY <1>1 DEF Notifying
<1>11. NoIdleSleeper'
  <2>1. Cardinality(Coming') \in Nat /\ Cardinality(Coming') >= Cardinality(Coming) - 1
    BY <1>1, <1>3, ComingStep DEF Places
  <2>2. Waiting' = Waiting
    BY <1>1, <1>3 DEF Waiting
  <2>3. QED
    BY <1>1, <1>2, <1>10, <2>1, <2>2, Counts DEF IInv, NoIdleSleeper
<1>12. QED
  BY <1>2, <1>4, <1>5, <1>6, <1>7, <1>8, <1>9, <1>10, <1>11 DEF IInv

(* A task begins or ends: the queue and the callers are as they were. *)
LEMMA BeginInv ==
    ASSUME IInv, NEW w \in Workers, Begin(w)
    PROVE  IInv'
<1> USE PoolAssumption
<1>1. /\ pc[w] = "take" /\ pc' = [pc EXCEPT ![w] = "run"]
      /\ fut' = [fut EXCEPT ![job[w]] = "running"]
      /\ UNCHANGED <<stop, tasks, job, at, calls, main_thread, commits, taken>>
  BY DEF Begin, callVars
<1>2. /\ pc \in [Workers -> Places] /\ job \in [Workers -> Callers]
      /\ fut \in [Tasks -> {"none", "empty", "queued", "running", "done"}]
      /\ job[w] \in Tasks
  BY <1>1 DEF IInv, TypeOK, Places, Callers
<1>3. TypeOK'
  <2>1. /\ pc' \in [Workers -> Places]
        /\ fut' \in [Tasks -> {"none", "empty", "queued", "running", "done"}]
    BY <1>1, <1>2 DEF Places
  <2>2. \A v \in Workers : pc'[v] \in {"take", "run"} <=> job'[v] # Main
    BY <1>1, <1>2 DEF IInv, TypeOK
  <2>3. \A t \in Tasks : fut'[t] = "running" <=> \E v \in Workers : pc'[v] = "run" /\ job'[v] = t
    <3>1. \A v \in Workers : pc'[v] = "run" <=> pc[v] = "run" \/ v = w
      BY <1>1, <1>2
    <3>2. \A t \in Tasks : fut'[t] = "running" <=> fut[t] = "running" \/ t = job[w]
      BY <1>1, <1>2
    <3>3. QED
      BY <1>1, <3>1, <3>2 DEF IInv, TypeOK
  <2>4. QED
    BY <1>1, <2>1, <2>2, <2>3 DEF IInv, TypeOK, Places
<1>4. InCommit' /\ JobsTaken' /\ JobsDistinct'
  BY <1>1 DEF IInv, InCommit, JobsTaken, JobsDistinct
<1>5. PushedWereCalled'
  BY <1>1 DEF IInv, PushedWereCalled, Past
<1>6. TakenInOrder'
  BY <1>1 DEF IInv, TakenInOrder
<1>7. ParkEmpty'
  BY <1>1, <1>2 DEF IInv, ParkEmpty
<1>8. Notifying' = Notifying
  BY <1>1 DEF Notifying
<1>9. NoIdleSleeper'
  <2>1. w \notin Coming
    BY <1>1 DEF Coming
  <2>2. QED
    BY <1>1, <2>1, SleeperKept DEF Places
<1>10. QED
  BY <1>3, <1>4, <1>5, <1>6, <1>7, <1>8, <1>9 DEF IInv

(* Ending a task keeps the invariant. *)
LEMMA EndInv ==
    ASSUME IInv, NEW w \in Workers, End(w)
    PROVE  IInv'
<1> USE PoolAssumption
<1>1. /\ pc[w] = "run" /\ pc' = [pc EXCEPT ![w] = "after"]
      /\ fut' = [fut EXCEPT ![job[w]] = "done"]
      /\ job' = [job EXCEPT ![w] = Main]
      /\ UNCHANGED <<stop, tasks, at, calls, main_thread, commits, taken>>
  BY DEF End, callVars
<1>2. /\ pc \in [Workers -> Places] /\ job \in [Workers -> Callers]
      /\ fut \in [Tasks -> {"none", "empty", "queued", "running", "done"}]
      /\ job[w] \in Tasks
  BY <1>1 DEF IInv, TypeOK, Places, Callers
<1>3. TypeOK'
  <2>1. /\ pc' \in [Workers -> Places] /\ job' \in [Workers -> Callers]
        /\ fut' \in [Tasks -> {"none", "empty", "queued", "running", "done"}]
    BY <1>1, <1>2 DEF Places, Callers
  <2>2. \A v \in Workers : pc'[v] \in {"take", "run"} <=> job'[v] # Main
    BY <1>1, <1>2 DEF IInv, TypeOK
  <2>3. \A t \in Tasks : fut'[t] = "running" <=> \E v \in Workers : pc'[v] = "run" /\ job'[v] = t
    <3>1. \A v \in Workers : pc'[v] = "run" <=> pc[v] = "run" /\ v # w
      BY <1>1, <1>2
    <3>2. \A t \in Tasks : fut'[t] = "running" <=> fut[t] = "running" /\ t # job[w]
      BY <1>1, <1>2
    <3>3. \A v \in Workers : v # w => job'[v] = job[v]
      BY <1>1, <1>2
    <3>4. \A v \in Workers : job[v] = job[w] => v = w
      BY <1>2 DEF IInv, JobsDistinct
    <3>5. QED
      BY <1>1, <3>1, <3>2, <3>3, <3>4 DEF IInv, TypeOK
  <2>4. QED
    BY <1>1, <2>1, <2>2, <2>3 DEF IInv, TypeOK, Places
<1>4. InCommit'
  BY <1>1 DEF IInv, InCommit
<1>5. JobsTaken' /\ JobsDistinct'
  <2>1. \A v \in Workers : job'[v] = IF v = w THEN Main ELSE job[v]
    BY <1>1, <1>2
  <2>2. QED
    BY <1>1, <2>1 DEF IInv, JobsTaken, JobsDistinct
<1>6. PushedWereCalled'
  BY <1>1 DEF IInv, PushedWereCalled, Past
<1>7. TakenInOrder'
  BY <1>1 DEF IInv, TakenInOrder
<1>8. ParkEmpty'
  BY <1>1, <1>2 DEF IInv, ParkEmpty
<1>9. Notifying' = Notifying
  BY <1>1 DEF Notifying
<1>10. NoIdleSleeper'
  BY <1>1, SleeperKept DEF Places
<1>11. QED
  BY <1>3, <1>4, <1>5, <1>6, <1>7, <1>8, <1>9, <1>10 DEF IInv
-----------------------------------------------------------------------------
(* What the calls of commit leave of TypeOK to each of its parts. *)
LEMMA CommitTypes ==
    ASSUME IInv, UNCHANGED <<stop, job, main_thread>>,
           NEW c \in Callers, at[c] # "notify", calls[c] < Len(Calls[c]),
           pc' = pc, NEW f \in {"empty", "queued"},
           fut' = fut \/ fut' = [fut EXCEPT ![NextCall(c)] = f]
    PROVE  /\ fut' \in [Tasks -> {"none", "empty", "queued", "running", "done"}]
           /\ \A t \in Tasks : fut'[t] = "running" <=> \E w \in Workers : pc'[w] = "run" /\ job'[w] = t
<1>1. NextCall(c) \in Tasks /\ \A w \in Workers : job[w] # NextCall(c)
  BY NewCall
<1>2. CASE fut' = fut
  BY <1>2 DEF IInv, TypeOK
<1>3. CASE fut' = [fut EXCEPT ![NextCall(c)] = f]
  <2>1. fut' \in [Tasks -> {"none", "empty", "queued", "running", "done"}]
    BY <1>1, <1>3 DEF IInv, TypeOK
  <2>2. \A t \in Tasks : fut'[t] = IF t = NextCall(c) THEN f ELSE fut[t]
    BY <1>1, <1>3 DEF IInv, TypeOK
  <2>3. QED
    BY <1>1, <2>1, <2>2 DEF IInv, TypeOK
<1>4. QED
  BY <1>2, <1>3

(* The test of stop_ in commit keeps the invariant. *)
LEMMA CommitCheckInv ==
    ASSUME IInv, NEW c \in Callers, CommitCheck(c)
    PROVE  IInv'
<1> USE PoolAssumption
<1>1. /\ at[c] = "check" /\ calls[c] < Len(Calls[c])
      /\ \/ fut' = [fut EXCEPT ![NextCall(c)] = "empty"] /\ calls' = Called(c) /\ at' = at
         \/ at' = [at EXCEPT ![c] = "push"] /\ fut' = fut /\ calls' = calls
      /\ UNCHANGED <<stop, tasks, pc, job, main_thread, commits, taken>>
  BY DEF CommitCheck
<1>2. /\ at \in [Callers -> {"check", "push", "notify"}] /\ calls \in [Callers -> Nat]
      /\ Calls \in [Callers -> Seq(Tasks)]
  BY DEF IInv, TypeOK, InCommit
<1>3. /\ at' \in [Callers -> {"check", "push", "notify"}]
      /\ \A d \in Callers : at'[d] = "notify" <=> at[d] = "notify"
      /\ \A d \in Callers : at'[d] = "check" <=> at[d] = "check" /\ (d # c \/ at' = at)
  BY <1>1, <1>2
<1>4. /\ calls' \in [Callers -> Nat]
      /\ \A d \in Callers : /\ calls[d] \in Nat /\ Len(Calls[d]) \in Nat
                            /\ \/ calls'[d] = calls[d]
                               \/ d = c /\ at' = at /\ calls'[d] = calls[d] + 1
  BY <1>1, <1>2 DEF Called
<1>5. /\ fut' \in [Tasks -> {"none", "empty", "queued", "running", "done"}]
      /\ \A t \in Tasks : fut'[t] = "running" <=> \E w \in Workers : pc'[w] = "run" /\ job'[w] = t
  BY <1>1, CommitTypes
<1>6. TypeOK'
  <2>1. \A d \in Callers : calls'[d] \in 0 .. Len(Calls[d])
    BY <1>1, <1>4 DEF IInv, TypeOK
  <2>2. QED
    BY <1>1, <1>3, <1>5, <2>1 DEF IInv, TypeOK
<1>7. InCommit'
  BY <1>1, <1>3, <1>4 DEF IInv, InCommit
<1>8. PushedWereCalled'
  <2>1. \A d \in Callers : \A i \in DOMAIN Calls[d] : Past(d, i) => Past(d, i)'
    BY <1>1, <1>2, <1>3, <1>4 DEF Past
  <2>2. QED
    BY <1>1, <2>1 DEF IInv, PushedWereCalled
<1>9. TakenInOrder'
  BY <1>1 DEF IInv, TakenInOrder
<1>10. JobsTaken' /\ JobsDistinct' /\ ParkEmpty'
  BY <1>1 DEF IInv, JobsTaken, JobsDistinct, ParkEmpty
<1>11. Notifying' = Notifying
  BY <1>3 DEF Notifying
<1>12. Coming' = Coming /\ Waiting' = Waiting
  BY <1>1 DEF Coming, Waiting
<1>13. NoIdleSleeper'
  BY <1>1, <1>11, <1>12 DEF IInv, NoIdleSleeper
<1>14. QED
  BY <1>6, <1>7, <1>8, <1>9, <1>10, <1>11, <1>13 DEF IInv

(* The push of commit keeps the invariant. *)
LEMMA CommitPushInv ==
    ASSUME IInv, NEW c \in Callers, CommitPush(c)
    PROVE  IInv'
<1> DEFINE n == NextCall(c)
<1>1. /\ at[c] = "push" /\ MutexFree
      /\ tasks' = Append(tasks, n) /\ commits' = Append(commits, n)
      /\ fut' = [fut EXCEPT ![n] = "queued"]
      /\ at' = [at EXCEPT ![c] = "notify"]
      /\ UNCHANGED <<stop, pc, job, calls, main_thread, taken>>
  BY DEF CommitPush
<1>2. /\ at \in [Callers -> {"check", "push", "notify"}] /\ calls \in [Callers -> Nat]
      /\ Calls \in [Callers -> Seq(Tasks)]
      /\ tasks \in Seq(Tasks) /\ commits \in Seq(Tasks) /\ taken \in Seq(Tasks)
      /\ calls[c] < Len(Calls[c])
  BY <1>1, PoolAssumption DEF IInv, TypeOK, InCommit
<1>3. n \in Tasks /\ \A k \in DOMAIN commits : commits[k] # n
  BY <1>1, <1>2, NewCall
<1>4. /\ at' \in [Callers -> {"check", "push", "notify"}]
      /\ \A d \in Callers : at'[d] = IF d = c THEN "notify" ELSE at[d]
  BY <1>1, <1>2
<1>5. tasks' \in Seq(Tasks) /\ commits' \in Seq(Tasks) /\ Len(tasks') = Len(tasks) + 1
  BY <1>1, <1>2, <1>3
<1>6. TypeOK'
  <2>1. /\ fut' \in [Tasks -> {"none", "empty", "queued", "running", "done"}]
        /\ \A t \in Tasks : fut'[t] = "running" <=> \E w \in Workers : pc'[w] = "run" /\ job'[w] = t
    BY <1>1, <1>2, CommitTypes
  <2>2. QED
    BY <1>1, <1>4, <1>5, <2>1 DEF IInv, TypeOK
<1>7. InCommit'
  BY <1>1, <1>2, <1>4 DEF IInv, InCommit
<1>8. PushedWereCalled'
  <2>1. \A d \in Callers : \A i \in DOMAIN Calls[d] : Past(d, i) => Past(d, i)'
    BY <1>1, <1>2, <1>4 DEF Past
  <2>2. ASSUME NEW k \in DOMAIN commits'
        PROVE  \E d \in Callers : \E i \in DOMAIN Calls[d] : commits'[k] = Calls[d][i] /\ Past(d, i)'
    <3>1. CASE k \in DOMAIN commits
      <4>1. commits'[k] = commits[k]
        BY <1>1, <1>2, <3>1
      <4>2. QED
        BY <2>1, <3>1, <4>1 DEF IInv, PushedWereCalled
    <3>2. CASE k \notin DOMAIN commits
      <4>1. commits'[k] = Calls[c][calls[c] + 1]
        BY <1>1, <1>2, <1>3, <3>2 DEF NextCall
      <4>2. PICK i \in DOMAIN Calls[c] : i = calls[c] + 1
        BY <1>2
      <4>3. Past(c, i)'
        BY <1>1, <1>4, <4>2 DEF Past
      <4>4. QED
        BY <4>1, <4>2, <4>3
    <3>3. QED
      BY <3>1, <3>2
  <2>3. QED
    BY <2>2 DEF PushedWereCalled
<1>9. TakenInOrder'
  <2>1. commits = taken \o tasks /\ \A i, j \in DOMAIN commits : commits[i] = commits[j] => i = j
    BY DEF IInv, TakenInOrder, IsInjective
  <2>2. commits' = taken' \o tasks'
    <3>1. taken' \o tasks' \in Seq(Tasks) /\ Len(commits') = Len(taken' \o tasks')
      BY <1>1, <1>2, <1>5, <2>1
    <3>2. ASSUME NEW i \in 1 .. Len(commits') PROVE commits'[i] = (taken' \o tasks')[i]
      <4>1. Len(commits) = Len(taken) + Len(tasks) /\ Len(taken) \in Nat /\ Len(tasks) \in Nat
        BY <1>2, <2>1
      <4>2. CASE i <= Len(taken)
        BY <1>1, <1>2, <1>3, <2>1, <4>1, <4>2
      <4>3. CASE i > Len(taken) /\ i <= Len(commits)
        BY <1>1, <1>2, <1>3, <2>1, <4>1, <4>3
      <4>4. CASE i = Len(commits) + 1
        BY <1>1, <1>2, <1>3, <2>1, <4>1, <4>4
      <4>5. QED
        BY <1>1, <1>2, <1>3, <4>1, <4>2, <4>3, <4>4
    <3>3. QED
      BY <1>5, <3>1, <3>2, SeqEqual
  <2>3. \A i, j \in DOMAIN commits' : commits'[i] = commits'[j] => i = j
    <3>1. DOMAIN commits' = DOMAIN commits \cup {Len(commits) + 1}
      BY <1>1, <1>2, <1>3
    <3>2. \A i \in DOMAIN commits : commits'[i] = commits[i]
      BY <1>1, <1>2, <1>3
    <3>3. commits'[Len(commits) + 1] = n
      BY <1>1, <1>2, <1>3
    <3>4. QED
      BY <1>3, <2>1, <3>1, <3>2, <3>3
  <2>4. QED
    BY <2>2, <2>3 DEF TakenInOrder, IsInjective
<1>10. JobsTaken' /\ JobsDistinct'
  BY <1>1 DEF IInv, JobsTaken, JobsDistinct
<1>11. ParkEmpty'
  BY <1>1 DEF ParkEmpty, MutexFree
<1>12. /\ IsFiniteSet(Notifying')
       /\ Cardinality(Notifying') \in Nat
       /\ Cardinality(Notifying') = Cardinality(Notifying) + 1
  <2>1. Notifying' = Notifying \cup {c} /\ c \notin Notifying
    BY <1>1, <1>4 DEF Notifying
  <2>2. QED
    BY <2>1, FS_AddElement, FS_CardinalityType DEF IInv
<1>13. NoIdleSleeper'
  <2>1. Coming' = Coming /\ Waiting' = Waiting
    BY <1>1 DEF Coming, Waiting
  <2>2. QED
    BY <1>1, <1>5, <1>12, <2>1, Counts DEF IInv, NoIdleSleeper
<1>14. QED
  BY <1>6, <1>7, <1>8, <1>9, <1>10, <1>11, <1>12, <1>13 DEF IInv

(* notify_one reaches a sleeping worker, or there is none: either way one  *)
(* committer less is owed to the queue.                                    *)
LEMMA CommitNotifyInv ==
    ASSUME IInv, NEW c \in Callers, CommitNotify(c)
    PROVE  IInv'
<1>1. /\ at[c] = "notify" /\ NotifyOne
      /\ at' = [at EXCEPT ![c] = "check"] /\ calls' = Called(c)
      /\ UNCHANGED <<stop, tasks, job, fut, main_thread, commits, taken>>
  BY DEF CommitNotify, NotifyForCommit
<1>2. /\ at \in [Callers -> {"check", "push", "notify"}] /\ calls \in [Callers -> Nat]
      /\ Calls \in [Callers -> Seq(Tasks)]
      /\ pc \in [Workers -> Places] /\ calls[c] < Len(Calls[c])
  BY <1>1, PoolAssumption DEF IInv, TypeOK, InCommit, Places
<1>3. /\ at' \in [Callers -> {"check", "push", "notify"}]
      /\ \A d \in Callers : at'[d] = IF d = c THEN "check" ELSE at[d]
  BY <1>1, <1>2
<1>4. /\ calls' \in [Callers -> Nat]
      /\ \A d \in Callers : calls'[d] = IF d = c THEN calls[d] + 1 ELSE calls[d]
  BY <1>1, <1>2 DEF Called
<1>5. /\ pc' \in [Workers -> Places]
      /\ \A w \in Workers : pc'[w] = pc[w] \/ (w \in Waiting /\ pc'[w] = "woken")
  BY <1>1, <1>2 DEF NotifyOne, Places, Waiting
<1>6. TypeOK'
  <2>1. \A d \in Callers : calls'[d] \in 0 .. Len(Calls[d])
    <3>1. \A d \in Callers : calls[d] \in Nat /\ Len(Calls[d]) \in Nat /\ calls[d] <= Len(Calls[d])
      BY <1>2 DEF IInv, TypeOK
    <3>2. ASSUME NEW d \in Callers PROVE calls'[d] \in 0 .. Len(Calls[d])
      <4>1. CASE d = c
        BY <1>2, <1>4, <3>1, <4>1
      <4>2. CASE d # c
        BY <1>4, <3>1, <4>2
      <4>3. QED
        BY <4>1, <4>2
    <3>3. QED
      BY <3>2
  <2>2. \A w \in Workers : /\ pc'[w] = "run" <=> pc[w] = "run"
                           /\ pc'[w] = "take" <=> pc[w] = "take"
    BY <1>5 DEF Waiting
  <2>3. QED
    BY <1>1, <1>3, <1>5, <2>1, <2>2 DEF IInv, TypeOK, Places
<1>7. InCommit'
  BY <1>3, <1>4 DEF IInv, InCommit
<1>8. PushedWereCalled'
  <2>1. \A d \in Callers : \A i \in DOMAIN Calls[d] : Past(d, i) => Past(d, i)'
    <3>1. ASSUME NEW d \in Callers, NEW i \in DOMAIN Calls[d], Past(d, i) PROVE Past(d, i)'
      <4>1. i \in Nat /\ calls[d] \in Nat
        BY <1>2
      <4>2. CASE d = c
        BY <1>1, <1>4, <3>1, <4>1, <4>2 DEF Past
      <4>3. CASE d # c
        BY <1>3, <1>4, <3>1, <4>1, <4>3 DEF Past
      <4>4. QED
        BY <4>2, <4>3
    <3>2. QED
      BY <3>1
  <2>2. QED
    BY <1>1, <2>1 DEF IInv, PushedWereCalled
<1>9. TakenInOrder'
  BY <1>1 DEF IInv, TakenInOrder
<1>10. JobsTaken' /\ JobsDistinct'
  BY <1>1 DEF IInv, JobsTaken, JobsDistinct
<1>11. ParkEmpty'
  BY <1>1, <1>5 DEF IInv, ParkEmpty
<1>12. /\ IsFiniteSet(Notifying')
       /\ Cardinality(Notifying') \in Nat
       /\ Cardinality(Notifying') = Cardinality(Notifying) - 1
  <2>1. Notifying' = Notifying \ {c} /\ c \in Notifying
    BY <1>1, <1>3 DEF Notifying
  <2>2. QED
    BY <2>1, FS_RemoveElement, FS_CardinalityType DEF IInv
<1>13. NoIdleSleeper'
  <2>1. CASE Waiting = {}
    <3>1. Waiting' = {}
      BY <1>1, <2>1 DEF NotifyOne, Waiting
    <3>2. QED
      BY <3>1 DEF NoIdleSleeper
  <2>2. CASE Waiting # {}
    <3>1. PICK w \in Waiting : pc' = [pc EXCEPT ![w] = "woken"]
      BY <1>1, <2>2 DEF NotifyOne
    <3>2. w \in Workers /\ w \notin Coming
      BY DEF Waiting, Coming
    <3>3. Cardinality(Coming') \in Nat /\ Cardinality(Coming') = Cardinality(Coming) + 1
      BY <1>2, <3>1, <3>2, ComingStep DEF Places
    <3>4. QED
      BY <1>1, <1>12, <2>2, <3>3, Counts DEF IInv, NoIdleSleeper
  <2>3. QED
    BY <2>1, <2>2
<1>14. QED
  BY <1>6, <1>7, <1>8, <1>9, <1>10, <1>11, <1>12, <1>13 DEF IInv
-----------------------------------------------------------------------------
(* Once stop_ is set NoIdleSleeper asks for nothing. *)
LEMMA StopInv ==
    ASSUME IInv, Stop \/ StopNotify \/ StopJoin
    PROVE  IInv'
<1>1. UNCHANGED <<tasks, job, at, calls, fut, commits, taken>>
  BY DEF Stop, StopNotify, StopJoin, callVars
<1>2. pc \in [Workers -> Places]
  BY DEF IInv, TypeOK, Places
<1>3. /\ pc' \in [Workers -> Places]
      /\ \A w \in Workers : pc'[w] = pc[w] \/ (w \in Waiting /\ pc'[w] = "woken")
  BY <1>2 DEF Stop, StopNotify, StopJoin, WakeAll, Places
<1>4. /\ main_thread' \in {"notify", "join", "done"} /\ stop' = TRUE
  BY DEF IInv, TypeOK, Stop, StopNotify, StopJoin
<1>5. TypeOK'
  <2>1. \A w \in Workers : /\ pc'[w] = "run" <=> pc[w] = "run"
                           /\ pc'[w] = "take" <=> pc[w] = "take"
    BY <1>3 DEF Waiting
  <2>2. QED
    BY <1>1, <1>3, <1>4, <2>1 DEF IInv, TypeOK, Places
<1>6. InCommit' /\ JobsTaken' /\ JobsDistinct'
  BY <1>1 DEF IInv, InCommit, JobsTaken, JobsDistinct
<1>7. PushedWereCalled'
  BY <1>1 DEF IInv, PushedWereCalled, Past
<1>8. TakenInOrder'
  BY <1>1 DEF IInv, TakenInOrder
<1>9. ParkEmpty'
  BY <1>1, <1>3 DEF IInv, ParkEmpty
<1>10. Notifying' = Notifying
  BY <1>1 DEF Notifying
<1>11. NoIdleSleeper'
  BY <1>4 DEF NoIdleSleeper
<1>12. QED
  BY <1>5, <1>6, <1>7, <1>8, <1>9, <1>10, <1>11 DEF IInv

(* Steps that change nothing keep the invariant. *)
LEMMA StutterInv == IInv /\ UNCHANGED poolVars => IInv'
<1> SUFFICES ASSUME IInv, UNCHANGED poolVars PROVE IInv'
  OBVIOUS
<1>1. UNCHANGED <<stop, tasks, pc, job, at, calls, fut, main_thread, commits, taken>>
  BY DEF poolVars, callVars
<1>2. TypeOK' /\ InCommit' /\ JobsTaken' /\ JobsDistinct' /\ ParkEmpty'
  BY <1>1, PoolAssumption DEF IInv, TypeOK, InCommit, JobsTaken, JobsDistinct, ParkEmpty
<1>3. PushedWereCalled'
  BY <1>1 DEF IInv, PushedWereCalled, Past
<1>4. TakenInOrder'
  BY <1>1 DEF IInv, TakenInOrder
<1>5. Notifying' = Notifying /\ Coming' = Coming /\ Waiting' = Waiting
  BY <1>1 DEF Notifying, Coming, Waiting
<1>6. QED
  BY <1>1, <1>2, <1>3, <1>4, <1>5 DEF IInv, NoIdleSleeper

(* IInv is inductive: no step of a worker, a committer or of stop breaks   *)
(* it.                                                                     *)
THEOREM Invariance == PoolSpec => []IInv
<1>1. IInv /\ [PoolNext]_poolVars => IInv'
  <2> SUFFICES ASSUME IInv, [PoolNext]_poolVars PROVE IInv'
    OBVIOUS
  <2>1. ASSUME NEW c \in Callers, Commit(c) PROVE IInv'
    BY <2>1, CommitCheckInv, CommitPushInv, CommitNotifyInv DEF Commit
  <2>2. ASSUME NEW w \in Workers, Work(w) \/ Spurious(w) PROVE IInv'
    BY <2>2, WorkerMoves, TakeInv, BeginInv, EndInv DEF Work
  <2>3. QED
    BY <2>1, <2>2, StopInv, StutterInv DEF PoolNext
<1>2. QED
  BY <1>1, InitInv, PTL DEF PoolSpec

(* Every variable keeps its type, stop_ and the main thread's place agree, *)
(* and a future is running exactly while one worker runs its task          *)
(* (ThreadPool.h, the worker loop and commit).                             *)
THEOREM TypeCorrect == PoolSpec => []TypeOK
BY Invariance, PTL DEF IInv

(* The wakeup is never lost although notify_one is called outside the      *)
(* mutex: for any number of workers and committers, a worker sleeps only   *)
(* if each queued task has another worker or a notification on its way.    *)
THEOREM NoLostWakeup == PoolSpec => []NoIdleSleeper
BY Invariance, PTL DEF IInv

(* Every committed task is taken once, by one worker, in commit order. *)
THEOREM EachTakenOnceInOrder == PoolSpec => []TakenInOrder
BY Invariance, PTL DEF IInv

(* No two workers ever hold the same task (tasks_.front is moved out and   *)
(* popped under the mutex).                                                *)
THEOREM OneWorkerPerTask == PoolSpec => []JobsDistinct
BY Invariance, PTL DEF IInv
=============================================================================
