-------------------------- MODULE ConditionPrograms --------------------------
(***************************************************************************)
(* Programs that wait: day05-ConditionVariable, the channel of day08-      *)
(* Actor/CppCSP, the actor chain of day20, the interruptible threads of    *)
(* day23 and the producer and consumer of day24.  A loop without end runs  *)
(* Rounds times.                                                           *)
(***************************************************************************)
EXTENDS Instructions

(* day05: two threads print in turn. *)
Turn(mine, cv, n, other) ==
    Guarded("mtx_num", Wait(cv, "mtx_num", "num" :> ({1, 2} \ {mine}))
                         \o Read("num", "a") \o Check("a", {mine})
                         \o Add("num", n) \o NotifyOne(other))
ResonableImplemention ==
    Just([num |-> 1],
         [main |-> Run(<<"t1", "t2">>),
          t1 |-> Forever(Turn(1, "cvA", 1, "cvB")),
          t2 |-> Forever(Turn(2, "cvB", -1, "cvA"))], {"mtx_num"})

(* threadsafe_queue of day05, in test_safe_que: wait_and_pop of one thread *)
(* and try_pop of another.  Here main pushes one for each round of the     *)
(* first after it has joined the second.                                   *)
NotEmpty == "data_queue" :> {<<>>}
push(v) == Guarded("mut", Push("data_queue", v) \o NotifyOne("data_cond"))
wait_and_pop == Guarded("mut", Wait("data_cond", "mut", NotEmpty) \o PopFront("data_queue", "a"))
try_pop == Guarded("mut", Read("data_queue", "q")
                            \o IfElse("q", {<<>>}, Let("ok", 0),
                                      PopFront("data_queue", "a") \o Let("ok", 1)))
test_safe_que ==
    Just([data_queue |-> <<>>],
         [main |-> StartAll(<<"t1", "t2", "t3">>) \o JoinAll(<<"t1", "t3">>)
                     \o Forever(push(2)) \o Join("t2"),
          t1 |-> push(1) \o push(2),
          t2 |-> Forever(wait_and_pop \o Check("a", {1, 2})),
          t3 |-> Forever(try_pop \o If("ok", {1}, Check("a", {1, 2})))], {"mut"})
-----------------------------------------------------------------------------
(* CppCSP: a channel for one value at a time; one without a buffer behaves *)
(* the same.                                                               *)
Sent == 0..2
Room == ("queue_" :> {<<v>> : v \in Sent}) @@ ("closed_" :> {0})
Data == ("queue_" :> {<<>>}) @@ ("closed_" :> {0})

send(v) == Guarded("mtx_", Wait("cv_producer_", "mtx_", Room) \o Read("closed_", "a")
                             \o If("a", {0}, Push("queue_", v) \o NotifyOne("cv_consumer_")))

(* receive puts whether there was a value into register ok. *)
receive == Guarded("mtx_", Wait("cv_consumer_", "mtx_", Data) \o Read("queue_", "q")
                             \o IfElse("q", {<<>>}, Let("ok", 0),
                                       PopFront("queue_", "a") \o NotifyOne("cv_producer_")
                                         \o Let("ok", 1)))
close == Guarded("mtx_", Write("closed_", 1) \o NotifyAll("cv_producer_")
                           \o NotifyAll("cv_consumer_"))

(* The consumer receives what was sent, in order, and then the end. *)
ChannelMain ==
    Just([queue_ |-> <<>>, closed_ |-> 0],
         [main |-> Run(<<"t1", "t2">>),
          t1 |-> send(0) \o send(1) \o send(2) \o close,
          t2 |-> receive \o Check("a", {0}) \o receive \o Check("a", {1})
                   \o receive \o Check("a", {2}) \o receive \o Check("ok", {0})], {"mtx_"})
-----------------------------------------------------------------------------
(* day24: producer and consumer of a bounded queue, of which the length    *)
(* matters (at most 1 where the code has 100).  The handler of Ctrl-C sets *)
(* b_stop, main sees it and the destructor notifies, both without _mtx.    *)
Full == {2}
UntilStop == Spin("b_stop", {1}, seq_cst, "a")
WhileRunning(code) == Load("b_stop", seq_cst, "a") \o If("a", {0}, code)
Consumer ==
    Forever(WhileRunning(
        Lock("_mtx") \o Wait("_consume_cv", "_mtx", ("_data_que" :> {0}) @@ ("b_stop" :> {0}))
          \o Load("b_stop", seq_cst, "a")
          \o IfElse("a", {1}, Unlock("_mtx"),
                    Add("_data_que", -1) \o Unlock("_mtx") \o NotifyOne("_producer_cv"))))
      \o UntilStop
Producer ==
    Forever(WhileRunning(
        Lock("_mtx") \o Wait("_producer_cv", "_mtx", ("_data_que" :> Full) @@ ("b_stop" :> {0}))
          \o Load("b_stop", seq_cst, "a")
          \o IfElse("a", {1}, Unlock("_mtx"),
                    Add("_data_que", 1) \o Unlock("_mtx") \o NotifyOne("_consume_cv"))))
      \o UntilStop
DestroyMgr == NotifyOne("_consume_cv") \o NotifyOne("_producer_cv")
                \o JoinAll(<<"producer", "consumer">>)
TestProducerConsumer ==
    Just(Zeros({"_data_que", "b_stop"}),
         [main |-> StartAll(<<"consumer", "producer", "handler">>) \o UntilStop \o DestroyMgr,
          handler |-> Store("b_stop", 1, seq_cst), consumer |-> Consumer, producer |-> Producer],
         {"_mtx"})
-----------------------------------------------------------------------------
(* day20: three actors, singletons that are made when they are first used. *)
(* Each queue gets one message; its tail counts what was pushed, under     *)
(* tail_mutex, its head what was popped, under head_mutex.  The actors and *)
(* their mutexes are told apart by the letter c.                           *)
Of(c, x) == c \o x

(* PostMsg touches the actor, which is gone after its destructor. *)
PostMsg(c) == Read(Of(c, "gone"), "b") \o Guarded(Of(c, "tail_mutex"), Add(Of(c, "tail"), 1))
                \o NotifyOne(Of(c, "data_cond"))

get_tail(c) == Guarded(Of(c, "tail_mutex"), Read(Of(c, "tail"), "a"))
WaitAndPop(c) ==
    Lock(Of(c, "head_mutex"))
      \o Waiting(Of(c, "data_cond"), {Of(c, "head_mutex")}, Of(c, "_que_bstop") :> {0},
                 {<<Of(c, "head"), Of(c, "tail")>>}, FALSE)
      \o Load(Of(c, "_que_bstop"), seq_cst, "ok")
      \o IfElse("ok", {1}, Unlock(Of(c, "head_mutex")),
                get_tail(c) \o Add(Of(c, "head"), 1) \o Unlock(Of(c, "head_mutex")))

ActorThread(c, DealMsg) ==
    Load(Of(c, "_bstop"), seq_cst, "a")
      \o If("a", {0}, WaitAndPop(c) \o If("ok", {0}, DealMsg))
      \o Load(Of(c, "_bstop"), seq_cst, "a") \o If("a", {0}, WaitAndPop(c))

NotifyStop(c) == Store(Of(c, "_que_bstop"), 1, seq_cst) \o NotifyOne(Of(c, "data_cond"))
DestroyActor(c) == Store(Of(c, "_bstop"), 1, seq_cst) \o NotifyStop(c) \o Join(c)
                     \o Write(Of(c, "gone"), 1)

(* DealMsg of ClassA posts to ClassB, that of ClassB to ClassC; Inst makes *)
(* the actor and starts its thread.  Static objects are destroyed in the   *)
(* reverse order of their construction, here after ClassC has been made:   *)
(* B and C may be gone when A and B, which are stopped later, post to them.*)
DealMsgA == Start("B") \o PostMsg("B")
DealMsgB == Start("C") \o Store("made", 1, release) \o PostMsg("C")
ActorLocations == {Of(c, x) : c \in {"A", "B", "C"},
                              x \in {"tail", "head", "gone", "_bstop", "_que_bstop"}}
ActorChain ==
    Flawed(Just(Zeros(ActorLocations \cup {"made"}),
                [main |-> Start("A") \o PostMsg("A") \o Spin("made", {1}, acquire, "a")
                            \o DestroyActor("C") \o DestroyActor("B") \o DestroyActor("A"),
                 A |-> ActorThread("A", DealMsgA), B |-> ActorThread("B", DealMsgB),
                 C |-> ActorThread("C", <<>>)],
                {Of(c, x) : c \in {"A", "B", "C"}, x \in {"head_mutex", "tail_mutex"}}),
           {Of("B", "gone"), Of("C", "gone")})
-----------------------------------------------------------------------------
(* day23: interruptible threads.  The flag of a thread is its own: it is   *)
(* gone when the thread ends, which set does not know: it may end while    *)
(* set is at work, or before.  cond is set while the thread waits for the  *)
(* condition variable cv.                                                  *)
set(n, cv) ==
    Read(Of("gone", n), "b") \o Store(Of("flag", n), 1, relaxed)
      \o Guarded(Of("set_clear_mutex", n), Read(Of("cond", n), "a")
                                             \o If("a", {1}, NotifyAll(cv)))
interruption_point(n, rest) == Load(Of("flag", n), relaxed, "a") \o If("a", {0}, rest)

(* interruptible_wait(cv, lk): an exception leaves through the guard. *)
SetCondition(n, v) == Guarded(Of("set_clear_mutex", n), Write(Of("cond", n), v))
interruptible_wait(n, cv, m) ==
    interruption_point(n, SetCondition(n, 1)
                            \o interruption_point(n, WaitFor(cv, m) \o Load(Of("flag", n), relaxed, "a"))
                            \o SetCondition(n, 0))

(* The version with a predicate waits again until that holds. *)
interruptible_wait_pred(n, cv, m, x) ==
    interruption_point(n, SetCondition(n, 1)
      \o DoWhile(Load(Of("flag", n), polled, "a")
                   \o IfElse("a", {0}, Read(x, "b") \o If("b", {0}, WaitFor(cv, m)), Let("b", 1)),
                 "b", {0})
      \o SetCondition(n, 0))

(* The version for condition_variable_any keeps set_clear_mutex until it   *)
(* sleeps, and takes both mutexes when it wakes up.                        *)
wait_any(n, cv, m) ==
    Lock(Of("set_clear_mutex", n)) \o Write(Of("cond", n), 1)
      \o interruption_point(n, WaitAny(cv, {m, Of("set_clear_mutex", n)})
                                 \o Load(Of("flag", n), relaxed, "a"))
      \o Write(Of("cond", n), 0) \o Unlock(Of("set_clear_mutex", n))

(* The constructor waits for the thread to hand over its flag. *)
interruptible_thread(n, t) == Start(t) \o Spin(Of("handed", n), {1}, acquire, "a")
Body(n, code) == Store(Of("handed", n), 1, release) \o code \o Write(Of("gone", n), 1)

InterruptLocations == {Of(x, n) : x \in {"flag", "cond", "gone", "handed"}, n \in {"1", "2"}}
InterruptLocks == {"mtx1", "mtx2"} \cup {Of("set_clear_mutex", n) : n \in {"1", "2"}}

InterruptMain ==
    Flawed(Just(Zeros(InterruptLocations),
                [main |-> interruptible_thread("1", "t1") \o interruptible_thread("2", "t2")
                            \o set("1", "cv1") \o set("2", "cv2") \o JoinAll(<<"t1", "t2">>),
                 t1 |-> Body("1", Guarded("mtx1", interruptible_wait("1", "cv1", "mtx1"))),
                 t2 |-> Body("2", Guarded("mtx2", wait_any("2", "cv2", "mtx2")))],
                InterruptLocks), {Of("gone", "1"), Of("gone", "2")})

(* A thread that waits for a predicate nobody makes true, interrupted. *)
InterruptPredicate ==
    Flawed(Just(Zeros(InterruptLocations \cup {"pred"}),
                [main |-> interruptible_thread("1", "t1") \o set("1", "cv1") \o Join("t1"),
                 t1 |-> Body("1", Guarded("mtx1",
                                          interruptible_wait_pred("1", "cv1", "mtx1", "pred")))],
                InterruptLocks), {Of("gone", "1")})

ConditionDemos ==
    [ResonableImplemention |-> ResonableImplemention, test_safe_que |-> test_safe_que,
     ChannelMain |-> ChannelMain, TestProducerConsumer |-> TestProducerConsumer,
     ActorChain |-> ActorChain, InterruptMain |-> InterruptMain,
     InterruptPredicate |-> InterruptPredicate]
=============================================================================
