-------------------------- MODULE ContainerPrograms --------------------------
(***************************************************************************)
(* The containers that day02, day12, day14, day15 and day16 protect with   *)
(* mutexes or with a few atomics, and day18's queue for one producer and   *)
(* one consumer, in the test programs of those days and in small programs  *)
(* that use them from several threads.  An element is a number; seen       *)
(* counts how often each was taken out.                                    *)
(***************************************************************************)
EXTENDS Instructions

Elements == 1..3
Seen == [v \in Elements |-> "seen" \o ToString(v)]
Take(r) == Indexed(Add("", 1), Seen, r)
TakenOnce(v) == Read(Seen[v], "a") \o Check("a", {1})
BothTaken == TakenOnce(1) \o TakenOnce(2)
SeenLocations == {Seen[v] : v \in Elements}

(* Pairs of numbers from which Compute gets whether they are equal.        *)
Small == 0..4
Equal == [p \in Small \X Small |-> IF p[1] = p[2] THEN 1 ELSE 0]
-----------------------------------------------------------------------------
(* day02: between empty and pop another thread can take the last element;  *)
(* the second version answers with a null pointer instead (ok is 0).       *)
stack_push(v) == Guarded("m", Push("data", v))
stack_empty == Guarded("m", Read("data", "q"))
stack_pop1 == Guarded("m", PopBack("data", "a"))
stack_pop == Guarded("m", Read("data", "q") \o IfElse("q", {<<>>}, Let("ok", 0),
                                                      PopBack("data", "a") \o Let("ok", 1)))
IfNotEmpty(code) == stack_empty \o IfElse("q", {<<>>}, <<>>, code)

test_threadsafe_stack1 ==
    Danger(Just([data |-> <<>>],
                [main |-> stack_push(1) \o Run(<<"t1", "t2">>),
                 t1 |-> IfNotEmpty(stack_pop1), t2 |-> IfNotEmpty(stack_pop1)], {"m"}), {"crash"})

SafeStack ==
    Just(("data" :> <<>>) @@ Zeros(SeenLocations),
         [main |-> stack_push(1) \o stack_push(2) \o Run(<<"t1", "t2">>) \o BothTaken,
          t1 |-> IfNotEmpty(stack_pop \o If("ok", {1}, Take("a"))),
          t2 |-> IfNotEmpty(stack_pop \o If("ok", {1}, Take("a")))], {"m"})
-----------------------------------------------------------------------------
(* day14: two consumers that never end, and a producer; here there are as  *)
(* many elements as rounds.  A container is its push and its wait_and_pop. *)
ConsumerLoop(pop) == Repeat(1, pop \o Take("a"))
Consumers(init, push, pop, locks) ==
    Just(init @@ Zeros(SeenLocations),
         [main |-> StartAll(<<"t1", "t2", "t3">>) \o JoinAll(<<"t1", "t2", "t3">>)
                     \o BothTaken,
          t1 |-> ConsumerLoop(pop), t2 |-> ConsumerLoop(pop), t3 |-> push[1] \o push[2]], locks)
Pushes(P(_)) == [v \in Elements |-> P(v)]

waitable_push(v) == Guarded("m", Push("data", v) \o NotifyOne("cv"))
waitable_wait_and_pop ==
    Guarded("m", Wait("cv", "m", "data" :> {<<>>}) \o PopBack("data", "a"))
TestThreadSafeStack ==
    Consumers("data" :> <<>>, Pushes(waitable_push), waitable_wait_and_pop, {"m"})

que_push(v) == Guarded("mut", Push("data_queue", v) \o NotifyOne("data_cond"))
que_wait_and_pop ==
    Guarded("mut", Wait("data_cond", "mut", "data_queue" :> {<<>>}) \o PopFront("data_queue", "a"))
que_try_pop ==
    Guarded("mut", Read("data_queue", "q") \o IfElse("q", {<<>>}, Let("ok", 0),
                                                     PopFront("data_queue", "a") \o Let("ok", 1)))
TestThreadSafeQue ==
    Consumers("data_queue" :> <<>>, Pushes(que_push), que_wait_and_pop, {"mut"})

(* The queue with a mutex at each end: node i is the i-th one that was     *)
(* made, tail and head are the numbers of the last (empty) and the first.  *)
Node == [i \in 1..3 |-> "node" \o ToString(i)]
ht_push(v) == Guarded("tail_mutex", Read("tail", "a") \o Indexed(Write("", v), Node, "a")
                                      \o Add("tail", 1))
                \o NotifyOne("data_cond")
ht_get_tail == Guarded("tail_mutex", Read("tail", "b"))
ht_pop_head == Read("head", "c") \o Add("head", 1)
ht_wait_and_pop ==
    Guarded("head_mutex",
            Waiting("data_cond", {"head_mutex"}, <<>>, {<<"head", "tail">>}, FALSE)
              \o ht_get_tail \o ht_pop_head)
      \o Indexed(Read("", "a"), Node, "c")
ht_try_pop ==
    Lock("head_mutex") \o Read("head", "c") \o ht_get_tail \o Compute("ok", Equal, "b", "c")
      \o IfElse("ok", {1}, Unlock("head_mutex") \o Let("ok", 0),
                ht_pop_head \o Unlock("head_mutex") \o Indexed(Read("", "a"), Node, "c")
                  \o Let("ok", 1))
HtLocations == [head |-> 1, tail |-> 1] @@ Zeros({Node[i] : i \in DOMAIN Node})
TestThreadSafeQueHt ==
    Consumers(HtLocations, Pushes(ht_push), ht_wait_and_pop, {"head_mutex", "tail_mutex"})

(* The try_pops of both queues against their pushes. *)
TryPops(init, push, try_pop, locks) ==
    Just(init @@ Zeros(SeenLocations),
         [main |-> Run(<<"t1", "t2">>) \o try_pop \o If("ok", {1}, Take("a"))
                     \o try_pop \o If("ok", {1}, Take("a")) \o BothTaken,
          t1 |-> push[1] \o push[2],
          t2 |-> try_pop \o If("ok", {1}, Check("a", {1}) \o Take("a"))], locks)
TryPopQue == TryPops("data_queue" :> <<>>, Pushes(que_push), que_try_pop, {"mut"})
TryPopHt == TryPops(HtLocations, Pushes(ht_push), ht_try_pop, {"head_mutex", "tail_mutex"})
-----------------------------------------------------------------------------
(* day12: rings of max_size slots, one of which stays empty.  A push and a *)
(* pop leave in ok whether they did it, a pop the element in register c.   *)
Slots(size) == 0..(size - 1)
Slot == [i \in 0..2 |-> "slot" \o ToString(i)]
Succ(size) == [i \in Slots(size) |-> (i + 1) % size]
After(size) == [p \in Slots(size) \X Slots(size) |-> Succ(size)[p[1]]]
IsFull(size) == [p \in Slots(size) \X Slots(size) |-> IF Succ(size)[p[1]] = p[2] THEN 1 ELSE 0]
Offered == [v \in Elements |-> "offered" \o ToString(v)]
RingLocations == Zeros({"_head", "_tail", "_tail_update", "_atomic_using"}
                         \cup {Slot[i] : i \in DOMAIN Slot} \cup SeenLocations
                         \cup {Offered[v] : v \in Elements})

(* CircularQueLk and CircularQueSeq: the same with a mutex and with a flag *)
(* that is exchanged until that succeeds.                                  *)
Emplace(size, v, enter, leave) ==
    enter \o Read("_tail", "a") \o Read("_head", "b") \o Compute("ok", IsFull(size), "a", "b")
      \o IfElse("ok", {1}, leave \o Let("ok", 0),
                Indexed(Write("", v), Slot, "a") \o Compute("a", After(size), "a", "a")
                  \o Put("_tail", "a") \o leave \o Let("ok", 1))
PopRing(size, enter, leave) ==
    enter \o Read("_head", "a") \o Read("_tail", "b") \o Compute("ok", Equal, "a", "b")
      \o IfElse("ok", {1}, leave \o Let("ok", 0),
                Indexed(Read("", "c"), Slot, "a") \o Compute("a", After(size), "a", "a")
                  \o Put("_head", "a") \o leave \o Let("ok", 1))
lk_emplace(size, v) == Emplace(size, v, Lock("_mtx"), Unlock("_mtx"))
lk_pop(size) == PopRing(size, Lock("_mtx"), Unlock("_mtx"))
Enter == SpinRmw("_atomic_using", 0 :> 1, seq_cst)
Leave == SpinRmw("_atomic_using", 1 :> 0, seq_cst)
seq_emplace(size, v) == Emplace(size, v, Enter, Leave)
seq_pop(size) == PopRing(size, Enter, Leave)

(* CircularQueLight and CircularQueSync: without a lock, with seq_cst      *)
(* operations and with the weaker ones get, see and set.  A pop reads the  *)
(* slot before it knows that the element is its own.                       *)
PushAtomic(size, v, get, see, set) ==
    DoWhile(Load("_tail", get, "a") \o Load("_head", see, "b")
              \o Compute("ok", IsFull(size), "a", "b")
              \o IfElse("ok", {1}, Let("c", 1),
                        CompareExchange("_tail", "a", Succ(size), set, "ok", FALSE) \o Let("c", 0)
                          \o If("ok", {0}, Let("c", 2))), "c", {2})
      \o IfElse("c", {1}, Let("ok", 0),
                Indexed(Write("", v), Slot, "a")
                  \o CompareExchange("_tail_update", "a", Succ(size), set, "ok", TRUE))
PopAtomic(size, get, see, set) ==
    DoWhile(Load("_head", get, "a") \o Load("_tail", see, "b") \o Compute("ok", Equal, "a", "b")
              \o If("ok", {0}, Load("_tail_update", see, "b") \o Compute("ok", Equal, "a", "b"))
              \o IfElse("ok", {1}, Let("ok", 0) \o Let("b", 0),
                        Indexed(Read("", "c"), Slot, "a")
                          \o CompareExchange("_head", "a", Succ(size), set, "ok", FALSE)
                          \o IfElse("ok", {0}, Let("b", 1), Let("b", 0))), "b", {1})
light_push(size, v) == PushAtomic(size, v, seq_cst, seq_cst, seq_cst)
light_pop(size) == PopAtomic(size, seq_cst, seq_cst, seq_cst)
sync_push(size, v) == PushAtomic(size, v, relaxed, acquire, release)
(* Faulty: the consumer gives the slot back with a relaxed exchange.       *)
sync_pop_relaxed(size) == PopAtomic(size, relaxed, acquire, relaxed)

sync_pop(size) == PopAtomic(size, relaxed, acquire, release)

(* The tests fill and empty a ring, here with two elements, twice or more. *)
Answer(code, ok) == code \o Check("ok", {ok})
FillAndDrain(push(_), pop) ==
    Answer(push(1), 1) \o Answer(push(2), 1) \o Answer(push(3), 0)
      \o Answer(pop, 1) \o Check("c", {1}) \o Answer(pop, 1) \o Check("c", {2}) \o Answer(pop, 0)
TestCircularQue ==
    LET push(v) == lk_emplace(3, v)
    IN  Just(RingLocations, [main |-> FillAndDrain(push, lk_pop(3))], {"_mtx"})
TestCircularQueSeq ==
    LET push(v) == seq_emplace(3, v)
    IN  Just(RingLocations, [main |-> Repeat(2, FillAndDrain(push, seq_pop(3)))], {})
TestCircularQueLight ==
    LET push(v) == light_push(3, v)
    IN  Just(RingLocations, [main |-> Repeat(2, FillAndDrain(push, light_pop(3)))], {})
TestCircularQueSync ==
    LET push(v) == sync_push(3, v)
    IN  Just(RingLocations, [main |-> Repeat(2, FillAndDrain(push, sync_pop(3)))
                                        \o Answer(push(1), 1)], {})

(* The same rings with several threads: an element that a push accepted is *)
(* taken once, any other never.                                            *)
Offer(push, v) == push \o If("ok", {1}, Write(Offered[v], 1))
Poll(pop) == pop \o If("ok", {1}, Take("c"))
Balance(v) == Read(Offered[v], "a") \o Read(Seen[v], "b") \o Compute("ok", Equal, "a", "b")
                \o Check("ok", {1})
Balanced == Balance(1) \o Balance(2) \o Balance(3)
Rings(first, t1, t2, pop, locks) ==
    Just(RingLocations,
         [main |-> first \o Run(<<"t1", "t2">>) \o Poll(pop) \o Poll(pop) \o Balanced,
          t1 |-> t1, t2 |-> t2], locks)

(* A producer and a consumer in a ring for one element, which starts again *)
(* after two; two producers; and a consumer that is slow.                  *)
OneByOne(push(_), pop, locks) ==
    Rings(<<>>, Offer(push(1), 1) \o Offer(push(2), 2) \o Offer(push(3), 3),
          Poll(pop) \o Poll(pop), pop, locks)
TwoProducers(push(_), pop) ==
    Rings(<<>>, Offer(push(1), 1), Offer(push(2), 2) \o Poll(pop), pop, {})
SlowConsumer(push(_), pop) ==
    Rings(Offer(push(1), 1), Poll(pop) \o Offer(push(2), 2) \o Poll(pop) \o Offer(push(3), 3),
          Poll(pop), pop, {})

LkRing == LET push(v) == lk_emplace(2, v) IN OneByOne(push, lk_pop(2), {"_mtx"})
SeqRing == LET push(v) == seq_emplace(2, v) IN OneByOne(push, seq_pop(2), {})
LightRing == LET push(v) == light_push(2, v) IN OneByOne(push, light_pop(2), {})
SyncRing == LET push(v) == sync_push(2, v) IN OneByOne(push, sync_pop(2), {})
LightProducers == LET push(v) == light_push(3, v) IN TwoProducers(push, light_pop(3))
SyncProducers == LET push(v) == sync_push(3, v) IN TwoProducers(push, sync_pop(3))

(* The slow consumer reads a slot that is written again, and takes what    *)
(* the other one has taken if the ring has come round (MCRefuted).         *)
LightSlow == LET push(v) == light_push(2, v) IN SlowConsumer(push, light_pop(2))
SyncSlow == LET push(v) == sync_push(2, v) IN SlowConsumer(push, sync_pop(2))

ContainerDemos ==
    [test_threadsafe_stack1 |-> test_threadsafe_stack1, SafeStack |-> SafeStack,
     TestThreadSafeStack |-> TestThreadSafeStack, TestThreadSafeQue |-> TestThreadSafeQue,
     TestThreadSafeQueHt |-> TestThreadSafeQueHt, TryPopQue |-> TryPopQue, TryPopHt |-> TryPopHt,
     TestCircularQue |-> TestCircularQue, TestCircularQueSeq |-> TestCircularQueSeq,
     TestCircularQueLight |-> TestCircularQueLight, TestCircularQueSync |-> TestCircularQueSync,
     LkRing |-> LkRing, SeqRing |-> SeqRing, LightProducers |-> LightProducers,
     LightRing |-> LightRing, SyncProducers |-> SyncProducers, SyncRing |-> SyncRing]
=============================================================================
