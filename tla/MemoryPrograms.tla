--------------------------- MODULE MemoryPrograms ---------------------------
(***************************************************************************)
(* The programs of day10-MemoryModel, day11-AcquireRelease and             *)
(* day13-fence: which stores a thread must see that has seen another one.  *)
(* Boolean atomics are 0 and 1; atomics without an initial value start     *)
(* with 0.                                                                 *)
(***************************************************************************)
EXTENDS Instructions

(* if (x.load(o)) ++z; *)
CountIfSet(x, o) == Load(x, o, "a") \o If("a", {1}, Rmw("z", seq_cst))

(* assert(z.load() != 0), by the thread that has joined the others *)
CheckCount == Load("z", seq_cst, "a") \o Check("a", Counts \ {0})
-----------------------------------------------------------------------------
(* day10: a spin lock guards the output, which is one variable here. *)
SpinLocked(code) == SpinRmw("flag", 0 :> 1, acquire) \o code \o Store("flag", 0, release)

TestSpinLock ==
    Just(Zeros({"flag", "cout"}),
         [main |-> Run(<<"t1", "t2">>),
          t1 |-> SpinLocked(Repeat(3, Add("cout", 1))),
          t2 |-> SpinLocked(Repeat(3, Add("cout", 1)))], {})

(* Writer and reader of x and y with the orders of the two accesses to y. *)
WriteXThenY(ox, oy) == Store("x", 1, ox) \o Store("y", 1, oy)
ReadYThenX(oy, ox) == Spin("y", {1}, oy, "a") \o CountIfSet("x", ox)

TestOrderRelaxed10 ==
    Danger(Just(Zeros({"x", "y", "z"}),
          [main |-> Run(<<"t1", "t2">>) \o CheckCount,
           t1 |-> WriteXThenY(relaxed, relaxed),
           t2 |-> ReadYThenX(relaxed, relaxed)], {}), {"fail"})

(* Two threads store, two read; 2 rounds stand for the 5 and the 10. *)
TestOderRelaxed2 ==
    Just(Zeros({"a"}),
         [main |-> Run(<<"t1", "t2", "t3", "t4">>),
          t1 |-> Store("a", 0, relaxed) \o Store("a", 2, relaxed),
          t2 |-> Store("a", 1, relaxed) \o Store("a", 3, relaxed),
          t3 |-> Repeat(2, Load("a", relaxed, "a")),
          t4 |-> Repeat(2, Load("a", relaxed, "b"))], {})
-----------------------------------------------------------------------------
(* day11 *)
TestOrderSeqCst ==
    Just(Zeros({"x", "y", "z"}),
         [main |-> Run(<<"t1", "t2">>) \o CheckCount,
          t1 |-> WriteXThenY(seq_cst, seq_cst),
          t2 |-> ReadYThenX(seq_cst, seq_cst)], {})

(* assert(rx.load(relaxed)) after the loop *)
ReadRyThenRx(oy) == Spin("ry", {1}, oy, "a") \o Load("rx", relaxed, "a") \o Check("a", {1})

TestOrderRelaxed11 ==
    Danger(Just(Zeros({"rx", "ry"}),
          [main |-> Run(<<"t1", "t2">>),
           t1 |-> Store("rx", 1, relaxed) \o Store("ry", 1, relaxed),
           t2 |-> ReadRyThenRx(relaxed)], {}), {"fail"})

(* Faulty: the store of ry is relaxed. *)
TestReleaseAcquireRelaxed ==
    Just(Zeros({"rx", "ry"}),
         [main |-> Run(<<"t1", "t2">>),
          t1 |-> Store("rx", 1, relaxed) \o Store("ry", 1, relaxed),
          t2 |-> ReadRyThenRx(acquire)], {})

TestReleaseAcquire ==
    Just(Zeros({"rx", "ry"}),
         [main |-> Run(<<"t1", "t2">>),
          t1 |-> Store("rx", 1, relaxed) \o Store("ry", 1, release),
          t2 |-> ReadRyThenRx(acquire)], {})

(* The reader may have read the store of t2, which says nothing of xd. *)
ReleasAcquireDanger ==
    Danger(Just(Zeros({"xd", "yd"}),
          [main |-> Run(<<"t1", "t2", "t3">>),
           t1 |-> Store("xd", 1, release) \o Store("yd", 1, release),
           t2 |-> Store("yd", 2, release),
           t3 |-> Spin("yd", {1, 2}, acquire, "a")
                    \o Load("xd", acquire, "a") \o Check("a", {1})], {}), {"fail"})

(* data is seen through the relaxed exchange of t2: it belongs to the      *)
(* release sequence of the store of t1.                                    *)
ReleaseSequence ==
    Just(Zeros({"data", "flag"}),
         [main |-> Run(<<"t1", "t2", "t3">>),
          t1 |-> Write("data", 42) \o Store("flag", 1, release),
          t2 |-> SpinRmw("flag", 1 :> 2, relaxed),
          t3 |-> Spin("flag", {2}, acquire, "a") \o Read("data", "a") \o Check("a", {42})], {})

ConsumeDependency ==
    Just(Zeros({"string", "data", "ptr"}),
         [main |-> Run(<<"t1", "t2">>),
          t1 |-> Write("string", 1) \o Write("data", 42) \o Store("ptr", 1, release),
          t2 |-> Spin("ptr", {1}, consume, "a")
                   \o Read("string", "a") \o Check("a", {1})
                   \o Read("data", "a") \o Check("a", {42})], {})
-----------------------------------------------------------------------------
(* day13: x and y have different writers, so each reader may miss the      *)
(* other's store.                                                          *)
TestAR ==
    Danger(Just(Zeros({"x", "y", "z"}),
          [main |-> Run(<<"a", "b", "c", "d">>) \o CheckCount,
           a |-> Store("x", 1, release),
           b |-> Store("y", 1, release),
           c |-> Spin("x", {1}, acquire, "a") \o CountIfSet("y", acquire),
           d |-> Spin("y", {1}, acquire, "a") \o CountIfSet("x", acquire)], {}), {"fail"})

TestRelaxed ==
    Danger(Just(Zeros({"x", "y", "z"}),
          [main |-> Run(<<"a", "b">>) \o CheckCount,
           a |-> WriteXThenY(relaxed, relaxed),
           b |-> ReadYThenX(relaxed, relaxed)], {}), {"fail"})

(* write_x_then_y3 and read_y_then_x3, which no test starts. *)
ReleaseStoreAcquireLoad ==
    Just(Zeros({"x", "y", "z"}),
         [main |-> Run(<<"a", "b">>) \o CheckCount,
          a |-> WriteXThenY(relaxed, release),
          b |-> ReadYThenX(acquire, relaxed)], {})

TestFence ==
    Just(Zeros({"x", "y", "z"}),
         [main |-> Run(<<"a", "b">>) \o CheckCount,
          a |-> Store("x", 1, relaxed) \o Fence(release) \o Store("y", 1, relaxed),
          b |-> Spin("y", {1}, relaxed, "a") \o Fence(acquire) \o CountIfSet("x", relaxed)], {})
-----------------------------------------------------------------------------
(* day17: what a release store publishes, and a release sequence through   *)
(* the read-modify-writes of other threads; here with two items.           *)
TestReleaseSeq ==
    Just(Zeros({"data", "flag"}),
         [main |-> Run(<<"t1", "t2">>),
          t1 |-> Write("data", 42) \o Store("flag", 1, release),
          t2 |-> Spin("flag", {1}, acquire, "a") \o Read("data", "a") \o Check("a", {42})], {})

Item == <<"item1", "item2">>
populate_queue == Write(Item[1], 1) \o Write(Item[2], 1) \o Store("count", 2, release)
                    \o Store("store_finish", 1, relaxed)
consume_queue_items ==
    DoWhile(Spin("store_finish", {1}, polled, "a")
              \o Fetch("count", [n \in -2..2 |-> n - 1], acquire, "b")
              \o If("b", {1, 2}, Indexed(Read("", "a"), Item, "b") \o Check("a", {1})),
            "b", {1, 2})
TestReleaseSeq2 ==
    Just(Zeros({"item1", "item2", "count", "store_finish"}),
         [main |-> Run(<<"a", "b", "c">>),
          a |-> populate_queue, b |-> consume_queue_items, c |-> consume_queue_items], {})

MemoryDemos ==
    [TestSpinLock |-> TestSpinLock, TestOrderRelaxed10 |-> TestOrderRelaxed10,
     TestOderRelaxed2 |-> TestOderRelaxed2, TestOrderSeqCst |-> TestOrderSeqCst,
     TestOrderRelaxed11 |-> TestOrderRelaxed11, TestReleaseAcquire |-> TestReleaseAcquire,
     ReleasAcquireDanger |-> ReleasAcquireDanger, ReleaseSequence |-> ReleaseSequence,
     ConsumeDependency |-> ConsumeDependency, TestAR |-> TestAR, TestRelaxed |-> TestRelaxed,
     ReleaseStoreAcquireLoad |-> ReleaseStoreAcquireLoad, TestFence |-> TestFence,
     TestReleaseSeq |-> TestReleaseSeq, TestReleaseSeq2 |-> TestReleaseSeq2]
=============================================================================
