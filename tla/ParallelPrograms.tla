-------------------------- MODULE ParallelPrograms --------------------------
(***************************************************************************)
(* The parallel algorithms of day21.  A vector is divided among threads;   *)
(* the last block, with what the division leaves over, is done by the      *)
(* caller.  The code gives a block at least 25 elements: here the caller's *)
(* has two, and each other one or two.                                     *)
(***************************************************************************)
EXTENDS Instructions

Indices == 1..4
nvec == [i \in Indices |-> "nvec" \o ToString(i)]
Vector(of) == [x \in {nvec[i] : i \in Indices} |-> of[CHOOSE i \in Indices : nvec[i] = x]]
Counting == Vector([i \in Indices |-> i])
CheckElement(i, v) == Read(nvec[i], "a") \o Check("a", {v})
CheckAll(of) == CheckElement(1, of[1]) \o CheckElement(2, of[2])
                  \o CheckElement(3, of[3]) \o CheckElement(4, of[4])

(* The promise named p, and its future. *)
Value(p) == "value" \o p
Ready(p) == "ready" \o p
Promises(ps) == Zeros({Value(p) : p \in ps} \cup {Ready(p) : p \in ps})
SetValueFrom(p, r) == Put(Value(p), r) \o Store(Ready(p), 1, release)
GetInto(p, r) == Spin(Ready(p), {1}, acquire, "ok") \o Read(Value(p), r)
-----------------------------------------------------------------------------
(* for_each with a function that squares an element. *)
Product == [p \in (0..4) \X (0..4) |-> p[1] * p[2]]
Square(i) == Read(nvec[i], "a") \o Compute("a", Product, "a", "a") \o Put(nvec[i], "a")
Squares == <<1, 4, 9, 16>>

(* Every thread runs a packaged_task; the caller gets all futures.  The    *)
(* threads are joined when joiner is destroyed.                            *)
parallel_for_each ==
    Just(Counting @@ Promises({"1", "2"}),
         [main |-> StartAll(<<"t1", "t2">>) \o Square(3) \o Square(4)
                     \o GetInto("1", "a") \o GetInto("2", "a") \o JoinAll(<<"t1", "t2">>)
                     \o CheckAll(Squares),
          t1 |-> Square(1) \o SetValueFrom("1", "b"),
          t2 |-> Square(2) \o SetValueFrom("2", "b")], {})

(* The first half is done by std::async, the other by the caller. *)
async_for_each ==
    Just(Counting @@ Promises({"1"}),
         [main |-> Start("async") \o Square(3) \o Square(4) \o GetInto("1", "a")
                     \o CheckAll(Squares) \o Join("async"),
          async |-> Square(1) \o Square(2) \o SetValueFrom("1", "b")], {})
-----------------------------------------------------------------------------
(* The search for the elements that are 1, all others being 0.  done_flag  *)
(* is asked before each element; rest is the search in the others.         *)
Holding(matches) == Vector([i \in Indices |-> IF i \in matches THEN 1 ELSE 0])
Visit(i, found, rest) ==
    Load("done_flag", seq_cst, "ok")
      \o If("ok", {0}, Read(nvec[i], "a") \o IfElse("a", {1}, found, rest))

(* A promise is set once.  Who comes second gets an exception, and another *)
(* one when it stores the first in the promise, and gives up.              *)
set_found(i) ==
    Cas("satisfied", (0 :> 1), acq_rel, "ok")
      \o If("ok", {1}, Let("c", i) \o SetValueFrom("1", "c") \o Store("done_flag", 1, seq_cst))
find_element(i, rest) == Visit(i, set_found(i), rest)

(* The caller's result is an element that matches, if there is one, and    *)
(* else last, which is 0.                                                  *)
Expected(matches) == IF matches = {} THEN {0} ELSE matches
parallel_find(matches) ==
    Just(Holding(matches) @@ Promises({"1"}) @@ Zeros({"satisfied", "done_flag"}),
         [main |-> StartAll(<<"t1", "t2">>) \o find_element(3, find_element(4, <<>>))
                     \o JoinAll(<<"t1", "t2">>)
                     \o Load("done_flag", seq_cst, "ok")
                     \o IfElse("ok", {0}, Let("c", 0), GetInto("1", "c"))
                     \o Check("c", Expected(matches)),
          t1 |-> find_element(1, <<>>),
          t2 |-> find_element(2, <<>>)], {})

(* Each half leaves the element it has found, or 0 for the end of the      *)
(* half, in register c.  The caller takes the other's when it has none.    *)
(* The future waits for its task when it is destroyed.                     *)
parallel_find_impl(i, j) ==
    LET found(k) == Store("done_flag", 1, seq_cst) \o Let("c", k)
    IN  Let("c", 0) \o Visit(i, found(i), Visit(j, found(j), <<>>))
parallel_find_async(matches) ==
    Just(Holding(matches) @@ Promises({"1"}) @@ Zeros({"done_flag"}),
         [main |-> Start("async") \o parallel_find_impl(1, 2)
                     \o If("c", {0}, GetInto("1", "c"))
                     \o Join("async") \o Check("c", Expected(matches)),
          async |-> parallel_find_impl(3, 4) \o SetValueFrom("1", "c")], {})
-----------------------------------------------------------------------------
(* The partial sums of a block, to which the last sum of the block before  *)
(* is added: first to the last element, which is passed on at once.        *)
Plus == [p \in (0..10) \X (0..10) |-> p[1] + p[2]]
AddTo(i, r) == Read(nvec[i], "a") \o Compute("a", Plus, "a", r) \o Put(nvec[i], "a")

(* Faulty: the last element is passed on before the sum of the block before is added. *)
end_value_early(p, last, end) ==
    Read(nvec[last], "a") \o SetValueFrom(end, "a") \o GetInto(p, "b") \o AddTo(last, "b")

(* The block of the one element last, between the promises p and end. *)
end_value(p, last, end) == GetInto(p, "b") \o AddTo(last, "b") \o SetValueFrom(end, "a")

parallel_partial_sum ==
    Just(Counting @@ Promises({"1", "2"}),
         [main |-> StartAll(<<"t1", "t2">>) \o Read(nvec[3], "b") \o AddTo(4, "b")
                     \o GetInto("2", "b") \o AddTo(4, "b") \o AddTo(3, "b")
                     \o JoinAll(<<"t1", "t2">>) \o CheckAll(<<1, 3, 6, 10>>),
          t1 |-> Read(nvec[1], "a") \o SetValueFrom("1", "a"),
          t2 |-> end_value("1", 2, "2")], {})
-----------------------------------------------------------------------------
ParallelDemos ==
    [parallel_for_each |-> parallel_for_each, async_for_each |-> async_for_each,
     find_one |-> parallel_find({3}), find_two |-> parallel_find({2, 4}),
     find_none |-> parallel_find({}),
     async_find_one |-> parallel_find_async({3}), async_find_two |-> parallel_find_async({2, 4}),
     async_find_none |-> parallel_find_async({}),
     parallel_partial_sum |-> parallel_partial_sum]
=============================================================================
