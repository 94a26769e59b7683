--------------------------- MODULE FuturePrograms ---------------------------
(***************************************************************************)
(* The programs of day01-thread, day06-FutureAndPromise and day09-         *)
(* QASummary: who joins, detaches or moves a thread, and what a future     *)
(* makes visible.  Loops that only print are one access to the variable    *)
(* they print, or nothing.                                                 *)
(***************************************************************************)
EXTENDS Instructions

(* std::promise and std::future: the shared state of the two.  The result  *)
(* is written before it is ready; get waits for that.                      *)
set_value(v) == Write("value", v) \o Store("ready", 1, release)
get(r) == Spin("ready", {1}, acquire, "ok") \o Read("value", r)
WithFuture(threads) == Just(Zeros({"value", "ready"}), threads, {})
-----------------------------------------------------------------------------
(* day01: func counts up a local variable of the function that starts the  *)
(* thread; the end of its life is a write.                                 *)
func == Repeat(3, Add("some_local_state", 1))
WithLocal(code) == Just(Zeros({"some_local_state"}), [main |-> code, t |-> func], {})
EndOfLife == Write("some_local_state", 0)

oops == Danger(WithLocal(Start("t") \o EndOfLife), {"some_local_state"})

(* The thread is joined on the way out, with and without an exception. *)
catch_exception == WithLocal(Start("t") \o Join("t") \o EndOfLife)
auto_gurad == WithLocal(Start("t") \o Join("t") \o EndOfLife)

(* The detached thread converts the buffer to a string when it runs; and   *)
(* the caller has converted it before.                                     *)
danger_oops == Danger(Just(Zeros({"buffer"}),
                           [main |-> Write("buffer", 1) \o Start("t") \o Write("buffer", 0),
                            t |-> Read("buffer", "a")], {}), {"buffer"})
safe_oops == Just(Zeros({"buffer", "copy"}),
                  [main |-> Write("buffer", 1) \o Read("buffer", "a") \o Put("copy", "a")
                              \o Start("t") \o Write("buffer", 0),
                   t |-> Read("copy", "a") \o Check("a", {1})], {})

ref_oops == Just(Zeros({"some_param"}),
                 [main |-> Write("some_param", 1) \o Start("t") \o Join("t")
                             \o Read("some_param", "a") \o Check("a", {2}),
                  t |-> Add("some_param", 1)], {})

(* A thread is moved into a variable that still has one. *)
dangerous_use == Danger(Just(Zeros({"none"}),
                             [main |-> StartAll(<<"t1", "t2">>) \o Terminate,
                              t1 |-> <<>>, t2 |-> <<>>], {}), {"crash"})

(* joining_thread: assignment joins the thread that the target has, the    *)
(* destructor the one it has then; j1 has that of j3 in the end.           *)
use_jointhread ==
    Just(Zeros({"cur"}),
         [main |-> StartAll(<<"t1", "t2", "t3">>)
                     \o Join("t1") \o Join("t2") \o Join("t3") \o Write("cur", 0),
          t1 |-> Read("cur", "a"), t2 |-> Read("cur", "a"), t3 |-> Read("cur", "a")], {})

use_vector == Just(Zeros({"cur"}),
                   [main |-> Run(<<"t1", "t2", "t3">>),
                    t1 |-> Forever(Read("cur", "a")), t2 |-> Forever(Read("cur", "a")),
                    t3 |-> Forever(Read("cur", "a"))], {})

(* Threads started in four ways and joined one after the other; the local  *)
(* of oops is gone before its thread has ended.                            *)
day01 ==
    Danger(Just(Zeros({"hellostr", "some_local_state", "some_param"}),
                [main |-> Write("hellostr", 1)
                            \o Start("t1") \o Join("t1") \o Start("t2") \o Join("t2")
                            \o Start("t3") \o Join("t3") \o Start("t4") \o Join("t4")
                            \o Start("t") \o Write("some_local_state", 0),
                 t1 |-> Read("hellostr", "a"), t2 |-> <<>>, t3 |-> <<>>,
                 t4 |-> Read("hellostr", "a"), t |-> func], {}), {"some_local_state"})
-----------------------------------------------------------------------------
(* day06 *)
fetchDataFromDB == set_value(1)
use_async == WithFuture([main |-> Start("t") \o get("a") \o Check("a", {1}) \o Join("t"),
                         t |-> fetchDataFromDB])

my_task == set_value(42)
use_package == WithFuture([main |-> Start("t") \o get("a") \o Check("a", {42}), t |-> my_task])

(* Faulty: the promise is ready before it has its value. *)
use_promise_early ==
    WithFuture([main |-> Start("t") \o get("a") \o Check("a", {10}) \o Join("t"),
                t |-> Store("ready", 1, release) \o Write("value", 10)])

use_promise == WithFuture([main |-> Start("t") \o get("a") \o Check("a", {10}) \o Join("t"),
                           t |-> set_value(10)])

(* The exception is the value -1. *)
set_exception == set_value(-1)
use_promise_exception ==
    WithFuture([main |-> Start("t") \o get("a") \o Check("a", {-1}) \o Join("t"),
                t |-> set_exception])

(* The promise was moved into the thread and lives as long as that. *)
use_promise_destruct ==
    WithFuture([main |-> Start("t") \o get("a") \o Check("a", {10}) \o Join("t"),
                t |-> set_value(10)])

myFunction == set_value(42)
threadFunction == get("a") \o Check("a", {42})
use_shared_future ==
    WithFuture([main |-> Run(<<"t1", "t2", "t3">>),
                t1 |-> myFunction, t2 |-> threadFunction, t3 |-> threadFunction])

(* The second move takes an empty future: its get throws, and threadFunction *)
(* catches that.                                                             *)
use_shared_future_error ==
    WithFuture([main |-> Run(<<"t1", "t2", "t3">>),
                t1 |-> myFunction, t2 |-> threadFunction, t3 |-> <<>>])

(* The pool is given a copy of m, then a reference to it; main reads m     *)
(* after a time, with nothing that orders it after the task.               *)
ThreadPoolCommits ==
    Flawed(Just(Zeros({"m", "copy"}),
                [main |-> StartAll(<<"t1", "t2">>) \o Read("m", "a"),
                 t1 |-> Write("copy", 1024), t2 |-> Write("m", 1024)], {}), {"m"})
-----------------------------------------------------------------------------
(* day09 *)
ReturnThread == Just(Zeros({"i"}), [main |-> Start("t") \o Join("t"),
                                    t |-> Repeat(5, Add("i", 1))], {})
ChangeValue == Just(Zeros({"m"}), [main |-> Write("m", 100) \o Start("t1") \o Join("t1")
                                              \o Read("m", "a") \o Check("a", {101}),
                                   t1 |-> Add("m", 1)], {})

ThreadOp == Danger(Just(Zeros({"none"}),
                        [main |-> StartAll(<<"t1", "t2">>) \o Terminate,
                         t1 |-> <<>>, t2 |-> <<>>], {}), {"crash"})

(* The future of std::async waits for its task when it is destroyed. *)
BlockAsync == Just(Zeros({"cout"}),
                   [main |-> Add("cout", 1) \o Start("async") \o Join("async")
                               \o Add("cout", 1) \o Read("cout", "a") \o Check("a", {3}),
                    async |-> Add("cout", 1)], {})
DeadLock == Danger(Just(Zeros({"cout"}),
                        [main |-> Guarded("mtx", Start("async") \o Join("async")),
                         async |-> Guarded("mtx", Add("cout", 1))], {"mtx"}), {"stuck"})

asyncFunc == set_value(0)
func2 == get("a") \o Check("a", {0})
first_method == WithFuture([main |-> Start("async") \o func2 \o Join("async"),
                            async |-> asyncFunc])

(* ParallenExe detaches its thread: its future does not wait when it is    *)
(* destroyed, only when it is asked to.                                    *)
ParallenExe == Start("t")
TestParallen1 == WithFuture([main |-> ParallenExe, t |-> set_value(3)])
TestParallen2 == WithFuture([main |-> ParallenExe \o get("a"), t |-> set_value(3)])

FutureDemos ==
    [oops |-> oops, catch_exception |-> catch_exception, auto_gurad |-> auto_gurad,
     danger_oops |-> danger_oops, safe_oops |-> safe_oops, ref_oops |-> ref_oops,
     dangerous_use |-> dangerous_use, use_jointhread |-> use_jointhread,
     use_vector |-> use_vector, day01 |-> day01,
     use_async |-> use_async, use_package |-> use_package, use_promise |-> use_promise,
     use_promise_exception |-> use_promise_exception,
     use_promise_destruct |-> use_promise_destruct, use_shared_future |-> use_shared_future,
     use_shared_future_error |-> use_shared_future_error, ThreadPoolCommits |-> ThreadPoolCommits,
     ReturnThread |-> ReturnThread, ChangeValue |-> ChangeValue, ThreadOp |-> ThreadOp,
     BlockAsync |-> BlockAsync, DeadLock |-> DeadLock, first_method |-> first_method,
     TestParallen1 |-> TestParallen1, TestParallen2 |-> TestParallen2]
=============================================================================
