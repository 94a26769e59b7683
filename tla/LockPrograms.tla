---------------------------- MODULE LockPrograms ----------------------------
(***************************************************************************)
(* The programs of day02-lockmutex, day03-unique_lock, day04-singleton,    *)
(* the singletons of day11 and the lock demos of day24: which orders of    *)
(* locking block, and which accesses a mutex orders.  A guard is its lock  *)
(* and its unlock.  What only prints or sleeps is left out.                *)
(***************************************************************************)
EXTENDS Instructions

(* day02: shared_data is counted up and down under mtx1. *)
use_lock == Forever(Guarded("mtx1", Add("shared_data", 1)))

test_lock ==
    Just(Zeros({"shared_data"}),
         [main |-> Run(<<"t1", "t2">>) \o Read("shared_data", "a") \o Check("a", {0}),
          t1 |-> use_lock,
          t2 |-> Forever(Guarded("mtx1", Add("shared_data", -1)))], {"mtx1"})

dead_lock1 == Forever(Guarded("t_lock1", Write("m_1", 1024) \o
                                         Guarded("t_lock2", Write("m_2", 2048))))
dead_lock2 == Forever(Guarded("t_lock2", Write("m_2", 2048) \o
                                         Guarded("t_lock1", Write("m_1", 1024))))

test_dead_lock ==
    Danger(Just(Zeros({"m_1", "m_2"}),
                [main |-> Run(<<"t1", "t2">>), t1 |-> dead_lock1, t2 |-> dead_lock2],
                {"t_lock1", "t_lock2"}), {"stuck"})

atomic_lock1 == Guarded("t_lock1", Write("m_1", 1024))
atomic_lock2 == Guarded("t_lock2", Write("m_2", 2048))
safe_lock1 == Forever(atomic_lock1 \o atomic_lock2)
safe_lock2 == Forever(atomic_lock2 \o atomic_lock1)

(* Faulty: the first lock is kept while the second is taken. *)
safe_lock2_nested == Forever(Guarded("t_lock2", Guarded("t_lock1", Write("m_1", 1024))))
safe_lock1_nested == Forever(Guarded("t_lock1", Guarded("t_lock2", Write("m_2", 2048))))
test_safe_lock_nested ==
    Just(Zeros({"m_1", "m_2"}),
         [main |-> Run(<<"t1", "t2">>), t1 |-> safe_lock1_nested, t2 |-> safe_lock2_nested],
         {"t_lock1", "t_lock2"})

test_safe_lock ==
    Just(Zeros({"m_1", "m_2"}),
         [main |-> Run(<<"t1", "t2">>), t1 |-> safe_lock1, t2 |-> safe_lock2],
         {"t_lock1", "t_lock2"})

(* Two objects are swapped by two threads, in opposite order.  After both  *)
(* swaps objm1 has its value again.                                        *)
danger_swap(m1, m2) == Guarded(m1, Guarded(m2, Swap(m1, m2)))
safe_swap(m1, m2) == LockAll({m1, m2}) \o Swap(m1, m2) \o Unlock(m2) \o Unlock(m1)
safe_swap_scope(m1, m2) == LockAll({m1, m2}) \o Swap(m1, m2) \o Unlock(m1) \o Unlock(m2)

Swaps(t1, t2) ==
    Just([objm1 |-> 5, objm2 |-> 100],
         [main |-> Run(<<"t1", "t2">>) \o Read("objm1", "a") \o Check("a", {5}),
          t1 |-> t1, t2 |-> t2], {"objm1", "objm2"})

test_danger_swap == Danger(Swaps(danger_swap("objm1", "objm2"), danger_swap("objm2", "objm1")),
                           {"stuck"})
test_safe_swap == Swaps(safe_swap("objm1", "objm2"), safe_swap("objm2", "objm1"))
test_safe_swap_scope == Swaps(safe_swap_scope("objm1", "objm2"), safe_swap_scope("objm2", "objm1"))

(* A mutex with a level: register b is the thread's level, with 0 for      *)
(* none; the mutex remembers the level to return to.  Locking at or above  *)
(* the thread's level throws, and so does unlocking out of order.          *)
Levels == 1..2
hierachical_lock(m, level) ==
    If("b", {l \in Levels : l <= level}, Terminate)
      \o Lock(m) \o Put(m, "b") \o Let("b", level)
hierachical_unlock(m, level) ==
    If("b", (Levels \cup {0}) \ {level}, Terminate) \o Read(m, "b") \o Unlock(m)

(* The two threads are destroyed without a join, and t2 locks upwards. *)
test_hierarchy_lock ==
    Danger(Just(Zeros({"hmtx1", "hmtx2"}),
                [main |-> StartAll(<<"t1", "t2">>) \o Terminate,
                 t1 |-> hierachical_lock("hmtx1", 2) \o hierachical_lock("hmtx2", 1)
                          \o hierachical_unlock("hmtx2", 1) \o hierachical_unlock("hmtx1", 2),
                 t2 |-> hierachical_lock("hmtx2", 1) \o hierachical_lock("hmtx1", 2)
                          \o hierachical_unlock("hmtx1", 2) \o hierachical_unlock("hmtx2", 1)],
                {"hmtx1", "hmtx2"}), {"crash"})
-----------------------------------------------------------------------------
(* day03: uses of unique_lock on mtx; what is not unlocked by hand is by   *)
(* the destructor.                                                         *)
use_unique == Guarded("mtx", Add("shared_data", 1))
owns_lock == Guarded("mtx", Add("shared_data", 1))
defer_lock == Guarded("mtx", <<>>)
use_own_adopt == Guarded("mtx", <<>>)
use_return == Guarded("mtx", Add("shared_data", 1) \o Add("shared_data", 1))
precision_lock == Guarded("mtx", Add("shared_data", 1)) \o Guarded("mtx", Add("shared_data", 1))

UniqueLocks ==
    Just(Zeros({"shared_data"}),
         [main |-> Run(<<"t1", "t2", "t3">>) \o Read("shared_data", "a") \o Check("a", {6}),
          t1 |-> use_unique \o owns_lock \o defer_lock,
          t2 |-> use_own_adopt \o use_return,
          t3 |-> precision_lock], {"mtx"})

(* main keeps the mutex while it joins the thread that wants it. *)
use_own_defer ==
    Danger(Just(Zeros({"shared_data"}),
                [main |-> Guarded("mtx", Start("t") \o Join("t")),
                 t |-> Guarded("mtx", <<>>)], {"mtx"}), {"stuck"})

(* safe_swap and safe_swap2 in two threads. *)
unique_swap == LockAll({"mtx1", "mtx2"}) \o Swap("a", "b") \o Unlock("mtx2") \o Unlock("mtx1")
unique_swap2 == unique_swap

UniqueSwaps ==
    Just([a |-> 10, b |-> 99],
         [main |-> Run(<<"t1", "t2">>) \o Read("a", "a") \o Check("a", {10}),
          t1 |-> unique_swap, t2 |-> unique_swap2], {"mtx1", "mtx2"})

(* Readers share the mutex, a writer has it alone. *)
QueryDNS == LockShared("_shared_mtx") \o Read("_dns_info", "a") \o Unlock("_shared_mtx")
AddDNSInfo == Guarded("_shared_mtx", Add("_dns_info", 1))

DNService ==
    Just(Zeros({"_dns_info"}),
         [main |-> Run(<<"t1", "t2", "t3">>),
          t1 |-> QueryDNS \o QueryDNS, t2 |-> AddDNSInfo \o QueryDNS, t3 |-> AddDNSInfo],
         {"_shared_mtx"})

(* The score of one student, 0 if there is none yet: AddScore calls        *)
(* QueryStudent with the recursive mutex held.                             *)
Recursively(code) == LockRecursive("_recursive_mtx") \o code \o Unlock("_recursive_mtx")
QueryStudent == Recursively(Read("_students_info", "a"))
AddScore(n) == Recursively(QueryStudent \o IfElse("a", {0}, Write("_students_info", n),
                                                  Add("_students_info", n)))
AddScoreAtomic(n) == Recursively(Read("_students_info", "a") \o
                                 IfElse("a", {0}, Write("_students_info", n),
                                        Add("_students_info", n)))

RecursiveDemo ==
    Just(Zeros({"_students_info"}),
         [main |-> Run(<<"t1", "t2">>) \o Read("_students_info", "a") \o Check("a", {3}),
          t1 |-> AddScore(1), t2 |-> AddScoreAtomic(2)], {"_recursive_mtx"})
-----------------------------------------------------------------------------
(* Singletons.  object counts its constructions: whoever has got an        *)
(* instance finds it constructed, once.                                    *)
Construct == Add("object", 1)
UseInstance == Read("object", "b") \o Check("b", {1})

Singleton(threads, locks) == Just(Zeros({"single", "object"}), threads, locks)

(* day04: the instance is created before main. *)
HungryInst == Read("single", "a") \o If("a", {0}, Construct \o Write("single", 1))
                \o Read("single", "a")
test_single2hungry ==
    Singleton([main |-> HungryInst \o HungryInst
                          \o Start("t0") \o Join("t0") \o Start("t1") \o Join("t1"),
               t0 |-> HungryInst \o UseInstance, t1 |-> HungryInst \o UseInstance], {})

(* GetInst of SinglePointer and of the SingleAutos: a check without and a  *)
(* check with the mutex; the pointer is an ordinary variable.              *)
DoubleCheckedInst ==
    Read("single", "a")
      \o If("a", {0}, Guarded("s_mutex", Read("single", "a")
                                         \o If("a", {0}, Construct \o Write("single", 1))))
      \o Read("single", "a")

(* The threads of day04 call it one after the other. *)
test_singlelazy ==
    Singleton([main |-> Start("t0") \o Join("t0") \o Start("t1") \o Join("t1")
                          \o DoubleCheckedInst \o UseInstance,
               t0 |-> DoubleCheckedInst \o UseInstance,
               t1 |-> DoubleCheckedInst \o UseInstance], {"s_mutex"})

test_singleauto ==
    Singleton([main |-> DoubleCheckedInst \o DoubleCheckedInst \o UseInstance], {"s_mutex"})

(* SingleAutoSafe differs in its deleter.  Called by two threads at once   *)
(* it has the fault that the comment before it describes.                  *)
SingleAutoSafe ==
    Danger(Singleton([main |-> Run(<<"t1", "t2">>),
                      t1 |-> DoubleCheckedInst \o UseInstance,
                      t2 |-> DoubleCheckedInst \o UseInstance], {"s_mutex"}),
           {"single", "object", "fail"})

(* call_once runs its function once; who comes later waits for its end. *)
call_once(code) == Guarded("s_flag", Read("single", "a") \o If("a", {0}, code))
GetInstanceOnce == call_once(Construct \o Write("single", 1)) \o Read("single", "a")
TestSingletonOnce ==
    Singleton([main |-> Run(<<"t1", "t2">>),
               t1 |-> GetInstanceOnce \o UseInstance,
               t2 |-> GetInstanceOnce \o UseInstance], {"s_flag"})

(* day11: the same as SinglePointer, whose address both threads print, and *)
(* the version with an atomic flag.                                        *)
SingleAutoInst == DoubleCheckedInst
TestSingle11 ==
    Flawed(Singleton([main |-> Run(<<"t1", "t2">>), t1 |-> SingleAutoInst, t2 |-> SingleAutoInst],
                     {"s_mutex"}), {"single"})

(* Faulty: _b_init is set with a relaxed store. *)
SingleMemoryModelRelaxed ==
    Load("_b_init", acquire, "a")
      \o If("a", {0}, Guarded("s_mutex",
                 Load("_b_init", relaxed, "a")
                   \o If("a", {0}, Construct \o Write("single", 1)
                                     \o Store("_b_init", 1, relaxed))))
      \o Read("single", "a")

SingleMemoryModelInst ==
    Load("_b_init", acquire, "a")
      \o If("a", {0}, Guarded("s_mutex",
                 Load("_b_init", relaxed, "a")
                   \o If("a", {0}, Construct \o Write("single", 1)
                                     \o Store("_b_init", 1, release))))
      \o Read("single", "a")

TestSingleMemory ==
    Just(Zeros({"single", "object", "_b_init"}),
         [main |-> Run(<<"t1", "t2">>),
          t1 |-> SingleMemoryModelInst \o UseInstance,
          t2 |-> SingleMemoryModelInst \o UseInstance], {"s_mutex"})
-----------------------------------------------------------------------------
(* day24: the future of std::async is destroyed at once, which waits for   *)
(* the task, which waits for the mutex; and kept in a variable of main.    *)
deadlockdemo ==
    Danger(Just(Zeros({"global_data"}),
                [main |-> Run(<<"t1">>),
                 t1 |-> Guarded("mtx", Add("global_data", 1) \o Start("async") \o Join("async")),
                 async |-> Guarded("mtx", Add("global_data", 1))], {"mtx"}), {"stuck"})

lockdemo ==
    Just(Zeros({"global_data"}),
         [main |-> Run(<<"t1">>) \o Join("async") \o Read("global_data", "a") \o Check("a", {2}),
          t1 |-> Guarded("mtx", Add("global_data", 1) \o Start("async")),
          async |-> Guarded("mtx", Add("global_data", 1))], {"mtx"})

LockDemos ==
    [test_lock |-> test_lock, test_dead_lock |-> test_dead_lock, test_safe_lock |-> test_safe_lock,
     test_danger_swap |-> test_danger_swap, test_safe_swap |-> test_safe_swap,
     test_safe_swap_scope |-> test_safe_swap_scope, test_hierarchy_lock |-> test_hierarchy_lock,
     UniqueLocks |-> UniqueLocks, use_own_defer |-> use_own_defer, UniqueSwaps |-> UniqueSwaps,
     DNService |-> DNService, RecursiveDemo |-> RecursiveDemo,
     test_single2hungry |-> test_single2hungry, test_singlelazy |-> test_singlelazy,
     test_singleauto |-> test_singleauto, SingleAutoSafe |-> SingleAutoSafe,
     TestSingletonOnce |-> TestSingletonOnce, TestSingle11 |-> TestSingle11,
     TestSingleMemory |-> TestSingleMemory, deadlockdemo |-> deadlockdemo, lockdemo |-> lockdemo]
=============================================================================
