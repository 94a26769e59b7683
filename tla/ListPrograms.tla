---------------------------- MODULE ListPrograms ----------------------------
(***************************************************************************)
(* Containers with a mutex for each part: the hash table of day15, which   *)
(* has one for each bucket, and the lists of day16, which have one for     *)
(* each node and are walked hand over hand; and day18's list for one       *)
(* producer and one consumer, which has none.                              *)
(***************************************************************************)
EXTENDS Instructions

(* day15.  Keys 0 and 2 are in bucket 0, key 1 in bucket 1.  The entry of  *)
(* a key is 1 or 0: present or not.                                        *)
Keys == 0..2
Entry == [k \in Keys |-> "entry" \o ToString(k)]
get_bucket(k) == IF k % 2 = 0 THEN "bucket0" ELSE "bucket1"
value_for(k) == LockShared(get_bucket(k)) \o Read(Entry[k], "a") \o Unlock(get_bucket(k))
add_or_update_mapping(k) == Guarded(get_bucket(k), Write(Entry[k], 1))
remove_mapping(k) == Guarded(get_bucket(k), Read(Entry[k], "b") \o If("b", {1}, Write(Entry[k], 0)))

(* Faulty: the buckets are locked one at a time. *)
get_map_piecemeal == Guarded("bucket0", Read(Entry[0], "a") \o Read(Entry[2], "c"))
                       \o Guarded("bucket1", Read(Entry[1], "b"))

(* The entries go into registers a, b and c, all buckets being locked. *)
get_map == Lock("bucket0") \o Lock("bucket1")
             \o Read(Entry[0], "a") \o Read(Entry[2], "c") \o Read(Entry[1], "b")
             \o Unlock("bucket0") \o Unlock("bucket1")

Table(threads) == Just(Zeros({Entry[k] : k \in Keys}), threads, {"bucket0", "bucket1"})

(* t2 removes what t1 adds, as soon as it is there; t3 adds other keys.    *)
(* Who looks for something until it is there looks Rounds times, and main  *)
(* once more.                                                              *)
RemoveIfThere(k) == value_for(k) \o If("a", {1}, remove_mapping(k))
TestThreadSafeHash ==
    Table([main |-> Run(<<"t1", "t2", "t3">>) \o RemoveIfThere(0) \o RemoveIfThere(1)
                      \o get_map \o Check("a", {0}) \o Check("b", {0}) \o Check("c", {1}),
           t1 |-> add_or_update_mapping(0) \o add_or_update_mapping(1),
           t2 |-> Forever(RemoveIfThere(0)) \o Forever(RemoveIfThere(1)),
           t3 |-> add_or_update_mapping(2)])

(* A copy of the table is a state that the table was in: key 1 is added    *)
(* after key 0.                                                            *)
TableCopy ==
    Table([main |-> Run(<<"t1", "t2">>),
           t1 |-> add_or_update_mapping(0) \o add_or_update_mapping(1),
           t2 |-> get_map \o If("b", {1}, Check("a", {1}))])
-----------------------------------------------------------------------------
(* day16.  Node 0 is the head, node n has the element n; next of a node is *)
(* a node or nil, and gone when the node was deleted.  Registers a and b   *)
(* are current and next.                                                   *)
Nodes == 0..3
nil == 9
gone == 8
NextOf == [n \in Nodes |-> "next" \o ToString(n)]
MutexOf == [n \in Nodes |-> "m" \o ToString(n)]
LockNode(r) == Indexed(LockAll({}), MutexOf, r)
UnlockNode(r) == Indexed(Unlock(""), MutexOf, r)
ReadNext(r, s) == Indexed(Read("", s), NextOf, r)

push_front(n) == Guarded("m0", Read("next0", "a") \o Put(NextOf[n], "a") \o Write("next0", n))

(* Walk goes from the head to the end or to a node of p; found and not are *)
(* what is done with it and with any other, both locked.  It returns with  *)
(* ok = 1 if it was stopped, ok = 0 at the end.                            *)
Walk(p, found, not) ==
    Let("a", 0) \o LockNode("a")
      \o DoWhile(ReadNext("a", "b")
                   \o IfElse("b", {nil}, UnlockNode("a") \o Let("ok", 0),
                             LockNode("b") \o IfElse("b", p, found, not \o Let("ok", 2))),
                 "ok", {2})
GoOn == UnlockNode("a") \o Move("a", "b")

(* Faulty: the lock of the current node is released before the next one is taken. *)
find_first_if_early(p) ==
    Let("a", 0) \o LockNode("a")
      \o DoWhile(ReadNext("a", "b") \o UnlockNode("a")
                   \o IfElse("b", {nil}, Let("ok", 0),
                             LockNode("b")
                               \o IfElse("b", p, UnlockNode("b") \o Let("ok", 1),
                                         Move("a", "b") \o Let("ok", 2))),
                 "ok", {2})

find_first_if(p) == Walk(p, UnlockNode("a") \o UnlockNode("b") \o Let("ok", 1), GoOn)
for_each == Walk({}, <<>>, GoOn)

(* The node is taken out, unlocked and deleted; current stays where it is. *)
Unlink == ReadNext("b", "c") \o Indexed(Put("", "c"), NextOf, "a")
Delete == UnlockNode("b") \o Indexed(Write("", gone), NextOf, "b")
remove_if(p) == Walk(p, Unlink \o Delete \o Let("ok", 2), GoOn)

ListLocations == [x \in {NextOf[n] : n \in Nodes} |-> nil]
ListLocks == {MutexOf[n] : n \in Nodes}

Found(code) == code \o Check("ok", {1})
TestThreadSafeList ==
    Just(ListLocations,
         [main |-> Run(<<"t1", "t2">>) \o Found(find_first_if({1})) \o Found(find_first_if({2})),
          t1 |-> push_front(1) \o push_front(2),
          t2 |-> Forever(find_first_if({1})) \o Forever(find_first_if({2}))], ListLocks)

(* Elements are removed while another thread walks through the list. *)
WalkAndRemove ==
    Just(ListLocations,
         [main |-> push_front(1) \o push_front(2) \o Run(<<"t1", "t2">>)
                     \o find_first_if({2}) \o Check("ok", {0}) \o Found(find_first_if({1})),
          t1 |-> remove_if({2}), t2 |-> for_each \o Found(find_first_if({1}))], ListLocks)
-----------------------------------------------------------------------------
(* double_push_list: last_node_ptr is changed under last_ptr_mtx. *)
SetLast(code) == Guarded("last_ptr_mtx", code)
front(n) ==
    Guarded("m0", Read("next0", "a") \o Put(NextOf[n], "a") \o Write("next0", n)
                    \o If("a", {nil}, SetLast(Write("last_node_ptr", n))))

SameNode == [p \in Nodes \X Nodes |-> IF p[1] = p[2] THEN 1 ELSE 0]

(* push_back reads last_node_ptr to know which mutex to lock, and again to *)
(* adopt it.  If it has changed in between, it adopts a mutex that it does *)
(* not hold.                                                               *)
push_back(n) ==
    Read("last_node_ptr", "a") \o Indexed(LockAll({"last_ptr_mtx"}), MutexOf, "a")
      \o Read("last_node_ptr", "b") \o Compute("ok", SameNode, "a", "b") \o If("ok", {0}, Terminate)
      \o Indexed(Write("", n), NextOf, "a") \o Write("last_node_ptr", n)
      \o Unlock("last_ptr_mtx") \o UnlockNode("a")

UnlinkLast == Unlink \o If("c", {nil}, SetLast(Put("last_node_ptr", "a"))) \o Delete
remove_all_if(p) == Walk(p, UnlinkLast \o Let("ok", 2), GoOn)
remove_first(p) == Walk(p, UnlinkLast \o UnlockNode("a") \o Let("ok", 1), GoOn)
insert_if(p, n) ==
    Walk(p, Put(NextOf[n], "b") \o Indexed(Write("", n), NextOf, "a")
              \o UnlockNode("b") \o UnlockNode("a") \o Let("ok", 1), GoOn)

DoubleLocations == ListLocations @@ ("last_node_ptr" :> 0)
DoubleList(threads) == Just(DoubleLocations, threads, ListLocks \cup {"last_ptr_mtx"})

(* One thread: the list is then 1, 3, 2. *)
NextIs(n, m) == Read(NextOf[n], "a") \o Check("a", {m})
TestTailPush ==
    DoubleList([main |-> front(1) \o for_each \o push_back(2) \o for_each
                           \o Found(find_first_if({2})) \o insert_if({2}, 3) \o for_each
                           \o NextIs(0, 1) \o NextIs(1, 3) \o NextIs(3, 2) \o NextIs(2, nil)
                           \o remove_all_if(Nodes) \o NextIs(0, nil)])

(* What the list is meant for.  push_back reads last_node_ptr without its  *)
(* mutex, to lock the last node and again to say which one it has locked:  *)
(* if that has changed it adopts a mutex that it does not hold.            *)
MultiThreadPush ==
    Flawed(DoubleList([main |-> Run(<<"t1", "t2", "t3">>) \o for_each,
                       t1 |-> front(1), t2 |-> push_back(2),
                       t3 |-> Forever(remove_first({1})) \o Forever(remove_first({2}))]),
           {"last_node_ptr", "crash"})

(* Without push_back the two pointers are kept apart by their mutexes. *)
FrontAndRemove ==
    DoubleList([main |-> front(1) \o Run(<<"t1", "t2", "t3">>) \o push_back(3)
                           \o Found(find_first_if({3})),
                t1 |-> front(2), t2 |-> Found(remove_first({1})),
                t3 |-> find_first_if({2})])
-----------------------------------------------------------------------------
(* day18, SinglePopPush: node i is the i-th one made. *)
Made == 0..2
DataOf == [i \in Made |-> "data" \o ToString(i)]
pop_head == Load("head", seq_cst, "a") \o Load("tail", seq_cst, "b")
              \o Compute("ok", SameNode, "a", "b")
              \o IfElse("ok", {1}, Let("ok", 0),
                        Indexed(Read("", "c"), NextOf, "a") \o StoreFrom("head", "c", seq_cst)
                          \o Let("ok", 1))
single_pop == pop_head \o If("ok", {1}, Indexed(Read("", "b"), DataOf, "a")
                                          \o Indexed(Write("", gone), NextOf, "a"))
single_push(n, v) ==
    Load("tail", seq_cst, "a") \o Indexed(Write("", v), DataOf, "a")
      \o Indexed(Write("", n), NextOf, "a") \o Store("tail", n, seq_cst)

(* The n-th element that comes out is the n-th that went in. *)
InOrder == Add("count", 1) \o Read("count", "a") \o Compute("ok", SameNode, "a", "b")
             \o Check("ok", {1})
TestSinglePopPush ==
    Just(Zeros({"head", "tail", "count"} \cup {DataOf[i] : i \in Made}) @@ ListLocations,
         [main |-> Run(<<"t1", "t2">>),
          t1 |-> single_push(1, 1) \o single_push(2, 2),
          t2 |-> Forever(single_pop \o If("ok", {1}, InOrder))], {})

ListDemos ==
    [TestThreadSafeHash |-> TestThreadSafeHash, TableCopy |-> TableCopy,
     TestThreadSafeList |-> TestThreadSafeList, WalkAndRemove |-> WalkAndRemove,
     TestTailPush |-> TestTailPush, MultiThreadPush |-> MultiThreadPush,
     FrontAndRemove |-> FrontAndRemove, TestSinglePopPush |-> TestSinglePopPush]
=============================================================================
