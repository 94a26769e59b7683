-------------------------- MODULE MCThreadPoolSort --------------------------
(***************************************************************************)
(* ThreadPool running TestThreadPoolSort: pool_thread_quick_sort of        *)
(* 6,1,0,5,2,9,11.  Main commits {1,0,5,2} and, while it sorts 9,11, two   *)
(* empty lower parts; the task for {1,0,5,2} commits {0} and {2}, each of  *)
(* which commits its empty lower part.  Every future is got.               *)
(***************************************************************************)
EXTENDS ThreadPool

SortTasks == {"1052", "e9", "e11", "0", "2", "e0", "e2"}

SortCalls == ("main" :> <<"1052", "e9", "e11">>) @@ ("1052" :> <<"0", "2">>)
               @@ ("0" :> <<"e0">>) @@ ("2" :> <<"e2">>)
               @@ [e \in {"e9", "e11", "e0", "e2"} |-> <<>>]
=============================================================================
