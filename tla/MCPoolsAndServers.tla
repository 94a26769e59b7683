-------------------------- MODULE MCPoolsAndServers --------------------------
(***************************************************************************)
(* The thread pools (MCThreadPool) and the coroutine, websocket and HTTP   *)
(* servers (MCServers) for TLC: a behaviour is one of a pool or of a       *)
(* server, beside one of each other kind that has come and gone.           *)
(***************************************************************************)
EXTENDS MCThreadPool, MCServers

ServersOver == Stopped /\ WebIdle /\ HttpIdle

AllInit == \/ PoolsInit /\ ServersOver
           \/ Gone /\ QueuesGone /\ ServersInit

AllNext == \/ PoolsNext /\ UNCHANGED <<vars, webVars, httpVars>>
           \/ ServersNext /\ UNCHANGED <<poolVars, queueVars>>

AllSpec == /\ AllInit /\ [][AllNext]_<<poolVars, queueVars, vars, webVars, httpVars>>
           /\ PoolFairness /\ Queues!Fairness
           /\ Fairness /\ Web!Fairness /\ Http!Fairness
=============================================================================
