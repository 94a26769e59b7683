----------------------------- MODULE MCContainers -----------------------------
(***************************************************************************)
(* The five containers for TLC.                                            *)
(*                                                                         *)
(* Two threads push into the queue at the same time, one of them pops      *)
(* afterwards, and a third pops twice: pops meet pushes, pops and the      *)
(* empty queue.  The threads of a stack push three times and pop four      *)
(* times, so that a node may be deleted and its address used again while   *)
(* another pop is going on, and a list of pending nodes is put back.       *)
(* Two threads push into the two-lock queue while values are waited for,   *)
(* stolen and taken, and the queue is told to stop.                        *)
(***************************************************************************)
EXTENDS Containers

MCProgram == [t1 |-> <<"a", "pop">>, t2 |-> <<"b">>, t3 |-> <<"pop", "pop">>]
MCStackProgram == [t1 |-> <<"a", "b", "pop">>, t2 |-> <<"pop", "c">>, t3 |-> <<"pop", "pop">>]
MCLockProgram == [t1 |-> <<"a", "d", "wait">>, t2 |-> <<"b", "steal", "pop">>,
                t3 |-> <<"timed", "c", "steal", "exit">>]
=============================================================================
