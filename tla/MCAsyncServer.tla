--------------------------- MODULE MCAsyncServer ---------------------------
(***************************************************************************)
(* AsyncServer for TLC: two sessions on two pool threads, two requests of  *)
(* the first peer, one of the second, which has no callback, and a send    *)
(* queue that is over its limit while one answer is being written.         *)
(***************************************************************************)
EXTENDS AsyncServer

MCUnregistered == {[ses |-> 2, req |-> 1]}

MCMaxReqs == <<2, 1>>
=============================================================================
