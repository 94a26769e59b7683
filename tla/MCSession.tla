------------------------------ MODULE MCSession ------------------------------
(***************************************************************************)
(* What a session of asyncServer stands on, each part by itself, for TLC:  *)
(* a behaviour is one of the send path (SendQueue), of the logic layer     *)
(* (LogicSystem) or of the reading side (RecvFraming), while nobody sends, *)
(* the worker has ended or the connection is closed in the other two.      *)
(***************************************************************************)
EXTENDS MCRecvFraming, SendQueue, LogicSystem

VARIABLE part    \* the one that goes on: "send", "logic" or "recv"

LogicOver == /\ msg_que = <<>> /\ b_stop = TRUE
             /\ worker = "exit" /\ poster = [t \in IoThreads |-> "idle"]
             /\ owner = "done" /\ posted = <<>> /\ dealt = <<>>

RecvOver == /\ frames = <<>> /\ stream = <<>> /\ taken = 0
            /\ data = <<>> /\ bytes = 0 /\ copy_len = 0
            /\ head_parse = FALSE /\ head = <<>> /\ node = NewNode(0)
            /\ pc = "cleared"
            /\ heap = <<>> /\ posted_bodies = <<>> /\ continued = {}
            /\ confused = FALSE /\ delivered = <<>>

SessionInit == /\ part \in {"send", "logic", "recv"}
               /\ SendInit
               /\ IF part = "logic" THEN Init ELSE LogicOver
               /\ IF part = "recv" THEN RecvInit ELSE RecvOver

SessionNext == \/ part = "send" /\ SendNext /\ UNCHANGED <<vars, recvVars, part>>
               \/ Next /\ UNCHANGED <<sendVars, recvVars, part>>
               \/ RecvNext /\ UNCHANGED <<sendVars, vars, part>>

(* The fairness of the three; what is over has nothing to go on with. *)
SessionSpec ==
    /\ SessionInit /\ [][SessionNext]_<<sendVars, vars, recvVars, part>>
    /\ Fairness /\ LogicFairness /\ RecvFairness
=============================================================================
