----------------------------- MODULE HttpServer -----------------------------
(***************************************************************************)
(* The HTTP server of Network/beastHttp: one thread, one request for each  *)
(* connection, and a deadline of 60 seconds to read and to answer it.  A   *)
(* connection is kept by the handlers of its read, its write and its       *)
(* timer, and by nothing else.  What a response says is left out.          *)
(*                                                                         *)
(* A timer that has expired calls its handler with success, though it is   *)
(* cancelled before the handler runs; so does a read that is complete,     *)
(* though the socket is closed.  The handler of the write calls shutdown,  *)
(* which throws when the socket is closed or the peer is gone, and that of *)
(* the read throws when the JSON of a post is not an object with a string: *)
(* the exception leaves io_context::run and main, and the server is down.  *)
(***************************************************************************)
EXTENDS Naturals

CONSTANT MaxConns    \* bound: connections accepted

Conns == 1 .. MaxConns

VARIABLES next,      \* the connection accepted next
          read,      \* the read of each connection: "none", "pending", "ended"
          write,     \* its write: "none", "pending", "ended"
          deadline,  \* its timer: "none", "armed", "expired", "ended"
          closed,    \* the sockets that the deadline has closed
          down       \* what made main return: "deadline", "peer" or "request",
                     \* or "no" while it is up

vars == <<next, read, write, deadline, closed, down>>

Init == /\ next = 1
        /\ read = [c \in Conns |-> "none"] /\ write = [c \in Conns |-> "none"]
        /\ deadline = [c \in Conns |-> "none"]
        /\ closed = {} /\ down = "no"
-----------------------------------------------------------------------------
Up == down = "no"

(* Http_server accepts again after a connection, which is started, and     *)
(* after an error.                                                         *)
Http_server ==
    /\ Up /\ next <= MaxConns
    /\ next' = next + 1
    /\ \/ /\ read' = [read EXCEPT ![next] = "pending"]
          /\ deadline' = [deadline EXCEPT ![next] = "armed"]
       \/ UNCHANGED <<read, deadline>>
    /\ UNCHANGED <<write, closed, down>>

(* A request has been read, at the latest when the deadline closed the     *)
(* socket: Proccess_request makes a response, whatever the method and the  *)
(* target, and Write_response starts to write it, on a closed socket too.  *)
Read_Request(c) ==
    /\ Up /\ read[c] = "pending"
    /\ read' = [read EXCEPT ![c] = "ended"]
    /\ write' = [write EXCEPT ![c] = "pending"]
    /\ UNCHANGED <<next, deadline, closed, down>>

(* Create_post_response looks for a string "email" in what it has parsed:  *)
(* JSON that is no object, or has something else there, makes it throw.    *)
Create_post_response_throws(c) ==
    /\ Up /\ read[c] = "pending"
    /\ read' = [read EXCEPT ![c] = "ended"]
    /\ down' = "request"
    /\ UNCHANGED <<next, write, deadline, closed>>

(* The read fails: nothing is done, the deadline is left to itself. *)
Read_Error(c) ==
    /\ Up /\ read[c] = "pending"
    /\ read' = [read EXCEPT ![c] = "ended"]
    /\ UNCHANGED <<next, write, deadline, closed, down>>

(* Faulty: the handler of the deadline does not close the socket. *)
DeadlineOnly(c) ==
    /\ Up /\ deadline[c] = "expired"
    /\ deadline' = [deadline EXCEPT ![c] = "ended"]
    /\ UNCHANGED <<next, read, write, closed, down>>

(* Check_deadline: the time is over ... *)
Expire(c) ==
    /\ Up /\ deadline[c] = "armed"
    /\ deadline' = [deadline EXCEPT ![c] = "expired"]
    /\ UNCHANGED <<next, read, write, closed, down>>

(* ... and the handler closes the socket, which ends its operations. *)
Check_deadline(c) ==
    /\ Up /\ deadline[c] = "expired"
    /\ deadline' = [deadline EXCEPT ![c] = "ended"]
    /\ closed' = closed \cup {c}
    /\ UNCHANGED <<next, read, write, down>>

(* The handler of the write, with an error or not: shutdown, then cancel   *)
(* of the deadline.                                                        *)
Write_response(c) ==
    /\ Up /\ write[c] = "pending" /\ c \notin closed
    /\ write' = [write EXCEPT ![c] = "ended"]
    /\ deadline' = [deadline EXCEPT ![c] = IF @ = "armed" THEN "ended" ELSE @]
    /\ UNCHANGED <<next, read, closed, down>>

(* The deadline was first, or the peer is gone: shutdown throws.  The      *)
(* write had ended before the socket was closed, or fails because of that. *)
Shutdown_throws(c) ==
    /\ Up /\ write[c] = "pending"
    /\ write' = [write EXCEPT ![c] = "ended"]
    /\ down' = IF c \in closed THEN "deadline" ELSE "peer"
    /\ UNCHANGED <<next, read, deadline, closed>>

Next == \/ Http_server
        \/ \E c \in Conns : \/ Read_Request(c) \/ Create_post_response_throws(c)
                            \/ Read_Error(c)
                            \/ Expire(c) \/ Check_deadline(c)
                            \/ Write_response(c) \/ Shutdown_throws(c)

(* Time passes, handlers that are ready run, and the operations on a       *)
(* closed socket end.                                                      *)
Fairness == \A c \in Conns :
               /\ WF_vars(Expire(c) \/ Check_deadline(c))
               /\ WF_vars(c \in closed /\ (Read_Error(c) \/ Shutdown_throws(c)))

FairSpec == Init /\ [][Next]_vars /\ Fairness
-----------------------------------------------------------------------------
Released(c) == /\ read[c] # "pending" /\ write[c] # "pending"
               /\ deadline[c] \notin {"armed", "expired"}

(* A deadline has closed the socket of a write that has not been handled.  *)
Overtaken == \E c \in closed : write[c] = "pending"

(* Every connection is released after the deadline at the latest, and the  *)
(* server goes on: a peer that sends half a request, or does not read the  *)
(* response, keeps it no longer, whichever of the three handlers is the    *)
(* last.  Excepted is what ends the server and with it all connections: a  *)
(* peer that was gone before shutdown, a request that throws, and a        *)
(* deadline that overtakes a write, which must not be (ShutdownWhileOpen). *)
ConnectionFreed ==
    \/ <>[](Up /\ \A c \in Conns : Released(c))
    \/ <>(down \in {"peer", "request"} \/ Overtaken)

(* The handler of the write shuts the sending side of an open socket down, *)
(* since the server does not close a connection itself.                    *)
ShutdownWhileOpen ==
    [][\A c \in Conns : write[c] = "pending" /\ write'[c] # "pending" => c \notin closed]_vars
=============================================================================
