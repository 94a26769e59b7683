------------------------------ MODULE WebSocket ------------------------------
(***************************************************************************)
(* The echo server of Network/beast_websocket.  One thread runs            *)
(* io_context::run, so handlers do not overlap; what overlaps are the      *)
(* reading and the writing of a connection.                                *)
(*                                                                         *)
(* The messages of a peer are numbered.  async_write refers to the         *)
(* parameter msg of AsyncSend, which is gone when AsyncSend returns: what  *)
(* the socket takes at once is the message, what it takes later may be     *)
(* anything.  The completion of a write hands the next message of the      *)
(* queue to AsyncSend, which finds it still there and only queues it once  *)
(* more.                                                                   *)
(***************************************************************************)
EXTENDS Naturals, Sequences

CONSTANTS MaxConns,   \* bound: connections made by StartAccept
          MaxMsgs     \* bound: messages of each peer

Conns == 1 .. MaxConns
Garbage == 0

VARIABLES next,       \* the connection that waits in async_accept
          state,      \* "none", "handshake", "open" (a read is pending), "ended"
          map_conns,  \* _map_conns
          rcvd,       \* messages read from each peer
          send_que,   \* _send_que
          write,      \* the writes in flight: "flying", "done" or "failed"
          sent,       \* what each socket has taken
          overlapped, \* history: connections with a read while a write was in flight
          failed      \* history: connections with a failed write

vars == <<next, state, map_conns, rcvd, send_que, write, sent, overlapped, failed>>

Init == /\ next = 1
        /\ state = [c \in Conns |-> "none"]
        /\ map_conns = {}
        /\ rcvd = [c \in Conns |-> 0]
        /\ send_que = [c \in Conns |-> <<>>]
        /\ write = [c \in Conns |-> "none"]
        /\ sent = [c \in Conns |-> <<>>]
        /\ overlapped = {} /\ failed = {}
-----------------------------------------------------------------------------
(* StartAccept and its handler, which always accepts again. *)
StartAccept ==
    /\ next <= MaxConns
    /\ next' = next + 1
    /\ \/ state' = [state EXCEPT ![next] = "handshake"]
       \/ state' = [state EXCEPT ![next] = "ended"]
    /\ UNCHANGED <<map_conns, rcvd, send_que, write, sent, overlapped, failed>>

(* The handshake succeeds: Start posts the first read, AddConnection; or   *)
(* it fails, and the connection is dropped.                                *)
AsyncAccept(c) ==
    /\ state[c] = "handshake"
    /\ \/ /\ state' = [state EXCEPT ![c] = "open"]
          /\ map_conns' = map_conns \cup {c}
       \/ /\ state' = [state EXCEPT ![c] = "ended"]
          /\ UNCHANGED map_conns
    /\ UNCHANGED <<next, rcvd, send_que, write, sent, overlapped, failed>>

(* async_write: the socket takes the message at once, or not yet. *)
AsyncWrite(c, m) ==
    \/ write' = [write EXCEPT ![c] = "done"] /\ sent' = [sent EXCEPT ![c] = Append(@, m)]
    \/ write' = [write EXCEPT ![c] = "flying"] /\ UNCHANGED sent

(* Faulty: every message is written at once. *)
SendAtOnce(c, m) ==
    /\ send_que' = [send_que EXCEPT ![c] = Append(@, m)]
    /\ AsyncWrite(c, m)

(* AsyncSend queues the message; it writes it if the queue was empty. *)
AsyncSend(c, m) ==
    /\ send_que' = [send_que EXCEPT ![c] = Append(@, m)]
    /\ IF send_que[c] = <<>> THEN AsyncWrite(c, m) ELSE UNCHANGED <<write, sent>>

(* The handler of async_read: echo the message, read on. *)
Read(c) ==
    /\ state[c] = "open" /\ rcvd[c] < MaxMsgs
    /\ rcvd' = [rcvd EXCEPT ![c] = @ + 1]
    /\ overlapped' = IF write[c] = "none" THEN overlapped ELSE overlapped \cup {c}
    /\ AsyncSend(c, rcvd[c] + 1)
    /\ UNCHANGED <<next, state, map_conns, failed>>

(* Faulty: a failed read leaves the connection in the map. *)
ReadEndsOnly(c) ==
    /\ state[c] = "open"
    /\ state' = [state EXCEPT ![c] = "ended"]
    /\ UNCHANGED <<next, map_conns, rcvd, send_que, write, sent, overlapped, failed>>

(* ... or with an error: RemoveConnection, and no more reads. *)
ReadError(c) ==
    /\ state[c] = "open"
    /\ state' = [state EXCEPT ![c] = "ended"]
    /\ map_conns' = map_conns \ {c}
    /\ UNCHANGED <<next, rcvd, send_que, write, sent, overlapped, failed>>

(* A write that was not taken at once reads the freed buffer, or fails. *)
WriteLate(c) ==
    /\ write[c] = "flying"
    /\ \/ /\ \E m \in {Garbage, Head(send_que[c])} : sent' = [sent EXCEPT ![c] = Append(@, m)]
          /\ write' = [write EXCEPT ![c] = "done"]
       \/ /\ write' = [write EXCEPT ![c] = "failed"]
          /\ UNCHANGED sent
    /\ UNCHANGED <<next, state, map_conns, rcvd, send_que, overlapped, failed>>

(* Faulty: the handler does not pop what was written. *)
KeepWritten(c) ==
    /\ write[c] = "done"
    /\ write' = [write EXCEPT ![c] = "none"]
    /\ UNCHANGED <<next, state, map_conns, rcvd, send_que, sent, overlapped, failed>>

(* The handler of async_write pops the message and, if there is another,   *)
(* calls AsyncSend with it: the queue is not empty, it is queued again.    *)
Written(c) ==
    /\ write[c] = "done"
    /\ write' = [write EXCEPT ![c] = "none"]
    /\ LET rest == Tail(send_que[c])
       IN  send_que' = [send_que EXCEPT ![c] =
                           IF rest = <<>> THEN rest ELSE Append(rest, Head(rest))]
    /\ UNCHANGED <<next, state, map_conns, rcvd, sent, overlapped, failed>>

(* ... or removes the connection after an error; the read goes on. *)
WriteError(c) ==
    /\ write[c] = "failed"
    /\ write' = [write EXCEPT ![c] = "none"]
    /\ map_conns' = map_conns \ {c}
    /\ failed' = failed \cup {c}
    /\ UNCHANGED <<next, state, rcvd, send_que, sent, overlapped>>

Writing(c) == WriteLate(c) \/ Written(c) \/ WriteError(c)

Next == \/ StartAccept
        \/ \E c \in Conns : AsyncAccept(c) \/ Read(c) \/ ReadError(c) \/ Writing(c)

(* Writes end, and their handlers run. *)
Fairness == \A c \in Conns : WF_vars(Writing(c))

FairSpec == Init /\ [][Next]_vars /\ Fairness
-----------------------------------------------------------------------------
(* What a peer reads back are its own messages, in order and each once,    *)
(* though its reads and the completions of the writes meet in any way;     *)
(* only what is written from a freed buffer is not.                        *)
EchoedInOrder ==
    \A c \in Conns : \A i \in DOMAIN sent[c] : sent[c][i] \in {i, Garbage}

(* A connection that was never sent a message while an earlier one was     *)
(* being echoed, and no write of which failed, echoes everything.          *)
EverythingEchoed ==
    <>[](\A c \in Conns : Len(sent[c]) = rcvd[c] \/ c \in overlapped \cup failed)

(* A connection whose peer is gone is released by the map and by its       *)
(* handlers, though messages are still queued.                             *)
ConnectionFreed ==
    <>[](\A c \in Conns : state[c] = "ended" => c \notin map_conns /\ write[c] = "none")
=============================================================================
