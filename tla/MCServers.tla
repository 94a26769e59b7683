------------------------------ MODULE MCServers ------------------------------
(***************************************************************************)
(* The coroutine server, the websocket server and the HTTP server for TLC. *)
(* A behaviour is one of one of them, beside one of each of the others     *)
(* that is over or has nobody to accept.                                   *)
(***************************************************************************)
EXTENDS CoroutineServer

CONSTANTS MaxConns, MaxMsgs

VARIABLES next, state, map_conns, rcvd, web_que, write, sent, overlapped, failed,
          hnext, hread, hwrite, hdeadline, hclosed, hdown

webVars == <<next, state, map_conns, rcvd, web_que, write, sent, overlapped, failed>>

httpVars == <<hnext, hread, hwrite, hdeadline, hclosed, hdown>>

Web == INSTANCE WebSocket WITH send_que <- web_que
Http == INSTANCE HttpServer
          WITH next <- hnext, read <- hread, write <- hwrite, deadline <- hdeadline,
               closed <- hclosed, down <- hdown

Stopped == /\ main = "ended" /\ accepting = FALSE /\ co = "none" /\ io = "free"
           /\ in_map = FALSE /\ late = FALSE /\ freed = TRUE
           /\ nread = 0 /\ msg_que = <<>> /\ worker = "idle"
           /\ send_que = <<>> /\ ops = {} /\ wire = <<>>
           /\ pushed = 0 /\ dropped = 0 /\ cleared = FALSE

WebIdle == /\ next = MaxConns + 1
           /\ state = [c \in Web!Conns |-> "none"] /\ map_conns = {}
           /\ rcvd = [c \in Web!Conns |-> 0]
           /\ web_que = [c \in Web!Conns |-> <<>>]
           /\ write = [c \in Web!Conns |-> "none"]
           /\ sent = [c \in Web!Conns |-> <<>>]
           /\ overlapped = {} /\ failed = {}

HttpIdle == /\ hnext = MaxConns + 1 /\ hclosed = {} /\ hdown = "no"
            /\ hread = [c \in Http!Conns |-> "none"]
            /\ hwrite = [c \in Http!Conns |-> "none"]
            /\ hdeadline = [c \in Http!Conns |-> "none"]

ServersInit == \/ Init /\ WebIdle /\ HttpIdle
               \/ Stopped /\ Web!Init /\ HttpIdle
               \/ Stopped /\ WebIdle /\ Http!Init

ServersNext == \/ Next /\ UNCHANGED <<webVars, httpVars>>
               \/ Web!Next /\ UNCHANGED <<vars, httpVars>>
               \/ Http!Next /\ UNCHANGED <<vars, webVars>>

ServersSpec == /\ ServersInit /\ [][ServersNext]_<<vars, webVars, httpVars>>
               /\ Fairness /\ Web!Fairness /\ Http!Fairness
-----------------------------------------------------------------------------
(* What a peer of the websocket server reads back are its own messages, in *)
(* order and each once, or garbage from a freed buffer (WebSocket).        *)
EchoedInOrder == Web!EchoedInOrder

(* A websocket connection on which no read met a write, and no write       *)
(* failed, echoes everything.                                              *)
EverythingEchoed == Web!EverythingEchoed

(* A connection of the websocket server whose peer is gone is released,    *)
(* and so is one of the HTTP server after its deadline, which does not end *)
(* that server but where a write is overtaken by it (HttpServer).          *)
ConnectionFreed == Web!ConnectionFreed /\ Http!ConnectionFreed
=============================================================================
