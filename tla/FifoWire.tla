------------------------------ MODULE FifoWire ------------------------------
(***************************************************************************)
(* What CSession::Send promises a caller, without queue, lock or handler:  *)
(* the accepted messages reach the wire one after the other, in the order  *)
(* in which they were accepted, each of them whole before the next one     *)
(* begins, until the connection breaks; nothing is written afterwards.     *)
(*                                                                         *)
(* Messages are named by the order of their acceptance (1, 2, ...) and a   *)
(* message is Parts units long.                                            *)
(***************************************************************************)
EXTENDS Naturals, Sequences

CONSTANT Parts        \* units of one message, at least 1

VARIABLES accepted,   \* number of messages accepted so far
          wire,       \* the units written, as records [node, unit]
          broken      \* has a write failed?

vars == <<accepted, wire, broken>>

Unit == [node : Nat \ {0}, unit : 1 .. Parts]

(* The unit that must follow u on the wire. *)
After(u) == IF u.unit < Parts
            THEN [node |-> u.node, unit |-> u.unit + 1]
            ELSE [node |-> u.node + 1, unit |-> 1]

(* The unit that must follow everything written so far. *)
NextUnit == IF wire = <<>>
            THEN [node |-> 1, unit |-> 1]
            ELSE After(wire[Len(wire)])

Init == /\ accepted = 0
        /\ wire = <<>>
        /\ broken = FALSE

Accept == /\ accepted' = accepted + 1
          /\ UNCHANGED <<wire, broken>>

Emit == /\ ~broken
        /\ NextUnit.node <= accepted
        /\ wire' = Append(wire, NextUnit)
        /\ UNCHANGED <<accepted, broken>>

Break == /\ ~broken
         /\ broken' = TRUE
         /\ UNCHANGED <<accepted, wire>>

Next == Accept \/ Emit \/ Break

SafeSpec == Init /\ [][Next]_vars
=============================================================================
