------------------------------ MODULE Container ------------------------------
(***************************************************************************)
(* What a concurrent queue or stack promises: values leave at the front,   *)
(* in the order in which they were put in or in the reverse of it; each    *)
(* value leaves once; and a pop reports an empty container only when it is *)
(* empty.  A queue may also be robbed at its end (try_steal).              *)
(***************************************************************************)
EXTENDS Naturals, Sequences

CONSTANT Value

VARIABLES order,    \* "fifo" or "lifo"; it does not change
          items,    \* the values in the container
          out,      \* the values that have left it
          empties   \* how often an empty container was reported

vars == <<order, items, out, empties>>

Init == /\ order \in {"fifo", "lifo"}
        /\ items = <<>> /\ out = {} /\ empties = 0

Insert == /\ \E v \in Value :
                items' = IF order = "fifo" THEN Append(items, v) ELSE <<v>> \o items
          /\ UNCHANGED <<out, empties>>

(* The value at place i leaves. *)
Leave(i) == /\ out' = out \cup {items[i]} /\ items[i] \notin out
            /\ items' = SubSeq(items, 1, i - 1) \o SubSeq(items, i + 1, Len(items))
            /\ UNCHANGED empties

Take == items # <<>> /\ Leave(1)

Steal == order = "fifo" /\ items # <<>> /\ Leave(Len(items))

ReportEmpty == /\ items = <<>>
               /\ empties' = empties + 1
               /\ UNCHANGED <<items, out>>

Next == (Insert \/ Take \/ Steal \/ ReportEmpty) /\ UNCHANGED order

Spec == Init /\ [][Next]_vars
=============================================================================
