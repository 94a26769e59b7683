------------------------------ MODULE MCRefuted ------------------------------
(***************************************************************************)
(* The programs of day12 whose pop does what the comment in it rules out,  *)
(* for TLC: a behaviour is one of the programs in Names on the machine of  *)
(* Threads.                                                                *)
(***************************************************************************)
EXTENDS ContainerPrograms

CONSTANT Names

VARIABLES prog, pc, reg, mem, view, lock, asleep, went

Refuted == [LightSlow |-> LightSlow, SyncSlow |-> SyncSlow]

Machine == INSTANCE Threads WITH Programs <- [p \in Names |-> Refuted[p]]

RefutedSpec == Machine!Spec
-----------------------------------------------------------------------------
(* A pop reads a slot only when the push into it is done, which it knows   *)
(* from _tail_update; so neither races with the other for the slot.        *)
OnlyDoneRead == went \cap {Slot[i] : i \in DOMAIN Slot} = {}
=============================================================================
