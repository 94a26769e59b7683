------------------------------ MODULE MCLessons ------------------------------
(***************************************************************************)
(* The programs of Concurrent/ and the cash machine of day08 for TLC.  A   *)
(* behaviour is one of one program on the machine of Threads, beside a     *)
(* cash machine that has been switched off; or one of the cash machine,    *)
(* beside a program that does nothing.                                     *)
(***************************************************************************)
EXTENDS Atm, MemoryPrograms, LockPrograms, FuturePrograms, ConditionPrograms,
        ContainerPrograms, ListPrograms, ParallelPrograms

VARIABLES prog, pc, reg, mem, view, lock, asleep, went

machineVars == <<prog, pc, reg, mem, view, lock, asleep, went>>

Nothing == [threads |-> [main |-> <<>>], init |-> <<>>, locks |-> {}, may |-> {},
            flaws |-> {}]

Programs == MemoryDemos @@ LockDemos @@ FutureDemos @@ ConditionDemos
              @@ ContainerDemos @@ ListDemos @@ ParallelDemos @@ [nothing |-> Nothing]

Machine == INSTANCE Threads

AllIds == UNION {DOMAIN Programs[p].threads : p \in DOMAIN Programs}

(* The cash machine after q. *)
SwitchedOff ==
    /\ atmQ = <<>> /\ bankQ = <<>> /\ ifQ = <<>>
    /\ state = "waiting_for_card" /\ pin = [len |-> 0, good |-> TRUE]
    /\ balance = Deposit /\ ended = Actors /\ main = "gone" /\ keys = 0
    /\ request = 0 /\ accepted = [id |-> 0, good |-> FALSE]
    /\ lost = 0 /\ cancelled = 0 /\ crossed = FALSE /\ issued = 0

LessonsInit == /\ Machine!Init
               /\ IF prog = "nothing" THEN Init ELSE SwitchedOff

LessonsNext == \/ Machine!Next /\ UNCHANGED vars
               \/ Next /\ UNCHANGED machineVars

(* The actors' threads and main, and every thread of a program, go on.     *)
LessonsSpec == /\ LessonsInit /\ [][LessonsNext]_<<vars, machineVars>>
               /\ Fairness
               /\ \A t \in AllIds : WF_machineVars(t \in Machine!Ids /\ Machine!Step(t))
-----------------------------------------------------------------------------
(* Assertions of the programs hold in every interleaving and with every    *)
(* value their memory orders let a load read (Threads).                    *)
AssertsHold == Machine!AssertsHold

(* Accesses to ordinary variables are synchronised, save at the variables  *)
(* that the programs name (Threads).                                       *)
NoDataRace == Machine!NoDataRace

(* When q is pressed the three actors of the cash machine end, whatever    *)
(* they are doing and whoever has ended before them, and main returns.     *)
(* All threads of a program come to their end, unless a notification was   *)
(* missed, an error ended the program, or it is one that shows a deadlock  *)
(* (Threads).                                                              *)
AllJoined == <>[](main \in {"keys", "gone"} /\ Machine!Finished)
=============================================================================
