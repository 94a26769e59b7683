-------------------------------- MODULE Atm --------------------------------
(***************************************************************************)
(* The cash machine of Concurrent/day08-Actor: the machine (atm.h), the    *)
(* bank (bank_matchine.h) and the hardware (interface_matchine.h) are      *)
(* actors, a thread and a queue each; main (Actor.cpp) sends the keys that *)
(* are pressed, and closes the three queues.                               *)
(*                                                                         *)
(* An actor takes the first message of its queue and drops it if its state *)
(* has no handler for it (dispatcher.h).  A request carries a number,      *)
(* which the answer repeats; the code has no such number, nothing depends  *)
(* on it but the properties.  Of a PIN it matters how long it is and       *)
(* whether all its digits are right.  What the hardware only displays is   *)
(* left out: its queue holds the money to be issued.                       *)
(***************************************************************************)
EXTENDS Naturals, Sequences, FiniteSets

CONSTANTS PinLength, Deposit, Amount,
          MaxKeys,   \* bound: how many keys are pressed
          MaxAhead   \* bound: how many messages the machine is behind with

ASSUME AtmAssumption == /\ PinLength \in Nat \ {0} /\ Deposit \in Nat
                        /\ Amount \in Nat \ {0} /\ MaxKeys \in Nat /\ MaxAhead \in Nat

VARIABLES atmQ, bankQ, ifQ,   \* the queues of the three receivers
          state, pin,         \* of the machine: its handler, the digits so far
          balance,            \* of the bank
          ended,              \* the threads that have caught close_queue
          main,               \* main: reading keys, closing, joining
          keys,               \* history: how many keys have been pressed
          request,            \* history: number of the machine's last request
          accepted,           \* history: the request answered by pin_verified
          lost,               \* history: withdraw_ok messages dropped
          cancelled,          \* history: withdrawals cancelled
          crossed,            \* history: cancel was pressed while a PIN was verified
          issued              \* history: how often the hardware gave out money

atmVars == <<state, pin, request, accepted, lost, cancelled, crossed>>
vars == <<atmQ, bankQ, ifQ, atmVars, balance, ended, main, keys, issued>>

Actors == {"atm", "bank", "interface"}

Msg(type) == [type |-> type, id |-> 0, good |-> FALSE]
Reply(type, id) == [Msg(type) EXCEPT !.id = id]

Init == /\ atmQ = <<>> /\ bankQ = <<>> /\ ifQ = <<>>
        /\ state = "waiting_for_card" /\ pin = [len |-> 0, good |-> TRUE]
        /\ balance = Deposit
        /\ ended = {} /\ main = "keys" /\ keys = 0
        /\ request = 0 /\ accepted = [id |-> 0, good |-> FALSE]
        /\ lost = 0 /\ cancelled = 0 /\ crossed = FALSE /\ issued = 0
-----------------------------------------------------------------------------
(* main sends a message for a key: a right or a wrong digit, b, w, c or i. *)
Pressed == {"digit_good", "digit_bad", "balance_pressed", "withdraw_pressed",
         "cancel_pressed", "card_inserted"}

Press(k) == /\ main = "keys" /\ keys < MaxKeys /\ Len(atmQ) < MaxAhead
            /\ atmQ' = Append(atmQ, Msg(k))
            /\ keys' = keys + 1
            /\ UNCHANGED <<bankQ, ifQ, atmVars, balance, ended, main, issued>>

(* q: the three queues are closed, in this order. *)
CloseBank == /\ main = "keys"
             /\ bankQ' = Append(bankQ, Msg("close_queue"))
             /\ main' = "close atm"
             /\ UNCHANGED <<atmQ, ifQ, atmVars, balance, ended, keys, issued>>

CloseAtm == /\ main = "close atm"
            /\ atmQ' = Append(atmQ, Msg("close_queue"))
            /\ main' = "close interface"
            /\ UNCHANGED <<bankQ, ifQ, atmVars, balance, ended, keys, issued>>

(* Faulty: the queue of the hardware is not closed. *)
ForgetInterface == /\ main = "close interface"
                   /\ main' = "join"
                   /\ UNCHANGED <<atmQ, bankQ, ifQ, atmVars, balance, ended, keys, issued>>

CloseInterface == /\ main = "close interface"
                  /\ ifQ' = Append(ifQ, Msg("close_queue"))
                  /\ main' = "join"
                  /\ UNCHANGED <<atmQ, bankQ, atmVars, balance, ended, keys, issued>>

JoinThreads == /\ main = "join" /\ ended = Actors
        /\ main' = "gone"
        /\ UNCHANGED <<atmQ, bankQ, ifQ, atmVars, balance, ended, keys, issued>>

Quit == CloseAtm \/ CloseInterface \/ JoinThreads
-----------------------------------------------------------------------------
(* The machine takes message m off its queue. *)
Receive(m) == /\ "atm" \notin ended /\ state # "done_processing"
              /\ atmQ # <<>> /\ m = Head(atmQ)
              /\ atmQ' = Tail(atmQ)

Ask(type) == /\ request' = request + 1
             /\ bankQ' = Append(bankQ, [type |-> type, id |-> request + 1, good |-> pin'.good])

elsewhere == <<balance, main, keys, issued>>

WaitingForCard(m) ==
    /\ state = "waiting_for_card" /\ m.type = "card_inserted"
    /\ pin' = [len |-> 0, good |-> TRUE]
    /\ state' = "getting_pin"
    /\ UNCHANGED <<bankQ, ifQ, request, accepted, lost, cancelled, crossed>>

(* The PIN is sent to the bank when it is complete. *)
GettingPin(m) ==
    /\ state = "getting_pin" /\ m.type \in {"digit_good", "digit_bad"}
    /\ pin' = [len |-> pin.len + 1, good |-> pin.good /\ m.type = "digit_good"]
    /\ IF pin'.len = PinLength
       THEN Ask("verify_pin") /\ state' = "verifying_pin"
       ELSE UNCHANGED <<request, bankQ, state>>
    /\ UNCHANGED <<ifQ, accepted, lost, cancelled, crossed>>

VerifyingPin(m) ==
    /\ state = "verifying_pin" /\ m.type \in {"pin_verified", "pin_incorrect"}
    /\ state' = IF m.type = "pin_verified" THEN "wait_for_action" ELSE "done_processing"
    /\ accepted' = [id |-> m.id, good |-> m.good]
    /\ UNCHANGED <<bankQ, ifQ, pin, request, lost, cancelled, crossed>>

WaitForAction(m) ==
    /\ state = "wait_for_action"
    /\ \/ m.type = "withdraw_pressed" /\ pin' = pin /\ Ask("withdraw")
          /\ state' = "process_withdrawal"
       \/ m.type = "balance_pressed" /\ pin' = pin /\ Ask("get_balance")
          /\ state' = "process_balance"
    /\ UNCHANGED <<ifQ, accepted, lost, cancelled, crossed>>

ProcessBalance(m) ==
    /\ state = "process_balance" /\ m.type = "balance"
    /\ state' = "wait_for_action"
    /\ UNCHANGED <<bankQ, ifQ, pin, request, accepted, lost, cancelled, crossed>>

ProcessWithdrawal(m) ==
    /\ state = "process_withdrawal" /\ m.type \in {"withdraw_ok", "withdraw_denied"}
    /\ IF m.type = "withdraw_ok"
       THEN /\ ifQ' = Append(ifQ, Msg("issue_money"))
            /\ bankQ' = Append(bankQ, Msg("withdrawal_processed"))
       ELSE UNCHANGED <<ifQ, bankQ>>
    /\ state' = "done_processing"
    /\ UNCHANGED <<pin, request, accepted, lost, cancelled, crossed>>

(* Faulty: cancelling a question for the balance leads back to the options. *)
CancelToOptions(m) ==
    /\ m.type = "cancel_pressed" /\ state # "waiting_for_card"
    /\ state' = IF state = "process_balance" THEN "wait_for_action" ELSE "done_processing"
    /\ bankQ' = IF state = "process_withdrawal"
                THEN Append(bankQ, Msg("cancel_withdrawal")) ELSE bankQ
    /\ cancelled' = IF state = "process_withdrawal" THEN cancelled + 1 ELSE cancelled
    /\ crossed' = (crossed \/ state = "verifying_pin")
    /\ UNCHANGED <<ifQ, pin, request, accepted, lost>>

(* Every state but waiting_for_card has a handler for cancel; only that of *)
(* a withdrawal tells the bank.                                            *)
Cancel(m) ==
    /\ m.type = "cancel_pressed" /\ state # "waiting_for_card"
    /\ state' = "done_processing"
    /\ bankQ' = IF state = "process_withdrawal"
                THEN Append(bankQ, Msg("cancel_withdrawal")) ELSE bankQ
    /\ cancelled' = IF state = "process_withdrawal" THEN cancelled + 1 ELSE cancelled
    /\ crossed' = (crossed \/ state = "verifying_pin")
    /\ UNCHANGED <<ifQ, pin, request, accepted, lost>>

(* The types that the current state has a handler for. *)
Handled == CASE state = "waiting_for_card" -> {"card_inserted"}
             [] state = "getting_pin" -> {"digit_good", "digit_bad", "cancel_pressed"}
             [] state = "verifying_pin" -> {"pin_verified", "pin_incorrect", "cancel_pressed"}
             [] state = "wait_for_action" -> {"withdraw_pressed", "balance_pressed",
                                              "cancel_pressed"}
             [] state = "process_balance" -> {"balance", "cancel_pressed"}
             [] state = "process_withdrawal" -> {"withdraw_ok", "withdraw_denied",
                                                 "cancel_pressed"}
             [] state = "done_processing" -> {}

(* A message without a handler is dropped. *)
Drop(m) ==
    /\ m.type \notin Handled \cup {"close_queue"}
    /\ lost' = IF m.type = "withdraw_ok" THEN lost + 1 ELSE lost
    /\ UNCHANGED <<bankQ, ifQ, state, pin, request, accepted, cancelled, crossed>>

AtmReceives ==
    \E m \in {atmQ[i] : i \in DOMAIN atmQ} :
        /\ Receive(m)
        /\ \/ /\ \/ WaitingForCard(m) \/ GettingPin(m) \/ VerifyingPin(m) \/ WaitForAction(m)
                 \/ ProcessBalance(m) \/ ProcessWithdrawal(m) \/ Cancel(m) \/ Drop(m)
              /\ UNCHANGED ended
           \/ /\ m.type = "close_queue"
              /\ ended' = ended \cup {"atm"}
              /\ UNCHANGED <<bankQ, ifQ, atmVars>>
        /\ UNCHANGED elsewhere

(* done_processing ejects the card; it waits for nothing. *)
DoneProcessing ==
    /\ state = "done_processing" /\ "atm" \notin ended
    /\ state' = "waiting_for_card"
    /\ UNCHANGED <<atmQ, bankQ, ifQ, pin, request, accepted, lost, cancelled, crossed,
                   ended, elsewhere>>
-----------------------------------------------------------------------------
(* Faulty: the balance is not reduced. *)
AnswerOnly(m) ==
    /\ m.type = "withdraw"
    /\ atmQ' = Append(atmQ, Reply(IF balance >= Amount THEN "withdraw_ok" ELSE "withdraw_denied", m.id))
    /\ UNCHANGED <<balance, ended>>

BankWithdraw(m) ==
    /\ m.type = "withdraw"
    /\ IF balance >= Amount
       THEN atmQ' = Append(atmQ, Reply("withdraw_ok", m.id)) /\ balance' = balance - Amount
       ELSE atmQ' = Append(atmQ, Reply("withdraw_denied", m.id)) /\ UNCHANGED balance
    /\ UNCHANGED ended

BankVerify(m) ==
    /\ m.type = "verify_pin"
    /\ atmQ' = Append(atmQ, [m EXCEPT !.type = IF m.good THEN "pin_verified" ELSE "pin_incorrect"])
    /\ UNCHANGED <<balance, ended>>

BankBalance(m) ==
    /\ m.type = "get_balance"
    /\ atmQ' = Append(atmQ, Reply("balance", m.id))
    /\ UNCHANGED <<balance, ended>>

(* withdrawal_processed and cancel_withdrawal are only printed. *)
BankPrint(m) == /\ m.type \in {"withdrawal_processed", "cancel_withdrawal"}
                /\ UNCHANGED <<atmQ, balance, ended>>

BankRun ==
    /\ "bank" \notin ended /\ bankQ # <<>>
    /\ LET m == Head(bankQ)
       IN  \/ BankVerify(m) \/ BankWithdraw(m) \/ BankBalance(m) \/ BankPrint(m)
           \/ m.type = "close_queue" /\ ended' = ended \cup {"bank"} /\ UNCHANGED <<atmQ, balance>>
    /\ bankQ' = Tail(bankQ)
    /\ UNCHANGED <<ifQ, atmVars, main, keys, issued>>

InterfaceRun ==
    /\ "interface" \notin ended /\ ifQ # <<>>
    /\ \/ Head(ifQ).type = "issue_money" /\ issued' = issued + 1 /\ UNCHANGED ended
       \/ Head(ifQ).type = "close_queue" /\ ended' = ended \cup {"interface"} /\ UNCHANGED issued
    /\ ifQ' = Tail(ifQ)
    /\ UNCHANGED <<atmQ, bankQ, atmVars, balance, main, keys>>

AtmRun == AtmReceives \/ DoneProcessing

Next == \/ \E k \in Pressed : Press(k)
        \/ CloseBank \/ Quit
        \/ AtmRun \/ BankRun \/ InterfaceRun

Spec == Init /\ [][Next]_vars

(* The actors' threads run, and main goes on once q is pressed.  Nobody    *)
(* has to press a key.                                                     *)
Fairness == WF_vars(AtmRun) /\ WF_vars(BankRun) /\ WF_vars(InterfaceRun) /\ WF_vars(Quit)
-----------------------------------------------------------------------------
Count(queue, type) == Cardinality({i \in DOMAIN queue : queue[i].type = type})

(* What has left the account is on its way, has been given out, or is in a *)
(* withdraw_ok that the machine dropped; and it drops no more of them than *)
(* withdrawals were cancelled.  Money is lost with a cancel that comes     *)
(* after the bank has paid (the bank ignores cancel_withdrawal), and in no *)
(* other way; none is given out that was not taken from the account.       *)
MoneyConserved ==
    /\ balance + Amount * (Count(atmQ, "withdraw_ok") + Count(ifQ, "issue_money")
                             + issued + lost) = Deposit
    /\ lost <= cancelled

Answers == {"pin_verified", "pin_incorrect", "balance", "withdraw_ok", "withdraw_denied"}

(* An answer that a state of the machine accepts is the answer to its last *)
(* question, though the queue may hold answers to questions that have been *)
(* cancelled; and who is offered the options has entered the right PIN.    *)
(* Not so after a cancel while a PIN was verified: the late answer is then *)
(* taken for that to the next PIN.                                         *)
AnswersMatch ==
    crossed \/ /\ atmQ # <<>> /\ Head(atmQ).type \in Handled \cap Answers
                     => Head(atmQ).id = request
               /\ state \in {"wait_for_action", "process_balance", "process_withdrawal"}
                     => accepted.good /\ pin.good
=============================================================================
