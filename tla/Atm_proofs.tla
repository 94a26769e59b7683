----------------------------- MODULE Atm_proofs -----------------------------
(***************************************************************************)
(* Proofs about Atm, for every length of a PIN, every amount and deposit   *)
(* and any number of keys.                                                 *)
(*                                                                         *)
(* Money is conserved because every withdraw the machine has sent and      *)
(* still hears of is the one it waits for, or one that was cancelled       *)
(* (AtMostOneOpen).  Answers match because the bank answers in the order   *)
(* of the questions (Ordered): a late answer to a cancelled question comes *)
(* before the answer to the next PIN, so it is dropped before there can be *)
(* another question it could be taken for (OpenQuestions).                 *)
(***************************************************************************)
EXTENDS Atm, FiniteSetTheorems, TLAPS

Questions == {"verify_pin", "withdraw", "get_balance"}

PinTypes == {"verify_pin", "pin_verified", "pin_incorrect"}

MessageTypes == Pressed \cup Answers \cup Questions
                  \cup {"close_queue", "issue_money", "withdrawal_processed", "cancel_withdrawal"}

Message == [type : MessageTypes, id : Nat, good : BOOLEAN]

States == {"waiting_for_card", "getting_pin", "verifying_pin", "wait_for_action",
           "process_balance", "process_withdrawal", "done_processing"}

TypeOK ==
    /\ atmQ \in Seq(Message) /\ bankQ \in Seq(Message) /\ ifQ \in Seq(Message)
    /\ state \in States /\ pin \in [len : Nat, good : BOOLEAN]
    /\ balance \in Nat /\ request \in Nat /\ accepted \in [id : Nat, good : BOOLEAN]
    /\ lost \in Nat /\ cancelled \in Nat /\ issued \in Nat /\ crossed \in BOOLEAN
-----------------------------------------------------------------------------
(* The messages in a queue, and how a queue changes. *)
Elems(q) == {q[i] : i \in DOMAIN q}

(* The messages of a queue that grows. *)
LEMMA ElemsAppend ==
    ASSUME NEW q \in Seq(Message), NEW m \in Message
    PROVE  Append(q, m) \in Seq(Message) /\ Elems(Append(q, m)) = Elems(q) \cup {m}
<1> DEFINE r == Append(q, m)
<1>1. r \in Seq(Message)
  OBVIOUS
<1>2. DOMAIN r = DOMAIN q \cup {Len(q) + 1}
  OBVIOUS
<1>3. r[Len(q) + 1] = m /\ \A i \in DOMAIN q : r[i] = q[i]
  OBVIOUS
<1> HIDE DEF r
<1>4. Elems(r) = Elems(q) \cup {m}
  BY <1>2, <1>3 DEF Elems
<1>5. QED
  BY <1>1, <1>4 DEF r

(* The messages of a queue that is read. *)
LEMMA ElemsTail ==
    ASSUME NEW q \in Seq(Message), q # <<>>
    PROVE  /\ Tail(q) \in Seq(Message) /\ Elems(Tail(q)) \subseteq Elems(q)
           /\ Head(q) \in Message /\ Head(q) \in Elems(q)
  BY DEF Elems

(* The places in a queue that hold a message of one type. *)
At(q, t) == {i \in DOMAIN q : q[i].type = t}

(* The count of a type is that of the places where it is. *)
LEMMA CountAt ==
    ASSUME NEW q \in Seq(Message), NEW t
    PROVE  /\ Count(q, t) = Cardinality(At(q, t))
           /\ IsFiniteSet(At(q, t)) /\ Cardinality(At(q, t)) \in Nat
<1>1. IsFiniteSet(1 .. Len(q))
  BY FS_Interval
<1>2. At(q, t) \in SUBSET (1 .. Len(q))
  BY DEF At
<1>3. QED
  BY <1>1, <1>2, FS_Subset, FS_CardinalityType DEF Count, At

(* A message sent counts one more of its type. *)
LEMMA CountAppend ==
    ASSUME NEW q \in Seq(Message), NEW m \in Message, NEW t
    PROVE  /\ Count(q, t) \in Nat
           /\ m.type = t => Count(Append(q, m), t) = Count(q, t) + 1
           /\ m.type # t => Count(Append(q, m), t) = Count(q, t)
<1>1. Append(q, m) \in Seq(Message)
  OBVIOUS
<1>2. /\ Count(q, t) = Cardinality(At(q, t)) /\ IsFiniteSet(At(q, t)) /\ Cardinality(At(q, t)) \in Nat
      /\ Count(Append(q, m), t) = Cardinality(At(Append(q, m), t))
  BY <1>1, CountAt
<1>3. CASE m.type = t
  <2>1. At(Append(q, m), t) = At(q, t) \cup {Len(q) + 1} /\ Len(q) + 1 \notin At(q, t)
    BY <1>3 DEF At
  <2>2. Cardinality(At(Append(q, m), t)) = Cardinality(At(q, t)) + 1
    BY <1>2, <2>1, FS_AddElement
  <2>3. QED
    BY <1>2, <1>3, <2>2
<1>4. CASE m.type # t
  <2>1. At(Append(q, m), t) = At(q, t)
    BY <1>4 DEF At
  <2>2. QED
    BY <1>2, <1>4, <2>1
<1>5. QED
  BY <1>3, <1>4

(* A message received counts one less of its type. *)
LEMMA CountTail ==
    ASSUME NEW q \in Seq(Message), q # <<>>, NEW t
    PROVE  /\ Count(Tail(q), t) \in Nat
           /\ Head(q).type = t => Count(q, t) = Count(Tail(q), t) + 1
           /\ Head(q).type # t => Count(q, t) = Count(Tail(q), t)
<1> DEFINE B == At(Tail(q), t)
           A == {i \in 2 .. Len(q) : q[i].type = t}
           f == [i \in B |-> i + 1]
<1>1. Tail(q) \in Seq(Message)
  OBVIOUS
<1>2. /\ Count(q, t) = Cardinality(At(q, t)) /\ Cardinality(B) \in Nat
      /\ Count(Tail(q), t) = Cardinality(B) /\ IsFiniteSet(B)
  BY <1>1, CountAt
<1>3. ExistsBijection(B, A)
  <2>1. f \in [B -> A] /\ \A i, j \in B : f[i] = f[j] => i = j
    BY DEF At
  <2>2. \A k \in A : \E i \in B : f[i] = k
    <3>1. ASSUME NEW k \in A PROVE k - 1 \in B /\ f[k - 1] = k
      BY DEF At
    <3>2. QED
      BY <3>1
  <2>3. QED
    BY <2>1, <2>2 DEF ExistsBijection, Bijection, Injection, Surjection, IsInjective
<1>4. IsFiniteSet(A) /\ Cardinality(A) = Cardinality(B)
  BY <1>2, <1>3, FS_Bijection
<1>5. CASE Head(q).type = t
  <2>1. At(q, t) = A \cup {1} /\ 1 \notin A
    BY <1>5 DEF At
  <2>2. Cardinality(At(q, t)) = Cardinality(A) + 1
    BY <1>4, <2>1, FS_AddElement
  <2>3. QED
    BY <1>2, <1>4, <1>5, <2>2
<1>6. CASE Head(q).type # t
  <2>1. At(q, t) = A
    BY <1>6 DEF At
  <2>2. QED
    BY <1>2, <1>4, <1>6, <2>1
<1>7. QED
  BY <1>5, <1>6
-----------------------------------------------------------------------------
(* The types hold at first. *)
LEMMA InitType == Init => TypeOK
<1> SUFFICES ASSUME Init PROVE TypeOK
  OBVIOUS
<1>1. <<>> \in Seq(Message)
  OBVIOUS
<1>2. QED
  BY <1>1, AtmAssumption DEF Init, TypeOK, States

(* Each handler of the machine keeps the types. *)
LEMMA AtmType ==
    ASSUME TypeOK, NEW m \in Message, Receive(m),
           \/ WaitingForCard(m) \/ GettingPin(m) \/ VerifyingPin(m) \/ WaitForAction(m)
           \/ ProcessBalance(m) \/ ProcessWithdrawal(m) \/ Cancel(m) \/ Drop(m),
           UNCHANGED elsewhere
    PROVE  TypeOK'
<1>1. atmQ' \in Seq(Message)
  BY ElemsTail DEF TypeOK, Receive
<1>2. UNCHANGED <<balance, issued>>
  BY DEF elsewhere
<1> USE DEF TypeOK
<1>3. CASE WaitingForCard(m)
  BY <1>1, <1>2, <1>3 DEF WaitingForCard, States
<1>4. CASE GettingPin(m)
  <2>1. pin' \in [len : Nat, good : BOOLEAN]
    BY <1>4 DEF GettingPin
  <2>2. /\ request' \in Nat /\ state' \in States /\ bankQ' \in Seq(Message)
    <3>1. CASE pin'.len = PinLength
      <4>1. [type |-> "verify_pin", id |-> request + 1, good |-> pin'.good] \in Message
        BY <2>1 DEF Message, MessageTypes, Questions
      <4>2. /\ bankQ' = Append(bankQ, [type |-> "verify_pin", id |-> request + 1, good |-> pin'.good])
            /\ request' = request + 1 /\ state' = "verifying_pin"
        BY <1>4, <3>1 DEF GettingPin, Ask
      <4>3. QED
        BY <4>1, <4>2, ElemsAppend DEF States
    <3>2. CASE pin'.len # PinLength
      BY <1>4, <3>2 DEF GettingPin
    <3>3. QED
      BY <3>1, <3>2
  <2>3. QED
    BY <1>1, <1>2, <1>4, <2>1, <2>2 DEF GettingPin
<1>5. CASE VerifyingPin(m)
  BY <1>1, <1>2, <1>5 DEF VerifyingPin, States, Message
<1>6. CASE WaitForAction(m)
  <2>1. /\ request' = request + 1 /\ pin' = pin /\ state' \in States
        /\ \E t \in {"withdraw", "get_balance"} :
              bankQ' = Append(bankQ, [type |-> t, id |-> request + 1, good |-> pin'.good])
    BY <1>6 DEF WaitForAction, Ask, States
  <2>2. \A t \in {"withdraw", "get_balance"} :
           [type |-> t, id |-> request + 1, good |-> pin'.good] \in Message
    BY <2>1 DEF Message, MessageTypes, Questions
  <2>3. bankQ' \in Seq(Message)
    BY <2>1, <2>2, ElemsAppend
  <2>4. QED
    BY <1>1, <1>2, <1>6, <2>1, <2>3 DEF WaitForAction
<1>7. CASE ProcessBalance(m)
  BY <1>1, <1>2, <1>7 DEF ProcessBalance, States
<1>8. CASE ProcessWithdrawal(m)
  <2>1. Msg("issue_money") \in Message /\ Msg("withdrawal_processed") \in Message
    BY DEF Msg, Message, MessageTypes
  <2>2. bankQ' \in Seq(Message) /\ ifQ' \in Seq(Message)
    BY <1>8, <2>1, ElemsAppend DEF ProcessWithdrawal
  <2>3. QED
    BY <1>1, <1>2, <1>8, <2>2 DEF ProcessWithdrawal, States
<1>9. CASE Cancel(m)
  <2>1. Msg("cancel_withdrawal") \in Message
    BY DEF Msg, Message, MessageTypes
  <2>2. bankQ' \in Seq(Message)
    BY <1>9, <2>1, ElemsAppend DEF Cancel
  <2>3. QED
    BY <1>1, <1>2, <1>9, <2>2 DEF Cancel, States
<1>10. CASE Drop(m)
  BY <1>1, <1>2, <1>10 DEF Drop
<1>11. QED
  BY <1>3, <1>4, <1>5, <1>6, <1>7, <1>8, <1>9, <1>10

(* Each handler of the bank keeps the types. *)
LEMMA BankType ==
    ASSUME TypeOK, BankRun
    PROVE  TypeOK'
<1> USE DEF TypeOK
<1>1. /\ Head(bankQ) \in Message /\ bankQ' \in Seq(Message)
      /\ UNCHANGED <<ifQ, state, pin, request, accepted, lost, cancelled, crossed, issued>>
  BY ElemsTail DEF BankRun, atmVars
<1>2. atmQ' \in Seq(Message) /\ balance' \in Nat
  <2> DEFINE m == Head(bankQ)
  <2>1. CASE BankVerify(m)
    <3>1. [m EXCEPT !.type = IF m.good THEN "pin_verified" ELSE "pin_incorrect"] \in Message
      BY <1>1 DEF Message, MessageTypes, Answers
    <3>2. QED
      BY <2>1, <3>1, ElemsAppend DEF BankVerify
  <2>2. CASE BankWithdraw(m)
    <3>1. Reply("withdraw_ok", m.id) \in Message /\ Reply("withdraw_denied", m.id) \in Message
      BY <1>1 DEF Reply, Msg, Message, MessageTypes, Answers
    <3>2. atmQ' \in Seq(Message)
      <4>1. \E r \in {Reply("withdraw_ok", m.id), Reply("withdraw_denied", m.id)} :
               atmQ' = Append(atmQ, r)
        BY <2>2 DEF BankWithdraw
      <4>2. QED
        BY <3>1, <4>1, ElemsAppend
    <3>3. balance' \in Nat
      BY <2>2, AtmAssumption DEF BankWithdraw
    <3>4. QED
      BY <3>2, <3>3
  <2>3. CASE BankBalance(m)
    <3>1. Reply("balance", m.id) \in Message
      BY <1>1 DEF Reply, Msg, Message, MessageTypes, Answers
    <3>2. QED
      BY <2>3, <3>1, ElemsAppend DEF BankBalance
  <2>4. CASE BankPrint(m) \/ UNCHANGED <<atmQ, balance>>
    BY <2>4 DEF BankPrint
  <2>5. QED
    BY <2>1, <2>2, <2>3, <2>4 DEF BankRun
<1>3. QED
  BY <1>1, <1>2

(* Every step keeps the types. *)
LEMMA StepType == TypeOK /\ [Next]_vars => TypeOK'
<1> SUFFICES ASSUME TypeOK, [Next]_vars PROVE TypeOK'
  OBVIOUS
<1> USE DEF TypeOK
<1>1. ASSUME NEW k \in Pressed, Press(k) PROVE TypeOK'
  <2>1. Msg(k) \in Message
    BY DEF Msg, Message, MessageTypes
  <2>2. QED
    BY <1>1, <2>1, ElemsAppend DEF Press, atmVars
<1>2. CASE CloseBank \/ Quit
  <2>1. Msg("close_queue") \in Message
    BY DEF Msg, Message, MessageTypes
  <2>2. atmQ' \in Seq(Message) /\ bankQ' \in Seq(Message) /\ ifQ' \in Seq(Message)
    BY <1>2, <2>1, ElemsAppend DEF CloseBank, Quit, CloseAtm, CloseInterface, JoinThreads
  <2>3. UNCHANGED <<state, pin, balance, request, accepted, lost, cancelled, issued, crossed>>
    BY <1>2 DEF CloseBank, Quit, CloseAtm, CloseInterface, JoinThreads, atmVars
  <2>4. QED
    BY <2>2, <2>3
<1>3. CASE AtmReceives
  <2>1. PICK m \in {atmQ[i] : i \in DOMAIN atmQ} :
            /\ Receive(m)
            /\ \/ /\ \/ WaitingForCard(m) \/ GettingPin(m) \/ VerifyingPin(m) \/ WaitForAction(m)
                     \/ ProcessBalance(m) \/ ProcessWithdrawal(m) \/ Cancel(m) \/ Drop(m)
                  /\ UNCHANGED ended
               \/ /\ m.type = "close_queue"
                  /\ ended' = ended \cup {"atm"}
                  /\ UNCHANGED <<bankQ, ifQ, atmVars>>
            /\ UNCHANGED elsewhere
    BY <1>3 DEF AtmReceives
  <2>2. m \in Message
    OBVIOUS
  <2>3. CASE UNCHANGED <<bankQ, ifQ, atmVars>>
    <3>1. atmQ' \in Seq(Message)
      BY <2>1, ElemsTail DEF Receive
    <3>2. QED
      BY <2>1, <2>3, <3>1 DEF atmVars, elsewhere
  <2>4. QED
    BY <2>1, <2>2, <2>3, AtmType
<1>4. CASE DoneProcessing
  BY <1>4 DEF DoneProcessing, elsewhere, States
<1>5. CASE InterfaceRun
  BY <1>5, ElemsTail DEF InterfaceRun, atmVars
<1>6. CASE UNCHANGED vars
  BY <1>6 DEF vars, atmVars
<1>7. QED
  BY <1>1, <1>2, <1>3, <1>4, <1>5, <1>6, BankType DEF Next, AtmRun

(* The variables of the cash machine keep their types. *)
THEOREM TypeCorrect == Spec => []TypeOK
BY InitType, StepType, PTL DEF Spec
-----------------------------------------------------------------------------
(* How often Amount has left the account. *)
Paid == Count(atmQ, "withdraw_ok") + Count(ifQ, "issue_money") + issued + lost

(* Withdrawals the bank has not answered yet, or the machine not heard of. *)
Open == Count(bankQ, "withdraw") + Count(atmQ, "withdraw_ok") + Count(atmQ, "withdraw_denied")

(* Each of them, and each that was lost, was cancelled - or is the one the *)
(* machine waits for.                                                      *)
AtMostOneOpen == /\ lost + Open <= cancelled + 1
                 /\ state # "process_withdrawal" => lost + Open <= cancelled
                 /\ lost <= cancelled

MoneyInv == balance + Amount * Paid = Deposit /\ AtMostOneOpen

(* What the books add up are numbers. *)
LEMMA Countable ==
    ASSUME TypeOK
    PROVE  /\ Count(atmQ, "withdraw_ok") \in Nat /\ Count(atmQ, "withdraw_denied") \in Nat
           /\ Count(bankQ, "withdraw") \in Nat /\ Count(ifQ, "issue_money") \in Nat
           /\ Paid \in Nat /\ Open \in Nat
           /\ balance \in Nat /\ lost \in Nat /\ cancelled \in Nat /\ issued \in Nat
           /\ Amount \in Nat /\ Deposit \in Nat
<1>1. \A q \in Seq(Message) : \A t : Count(q, t) \in Nat
  BY CountAt
<1>2. QED
  BY <1>1, AtmAssumption DEF TypeOK, Paid, Open

(* The books balance at first. *)
LEMMA InitMoney == Init => MoneyInv
<1> SUFFICES ASSUME Init PROVE MoneyInv
  OBVIOUS
<1>1. \A t : Count(<<>>, t) = 0
  BY FS_EmptySet DEF Count
<1>2. Paid = 0 /\ Open = 0
  BY <1>1 DEF Init, Paid, Open
<1>3. QED
  BY <1>2, AtmAssumption DEF Init, MoneyInv, AtMostOneOpen

(* A step after which as much is paid and open as before. *)
LEMMA MoneyKept ==
    ASSUME MoneyInv, balance' = balance, Paid' = Paid, Open' = Open,
           UNCHANGED <<lost, cancelled, state>>
    PROVE  MoneyInv'
  BY DEF MoneyInv, AtMostOneOpen

(* The machine takes a message: withdrawals that were open are handled,    *)
(* cancelled or lost.                                                      *)
LEMMA MoneyAtm ==
    ASSUME TypeOK, MoneyInv, NEW m \in Message, Receive(m),
           \/ WaitingForCard(m) \/ GettingPin(m) \/ VerifyingPin(m) \/ WaitForAction(m)
           \/ ProcessBalance(m) \/ ProcessWithdrawal(m) \/ Cancel(m) \/ Drop(m),
           UNCHANGED elsewhere
    PROVE  MoneyInv'
<1> DEFINE ok == Count(atmQ, "withdraw_ok")
           denied == Count(atmQ, "withdraw_denied")
           asked == Count(bankQ, "withdraw")
           issue == Count(ifQ, "issue_money")
<1>1. /\ ok' \in Nat /\ denied' \in Nat
      /\ m.type = "withdraw_ok" => ok = ok' + 1
      /\ m.type # "withdraw_ok" => ok = ok'
      /\ m.type = "withdraw_denied" => denied = denied' + 1
      /\ m.type # "withdraw_denied" => denied = denied'
  BY CountTail DEF Receive, TypeOK
<1>2. /\ ok \in Nat /\ denied \in Nat /\ asked \in Nat /\ issue \in Nat
      /\ lost \in Nat /\ cancelled \in Nat /\ issued \in Nat /\ balance \in Nat
      /\ asked' \in Nat /\ issue' \in Nat /\ lost' \in Nat /\ cancelled' \in Nat
  <2>1. TypeOK'
    BY AtmType
  <2>2. \A q \in Seq(Message) : \A t : Count(q, t) \in Nat
    BY CountAt
  <2>3. asked' \in Nat /\ issue' \in Nat /\ lost' \in Nat /\ cancelled' \in Nat
    BY <2>1, <2>2 DEF TypeOK
  <2>4. QED
    BY <2>3, Countable
<1>3. PICK k \in Nat, d \in Nat, a \in Nat, i \in Nat, l \in Nat, c \in Nat :
         /\ ok' = k /\ denied' = d /\ asked' = a /\ issue' = i /\ lost' = l /\ cancelled' = c
  BY <1>1, <1>2
<1>4. /\ lost + (asked + ok + denied) <= cancelled + 1
      /\ state # "process_withdrawal" => lost + (asked + ok + denied) <= cancelled
      /\ lost <= cancelled
  BY DEF MoneyInv, AtMostOneOpen, Open
<1>5. SUFFICES /\ k + i + issued + l = ok + issue + issued + lost
               /\ l + (a + k + d) <= c + 1
               /\ state' # "process_withdrawal" => l + (a + k + d) <= c
               /\ l <= c
  <2>1. issued' = issued /\ balance' = balance
    BY DEF elsewhere
  <2>2. Paid' = Paid
    BY <1>3, <1>5, <2>1, Zenon DEF Paid
  <2>3. Open' = a + k + d
    BY <1>3, Zenon DEF Open
  <2>4. AtMostOneOpen'
    BY <1>3, <1>5, <2>3, Zenon DEF AtMostOneOpen
  <2>5. QED
    BY <2>1, <2>2, <2>4, Zenon DEF MoneyInv
<1> HIDE DEF ok, denied, asked, issue
<1>6. CASE WaitingForCard(m) \/ VerifyingPin(m) \/ ProcessBalance(m)
  <2>1. asked' = asked /\ issue' = issue /\ lost' = lost /\ cancelled' = cancelled
    BY <1>6 DEF WaitingForCard, VerifyingPin, ProcessBalance, asked, issue
  <2>2. m.type \notin {"withdraw_ok", "withdraw_denied"}
    BY <1>6 DEF WaitingForCard, VerifyingPin, ProcessBalance
  <2>3. state # "process_withdrawal" /\ state' # "process_withdrawal"
    BY <1>6 DEF WaitingForCard, VerifyingPin, ProcessBalance
  <2>4. QED
    BY <1>1, <1>2, <1>3, <1>4, <2>1, <2>2, <2>3
<1>7. CASE GettingPin(m)
  <2>1. asked' = asked
    <3>1. CASE pin'.len = PinLength
      <4> DEFINE r == [type |-> "verify_pin", id |-> request + 1, good |-> pin'.good]
      <4>1. bankQ' = Append(bankQ, r)
        BY <1>7, <3>1 DEF GettingPin, Ask
      <4>2. r \in Message /\ r.type # "withdraw"
        BY <1>7 DEF GettingPin, TypeOK, Message, MessageTypes, Questions
      <4>3. QED
        BY <4>1, <4>2, CountAppend DEF TypeOK, asked
    <3>2. CASE pin'.len # PinLength
      BY <1>7, <3>2 DEF GettingPin, asked
    <3>3. QED
      BY <3>1, <3>2
  <2>2. issue' = issue /\ lost' = lost /\ cancelled' = cancelled
    BY <1>7 DEF GettingPin, issue
  <2>3. m.type \notin {"withdraw_ok", "withdraw_denied"}
    BY <1>7 DEF GettingPin
  <2>4. state # "process_withdrawal" /\ state' # "process_withdrawal"
    BY <1>7 DEF GettingPin
  <2>5. QED
    BY <1>1, <1>2, <1>3, <1>4, <2>1, <2>2, <2>3, <2>4
<1>8. CASE WaitForAction(m)
  <2> DEFINE r(t) == [type |-> t, id |-> request + 1, good |-> pin'.good]
  <2>1. \/ bankQ' = Append(bankQ, r("withdraw")) /\ state' = "process_withdrawal"
        \/ bankQ' = Append(bankQ, r("get_balance")) /\ state' = "process_balance"
    BY <1>8 DEF WaitForAction, Ask
  <2>2. r("withdraw") \in Message /\ r("get_balance") \in Message
    <3>1. pin' = pin
      BY <1>8 DEF WaitForAction
    <3>2. QED
      BY <3>1 DEF TypeOK, Message, MessageTypes, Questions
  <2>3. /\ state' = "process_withdrawal" => asked' = asked + 1
        /\ state' # "process_withdrawal" => asked' = asked
    <3>1. CASE bankQ' = Append(bankQ, r("withdraw")) /\ state' = "process_withdrawal"
      BY <2>2, <3>1, <1>2, CountAppend DEF TypeOK, asked
    <3>2. CASE bankQ' = Append(bankQ, r("get_balance")) /\ state' = "process_balance"
      BY <2>2, <3>2, <1>2, CountAppend DEF TypeOK, asked
    <3>3. QED
      BY <2>1, <3>1, <3>2
  <2>4. issue' = issue /\ lost' = lost /\ cancelled' = cancelled
    BY <1>8 DEF WaitForAction, issue
  <2>5. m.type \notin {"withdraw_ok", "withdraw_denied"} /\ state # "process_withdrawal"
    BY <1>8 DEF WaitForAction
  <2>6. CASE state' = "process_withdrawal"
    BY <1>1, <1>2, <1>3, <1>4, <2>3, <2>4, <2>5, <2>6
  <2>7. CASE state' # "process_withdrawal"
    BY <1>1, <1>2, <1>3, <1>4, <2>3, <2>4, <2>5, <2>7
  <2>8. QED
    BY <2>6, <2>7
<1>9. CASE ProcessWithdrawal(m)
  <2>1. /\ asked' = asked
        /\ m.type = "withdraw_ok" => issue' = issue + 1
        /\ m.type # "withdraw_ok" => issue' = issue
    <3>1. CASE m.type = "withdraw_ok"
      <4>1. Msg("issue_money") \in Message /\ Msg("withdrawal_processed") \in Message
        BY DEF Msg, Message, MessageTypes
      <4>2. ifQ' = Append(ifQ, Msg("issue_money")) /\ bankQ' = Append(bankQ, Msg("withdrawal_processed"))
        BY <1>9, <3>1 DEF ProcessWithdrawal
      <4>3. Msg("issue_money").type = "issue_money" /\ Msg("withdrawal_processed").type # "withdraw"
        BY DEF Msg
      <4>4. QED
        BY <1>2, <3>1, <4>1, <4>2, <4>3, CountAppend DEF TypeOK, asked, issue
    <3>2. CASE m.type # "withdraw_ok"
      BY <1>2, <1>9, <3>2 DEF ProcessWithdrawal, asked, issue
    <3>3. QED
      BY <3>1, <3>2
  <2>2. lost' = lost /\ cancelled' = cancelled /\ state = "process_withdrawal"
        /\ state' # "process_withdrawal" /\ m.type \in {"withdraw_ok", "withdraw_denied"}
    BY <1>9 DEF ProcessWithdrawal
  <2>3. CASE m.type = "withdraw_ok"
    BY <1>1, <1>2, <1>3, <1>4, <2>1, <2>2, <2>3
  <2>4. CASE m.type = "withdraw_denied"
    BY <1>1, <1>2, <1>3, <1>4, <2>1, <2>2, <2>4
  <2>5. QED
    BY <2>2, <2>3, <2>4
<1>10. CASE Cancel(m)
  <2>1. asked' = asked
    <3>1. Msg("cancel_withdrawal") \in Message
      BY DEF Msg, Message, MessageTypes
    <3>2. Msg("cancel_withdrawal").type # "withdraw"
      BY DEF Msg
    <3>3. bankQ' = bankQ \/ bankQ' = Append(bankQ, Msg("cancel_withdrawal"))
      BY <1>10 DEF Cancel
    <3>4. Count(Append(bankQ, Msg("cancel_withdrawal")), "withdraw") = Count(bankQ, "withdraw")
      BY <3>1, <3>2, CountAppend DEF TypeOK
    <3>5. QED
      BY <3>3, <3>4 DEF asked
  <2>2. /\ state = "process_withdrawal" => cancelled' = cancelled + 1
        /\ state # "process_withdrawal" => cancelled' = cancelled
        /\ lost' = lost /\ issue' = issue /\ state' # "process_withdrawal"
        /\ m.type = "cancel_pressed"
    BY <1>2, <1>10 DEF Cancel, issue
  <2>3. CASE state = "process_withdrawal"
    BY <1>1, <1>2, <1>3, <1>4, <2>1, <2>2, <2>3
  <2>4. CASE state # "process_withdrawal"
    BY <1>1, <1>2, <1>3, <1>4, <2>1, <2>2, <2>4
  <2>5. QED
    BY <2>3, <2>4
<1>11. CASE Drop(m)
  <2>1. /\ asked' = asked /\ issue' = issue /\ cancelled' = cancelled /\ state' = state
        /\ m.type = "withdraw_ok" => lost' = lost + 1
        /\ m.type # "withdraw_ok" => lost' = lost
    BY <1>2, <1>11 DEF Drop, asked, issue
  <2>2. CASE m.type = "withdraw_ok"
    <3>1. state # "process_withdrawal"
      BY <1>11, <2>2 DEF Drop, Handled
    <3>2. QED
      BY <1>1, <1>2, <1>3, <1>4, <2>1, <2>2, <3>1
  <2>3. CASE m.type = "withdraw_denied"
    BY <1>1, <1>2, <1>3, <1>4, <2>1, <2>3
  <2>4. CASE m.type \notin {"withdraw_ok", "withdraw_denied"}
    BY <1>1, <1>2, <1>3, <1>4, <2>1, <2>4
  <2>5. QED
    BY <2>2, <2>3, <2>4
<1>12. QED
  BY <1>6, <1>7, <1>8, <1>9, <1>10, <1>11

(* Each handler of the bank keeps the books balanced. *)
LEMMA MoneyBank ==
    ASSUME TypeOK, MoneyInv, BankRun
    PROVE  MoneyInv'
<1> DEFINE m == Head(bankQ)
           ok == Count(atmQ, "withdraw_ok")
           denied == Count(atmQ, "withdraw_denied")
           asked == Count(bankQ, "withdraw")
           issue == Count(ifQ, "issue_money")
<1>1. /\ m \in Message /\ bankQ' = Tail(bankQ) /\ bankQ # <<>> /\ bankQ \in Seq(Message)
      /\ UNCHANGED <<ifQ, state, lost, cancelled, issued>>
  BY ElemsTail DEF BankRun, TypeOK, atmVars
<1>2. /\ asked' \in Nat
      /\ m.type = "withdraw" => asked = asked' + 1
      /\ m.type # "withdraw" => asked' = asked
  BY <1>1, CountTail
<1>3. /\ Paid = ok + issue + issued + lost /\ Open = asked + ok + denied
      /\ Paid' = ok' + issue + issued + lost /\ Open' = asked' + ok' + denied'
  BY <1>1 DEF Paid, Open
<1>4. /\ ok \in Nat /\ denied \in Nat /\ asked \in Nat /\ issue \in Nat
      /\ issued \in Nat /\ lost \in Nat /\ balance \in Nat /\ Amount \in Nat
  BY Countable
<1>5. \A t, u \in MessageTypes : \A r \in Message : r.type = t =>
         /\ t = u => Count(Append(atmQ, r), u) = Count(atmQ, u) + 1
         /\ t # u => Count(Append(atmQ, r), u) = Count(atmQ, u)
  BY CountAppend DEF TypeOK
<1>6. "withdraw_ok" \in MessageTypes /\ "withdraw_denied" \in MessageTypes
  BY DEF MessageTypes, Answers
<1> HIDE DEF m, ok, denied, asked, issue
<1>7. CASE BankWithdraw(m)
  <2>1. PICK a \in Nat : asked' = a
    BY <1>2
  <2>2. asked = a + 1
    BY <1>2, <1>7, <2>1, Zenon DEF BankWithdraw
  <2>3. Reply("withdraw_ok", m.id) \in Message /\ Reply("withdraw_denied", m.id) \in Message
    BY <1>1 DEF Reply, Msg, Message, MessageTypes, Answers
  <2>4. Reply("withdraw_ok", m.id).type = "withdraw_ok" /\ Reply("withdraw_denied", m.id).type = "withdraw_denied"
    BY DEF Reply, Msg
  <2>5. CASE balance >= Amount
    <3>1. atmQ' = Append(atmQ, Reply("withdraw_ok", m.id)) /\ balance' = balance - Amount
      BY <1>7, <2>5 DEF BankWithdraw
    <3>2. ok' = ok + 1 /\ denied' = denied
      BY <1>5, <1>6, <2>3, <2>4, <3>1 DEF ok, denied
    <3>3. Paid' = ok + 1 + issue + issued + lost /\ Open' = a + (ok + 1) + denied
      BY <1>3, <2>1, <3>2, Zenon
    <3>4. Paid' = Paid + 1 /\ Open' = Open
      BY <1>3, <1>4, <2>2, <3>3
    <3>5. Amount * (Paid + 1) = Amount * Paid + Amount
      <4>1. \A x, y \in Nat : x * (y + 1) = x * y + x
        OBVIOUS
      <4>2. QED
        BY <1>4, <4>1, Countable
    <3>6. balance + Amount * Paid = Deposit /\ Amount * Paid \in Nat /\ Deposit \in Nat
      <4>1. \A x, y \in Nat : x * y \in Nat
        OBVIOUS
      <4>2. QED
        BY <1>4, <4>1, Countable DEF MoneyInv
    <3>7. (balance - Amount) + Amount * (Paid + 1) = Deposit
      BY <1>4, <3>5, <3>6
    <3>8. balance' + Amount * Paid' = Deposit
      BY <3>1, <3>4, <3>7, Zenon
    <3>9. AtMostOneOpen'
      BY <1>1, <3>4, Zenon DEF MoneyInv, AtMostOneOpen
    <3>10. QED
      BY <3>8, <3>9 DEF MoneyInv
  <2>6. CASE ~(balance >= Amount)
    <3>1. atmQ' = Append(atmQ, Reply("withdraw_denied", m.id)) /\ balance' = balance
      BY <1>7, <2>6 DEF BankWithdraw
    <3>2. ok' = ok /\ denied' = denied + 1
      BY <1>5, <1>6, <2>3, <2>4, <3>1 DEF ok, denied
    <3>3. Paid' = Paid /\ Open' = a + ok + (denied + 1)
      BY <1>3, <2>1, <3>2, Zenon
    <3>4. Open' = Open
      BY <1>3, <1>4, <2>2, <3>3
    <3>5. QED
      BY <1>1, <3>1, <3>3, <3>4, MoneyKept
  <2>7. QED
    BY <2>5, <2>6
<1>8. CASE \/ BankVerify(m) \/ BankBalance(m)
           \/ m.type # "withdraw" /\ UNCHANGED <<atmQ, balance>>
  <2>1. CASE m.type # "withdraw" /\ UNCHANGED <<atmQ, balance>>
    <3>1. ok' = ok /\ denied' = denied
      BY <2>1 DEF ok, denied
    <3>2. QED
      BY <1>1, <1>2, <1>3, <2>1, <3>1, MoneyKept, Zenon
  <2>2. CASE BankVerify(m)
    <3> DEFINE r == [m EXCEPT !.type = IF m.good THEN "pin_verified" ELSE "pin_incorrect"]
    <3>1. r \in Message /\ r.type \in {"pin_verified", "pin_incorrect"}
      BY <1>1 DEF Message, MessageTypes, Answers
    <3>2. atmQ' = Append(atmQ, r) /\ balance' = balance
      BY <2>2 DEF BankVerify
    <3>3. r.type \in MessageTypes /\ r.type # "withdraw_ok" /\ r.type # "withdraw_denied"
      BY <3>1 DEF MessageTypes, Answers
    <3> HIDE DEF r
    <3>4. ok' = ok /\ denied' = denied
      BY <1>5, <1>6, <3>1, <3>2, <3>3 DEF ok, denied
    <3>5. m.type # "withdraw"
      BY <2>2 DEF BankVerify
    <3>6. QED
      BY <1>1, <1>2, <1>3, <3>2, <3>4, <3>5, MoneyKept, Zenon
  <2>3. CASE BankBalance(m)
    <3>1. Reply("balance", m.id) \in Message /\ Reply("balance", m.id).type = "balance"
      BY <1>1 DEF Reply, Msg, Message, MessageTypes, Answers
    <3>2. atmQ' = Append(atmQ, Reply("balance", m.id)) /\ balance' = balance
      BY <2>3 DEF BankBalance
    <3>3. "balance" \in MessageTypes
      BY DEF MessageTypes, Answers
    <3>4. ok' = ok /\ denied' = denied
      BY <1>5, <1>6, <3>1, <3>2, <3>3 DEF ok, denied
    <3>5. m.type # "withdraw"
      BY <2>3 DEF BankBalance
    <3>6. QED
      BY <1>1, <1>2, <1>3, <3>2, <3>4, <3>5, MoneyKept, Zenon
  <2>4. QED
    BY <1>8, <2>1, <2>2, <2>3
<1>9. QED
  BY <1>7, <1>8 DEF BankRun, BankPrint, m

(* The steps of main and of the hardware, and the machine's step that      *)
(* takes no message.                                                       *)
LEMMA MoneyRest ==
    ASSUME TypeOK, MoneyInv,
           \/ \E k \in Pressed : Press(k)
           \/ CloseBank \/ Quit \/ DoneProcessing \/ InterfaceRun \/ UNCHANGED vars
    PROVE  MoneyInv'
<1> DEFINE Same(q, r) == \A t \in {"withdraw", "withdraw_ok", "withdraw_denied", "issue_money"} :
                            Count(r, t) = Count(q, t)
<1>1. \A q \in Seq(Message) : \A k \in Pressed \cup {"close_queue"} : Same(q, Append(q, Msg(k)))
  <2>1. ASSUME NEW k \in Pressed \cup {"close_queue"}
        PROVE  /\ Msg(k) \in Message
               /\ Msg(k).type \notin {"withdraw", "withdraw_ok", "withdraw_denied", "issue_money"}
    BY DEF Msg, Message, MessageTypes, Pressed
  <2>2. QED
    BY <2>1, CountAppend
<1>2. CASE (\E k \in Pressed : Press(k)) \/ CloseBank \/ Quit \/ UNCHANGED vars
  <2>1. Same(atmQ, atmQ') /\ Same(bankQ, bankQ') /\ Same(ifQ, ifQ')
    <3> DEFINE Sends(q, r) == r = q \/ \E k \in Pressed \cup {"close_queue"} : r = Append(q, Msg(k))
    <3>1. Sends(atmQ, atmQ') /\ Sends(bankQ, bankQ') /\ Sends(ifQ, ifQ')
      BY <1>2 DEF Press, CloseBank, Quit, CloseAtm, CloseInterface, JoinThreads, vars
    <3> HIDE DEF Same
    <3>2. \A q \in Seq(Message) : \A r : Sends(q, r) => Same(q, r)
      <4>1. \A q : Same(q, q)
        BY DEF Same
      <4>2. QED
        BY <1>1, <4>1
    <3>3. QED
      BY <3>1, <3>2 DEF TypeOK
  <2>2. UNCHANGED <<balance, issued, lost, cancelled, state>>
    BY <1>2 DEF Press, CloseBank, Quit, CloseAtm, CloseInterface, JoinThreads, vars, atmVars
  <2>3. Paid' = Paid /\ Open' = Open
    BY <2>1, <2>2 DEF Paid, Open
  <2>4. QED
    BY <2>2, <2>3, MoneyKept
<1>3. CASE DoneProcessing
  <2>1. UNCHANGED <<atmQ, bankQ, ifQ, balance, issued, lost, cancelled>>
    BY <1>3 DEF DoneProcessing, elsewhere
  <2>2. state # "process_withdrawal"
    BY <1>3 DEF DoneProcessing
  <2>3. Paid' = Paid /\ Open' = Open
    BY <2>1 DEF Paid, Open
  <2>4. QED
    BY <2>1, <2>2, <2>3 DEF MoneyInv, AtMostOneOpen
<1>4. CASE InterfaceRun
  <2> DEFINE issue == Count(ifQ, "issue_money")
             ok == Count(atmQ, "withdraw_ok")
  <2>1. /\ UNCHANGED <<atmQ, bankQ, balance, state, lost, cancelled>>
        /\ ifQ # <<>> /\ ifQ \in Seq(Message) /\ ifQ' = Tail(ifQ)
    BY <1>4 DEF InterfaceRun, atmVars, TypeOK
  <2>2. PICK i \in Nat : issue' = i
    BY <2>1, CountTail
  <2>3. /\ Head(ifQ).type = "issue_money" => issue = i + 1
        /\ Head(ifQ).type # "issue_money" => issue = i
    BY <2>1, <2>2, CountTail
  <2>4. Paid = ok + issue + issued + lost /\ Paid' = ok + issue' + issued' + lost
    BY <2>1 DEF Paid
  <2>5. ok \in Nat /\ issue \in Nat /\ issued \in Nat /\ lost \in Nat
    BY Countable
  <2> HIDE DEF issue, ok
  <2>6. Paid' = Paid
    <3>1. CASE Head(ifQ).type = "issue_money"
      <4>1. issued' = issued + 1 /\ issue = i + 1
        BY <1>4, <2>3, <3>1 DEF InterfaceRun
      <4>2. Paid' = ok + i + (issued + 1) + lost
        BY <2>2, <2>4, <4>1, Zenon
      <4>3. QED
        BY <2>4, <2>5, <4>1, <4>2
    <3>2. CASE Head(ifQ).type # "issue_money"
      <4>1. issued' = issued /\ issue = i
        BY <1>4, <2>3, <3>2 DEF InterfaceRun
      <4>2. QED
        BY <2>2, <2>4, <4>1, Zenon
    <3>3. QED
      BY <3>1, <3>2
  <2>7. Open' = Open
    BY <2>1 DEF Open
  <2>8. QED
    BY <2>1, <2>6, <2>7, MoneyKept
<1>5. QED
  BY <1>2, <1>3, <1>4

(* The books stay balanced. *)
LEMMA StepMoney == TypeOK /\ MoneyInv /\ [Next]_vars => MoneyInv'
<1> SUFFICES ASSUME TypeOK, MoneyInv, [Next]_vars PROVE MoneyInv'
  OBVIOUS
<1>1. CASE AtmReceives
  <2>1. PICK m \in {atmQ[i] : i \in DOMAIN atmQ} :
            /\ Receive(m)
            /\ \/ /\ \/ WaitingForCard(m) \/ GettingPin(m) \/ VerifyingPin(m) \/ WaitForAction(m)
                     \/ ProcessBalance(m) \/ ProcessWithdrawal(m) \/ Cancel(m) \/ Drop(m)
                  /\ UNCHANGED ended
               \/ /\ m.type = "close_queue"
                  /\ ended' = ended \cup {"atm"}
                  /\ UNCHANGED <<bankQ, ifQ, atmVars>>
            /\ UNCHANGED elsewhere
    BY <1>1 DEF AtmReceives
  <2>2. m \in Message
    BY DEF TypeOK
  <2>3. CASE m.type = "close_queue" /\ UNCHANGED <<bankQ, ifQ, atmVars>>
    <3>1. UNCHANGED <<bankQ, ifQ, balance, issued, lost, cancelled, state>>
      BY <2>1, <2>3 DEF atmVars, elsewhere
    <3>2. /\ Count(atmQ, "withdraw_ok")' = Count(atmQ, "withdraw_ok")
          /\ Count(atmQ, "withdraw_denied")' = Count(atmQ, "withdraw_denied")
      BY <2>1, <2>3, CountTail DEF Receive, TypeOK
    <3>3. Paid' = Paid /\ Open' = Open
      BY <3>1, <3>2 DEF Paid, Open
    <3>4. QED
      BY <3>1, <3>3, MoneyKept
  <2>4. QED
    BY <2>1, <2>2, <2>3, MoneyAtm
<1>2. QED
  BY <1>1, MoneyBank, MoneyRest DEF Next, AtmRun

(* No money appears, and none is lost but by a cancel that comes after the *)
(* bank has paid: what has left the account is on its way, was given out,  *)
(* or is in a withdraw_ok the machine dropped, for which a withdrawal was  *)
(* cancelled (bank_matchine.h, withdraw; atm.h, process_withdrawal).       *)
THEOREM MoneyIsConserved == Spec => []MoneyConserved
<1>1. TypeOK /\ MoneyInv => MoneyConserved
  <2> SUFFICES ASSUME TypeOK, MoneyInv PROVE MoneyConserved
    OBVIOUS
  <2>1. balance + Amount * Paid = Deposit
    BY DEF MoneyInv
  <2>2. lost <= cancelled
    BY DEF MoneyInv, AtMostOneOpen
  <2>3. QED
    BY <2>1, <2>2 DEF Paid, MoneyConserved
<1>2. QED
  BY <1>1, InitType, StepType, InitMoney, StepMoney, PTL DEF Spec
-----------------------------------------------------------------------------
(* The answers on their way to the machine, and the questions on their way *)
(* to the bank.                                                            *)
AnswersDue == {m \in Elems(atmQ) : m.type \in Answers}

QuestionsDue == {m \in Elems(bankQ) : m.type \in Questions}

Due == AnswersDue \cup QuestionsDue

(* In a queue the numbers of the messages of types T rise. *)
Rising(q, T) == \A i, j \in DOMAIN q :
                   i < j /\ q[i].type \in T /\ q[j].type \in T => q[i].id < q[j].id

(* The answers come in the order of the questions, before the questions    *)
(* that are still to be answered; no number is beyond the last request.    *)
Ordered ==
    /\ Rising(atmQ, Answers) /\ Rising(bankQ, Questions)
    /\ \A m \in AnswersDue : \A n \in QuestionsDue : m.id < n.id
    /\ \A m \in Due : m.id <= request

(* What can still be answered, by the state the machine is in: a PIN only  *)
(* while it waits for that, a withdrawal or balance that was cancelled     *)
(* only until the next PIN is accepted.                                    *)
OpenQuestions ==
    /\ \A m \in Due : m.type \in PinTypes =>
          state = "verifying_pin" /\ m.id = request /\ m.good = pin.good
    /\ state = "wait_for_action" => Due = {}
    /\ state \in {"process_balance", "process_withdrawal"} => \A m \in Due : m.id = request
    /\ state \in {"wait_for_action", "process_balance", "process_withdrawal"}
          => accepted.good /\ pin.good

MatchInv == /\ Ordered
            /\ \A m \in AnswersDue : m.type = "pin_verified" => m.good
            /\ ~crossed => OpenQuestions

(* The numbers of a queue that is read still rise, from a higher one. *)
LEMMA RisingTail ==
    ASSUME NEW q \in Seq(Message), q # <<>>, NEW T, Rising(q, T)
    PROVE  /\ Rising(Tail(q), T)
           /\ Head(q).type \in T => \A x \in Elems(Tail(q)) : x.type \in T => Head(q).id < x.id
<1>1. /\ Tail(q) \in Seq(Message) /\ Head(q) = q[1] /\ 1 \in DOMAIN q
      /\ \A i \in DOMAIN Tail(q) : i \in Nat /\ i + 1 \in DOMAIN q /\ Tail(q)[i] = q[i + 1] /\ 1 < i + 1
  OBVIOUS
<1>2. Rising(Tail(q), T)
  <2>1. ASSUME NEW i \in DOMAIN Tail(q), NEW j \in DOMAIN Tail(q), i < j,
               Tail(q)[i].type \in T, Tail(q)[j].type \in T
        PROVE  Tail(q)[i].id < Tail(q)[j].id
    <3>1. i + 1 < j + 1
      BY <1>1, <2>1
    <3>2. QED
      BY <1>1, <2>1, <3>1 DEF Rising
  <2>2. QED
    BY <2>1 DEF Rising
<1>3. ASSUME Head(q).type \in T, NEW x \in Elems(Tail(q)), x.type \in T
      PROVE  Head(q).id < x.id
  <2>1. PICK i \in DOMAIN Tail(q) : x = Tail(q)[i]
    BY DEF Elems
  <2>2. QED
    BY <1>1, <1>3, <2>1 DEF Rising
<1>4. QED
  BY <1>2, <1>3

(* The numbers of a queue still rise if the one sent is higher. *)
LEMMA RisingAppend ==
    ASSUME NEW q \in Seq(Message), NEW m \in Message, NEW T, Rising(q, T),
           m.type \in T => \A x \in Elems(q) : x.type \in T => x.id < m.id
    PROVE  Rising(Append(q, m), T)
<1> DEFINE r == Append(q, m)
<1>1. /\ DOMAIN r = DOMAIN q \cup {Len(q) + 1} /\ Len(q) + 1 \notin DOMAIN q
      /\ r[Len(q) + 1] = m /\ \A i \in DOMAIN q : r[i] = q[i] /\ ~(Len(q) + 1 < i)
  OBVIOUS
<1>2. \A i \in DOMAIN q : q[i] \in Elems(q)
  BY DEF Elems
<1>3. ASSUME NEW i \in DOMAIN r, NEW j \in DOMAIN r, i < j, r[i].type \in T, r[j].type \in T
      PROVE  r[i].id < r[j].id
  <2>1. CASE j \in DOMAIN q
    <3>1. i \in DOMAIN q
      BY <1>1, <1>3, <2>1
    <3>2. QED
      BY <1>1, <1>3, <2>1, <3>1 DEF Rising
  <2>2. CASE j = Len(q) + 1
    <3>1. i \in DOMAIN q
      BY <1>1, <1>3, <2>2
    <3>2. QED
      BY <1>1, <1>2, <1>3, <2>2, <3>1
  <2>3. QED
    BY <1>1, <2>1, <2>2
<1>4. QED
  BY <1>3 DEF Rising

(* No request has been sent at first. *)
LEMMA InitMatch == Init => MatchInv
  BY DEF Init, MatchInv, Ordered, OpenQuestions, Rising, Due, AnswersDue, QuestionsDue, Elems

(* A message to the bank: a question is the newest one. *)
LEMMA ToBank ==
    ASSUME TypeOK, Ordered, NEW r \in Message, bankQ' = Append(bankQ, r)
    PROVE  /\ r.type \notin Questions => QuestionsDue' = QuestionsDue /\ Rising(bankQ', Questions)
           /\ r.type \in Questions /\ r.id = request + 1 =>
                 QuestionsDue' = QuestionsDue \cup {r} /\ Rising(bankQ', Questions)
<1>1. Elems(bankQ') = Elems(bankQ) \cup {r}
  BY ElemsAppend DEF TypeOK
<1>2. ASSUME r.type \notin Questions
      PROVE  QuestionsDue' = QuestionsDue /\ Rising(bankQ', Questions)
  BY <1>1, <1>2, RisingAppend DEF TypeOK, Ordered, QuestionsDue
<1>3. ASSUME r.type \in Questions, r.id = request + 1
      PROVE  QuestionsDue' = QuestionsDue \cup {r} /\ Rising(bankQ', Questions)
  <2>1. QuestionsDue' = QuestionsDue \cup {r}
    BY <1>1, <1>3 DEF QuestionsDue
  <2>2. \A x \in Elems(bankQ) : x.type \in Questions => x.id < r.id
    <3>1. ASSUME NEW x \in Elems(bankQ), x.type \in Questions PROVE x.id < r.id
      <4>1. x \in Message
        BY DEF Elems, TypeOK
      <4>2. x.id <= request
        BY <3>1 DEF Ordered, Due, QuestionsDue
      <4>3. x.id \in Nat /\ request \in Nat
        BY <4>1 DEF Message, TypeOK
      <4>4. QED
        BY <1>3, <4>2, <4>3
    <3>2. QED
      BY <3>1
  <2>3. QED
    BY <2>1, <2>2, RisingAppend DEF TypeOK, Ordered
<1>4. QED
  BY <1>2, <1>3

(* The machine takes a message: if it is an answer, all others that are    *)
(* still due have higher numbers.                                          *)
LEMMA TakeOrdered ==
    ASSUME TypeOK, Ordered, NEW m \in Message, Receive(m),
           Rising(bankQ', Questions),
           \/ QuestionsDue' = QuestionsDue /\ request' = request
           \/ \E r \in Message : /\ QuestionsDue' = QuestionsDue \cup {r}
                                 /\ r.id = request + 1 /\ request' = request + 1
    PROVE  /\ Ordered'
           /\ AnswersDue' \subseteq AnswersDue
           /\ m.type \in Answers => /\ m \in AnswersDue
                                    /\ m.id <= request
                                    /\ \A x \in AnswersDue' \cup QuestionsDue : m.id < x.id
<1>1. /\ atmQ \in Seq(Message) /\ atmQ # <<>> /\ m = Head(atmQ) /\ atmQ' = Tail(atmQ)
      /\ request \in Nat
  BY DEF TypeOK, Receive
<1>2. /\ Elems(atmQ') \subseteq Elems(atmQ) /\ m \in Elems(atmQ)
      /\ Rising(atmQ', Answers)
      /\ m.type \in Answers => \A x \in Elems(atmQ') : x.type \in Answers => m.id < x.id
  BY <1>1, ElemsTail, RisingTail DEF Ordered
<1>3. AnswersDue' \subseteq AnswersDue
  BY <1>2 DEF AnswersDue
<1>4. \A x \in Due : x.id \in Nat /\ x.id <= request
  <2>1. \A x \in Due : x \in Message
    BY DEF Due, AnswersDue, QuestionsDue, Elems, TypeOK
  <2>2. QED
    BY <2>1 DEF Message, Ordered
<1>5. ASSUME m.type \in Answers
      PROVE  /\ m \in AnswersDue /\ m.id <= request
             /\ \A x \in AnswersDue' \cup QuestionsDue : m.id < x.id
  <2>1. m \in AnswersDue
    BY <1>2, <1>5 DEF AnswersDue
  <2>2. \A x \in AnswersDue' : m.id < x.id
    BY <1>2, <1>5 DEF AnswersDue
  <2>3. QED
    BY <1>4, <2>1, <2>2 DEF Ordered, Due
<1>6. Ordered'
  <2>1. CASE QuestionsDue' = QuestionsDue /\ request' = request
    BY <1>2, <1>3, <2>1 DEF Ordered, Due
  <2>2. CASE \E r \in Message : /\ QuestionsDue' = QuestionsDue \cup {r}
                                /\ r.id = request + 1 /\ request' = request + 1
    <3>1. PICK r \in Message : /\ QuestionsDue' = QuestionsDue \cup {r}
                               /\ r.id = request + 1 /\ request' = request + 1
      BY <2>2
    <3>2. \A x \in Due : x.id < r.id /\ x.id <= request'
      BY <1>1, <1>4, <3>1
    <3>3. r.id <= request'
      BY <1>1, <3>1
    <3>4. \A x \in AnswersDue' : \A n \in QuestionsDue' : x.id < n.id
      BY <1>3, <3>1, <3>2 DEF Ordered, Due
    <3>5. \A x \in Due' : x.id <= request'
      BY <1>3, <3>1, <3>2, <3>3 DEF Due
    <3>6. QED
      BY <1>2, <3>4, <3>5 DEF Ordered
  <2>3. QED
    BY <2>1, <2>2
<1>7. QED
  BY <1>3, <1>5, <1>6

(* The machine's handlers: only a message of the bank's can accept a PIN,  *)
(* and it is the answer to the last question.                              *)
LEMMA MatchAtm ==
    ASSUME TypeOK, MatchInv, NEW m \in Message, Receive(m),
           \/ WaitingForCard(m) \/ GettingPin(m) \/ VerifyingPin(m) \/ WaitForAction(m)
           \/ ProcessBalance(m) \/ ProcessWithdrawal(m) \/ Cancel(m) \/ Drop(m)
           \/ UNCHANGED <<bankQ, ifQ, atmVars>>
    PROVE  MatchInv'
<1> DEFINE Quiet == QuestionsDue' = QuestionsDue /\ request' = request
           Asks(t) == \E r \in Message :
                         /\ r.type = t /\ r.id = request + 1 /\ request' = request + 1
                         /\ r.good = pin'.good
                         /\ QuestionsDue' = QuestionsDue \cup {r}
<1>1. Ordered
  BY DEF MatchInv
<1>2. \A t : Msg(t).type = t
  BY DEF Msg
<1>3. request \in Nat
  BY DEF TypeOK
<1>4. ASSUME NEW t \in {"cancel_withdrawal", "withdrawal_processed"},
             bankQ' = Append(bankQ, Msg(t)), request' = request
      PROVE  Quiet /\ Rising(bankQ', Questions)
  <2>1. Msg(t) \in Message /\ Msg(t).type \notin Questions
    BY DEF Msg, Message, MessageTypes, Questions
  <2>2. QED
    BY <1>1, <1>4, <2>1, ToBank
<1>5. ASSUME NEW t \in Questions, Ask(t), pin'.good \in BOOLEAN
      PROVE  Asks(t) /\ Rising(bankQ', Questions)
  <2> DEFINE r == [type |-> t, id |-> request + 1, good |-> pin'.good]
  <2>1. bankQ' = Append(bankQ, r) /\ request' = request + 1
    BY <1>5 DEF Ask
  <2>2. r \in Message /\ r.type = t /\ r.id = request + 1 /\ r.good = pin'.good
    BY <1>5 DEF TypeOK, Message, MessageTypes
  <2> HIDE DEF r
  <2>3. QED
    BY <1>1, <2>1, <2>2, ToBank
<1>6. \/ Quiet /\ Rising(bankQ', Questions)
      \/ \E t \in Questions : /\ Asks(t) /\ Rising(bankQ', Questions)
                              /\ t = "verify_pin" => state = "getting_pin"
  <2>1. CASE WaitingForCard(m) \/ VerifyingPin(m) \/ ProcessBalance(m) \/ Drop(m)
                \/ UNCHANGED <<bankQ, ifQ, atmVars>>
    BY <1>1, <2>1 DEF WaitingForCard, VerifyingPin, ProcessBalance, Drop, atmVars, QuestionsDue, Ordered
  <2>2. CASE GettingPin(m)
    <3>1. pin'.good \in BOOLEAN
      BY <2>2 DEF GettingPin, TypeOK
    <3>2. Ask("verify_pin") \/ (bankQ' = bankQ /\ request' = request)
      BY <2>2 DEF GettingPin
    <3>3. "verify_pin" \in Questions /\ state = "getting_pin"
      BY <2>2 DEF Questions, GettingPin
    <3>4. CASE bankQ' = bankQ /\ request' = request
      BY <1>1, <3>4 DEF QuestionsDue, Ordered
    <3>5. QED
      BY <1>5, <3>1, <3>2, <3>3, <3>4
  <2>3. CASE WaitForAction(m)
    <3>1. pin'.good \in BOOLEAN
      BY <2>3 DEF WaitForAction, TypeOK
    <3>2. Ask("withdraw") \/ Ask("get_balance")
      BY <2>3 DEF WaitForAction
    <3>3. "withdraw" \in Questions /\ "get_balance" \in Questions
      BY DEF Questions
    <3>4. QED
      BY <1>5, <3>1, <3>2, <3>3
  <2>4. CASE ProcessWithdrawal(m) \/ Cancel(m)
    <3>1. /\ request' = request
          /\ \/ bankQ' = bankQ
             \/ \E t \in {"cancel_withdrawal", "withdrawal_processed"} : bankQ' = Append(bankQ, Msg(t))
      BY <2>4 DEF ProcessWithdrawal, Cancel
    <3>2. CASE bankQ' = bankQ
      BY <1>1, <3>1, <3>2 DEF QuestionsDue, Ordered
    <3>3. QED
      BY <1>4, <3>1, <3>2
  <2>5. QED
    BY <2>1, <2>2, <2>3, <2>4
<1>7. /\ Ordered'
      /\ AnswersDue' \subseteq AnswersDue
      /\ m.type \in Answers => /\ m \in AnswersDue
                               /\ m.id <= request
                               /\ \A x \in AnswersDue' \cup QuestionsDue : m.id < x.id
  BY <1>1, <1>6, TakeOrdered
<1>8. ASSUME request' = request
      PROVE  /\ Due' \subseteq Due
             /\ m.type \in Answers => m \in Due /\ \A x \in Due' : m.id < x.id /\ x.id <= request
  <2>1. Quiet
    BY <1>3, <1>6, <1>8
  <2>2. QED
    BY <1>1, <1>7, <2>1 DEF Due, Ordered
<1>9. \A n \in AnswersDue' : n.type = "pin_verified" => n.good
  BY <1>7 DEF MatchInv
<1>10. \A x \in Due : x.id \in Nat
  <2>1. \A x \in Due : x \in Message
    BY DEF Due, AnswersDue, QuestionsDue, Elems, TypeOK
  <2>2. QED
    BY <2>1 DEF Message
<1>11. SUFFICES ASSUME ~crossed' PROVE OpenQuestions'
  BY <1>7, <1>9 DEF MatchInv
<1>12. CASE WaitingForCard(m)
  <2>1. Due' \subseteq Due /\ state = "waiting_for_card" /\ state' = "getting_pin" /\ ~crossed
    BY <1>8, <1>11, <1>12 DEF WaitingForCard
  <2>2. QED
    BY <2>1 DEF MatchInv, OpenQuestions
<1>13. CASE GettingPin(m)
  <2>1. state = "getting_pin" /\ ~crossed /\ \A x \in Due : x.type \notin PinTypes
    BY <1>11, <1>13 DEF GettingPin, MatchInv, OpenQuestions
  <2>2. CASE state' = "getting_pin" /\ request' = request
    BY <1>8, <2>1, <2>2 DEF OpenQuestions
  <2>3. CASE state' = "verifying_pin" /\ request' = request + 1
    <3>1. PICK r \in Message : /\ r.id = request' /\ r.good = pin'.good
                               /\ QuestionsDue' = QuestionsDue \cup {r}
      BY <1>3, <1>6, <2>3
    <3>2. Due' \subseteq Due \cup {r}
      BY <1>7, <3>1 DEF Due
    <3>3. QED
      BY <2>1, <2>3, <3>1, <3>2 DEF OpenQuestions
  <2>4. QED
    BY <1>13, <2>2, <2>3 DEF GettingPin, Ask
<1>14. CASE VerifyingPin(m)
  <2>1. /\ state = "verifying_pin" /\ ~crossed /\ request' = request /\ pin' = pin
        /\ m.type \in {"pin_verified", "pin_incorrect"}
        /\ state' = IF m.type = "pin_verified" THEN "wait_for_action" ELSE "done_processing"
        /\ accepted' = [id |-> m.id, good |-> m.good]
    BY <1>11, <1>14 DEF VerifyingPin
  <2>2. m.type \in Answers /\ m.type \in PinTypes
    BY <2>1 DEF Answers, PinTypes
  <2>3. /\ m \in AnswersDue /\ m \in Due /\ \A x \in Due' : m.id < x.id /\ x.id <= request
        /\ Due' \subseteq Due
    BY <1>7, <1>8, <2>1, <2>2
  <2>4. m.id = request /\ m.good = pin.good
    BY <2>1, <2>2, <2>3 DEF MatchInv, OpenQuestions
  <2>5. Due' = {}
    BY <1>3, <1>10, <2>3, <2>4
  <2>6. m.type = "pin_verified" => accepted'.good /\ pin'.good
    BY <2>1, <2>3, <2>4 DEF MatchInv
  <2>7. QED
    BY <2>1, <2>5, <2>6 DEF OpenQuestions
<1>15. CASE WaitForAction(m)
  <2>1. /\ state = "wait_for_action" /\ ~crossed /\ request' = request + 1 /\ pin' = pin
        /\ state' \in {"process_withdrawal", "process_balance"} /\ accepted' = accepted
    BY <1>11, <1>15 DEF WaitForAction, Ask
  <2>2. Due = {} /\ accepted.good /\ pin.good
    BY <2>1 DEF MatchInv, OpenQuestions
  <2>3. PICK r \in Message : /\ r.id = request' /\ r.type \in Questions \ {"verify_pin"}
                             /\ QuestionsDue' = QuestionsDue \cup {r}
    BY <1>3, <1>6, <2>1
  <2>4. Due' \subseteq {r} /\ r.type \notin PinTypes
    BY <1>7, <2>2, <2>3 DEF Due, Questions, PinTypes
  <2>5. QED
    BY <2>1, <2>2, <2>3, <2>4 DEF OpenQuestions
<1>16. CASE ProcessBalance(m)
  <2>1. /\ state = "process_balance" /\ ~crossed /\ request' = request /\ m.type = "balance"
        /\ state' = "wait_for_action" /\ pin' = pin /\ accepted' = accepted
    BY <1>11, <1>16 DEF ProcessBalance
  <2>2. accepted.good /\ pin.good /\ \A x \in Due : x.id = request
    BY <2>1 DEF MatchInv, OpenQuestions
  <2>3. m \in Due /\ Due' \subseteq Due /\ \A x \in Due' : m.id < x.id
    BY <1>8, <2>1 DEF Answers
  <2>4. Due' = {}
    BY <1>3, <2>2, <2>3
  <2>5. QED
    BY <2>1, <2>2, <2>4 DEF OpenQuestions
<1>17. CASE ProcessWithdrawal(m) \/ Cancel(m)
  <2>1. state # "verifying_pin" /\ ~crossed /\ request' = request /\ state' = "done_processing"
    <3>1. CASE ProcessWithdrawal(m)
      BY <1>11, <3>1 DEF ProcessWithdrawal
    <3>2. CASE Cancel(m)
      BY <1>11, <3>2, Zenon DEF Cancel
    <3>3. QED
      BY <1>17, <3>1, <3>2
  <2>2. QED
    BY <1>8, <2>1 DEF MatchInv, OpenQuestions
<1>18. CASE Drop(m) \/ UNCHANGED <<bankQ, ifQ, atmVars>>
  <2>1. UNCHANGED <<state, pin, request, accepted, crossed>>
    BY <1>18 DEF Drop, atmVars
  <2>2. QED
    BY <1>8, <1>11, <2>1 DEF MatchInv, OpenQuestions
<1>19. QED
  BY <1>12, <1>13, <1>14, <1>15, <1>16, <1>17, <1>18

(* The bank answers the first question, which has the lowest number of     *)
(* those it has not answered.                                              *)
LEMMA MatchBank ==
    ASSUME TypeOK, MatchInv, BankRun
    PROVE  MatchInv'
<1> DEFINE m == Head(bankQ)
<1>1. /\ bankQ \in Seq(Message) /\ bankQ # <<>> /\ bankQ' = Tail(bankQ)
      /\ atmQ \in Seq(Message)
      /\ UNCHANGED <<state, pin, request, accepted, crossed>>
  BY DEF BankRun, TypeOK, atmVars
<1>2. /\ m \in Message /\ m \in Elems(bankQ) /\ Elems(bankQ') \subseteq Elems(bankQ)
      /\ Rising(bankQ', Questions)
      /\ m.type \in Questions => \A x \in Elems(bankQ') : x.type \in Questions => m.id < x.id
  BY <1>1, ElemsTail, RisingTail DEF MatchInv, Ordered
<1>3. QuestionsDue' \subseteq QuestionsDue
  BY <1>2 DEF QuestionsDue
<1>4. CASE atmQ' = atmQ
  <2>1. AnswersDue' = AnswersDue /\ Due' \subseteq Due
    BY <1>3, <1>4 DEF AnswersDue, Due
  <2>2. Ordered'
    BY <1>1, <1>2, <1>3, <1>4, <2>1 DEF MatchInv, Ordered
  <2>3. QED
    BY <1>1, <2>1, <2>2 DEF MatchInv, OpenQuestions
<1>5. ASSUME NEW r \in Message, atmQ' = Append(atmQ, r), r.type \in Answers, r.id = m.id,
             m.type \in Questions, r.type = "pin_verified" => r.good,
             r.type \in PinTypes => m.type \in PinTypes /\ r.good = m.good
      PROVE  MatchInv'
  <2>1. m \in QuestionsDue /\ \A x \in QuestionsDue' : m.id < x.id
    BY <1>2, <1>5 DEF QuestionsDue
  <2>2. AnswersDue' = AnswersDue \cup {r}
    <3>1. Elems(atmQ') = Elems(atmQ) \cup {r}
      BY <1>1, <1>5, ElemsAppend
    <3>2. QED
      BY <1>5, <3>1 DEF AnswersDue
  <2>3. Rising(atmQ', Answers)
    <3>1. \A x \in Elems(atmQ) : x.type \in Answers => x.id < r.id
      BY <1>5, <2>1 DEF MatchInv, Ordered, AnswersDue
    <3>2. QED
      BY <1>1, <1>5, <3>1, RisingAppend DEF MatchInv, Ordered
  <2>4. \A x \in AnswersDue' : \A n \in QuestionsDue' : x.id < n.id
    BY <1>3, <1>5, <2>1, <2>2 DEF MatchInv, Ordered
  <2>5. Due' \subseteq Due \cup {r} /\ m \in Due
    BY <1>3, <2>1, <2>2 DEF Due
  <2>6. Ordered'
    BY <1>1, <1>2, <1>5, <2>3, <2>4, <2>5 DEF MatchInv, Ordered
  <2>7. ASSUME ~crossed PROVE OpenQuestions'
    BY <1>1, <1>5, <2>5, <2>7 DEF MatchInv, OpenQuestions
  <2>8. QED
    BY <1>1, <1>5, <2>2, <2>6, <2>7 DEF MatchInv
<1>6. CASE BankVerify(m)
  <2> DEFINE r == [m EXCEPT !.type = IF m.good THEN "pin_verified" ELSE "pin_incorrect"]
  <2>1. /\ r \in Message /\ r.type \in {"pin_verified", "pin_incorrect"} /\ r.id = m.id
        /\ r.good = m.good
        /\ r.type = "pin_verified" => m.good
    BY <1>2 DEF Message, MessageTypes, Answers
  <2>2. atmQ' = Append(atmQ, r) /\ m.type = "verify_pin"
    BY <1>6 DEF BankVerify
  <2> HIDE DEF r
  <2>3. QED
    BY <1>5, <2>1, <2>2 DEF Answers, Questions, PinTypes
<1>7. CASE BankWithdraw(m) \/ BankBalance(m)
  <2>1. ASSUME NEW t \in {"withdraw_ok", "withdraw_denied", "balance"}
        PROVE  Reply(t, m.id) \in Message /\ Reply(t, m.id).type = t /\ Reply(t, m.id).id = m.id
    BY <1>2 DEF Reply, Msg, Message, MessageTypes, Answers
  <2>2. /\ m.type \in Questions
        /\ \E t \in {"withdraw_ok", "withdraw_denied", "balance"} : atmQ' = Append(atmQ, Reply(t, m.id))
    BY <1>7 DEF BankWithdraw, BankBalance, Questions
  <2>3. QED
    BY <1>5, <2>1, <2>2 DEF Answers, PinTypes
<1>8. QED
  BY <1>4, <1>6, <1>7 DEF BankRun, BankPrint

(* Requests and answers stay in order. *)
LEMMA StepMatch == TypeOK /\ MatchInv /\ [Next]_vars => MatchInv'
<1> SUFFICES ASSUME TypeOK, MatchInv, [Next]_vars PROVE MatchInv'
  OBVIOUS
<1>1. CASE AtmReceives
  <2>1. PICK m \in {atmQ[i] : i \in DOMAIN atmQ} :
            /\ Receive(m)
            /\ \/ WaitingForCard(m) \/ GettingPin(m) \/ VerifyingPin(m) \/ WaitForAction(m)
               \/ ProcessBalance(m) \/ ProcessWithdrawal(m) \/ Cancel(m) \/ Drop(m)
               \/ UNCHANGED <<bankQ, ifQ, atmVars>>
    BY <1>1 DEF AtmReceives
  <2>2. m \in Message
    BY DEF TypeOK
  <2>3. QED
    BY <2>1, <2>2, MatchAtm
<1>2. CASE (\E k \in Pressed : Press(k)) \/ CloseBank \/ Quit
  <2>1. UNCHANGED <<state, pin, request, accepted, crossed>>
    BY <1>2 DEF Press, CloseBank, Quit, CloseAtm, CloseInterface, JoinThreads, atmVars
  <2>2. ASSUME NEW k \in Pressed \cup {"close_queue"}, NEW q \in Seq(Message), NEW T \in {Answers, Questions},
               Rising(q, T)
        PROVE  /\ {x \in Elems(Append(q, Msg(k))) : x.type \in T} = {x \in Elems(q) : x.type \in T}
               /\ Rising(Append(q, Msg(k)), T)
    <3>1. Msg(k) \in Message /\ Msg(k).type \notin T
      BY DEF Msg, Message, MessageTypes, Pressed, Answers, Questions
    <3>2. QED
      BY <2>2, <3>1, ElemsAppend, RisingAppend
  <2> DEFINE Sends(q, r) == r = q \/ \E k \in Pressed \cup {"close_queue"} : r = Append(q, Msg(k))
  <2>3. Sends(atmQ, atmQ') /\ Sends(bankQ, bankQ')
    BY <1>2 DEF Press, CloseBank, Quit, CloseAtm, CloseInterface, JoinThreads
  <2>4. Rising(atmQ, Answers) /\ Rising(bankQ, Questions) /\ atmQ \in Seq(Message) /\ bankQ \in Seq(Message)
    BY DEF MatchInv, Ordered, TypeOK
  <2>5. AnswersDue' = AnswersDue /\ Rising(atmQ', Answers)
    <3>1. CASE atmQ' = atmQ
      BY <2>4, <3>1 DEF AnswersDue
    <3>2. ASSUME NEW k \in Pressed \cup {"close_queue"}, atmQ' = Append(atmQ, Msg(k))
          PROVE  AnswersDue' = AnswersDue /\ Rising(atmQ', Answers)
      <4>1. {x \in Elems(atmQ') : x.type \in Answers} = {x \in Elems(atmQ) : x.type \in Answers} /\ Rising(atmQ', Answers)
        BY <2>2, <2>4, <3>2
      <4>2. QED
        BY <4>1, Zenon DEF AnswersDue
    <3>3. QED
      BY <2>3, <3>1, <3>2
  <2>6. QuestionsDue' = QuestionsDue /\ Rising(bankQ', Questions)
    <3>1. CASE bankQ' = bankQ
      BY <2>4, <3>1 DEF QuestionsDue
    <3>2. ASSUME NEW k \in Pressed \cup {"close_queue"}, bankQ' = Append(bankQ, Msg(k))
          PROVE  QuestionsDue' = QuestionsDue /\ Rising(bankQ', Questions)
      <4>1. {x \in Elems(bankQ') : x.type \in Questions} = {x \in Elems(bankQ) : x.type \in Questions} /\ Rising(bankQ', Questions)
        BY <2>2, <2>4, <3>2
      <4>2. QED
        BY <4>1, Zenon DEF QuestionsDue
    <3>3. QED
      BY <2>3, <3>1, <3>2
  <2>7. Due' = Due
    BY <2>5, <2>6 DEF Due
  <2>8. Ordered'
    BY <2>1, <2>5, <2>6, <2>7 DEF MatchInv, Ordered
  <2>9. QED
    BY <2>1, <2>5, <2>7, <2>8 DEF MatchInv, OpenQuestions
<1>3. CASE DoneProcessing \/ InterfaceRun \/ UNCHANGED vars
  <2>1. /\ UNCHANGED <<atmQ, bankQ, pin, request, accepted, crossed>>
        /\ \/ state' = state
           \/ state = "done_processing" /\ state' = "waiting_for_card"
    BY <1>3 DEF DoneProcessing, InterfaceRun, vars, atmVars
  <2>2. AnswersDue' = AnswersDue /\ QuestionsDue' = QuestionsDue /\ Due' = Due
    BY <2>1 DEF AnswersDue, QuestionsDue, Due
  <2>3. Ordered'
    BY <2>1, <2>2 DEF MatchInv, Ordered
  <2>4. QED
    BY <2>1, <2>2, <2>3 DEF MatchInv, OpenQuestions
<1>4. QED
  BY <1>1, <1>2, <1>3, MatchBank DEF Next, AtmRun

(* A late answer is never taken for that to another question, and who is   *)
(* offered the options has entered the right PIN - unless cancel was       *)
(* pressed while a PIN was verified (atm.h, the states' handlers).         *)
THEOREM AnswersAreMatched == Spec => []AnswersMatch
<1>1. TypeOK /\ MatchInv => AnswersMatch
  <2> SUFFICES ASSUME TypeOK, MatchInv, ~crossed PROVE AnswersMatch
    BY DEF AnswersMatch
  <2>1. OpenQuestions
    BY DEF MatchInv
  <2>2. ASSUME atmQ # <<>>, Head(atmQ).type \in Handled \cap Answers
        PROVE  Head(atmQ).id = request
    <3>1. Head(atmQ) \in Due
      BY <2>2, ElemsTail DEF TypeOK, Due, AnswersDue
    <3>2. state \in {"verifying_pin", "process_balance", "process_withdrawal"}
      BY <2>2 DEF Handled, Answers, TypeOK, States
    <3>3. state = "verifying_pin" => Head(atmQ).type \in PinTypes
      BY <2>2 DEF Handled, Answers, PinTypes
    <3>4. QED
      BY <2>1, <3>1, <3>2, <3>3 DEF OpenQuestions
  <2>3. QED
    BY <2>1, <2>2 DEF AnswersMatch, OpenQuestions
<1>2. QED
  BY <1>1, InitType, StepType, InitMatch, StepMatch, PTL DEF Spec
=============================================================================
