------------------------------- MODULE Threads -------------------------------
(***************************************************************************)
(* The C++ machine on which the programs of Concurrent/ run: threads that  *)
(* take one instruction at a time, mutexes, condition variables, and       *)
(* memory as the C++11 memory model has it.                                *)
(*                                                                         *)
(* A location keeps all that was ever stored in it, in modification order. *)
(* What a thread has seen of each location is its view: a load may read    *)
(* any message that is not older than that.  A release store attaches the  *)
(* view to the message and an acquire load takes it over; a fence does     *)
(* that for the relaxed operations before or after it, a read-modify-write *)
(* reads the last message and passes its view on (a release sequence), and *)
(* a seq_cst load reads the last message.  An ordinary access races when   *)
(* the thread has not seen the last write (it then may read any value),    *)
(* and an ordinary write when it has not seen what another thread read.    *)
(*                                                                         *)
(* Stores take effect in program order, so no load reads from a store that *)
(* depends on it, and modification order is the order of the steps.        *)
(***************************************************************************)
EXTENDS Integers, Sequences

CONSTANTS Programs   \* by name, as Instructions describes them

VARIABLES prog,      \* the name of the program that runs
          pc, reg,   \* of each thread: the next instruction (0: not started), registers
          mem,       \* of each location: the messages [val, view]
          view,      \* of each thread: what it has seen, and for fences: acq, rel
          lock,      \* of each mutex: who holds it, how often, and its view
          asleep,    \* of each thread: the condition variable it waits for
          went       \* history: what has gone wrong: "fail", "crash", "missed", and
                     \* the variables for which threads have raced

vars == <<prog, pc, reg, mem, view, lock, asleep, went>>

Program == Programs[prog]
Ids == DOMAIN Program.threads
Locations == DOMAIN Program.init
Code(t) == Program.threads[t]

(* Views also keep, under the name Mark(x, u), which message of x thread u *)
(* has read last, for the ordinary variables x that u reads.               *)
Mark(x, u) == x \o "@" \o u
Reading(i) == CASE i.op # "read" -> {}
                [] "at" \in DOMAIN i -> {i.xs[k] : k \in DOMAIN i.xs}
                [] OTHER -> {i.x}
ReadIn(code) == UNION {Reading(code[k]) : k \in DOMAIN code}
Readers == [p \in DOMAIN Programs |->
              LET threads == Programs[p].threads
                  reads == [u \in DOMAIN threads |-> ReadIn(threads[u])]
              IN  [x \in DOMAIN Programs[p].init |-> {u \in DOMAIN threads : x \in reads[u]}]]
Unread == LET marks == UNION {{Mark(x, u) : u \in Readers[prog][x]} : x \in Locations}
          IN  [y \in Locations \cup marks |-> IF y \in Locations THEN 1 ELSE 0]

Join2(u, v) == [x \in DOMAIN u |-> IF u[x] < v[x] THEN v[x] ELSE u[x]]

Init == /\ prog \in DOMAIN Programs
        /\ pc = [t \in Ids |-> IF t = "main" THEN 1 ELSE 0]
        /\ reg = [t \in Ids |-> [a |-> 0, b |-> 0, c |-> 0, ok |-> 0, q |-> <<>>]]
        /\ mem = [x \in Locations |->
                    <<[val |-> Program.init[x], view |-> Unread]>>]
        /\ LET all == Unread
           IN  /\ view = [t \in Ids |-> [cur |-> all, acq |-> all, rel |-> all]]
               /\ lock = [m \in Program.locks |->
                            [by |-> "none", n |-> 0, readers |-> {}, view |-> all]]
        /\ asleep = [t \in Ids |-> ""]
        /\ went = {}
-----------------------------------------------------------------------------
Running(t) == pc[t] \in 1..Len(Code(t)) /\ asleep[t] = "" /\ "crash" \notin went

(* The instruction that t is at, with its location and its value, where    *)
(* they come from registers, filled in.                                    *)
I(t) ==
    LET i == Code(t)[pc[t]]
        R(r) == reg[t][r]
        placed == CASE "at" \notin DOMAIN i -> i
                    [] "ms" \in DOMAIN i -> [i EXCEPT !.ms = @ \cup {i.xs[R(i.at)]}]
                    [] OTHER -> [i EXCEPT !.x = i.xs[R(i.at)]]
    IN  CASE "from" \in DOMAIN i -> [placed EXCEPT !.v = R(i.from)]
          [] "args" \in DOMAIN i -> [placed EXCEPT !.v = i.f[<<R(i.args[1]), R(i.args[2])>>]]
          [] OTHER -> placed

At(t, op) == Code(t)[pc[t]].op = op

Advance(t) == pc' = [pc EXCEPT ![t] = @ + 1]
Set(t, r, v) == reg' = [reg EXCEPT ![t][r] = v]

(* The thread takes over the view v. *)
Saw(t, v) == view' = [view EXCEPT ![t].cur = Join2(@, v), ![t].acq = Join2(@, v)]

(* std::thread: what happened before the start is seen by the thread, what *)
(* the thread did is seen after the join.                                  *)
StartThread(t) ==
    /\ At(t, "start") /\ pc[I(t).x] = 0
    /\ pc' = [pc EXCEPT ![t] = @ + 1, ![I(t).x] = 1]
    /\ Saw(I(t).x, view[t].cur)
    /\ UNCHANGED <<prog, reg, mem, lock, asleep, went>>

JoinThread(t) ==
    /\ At(t, "join") /\ pc[I(t).x] > Len(Code(I(t).x))
    /\ Advance(t) /\ Saw(t, view[I(t).x].cur)
    /\ UNCHANGED <<prog, reg, mem, lock, asleep, went>>
-----------------------------------------------------------------------------
Releases(o) == o \in {"release", "acq_rel", "seq_cst"}
Acquires(o) == o \in {"acquire", "acq_rel", "seq_cst"}

(* The view that a store with order o to location x leaves in its message. *)
Leaves(t, x, o) ==
    [(IF Releases(o) THEN view[t].cur ELSE view[t].rel) EXCEPT ![x] = Len(mem[x]) + 1]

AtomicStore(t) ==
    /\ At(t, "store") /\ Advance(t)
    /\ LET x == I(t).x
           v == Leaves(t, x, I(t).o)
       IN  /\ mem' = [mem EXCEPT ![x] = Append(@, [val |-> I(t).v, view |-> v])]
           /\ view' = [view EXCEPT ![t].cur[x] = v[x], ![t].acq[x] = v[x]]
    /\ UNCHANGED <<prog, reg, lock, asleep, went>>

(* What the thread has seen after reading message i of x. *)
Reads(t, x, i, o) ==
    LET v == [mem[x][i].view EXCEPT ![x] = i]
    IN  [view[t] EXCEPT !.acq = Join2(@, v),
                        !.cur = IF Acquires(o) THEN Join2(@, v) ELSE [@ EXCEPT ![x] = i]]

AtomicLoad(t) ==
    /\ At(t, "load") /\ Advance(t)
    /\ LET x == I(t).x
       IN  \E i \in (IF I(t).o \in {"seq_cst", "polled"} THEN Len(mem[x]) ELSE view[t].cur[x])..Len(mem[x]) :
              /\ I(t).s = {} \/ mem[x][i].val \in I(t).s
              /\ Set(t, I(t).r, mem[x][i].val)
              /\ view' = [view EXCEPT ![t] = Reads(t, x, i, I(t).o)]
    /\ UNCHANGED <<prog, mem, lock, asleep, went>>

AtomicRmw(t) ==
    /\ At(t, "rmw") /\ Advance(t)
    /\ LET x == I(t).x
           i == Len(mem[x])
           old == mem[x][i].val
           fits == old \in DOMAIN I(t).f /\ (I(t).e # "" => old = reg[t][I(t).e])
           v == Join2(Leaves(t, x, I(t).o), mem[x][i].view)
       IN  \/ /\ fits
              /\ Set(t, I(t).r, IF I(t).fetch THEN old ELSE 1)
              /\ mem' = [mem EXCEPT ![x] = Append(@, [val |-> I(t).f[old], view |-> v])]
              /\ view' = [view EXCEPT ![t] = [Reads(t, x, i, I(t).o) EXCEPT !.cur[x] = i + 1,
                                                                          !.acq[x] = i + 1]]
           \/ /\ ~fits /\ ~I(t).spin
              /\ Set(t, I(t).r, 0)
              /\ view' = [view EXCEPT ![t] = Reads(t, x, i, I(t).o)]
              /\ UNCHANGED mem
    /\ UNCHANGED <<prog, lock, asleep, went>>

AtomicFence(t) ==
    /\ At(t, "fence") /\ Advance(t)
    /\ view' = [view EXCEPT ![t] =
                  [@ EXCEPT !.cur = IF Acquires(I(t).o) THEN view[t].acq ELSE @,
                            !.rel = IF Releases(I(t).o) THEN view[t].cur ELSE @]]
    /\ UNCHANGED <<prog, reg, mem, lock, asleep, went>>
-----------------------------------------------------------------------------
(* Ordinary accesses.  A thread that has not seen the last write of x may  *)
(* read an older value; a write by one that has not seen what another      *)
(* thread has read races as well.                                          *)
Missed(t, x) == view[t].cur[x] # Len(mem[x])
Unseen(t, x) == \E u \in Readers[prog][x] \ {t} :
                   view[t].cur[Mark(x, u)] < view[u].cur[Mark(x, u)]

(* The values an ordinary read may give: one, unless it races. *)
Values(t, x) == {mem[x][i].val : i \in view[t].cur[x]..Len(mem[x])}

PlainRead(t) ==
    /\ At(t, "read") /\ Advance(t)
    /\ LET x == I(t).x
           n == Len(mem[x])
           Noted(v) == [v EXCEPT ![x] = n, ![Mark(x, t)] = n]
       IN  /\ \E v \in Values(t, x) : Set(t, I(t).r, v)
           /\ view' = [view EXCEPT ![t].cur = Noted(@), ![t].acq = Noted(@)]
           /\ went' = IF Missed(t, x) THEN went \cup {x} ELSE went
    /\ UNCHANGED <<prog, mem, lock, asleep>>

(* The locations in the domain of new get those values. *)
Change(t, new) ==
    LET xs == DOMAIN new
        Noted(v) == [y \in DOMAIN v |-> IF y \in xs THEN Len(mem[y]) + 1 ELSE v[y]]
    IN  /\ mem' = [x \in Locations |->
                     IF x \in xs THEN Append(mem[x], [val |-> new[x], view |-> mem[x][1].view]) ELSE mem[x]]
        /\ view' = [view EXCEPT ![t].cur = Noted(@), ![t].acq = Noted(@)]
        /\ went' = went \cup {x \in xs : Missed(t, x) \/ Unseen(t, x)}

Only(x, v) == [y \in {x} |-> v]

PlainWrite(t) ==
    /\ At(t, "write") /\ Advance(t)
    /\ Change(t, Only(I(t).x, I(t).v))
    /\ UNCHANGED <<prog, reg, lock, asleep>>

PlainAdd(t) ==
    /\ At(t, "add") /\ Advance(t)
    /\ \E v \in Values(t, I(t).x) : Change(t, Only(I(t).x, v + I(t).v))
    /\ UNCHANGED <<prog, reg, lock, asleep>>

PlainSwap(t) ==
    /\ At(t, "swap") /\ Advance(t)
    /\ \E v \in Values(t, I(t).x), w \in Values(t, I(t).y) :
          Change(t, [z \in {I(t).x, I(t).y} |-> IF z = I(t).x THEN w ELSE v])
    /\ UNCHANGED <<prog, reg, lock, asleep>>

PlainPush(t) ==
    /\ At(t, "push") /\ Advance(t)
    /\ \E v \in Values(t, I(t).x) : Change(t, Only(I(t).x, Append(v, I(t).v)))
    /\ UNCHANGED <<prog, reg, lock, asleep>>

(* Taking an element out of an empty container is undefined behaviour. *)
PlainPop(t) ==
    /\ At(t, "pop")
    /\ \E v \in Values(t, I(t).x) :
         \/ /\ v # <<>> /\ Advance(t)
            /\ Set(t, I(t).r, IF I(t).front THEN Head(v) ELSE v[Len(v)])
            /\ Change(t, Only(I(t).x, IF I(t).front THEN Tail(v)
                                               ELSE SubSeq(v, 1, Len(v) - 1)))
         \/ v = <<>> /\ went' = went \cup {"crash"} /\ UNCHANGED <<pc, reg, mem, view>>
    /\ UNCHANGED <<prog, lock, asleep>>
-----------------------------------------------------------------------------
Free(m) == lock[m].by = "none" /\ lock[m].readers = {}

Acquire(t, ms) ==
    /\ lock' = [m \in DOMAIN lock |-> IF m \in ms THEN [lock[m] EXCEPT !.by = t, !.n = @ + 1]
                                                  ELSE lock[m]]
    /\ view' = [view EXCEPT ![t] =
          LET v == [x \in DOMAIN view[t].cur |->
                      LET seen == {lock[m].view[x] : m \in ms} \cup {view[t].cur[x]}
                      IN  CHOOSE n \in seen : \A k \in seen : k <= n]
          IN  [@ EXCEPT !.cur = v, !.acq = Join2(@, v)]]

Release(t, ms) ==
    lock' = [m \in DOMAIN lock |->
               IF m \in ms
               THEN [by |-> IF lock[m].n > 1 THEN t ELSE "none",
                     n |-> IF lock[m].n > 0 THEN lock[m].n - 1 ELSE 0,
                     readers |-> lock[m].readers \ {t},
                     view |-> Join2(lock[m].view, view[t].cur)]
               ELSE lock[m]]

MutexLock(t) ==
    /\ At(t, "lock") /\ Advance(t)
    /\ \A m \in I(t).ms : Free(m) \/ (I(t).again /\ lock[m].by = t)
    /\ Acquire(t, I(t).ms)
    /\ UNCHANGED <<prog, reg, mem, asleep, went>>

MutexShare(t) ==
    /\ At(t, "share") /\ Advance(t)
    /\ lock[I(t).x].by = "none"
    /\ lock' = [lock EXCEPT ![I(t).x].readers = @ \cup {t}]
    /\ Saw(t, lock[I(t).x].view)
    /\ UNCHANGED <<prog, reg, mem, asleep, went>>

MutexUnlock(t) ==
    /\ At(t, "unlock") /\ Advance(t)
    /\ Release(t, {I(t).x})
    /\ UNCHANGED <<prog, reg, mem, view, asleep, went>>
-----------------------------------------------------------------------------
Value(x) == mem[x][Len(mem[x])].val

Holds(wait) == \/ \E x \in DOMAIN wait.until : Value(x) \notin wait.until[x]
               \/ \E xy \in wait.apart : Value(xy[1]) # Value(xy[2])
HasPredicate(wait) == DOMAIN wait.until # {} \/ wait.apart # {}

(* wait: the predicate is evaluated under the mutex; if it does not hold   *)
(* the mutex is released and the thread sleeps, in one step.               *)
ConditionWait(t) ==
    /\ At(t, "wait")
    /\ IF Holds(I(t))
       THEN Advance(t) /\ UNCHANGED asleep
       ELSE asleep' = [asleep EXCEPT ![t] = "unsatisfied"] /\ UNCHANGED pc
    /\ UNCHANGED <<prog, reg, mem, view, lock, went>>

Sleep(t) ==
    /\ asleep[t] = "unsatisfied" /\ "crash" \notin went
    /\ Release(t, I(t).ms)
    /\ asleep' = [asleep EXCEPT ![t] = I(t).cv]
    /\ UNCHANGED <<prog, pc, reg, mem, view, went>>

(* A notification is missed by a thread that has evaluated its predicate   *)
(* and does not sleep yet; that takes a notifier without the mutex.        *)
Notify(t) ==
    /\ At(t, "notify") /\ Advance(t)
    /\ LET waiting == {u \in Ids : asleep[u] = I(t).cv}
       IN  \E us \in (IF I(t).all \/ waiting = {} THEN {waiting} ELSE {{u} : u \in waiting}) :
              asleep' = [u \in Ids |-> IF u \in us THEN "woken" ELSE asleep[u]]
    /\ went' = IF \E u \in Ids : asleep[u] = "unsatisfied" /\ I(u).cv = I(t).cv /\ ~I(u).timed
               THEN went \cup {"missed"} ELSE went
    /\ UNCHANGED <<prog, reg, mem, view, lock>>

(* A thread that was woken takes the mutex and looks at the predicate      *)
(* again, if it has one.                                                   *)
Wake(t) ==
    /\ asleep[t] = "woken" /\ (\A m \in I(t).ms : Free(m)) /\ "crash" \notin went
    /\ asleep' = [asleep EXCEPT ![t] = ""]
    /\ Acquire(t, I(t).ms)
    /\ IF HasPredicate(I(t)) THEN UNCHANGED pc ELSE Advance(t)
    /\ UNCHANGED <<prog, reg, mem, went>>

(* Wake-ups without a notification: a timeout, which comes in the end, and *)
(* spurious ones, which need not.  A spurious one in a wait with a         *)
(* predicate is left out: it evaluates the predicate and sleeps again.     *)
WakeUp(t) ==
    /\ asleep[t] \notin {"", "unsatisfied", "woken"}
    /\ asleep' = [asleep EXCEPT ![t] = "woken"]
    /\ UNCHANGED <<prog, pc, reg, mem, view, lock, went>>

Timeout(t) == WakeUp(t) /\ I(t).timed
Spurious(t) == WakeUp(t) /\ ~I(t).timed /\ ~HasPredicate(I(t))
-----------------------------------------------------------------------------
SetRegister(t) ==
    /\ At(t, "let") /\ Advance(t)
    /\ Set(t, I(t).r, I(t).v)
    /\ UNCHANGED <<prog, mem, view, lock, asleep, went>>

GoTo(t) ==
    /\ At(t, "jump")
    /\ pc' = [pc EXCEPT ![t] = @ + I(t).n + 1]
    /\ UNCHANGED <<prog, reg, mem, view, lock, asleep, went>>

Branch(t) ==
    /\ At(t, "if")
    /\ pc' = [pc EXCEPT ![t] = @ + 1 + (IF reg[t][I(t).r] \in I(t).s THEN 0 ELSE I(t).n)]
    /\ UNCHANGED <<prog, reg, mem, view, lock, asleep, went>>

Verify(t) ==
    /\ At(t, "assert") /\ Advance(t)
    /\ went' = IF reg[t][I(t).r] \in I(t).s THEN went ELSE went \cup {"fail"}
    /\ UNCHANGED <<prog, reg, mem, view, lock, asleep>>

Die(t) ==
    /\ At(t, "terminate")
    /\ went' = went \cup {"crash"}
    /\ UNCHANGED <<prog, pc, reg, mem, view, lock, asleep>>

Execute(t) ==
    /\ Running(t)
    /\ \/ StartThread(t) \/ JoinThread(t)
       \/ AtomicStore(t) \/ AtomicLoad(t) \/ AtomicRmw(t) \/ AtomicFence(t)
       \/ PlainRead(t) \/ PlainWrite(t) \/ PlainAdd(t) \/ PlainSwap(t)
       \/ PlainPush(t) \/ PlainPop(t)
       \/ MutexLock(t) \/ MutexShare(t) \/ MutexUnlock(t)
       \/ ConditionWait(t) \/ Notify(t)
       \/ SetRegister(t) \/ GoTo(t) \/ Branch(t) \/ Verify(t) \/ Die(t)

Step(t) == Execute(t) \/ Sleep(t) \/ Wake(t) \/ Timeout(t)

Next == \E t \in Ids : Step(t) \/ Spurious(t)

Spec == Init /\ [][Next]_vars
-----------------------------------------------------------------------------
Ended == \A t \in Ids : pc[t] > Len(Code(t)) /\ pc[t] > 0

(* The assertions of the programs hold, and nothing is taken out of an     *)
(* empty container and no exception is left uncaught, except in the        *)
(* programs whose comments announce it (may), and in the one that adopts a *)
(* mutex it does not hold (flaws).                                         *)
AssertsHold == went \ ({"missed"} \cup Locations) \subseteq Program.may \cup Program.flaws

(* No thread touches an ordinary variable that another one has written,    *)
(* nor writes one that another one has read, without having synchronised   *)
(* with that access; except at the variables for which a comment announces *)
(* it (may) and those at which it is a defect of the program (flaws).      *)
NoDataRace == went \cap Locations \subseteq Program.may \cup Program.flaws

(* All threads have come to their end, or a notification was missed, or    *)
(* the program is one that shows how threads block each other, or was      *)
(* ended by an error.                                                      *)
Finished == \/ Ended \/ went \cap {"missed", "crash"} # {}
            \/ "stuck" \in Program.may
=============================================================================
