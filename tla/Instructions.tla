---------------------------- MODULE Instructions ----------------------------
(***************************************************************************)
(* The steps that the programs of Concurrent/day01 to day24 are made of,   *)
(* as data: operations of std::atomic, std::mutex, std::thread and         *)
(* std::condition_variable, accesses to ordinary variables, jumps and      *)
(* assertions.  Threads says what each of them does.  A program is a       *)
(* record:                                                                 *)
(*    init      the locations and their initial values                     *)
(*    locks     the mutexes                                                *)
(*    threads   the code of each thread; main starts and joins the others  *)
(*    may       what goes wrong in it by its comments or because that is   *)
(*              what it is there to show: an assertion fails ("fail"),     *)
(*              threads wait for each other for ever ("stuck"),            *)
(*              std::terminate or undefined behaviour ("crash"), and the   *)
(*              ordinary variables at which there is a data race           *)
(*    flaws     what goes wrong in it that no comment tells of, the same   *)
(*              way                                                        *)
(* A thread has registers a, b, c, ok for numbers and q for sequences.     *)
(***************************************************************************)
EXTENDS Integers, Sequences, TLC

CONSTANTS Rounds,    \* bound: how often a loop without end is run
          Counts     \* bound: the values of the counters

(* Memory orders; a consume load is compiled as an acquire load.  polled   *)
(* is a relaxed load in a loop that ends when a store is seen: stores      *)
(* become visible in the end, so the rounds before that do not count.      *)
relaxed == "relaxed"
polled == "polled"
acquire == "acquire"
release == "release"
consume == "acquire"
acq_rel == "acq_rel"
seq_cst == "seq_cst"

(* Threads: std::thread t(...), t.join(), and code that runs n times. *)
Start(t) == <<[op |-> "start", x |-> t]>>
Join(t) == <<[op |-> "join", x |-> t]>>
Repeat(n, code) == [i \in 1..n * Len(code) |-> code[((i - 1) % Len(code)) + 1]]
Forever(code) == Repeat(Rounds, code)
StartAll(ts) == [i \in DOMAIN ts |-> [op |-> "start", x |-> ts[i]]]
JoinAll(ts) == [i \in DOMAIN ts |-> [op |-> "join", x |-> ts[i]]]
Run(ts) == StartAll(ts) \o JoinAll(ts)

(* Atomic objects.  Spin is a loop of loads that ends with a value of s;   *)
(* Rmw replaces v by f[v], SpinRmw waits for a value in the domain of f,   *)
(* and Cas says in r whether there was one.  CompareExchange expects the   *)
(* value of register e; its callers load that again when it fails.  Fetch  *)
(* leaves the old value in r.                                              *)
Store(x, v, o) == <<[op |-> "store", x |-> x, v |-> v, o |-> o]>>
StoreFrom(x, r, o) == <<[op |-> "store", x |-> x, v |-> 0, o |-> o, from |-> r]>>
Load(x, o, r) == <<[op |-> "load", x |-> x, o |-> o, r |-> r, s |-> {}]>>
Spin(x, s, o, r) == <<[op |-> "load", x |-> x, o |-> o, r |-> r, s |-> s]>>
CompareExchange(x, e, f, o, r, spin) ==
    <<[op |-> "rmw", x |-> x, e |-> e, f |-> f, o |-> o, r |-> r, spin |-> spin,
       fetch |-> FALSE]>>
Cas(x, f, o, r) == CompareExchange(x, "", f, o, r, FALSE)
SpinRmw(x, f, o) == CompareExchange(x, "", f, o, "ok", TRUE)
Fetch(x, f, o, r) == <<[SpinRmw(x, f, o)[1] EXCEPT !.r = r, !.fetch = TRUE]>>
Increment == [n \in Counts |-> n + 1]
Rmw(x, o) == SpinRmw(x, Increment, o)
Fence(o) == <<[op |-> "fence", o |-> o]>>

(* Ordinary variables, and sequences (a stack, a queue, a vector), which   *)
(* are read into register q.  Put stores a register, Let sets one, and     *)
(* Compute sets one to what f gives for two of them.  Indexed takes the    *)
(* location (or a mutex) from the table xs, by the number in register r.   *)
Read(x, r) == <<[op |-> "read", x |-> x, r |-> r]>>
Write(x, v) == <<[op |-> "write", x |-> x, v |-> v]>>
Put(x, r) == <<[op |-> "write", x |-> x, v |-> 0, from |-> r]>>
Let(r, v) == <<[op |-> "let", r |-> r, v |-> v]>>
Move(r, s) == <<[op |-> "let", r |-> r, v |-> 0, from |-> s]>>
Compute(r, f, s1, s2) == <<[op |-> "let", r |-> r, v |-> 0, f |-> f, args |-> <<s1, s2>>]>>
Indexed(code, xs, r) == <<code[1] @@ [at |-> r, xs |-> xs]>>
Swap(x, y) == <<[op |-> "swap", x |-> x, y |-> y]>>
Add(x, n) == <<[op |-> "add", x |-> x, v |-> n]>>
Push(x, v) == <<[op |-> "push", x |-> x, v |-> v]>>
PopFront(x, r) == <<[op |-> "pop", x |-> x, r |-> r, front |-> TRUE]>>
PopBack(x, r) == <<[op |-> "pop", x |-> x, r |-> r, front |-> FALSE]>>

(* Mutexes.  std::lock takes all of ms or none. *)
Lock(m) == <<[op |-> "lock", ms |-> {m}, again |-> FALSE]>>
LockAll(ms) == <<[op |-> "lock", ms |-> ms, again |-> FALSE]>>
LockRecursive(m) == <<[op |-> "lock", ms |-> {m}, again |-> TRUE]>>
LockShared(m) == <<[op |-> "share", x |-> m]>>
Unlock(m) == <<[op |-> "unlock", x |-> m]>>
Guarded(m, code) == Lock(m) \o code \o Unlock(m)

(* Condition variables.  Wait goes on when some variable x of until has a  *)
(* value that is not in until[x], or two of apart are different; without   *)
(* both it waits for one wake-up.  WaitFor is woken by its timeout as      *)
(* well; WaitAny releases two mutexes.                                     *)
Waiting(cv, ms, until, apart, timed) ==
    <<[op |-> "wait", cv |-> cv, ms |-> ms, until |-> until, apart |-> apart, timed |-> timed]>>
Wait(cv, m, until) == Waiting(cv, {m}, until, {}, FALSE)
WaitFor(cv, m) == Waiting(cv, {m}, <<>>, {}, TRUE)
WaitAny(cv, ms) == Waiting(cv, ms, <<>>, {}, FALSE)
NotifyOne(cv) == <<[op |-> "notify", cv |-> cv, all |-> FALSE]>>
NotifyAll(cv) == <<[op |-> "notify", cv |-> cv, all |-> TRUE]>>

(* Control.  If runs code when r has a value of s, DoWhile repeats it      *)
(* while r has; Check is an assertion that r has one; Terminate is an      *)
(* exception that nothing catches, or undefined behaviour.                 *)
Jump(n) == <<[op |-> "jump", n |-> n]>>
If(r, s, code) == <<[op |-> "if", r |-> r, s |-> s, n |-> Len(code)]>> \o code
IfElse(r, s, yes, no) == If(r, s, yes \o Jump(Len(no))) \o no
DoWhile(code, r, s) == code \o If(r, s, Jump(-(Len(code) + 2)))
Check(r, s) == <<[op |-> "assert", r |-> r, s |-> s]>>
Terminate == <<[op |-> "terminate"]>>

(* A program in which nothing may go wrong, with the locations x at 0. *)
Zeros(xs) == [x \in xs |-> 0]
Just(init, threads, locks) ==
    [init |-> init, locks |-> locks, threads |-> threads, may |-> {}, flaws |-> {}]
Danger(program, may) == [program EXCEPT !.may = may]
Flawed(program, flaws) == [program EXCEPT !.flaws = flaws]
=============================================================================
