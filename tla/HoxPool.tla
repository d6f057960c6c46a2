------------------------------- MODULE HoxPool -------------------------------
(***************************************************************************)
(* The threads of one server process that serve one listening socket:      *)
(* set_thread_throttling, start_threads and handle_connections of          *)
(* server/main.cpp.                                                        *)
(*                                                                         *)
(* State threads do not preempt each other: a thread runs from one call    *)
(* that waits (accept, and the inputs and outputs of a session) to the     *)
(* next, which makes an action of each such stretch.  A thread that never  *)
(* waits keeps the whole process.                                          *)
(***************************************************************************)
EXTENDS Integers, Sequences, FiniteSets

CONSTANTS
    Clients,        \* who connects
    Threads,        \* names for threads
    None,
    VpCount,        \* vp_count: option -p
    SkCount,        \* sk_count: options -b
    OptWait,        \* max_wait_threads and max_threads of option -t,
    OptThreads,     \*   0 for the default
    FdLimit,        \* st_getfdlimit()
    OwnFds,         \* descriptors a process holds without any client
    MaxFails        \* bound: threads that cannot be created

ASSUME OptionsAssumption ==
    /\ VpCount \in Nat \ {0} /\ SkCount \in Nat \ {0}
    /\ OptWait \in Nat /\ OptThreads \in Nat
    /\ FdLimit \in Nat /\ OwnFds \in Nat /\ MaxFails \in Nat
ASSUME ThreadsAssumption == IsFiniteSet(Threads)
ASSUME NoneAssumption == None \notin Clients \cup Threads

-----------------------------------------------------------------------------
(* set_thread_throttling: the limits of all processes together, ...        *)
MaxWaitThreadsDefault == 8
FdPerThread == 2
Least(x, y) == IF x < y THEN x ELSE y
AllThreads == IF OptThreads = 0 THEN ((FdLimit * VpCount) \div FdPerThread) \div SkCount
                                ELSE OptThreads
AllWait == Least(IF OptWait = 0 THEN MaxWaitThreadsDefault * VpCount ELSE OptWait, AllThreads)

(* ... shared among them, and rounded up.                                  *)
Share(n) == n \div VpCount + (IF n % VpCount = 0 THEN 0 ELSE 1)
MaxWait == Share(AllWait)
MaxThreads == Share(AllThreads)
MinWait == Least(2, MaxWait)

-----------------------------------------------------------------------------
VARIABLES
    place,          \* what each thread does: "none" (no thread), "accepting",
                    \*   "serving", or "spinning" in a loop that never waits
    client,         \* the client each thread serves
    waitThreads,    \* WAIT_THREADS(i)
    busyThreads,    \* BUSY_THREADS(i)
    queue,          \* the connections that wait to be accepted
    fails           \* threads that could not be created

vars == <<place, client, waitThreads, busyThreads, queue, fails>>

At(where) == {t \in Threads : place[t] = where}
Queued == {queue[k] : k \in DOMAIN queue}
Served == {client[t] : t \in At("serving")}

TypeOK ==
    /\ place \in [Threads -> {"none", "accepting", "serving", "spinning"}]
    /\ client \in [Threads -> Clients \cup {None}]
    /\ waitThreads \in Int /\ busyThreads \in Int
    /\ queue \in Seq(Clients)
    /\ fails \in 0..MaxFails

(* start_threads: a process that can create no thread exits at once.       *)
Init ==
    /\ \E S \in SUBSET Threads :
        /\ Cardinality(S) \in 1..MaxWait /\ Cardinality(S) >= MaxWait - MaxFails
        /\ place = [t \in Threads |-> IF t \in S THEN "accepting" ELSE "none"]
        /\ waitThreads = Cardinality(S)
        /\ fails = MaxWait - Cardinality(S)
    /\ client = [t \in Threads |-> None]
    /\ busyThreads = 0
    /\ queue = <<>>

(* External: a client connects; the kernel queues him.                     *)
Connect(c) ==
    /\ c \notin Queued \cup Served
    /\ queue' = Append(queue, c)
    /\ UNCHANGED <<place, client, waitThreads, busyThreads, fails>>

(* The processor is free: no thread spins.                                 *)
Runs == At("spinning") = {}
NoFdLeft == OwnFds + Cardinality(At("serving")) >= FdLimit

Serves(t) == client' = [client EXCEPT ![t] = Head(queue)] /\ queue' = Tail(queue)

-----------------------------------------------------------------------------
(* Mutants of Spare: the total is compared once too late; a spare thread   *)
(* is created only when none is left.                                      *)
SpareTooMany(w, b) == w < MinWait /\ w + b <= MaxThreads
SpareTooLate(w, b) == w < 0 /\ w + b < MaxThreads

(* One more thread is wanted, when w threads wait and b are busy.          *)
Spare(w, b) == w < MinWait /\ w + b < MaxThreads

(* Mutant: the spare thread is counted before it is known to exist.        *)
AcceptCounting(t) ==
    LET w == waitThreads - 1
        b == busyThreads + 1
    IN  /\ Runs /\ place[t] = "accepting" /\ queue # <<>> /\ ~NoFdLeft
        /\ Serves(t)
        /\ busyThreads' = b
        /\ waitThreads' = IF Spare(w, b) THEN w + 1 ELSE w
        /\ \/ /\ Spare(w, b)
              /\ \E u \in At("none") :
                    place' = [place EXCEPT ![t] = "serving", ![u] = "accepting"]
              /\ UNCHANGED fails
           \/ /\ IF Spare(w, b) THEN fails < MaxFails /\ fails' = fails + 1
                                 ELSE UNCHANGED fails
              /\ place' = [place EXCEPT ![t] = "serving"]

(* Thread t accepts the first connection, and creates a spare thread.      *)
Accept(t) ==
    LET w == waitThreads - 1
        b == busyThreads + 1
        wanted == Spare(w, b)
    IN  /\ Runs /\ place[t] = "accepting" /\ queue # <<>> /\ ~NoFdLeft
        /\ Serves(t)
        /\ busyThreads' = b
        /\ \/ /\ wanted
              /\ \E u \in At("none") :
                    place' = [place EXCEPT ![t] = "serving", ![u] = "accepting"]
              /\ waitThreads' = w + 1
              /\ UNCHANGED fails
           \/ /\ IF wanted THEN fails < MaxFails /\ fails' = fails + 1
                           ELSE UNCHANGED fails
              /\ place' = [place EXCEPT ![t] = "serving"]
              /\ waitThreads' = w

(* With no descriptor left, st_accept fails at once, without a switch to   *)
(* another thread, and the loop calls it again.                            *)
AcceptFails(t) ==
    /\ Runs /\ place[t] = "accepting" /\ queue # <<>> /\ NoFdLeft
    /\ place' = [place EXCEPT ![t] = "spinning"]
    /\ UNCHANGED <<client, waitThreads, busyThreads, queue, fails>>

(* The condition of the loop of handle_connections.                        *)
Stays(w) == w <= MaxWait

(* The session of thread t is over: it waits again, or ends.               *)
Finish(t) ==
    LET w == waitThreads + 1
    IN  /\ Runs /\ place[t] = "serving"
        /\ client' = [client EXCEPT ![t] = None]
        /\ busyThreads' = busyThreads - 1
        /\ IF Stays(w)
           THEN place' = [place EXCEPT ![t] = "accepting"] /\ waitThreads' = w
           ELSE place' = [place EXCEPT ![t] = "none"] /\ waitThreads' = w - 1
        /\ UNCHANGED <<queue, fails>>

Next ==
    \/ \E c \in Clients : Connect(c)
    \/ \E t \in Threads : Accept(t) \/ Finish(t)

(* With the processes whose descriptors run out.                           *)
NextSpinning == Next \/ \E t \in Threads : AcceptFails(t)

Spec == Init /\ [][Next]_vars
SpinningSpec == Init /\ [][NextSpinning]_vars

(* Threads that can run do; a session may last for ever.                   *)
FairSpec == Spec /\ WF_vars(\E t \in Threads : Accept(t))
FairSpinningSpec == SpinningSpec /\ WF_vars(\E t \in Threads : Accept(t))

-----------------------------------------------------------------------------
(* The two counters, moved by hand around each session and each creation,  *)
(* are the numbers of threads that wait and that serve.                    *)
CountersTrue ==
    /\ waitThreads = Cardinality(At("accepting"))
    /\ busyThreads = Cardinality(At("serving"))

(* "The current thread on each VP maintains equilibrium on that VP,        *)
(* starting a new thread or terminating itself": as many threads wait as   *)
(* the lower limit wants, less those that could not be created, or all     *)
(* threads there may be exist; never more than the upper limits.           *)
Equilibrium ==
    /\ waitThreads >= MinWait - fails \/ waitThreads + busyThreads = MaxThreads
    /\ waitThreads <= MaxWait
    /\ waitThreads + busyThreads <= MaxThreads

(* A client that connects is accepted, unless the pool is at its limit.    *)
Accepted ==
    \A c \in Clients : c \in Queued ~> (c \notin Queued \/ busyThreads = MaxThreads)

(* No thread keeps the processor.                                          *)
NobodySpins == Runs
=============================================================================
