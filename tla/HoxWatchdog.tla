----------------------------- MODULE HoxWatchdog -----------------------------
(***************************************************************************)
(* The processes of the server and the signals between them: the watchdog  *)
(* (start_processes, wdog_sighandler), the processes it forks, called VPs  *)
(* (install_sighandlers, child_sighandler, process_signals), and the log   *)
(* files that SIGHUP reopens, of server/main.cpp.                          *)
(*                                                                         *)
(* A process is a number, its pid, and is never used again.  The kernel is *)
(* external: it keeps one pending signal of each kind, delivers it when it *)
(* is not blocked, and keeps a dead child until the watchdog waits for it. *)
(***************************************************************************)
EXTENDS Integers, Sequences, FiniteSets

CONSTANTS
    VpCount,        \* vp_count: the processes wanted
    PipeSize,       \* the signals that fit into a signal pipe
    MaxPids,        \* bound: processes forked in all
    MaxCrashes,     \* bound: processes that die of themselves
    MaxForkFails,   \* bound: forks that fail in the watchdog
    MaxSignals,     \* bound: signals sent to the watchdog
    EarlySignals    \* whether a signal may come before the watchdog's handlers

ASSUME BoundsAssumption ==
    /\ VpCount \in Nat \ {0} /\ PipeSize \in Nat \ {0} /\ MaxPids \in Nat
    /\ MaxCrashes \in Nat /\ MaxForkFails \in Nat /\ MaxSignals \in Nat
    /\ EarlySignals \in BOOLEAN

VARIABLES
    watchdog,       \* "forking" (the first processes), "waiting", "reaping"
                    \*   (a child has died: signals are blocked), or "gone"
    index,          \* i of start_processes: the next of the first slots, or the
                    \*   slot of the child that has died
    vpCount,        \* vp_count of the watchdog
    vpPids,         \* vp_pids: 0 when unset, -1 after a fork that failed
    vp,             \* the life of each process
    pending,        \* signals for each process that were not delivered yet
    pipe,           \* sig_pipe of each process
    logOf,          \* the generation of log files each process writes into, -1
                    \*   before it is forked
    wdLog,          \* ... and the watchdog
    rotated,        \* the generation of log files by name
    toWatchdog,     \* signals for the watchdog
    crashes, forkFails, sent   \* how often each bounded event happened

processes == <<vp, pending, pipe, logOf>>
table == <<watchdog, index, vpCount, vpPids>>
vars == <<watchdog, index, vpCount, vpPids, vp, pending, pipe, logOf,
          wdLog, rotated, toWatchdog, crashes, forkFails, sent>>

Pids == 1..MaxPids
Slots == 0..(VpCount - 1)
Signals == {"TERM", "HUP", "USR1"}
(* A process is "young" with the signal handling of its parent, "ready"    *)
(* once install_sighandlers has run, "faulting" while the handler of a     *)
(* fault returns to it, "zombie" when it has died, "none" when its parent  *)
(* has waited for it.                                                      *)
Lives == {"none", "young", "blocked", "ready", "faulting", "zombie"}
Alive(p) == vp[p] \in {"young", "blocked", "ready", "faulting"}
Children == {p \in Pids : vp[p] # "none"}

TypeOK ==
    /\ watchdog \in {"forking", "waiting", "reaping", "gone"}
    /\ index \in 0..vpCount /\ vpCount \in 0..VpCount
    /\ vpPids \in [Slots -> Pids \cup {0, -1}]
    /\ vp \in [Pids -> Lives]
    /\ pending \in [Pids -> SUBSET Signals]
    /\ pipe \in [Pids -> Seq(Signals \cup {"SEGV"})]
    /\ rotated \in Nat /\ wdLog \in Nat /\ logOf \in [Pids -> Nat \cup {-1}]
    /\ toWatchdog \subseteq Signals
    /\ crashes \in Nat /\ forkFails \in Nat /\ sent \in Nat

Init ==
    /\ watchdog = "forking" /\ index = 0 /\ vpCount = VpCount
    /\ vpPids = [i \in Slots |-> 0]
    /\ vp = [p \in Pids |-> "none"]
    /\ pending = [p \in Pids |-> {}] /\ pipe = [p \in Pids |-> <<>>]
    /\ logOf = [p \in Pids |-> -1] /\ wdLog = 0 /\ rotated = 0
    /\ toWatchdog = {} /\ crashes = 0 /\ forkFails = 0 /\ sent = 0

-----------------------------------------------------------------------------
(* fork(): a new process p, which writes into the logs of the watchdog and *)
(* blocks the signals the watchdog blocks.                                 *)
Fork(p, life) ==
    /\ logOf[p] = -1 /\ \A q \in 1..(p - 1) : logOf[q] # -1
    /\ vp' = [vp EXCEPT ![p] = life]
    /\ logOf' = [logOf EXCEPT ![p] = wdLog]
    /\ UNCHANGED <<pending, pipe>>

ForkFails == forkFails < MaxForkFails /\ forkFails' = forkFails + 1 /\ UNCHANGED processes

(* start_processes: the next of the first processes.                       *)
ForkFirst ==
    /\ watchdog = "forking" /\ index < vpCount
    /\ \E p \in Pids : Fork(p, "young") /\ vpPids' = [vpPids EXCEPT ![index] = p]
    /\ index' = index + 1
    /\ UNCHANGED <<watchdog, vpCount, wdLog, rotated, toWatchdog, crashes, forkFails, sent>>

(* The fork fails: with no process at all the server exits, otherwise it   *)
(* goes on with those there are.                                           *)
ForkFirstFails ==
    /\ watchdog = "forking" /\ index < vpCount /\ ForkFails
    /\ vpCount' = index
    /\ watchdog' = IF index = 0 THEN "gone" ELSE watchdog
    /\ UNCHANGED <<index, vpPids, wdLog, rotated, toWatchdog, crashes, sent>>

(* The handlers are installed; the watchdog waits for its children.        *)
BeginWaiting ==
    /\ watchdog = "forking" /\ index = vpCount
    /\ watchdog' = "waiting"
    /\ UNCHANGED <<index, vpCount, vpPids, processes, wdLog, rotated, toWatchdog,
                   crashes, forkFails, sent>>

(* The slot of process p; vp_count when it has none.                       *)
SlotOf(p) ==
    IF \E i \in Slots : i < vpCount /\ vpPids[i] = p
    THEN CHOOSE i \in Slots : i < vpCount /\ vpPids[i] = p
    ELSE vpCount

(* wait() returns a dead child; signals are blocked from here on.          *)
Reap(p) ==
    /\ watchdog = "waiting" /\ vp[p] = "zombie"
    /\ watchdog' = "reaping"
    /\ index' = SlotOf(p)
    /\ vp' = [vp EXCEPT ![p] = "none"]
    /\ UNCHANGED <<vpCount, vpPids, pending, pipe, logOf, wdLog, rotated, toWatchdog,
                   crashes, forkFails, sent>>

(* Mutant: the new process is not written into the table.                  *)
ReforkForgotten ==
    /\ watchdog = "reaping"
    /\ \E p \in Pids : Fork(p, "blocked")
    /\ watchdog' = "waiting"
    /\ UNCHANGED <<index, vpCount, vpPids, wdLog, rotated, toWatchdog, crashes, forkFails, sent>>

(* A new process is forked for the slot of the dead one.                   *)
Refork ==
    /\ watchdog = "reaping"
    /\ \E p \in Pids : Fork(p, "blocked") /\ vpPids' = [vpPids EXCEPT ![index] = p]
    /\ watchdog' = "waiting"
    /\ UNCHANGED <<index, vpCount, wdLog, rotated, toWatchdog, crashes, forkFails, sent>>

(* The fork fails: it is reported, and -1 written into the slot.           *)
ReforkFails ==
    /\ watchdog = "reaping" /\ ForkFails
    /\ vpPids' = [vpPids EXCEPT ![index] = -1]
    /\ watchdog' = "waiting"
    /\ UNCHANGED <<index, vpCount, wdLog, rotated, toWatchdog, crashes, sent>>

(* wait() fails when there is no child left: the watchdog exits.           *)
NoChildLeft ==
    /\ watchdog = "waiting" /\ Children = {}
    /\ watchdog' = "gone"
    /\ UNCHANGED <<index, vpCount, vpPids, processes, wdLog, rotated, toWatchdog,
                   crashes, forkFails, sent>>

-----------------------------------------------------------------------------
(* External: someone sends signal s to the watchdog.  The logs are renamed *)
(* before a SIGHUP.                                                        *)
SendSignal(s) ==
    /\ watchdog # "gone" /\ (watchdog = "forking" => EarlySignals)
    /\ s \notin toWatchdog
    /\ toWatchdog' = toWatchdog \cup {s}
    /\ sent < MaxSignals /\ sent' = sent + 1
    /\ rotated' = IF s = "HUP" THEN rotated + 1 ELSE rotated
    /\ UNCHANGED <<table, processes, wdLog, crashes, forkFails>>

(* Before the handlers are installed any of the signals ends the watchdog. *)
DieOfSignal ==
    /\ watchdog = "forking" /\ toWatchdog # {}
    /\ watchdog' = "gone"
    /\ UNCHANGED <<index, vpCount, vpPids, processes, wdLog, rotated, toWatchdog,
                   crashes, forkFails, sent>>

(* The processes that are sent signal s: those with a pid in the table.    *)
Known == {vpPids[i] : i \in {j \in Slots : j < vpCount}} \cap Pids

(* Mutant: the last process is left out.                                   *)
ForwardShort(s) ==
    pending' = [p \in Pids |->
        IF p \in {vpPids[i] : i \in {j \in Slots : j < vpCount - 1}} /\ Alive(p)
        THEN pending[p] \cup {s} ELSE pending[p]]

Forward(s) ==
    pending' = [p \in Pids |->
        IF p \in Known /\ Alive(p) THEN pending[p] \cup {s} ELSE pending[p]]

(* wdog_sighandler: the signal is sent on to every process first.          *)
WdogSighandler(s) ==
    /\ watchdog = "waiting" /\ s \in toWatchdog
    /\ Forward(s)
    /\ toWatchdog' = toWatchdog \ {s}
    /\ watchdog' = IF s = "TERM" THEN "gone" ELSE watchdog
    /\ wdLog' = IF s = "HUP" THEN rotated ELSE wdLog
    /\ UNCHANGED <<index, vpCount, vpPids, vp, pipe, logOf, rotated, crashes, forkFails, sent>>

-----------------------------------------------------------------------------
(* Process p is dead: its parent has yet to wait for it; without a parent  *)
(* nobody need.                                                            *)
Dies(p) ==
    /\ vp' = [vp EXCEPT ![p] = IF watchdog = "gone" THEN "none" ELSE "zombie"]
    /\ pending' = [pending EXCEPT ![p] = {}]
    /\ pipe' = [pipe EXCEPT ![p] = <<>>]
    /\ UNCHANGED logOf

Others == <<table, wdLog, rotated, toWatchdog, forkFails, sent>>

(* A first process has the default handlers until it installs its own.     *)
DiesYoung(p) ==
    /\ vp[p] = "young" /\ pending[p] # {}
    /\ Dies(p)
    /\ UNCHANGED <<Others, crashes>>

(* install_sighandlers: handlers, and then no signal is blocked.           *)
InstallSighandlers(p) ==
    /\ vp[p] \in {"young", "blocked"}
    /\ vp' = [vp EXCEPT ![p] = "ready"]
    /\ UNCHANGED <<pending, pipe, logOf, Others, crashes>>

(* Mutant: the handler drops the signal when another one is in the pipe.   *)
ChildSighandlerDrops(p, s) ==
    /\ vp[p] = "ready" /\ s \in pending[p]
    /\ pending' = [pending EXCEPT ![p] = @ \ {s}]
    /\ pipe' = IF pipe[p] = <<>> THEN [pipe EXCEPT ![p] = <<s>>] ELSE pipe
    /\ UNCHANGED <<vp, logOf, Others, crashes>>

(* child_sighandler writes the signal into the pipe, and exits when it is  *)
(* full (the pipe does not wait).                                          *)
ChildSighandler(p, s) ==
    /\ vp[p] = "ready" /\ s \in pending[p]
    /\ IF Len(pipe[p]) = PipeSize
       THEN Dies(p)
       ELSE /\ pending' = [pending EXCEPT ![p] = @ \ {s}]
            /\ pipe' = [pipe EXCEPT ![p] = Append(@, s)]
            /\ UNCHANGED <<vp, logOf>>
    /\ UNCHANGED <<Others, crashes>>

(* Mutant: the logs are not opened again.                                  *)
ProcessSignalKeepsLog(p) ==
    /\ vp[p] = "ready" /\ pipe[p] # <<>>
    /\ IF Head(pipe[p]) = "TERM" THEN Dies(p)
       ELSE pipe' = [pipe EXCEPT ![p] = Tail(@)] /\ UNCHANGED <<vp, pending, logOf>>
    /\ UNCHANGED <<Others, crashes>>

(* process_signals: TERM ends the process, HUP reopens its log files, the  *)
(* others only report (a SEGV that someone sent included).                 *)
ProcessSignal(p) ==
    /\ vp[p] = "ready" /\ pipe[p] # <<>>
    /\ IF Head(pipe[p]) = "TERM" THEN Dies(p)
       ELSE /\ pipe' = [pipe EXCEPT ![p] = Tail(@)]
            /\ logOf' = [logOf EXCEPT ![p] = IF Head(pipe[p]) = "HUP" THEN rotated ELSE @]
            /\ UNCHANGED <<vp, pending>>
    /\ UNCHANGED <<Others, crashes>>

(* A process exits of itself: a configuration that cannot be loaded, an    *)
(* err_quit, an abort.                                                     *)
Crash(p) ==
    /\ vp[p] \in {"young", "blocked", "ready"} /\ crashes < MaxCrashes
    /\ crashes' = crashes + 1
    /\ Dies(p)
    /\ UNCHANGED Others

(* A fault: the handler reports it, writes it into the pipe and returns to *)
(* the instruction that faults again.                                      *)
Fault(p) ==
    /\ vp[p] = "ready" /\ crashes < MaxCrashes
    /\ crashes' = crashes + 1
    /\ vp' = [vp EXCEPT ![p] = "faulting"]
    /\ UNCHANGED <<pending, pipe, logOf, Others>>

FaultAgain(p) ==
    /\ vp[p] = "faulting"
    /\ IF Len(pipe[p]) = PipeSize
       THEN Dies(p)
       ELSE /\ pipe' = [pipe EXCEPT ![p] = Append(@, "SEGV")]
            /\ UNCHANGED <<vp, pending, logOf>>
    /\ UNCHANGED <<Others, crashes>>

-----------------------------------------------------------------------------
Watchdog == ForkFirst \/ BeginWaiting \/ Refork \/ NoChildLeft \/ \E p \in Pids : Reap(p)

Works(p) == InstallSighandlers(p) \/ DiesYoung(p) \/ ProcessSignal(p) \/ FaultAgain(p)

Next ==
    \/ Watchdog \/ ForkFirstFails \/ ReforkFails
    \/ \E s \in Signals : SendSignal(s) \/ WdogSighandler(s)
    \/ \E p \in Pids : Works(p) \/ Crash(p) \/ Fault(p)
    \/ \E p \in Pids, s \in Signals : ChildSighandler(p, s)

(* With the signals that come before the handlers.                         *)
NextEarly == Next \/ DieOfSignal

Spec == Init /\ [][Next]_vars

(* The kernel runs every process that can run and delivers each signal     *)
(* that is not blocked; the rest (who sends signals, who crashes) may      *)
(* never happen.                                                           *)
Fairness ==
    /\ WF_vars(Watchdog)
    /\ \A s \in Signals : WF_vars(WdogSighandler(s))
    /\ \A p \in Pids : WF_vars(Works(p))
    /\ \A p \in Pids, s \in Signals : WF_vars(ChildSighandler(p, s))
FairSpec == Spec /\ Fairness
EarlySpec == Init /\ [][NextEarly]_vars /\ Fairness /\ WF_vars(DieOfSignal)

-----------------------------------------------------------------------------
(* Every child that is alive or dead and not waited for is in the table,   *)
(* once: wait() never returns a pid that start_processes does not find     *)
(* (it would write behind the table), and no child misses a signal.        *)
EveryChildKnown ==
    /\ watchdog # "gone" => Children \subseteq Known
    /\ \A i, j \in Slots : vpPids[i] = vpPids[j] /\ i # j => vpPids[i] \in {0, -1}
    /\ watchdog = "reaping" => index < vpCount

(* "creates a constant number of processes and replaces them when they     *)
(* die": as long as the watchdog is there each slot is filled by a process *)
(* that works, again and again.                                            *)
Replaced ==
    \A i \in Slots :
        []<>(watchdog = "gone" \/ (vpPids[i] \in Pids /\ vp[vpPids[i]] = "ready"))

(* ... except for the slots given up because a fork failed.                *)
GivenUp(i) == vpPids[i] = -1 \/ i >= vpCount
ReplacedUnlessGivenUp ==
    \A i \in Slots :
        []<>(watchdog = "gone" \/ GivenUp(i)
             \/ (vpPids[i] \in Pids /\ vp[vpPids[i]] = "ready"))

(* SIGTERM ends the server: the watchdog and then every process, whatever  *)
(* was being forked or was dying meanwhile.                                *)
TermEndsAll ==
    "TERM" \in toWatchdog ~> (watchdog = "gone" /\ \A p \in Pids : ~Alive(p))

(* After SIGHUP nobody keeps writing into the renamed log files.           *)
LogsFollow ==
    <>[](watchdog # "gone" => \A p \in Pids : vp[p] = "ready" => logOf[p] = rotated)
=============================================================================
