------------------------- MODULE HoxWatchdogProofs --------------------------
(***************************************************************************)
(* Theorems about HoxWatchdog, for any number of processes, crashes, forks *)
(* that fail and signals.                                                  *)
(***************************************************************************)
EXTENDS HoxWatchdog, FunctionTheorems, FiniteSetTheorems, TLAPS

InTable(p) == \E i \in Slots : i < vpCount /\ vpPids[i] = p

(* What EveryChildKnown rests on: a new process gets a pid that is nowhere *)
(* in the table; the slots are filled in order; the slot of the child that *)
(* has died holds no living one.                                           *)
ForkedBefore ==
    /\ \A p \in Pids : vp[p] # "none" => logOf[p] # -1
    /\ \A i \in Slots : vpPids[i] \in Pids => logOf[vpPids[i]] # -1
FilledInOrder ==
    watchdog = "forking" => \A i \in Slots : i >= index => vpPids[i] = 0
DeadSlot ==
    watchdog = "reaping" =>
        index < vpCount /\ \A p \in Pids : vp[p] # "none" => vpPids[index] # p
Listed ==
    watchdog # "gone" => \A p \in Pids : vp[p] # "none" => InTable(p)
Once ==
    \A i, j \in Slots : vpPids[i] = vpPids[j] /\ i # j => vpPids[i] \in {0, -1}
TableInv == ForkedBefore /\ FilledInOrder /\ DeadSlot /\ Listed /\ Once

LEMMA TableInvMeans == TypeOK /\ TableInv => EveryChildKnown
<1> SUFFICES ASSUME TypeOK, TableInv PROVE EveryChildKnown
  OBVIOUS
<1>1. ASSUME watchdog # "gone", NEW p \in Children PROVE p \in Known
  <2>1. PICK i \in Slots : i < vpCount /\ vpPids[i] = p
    BY <1>1 DEF TableInv, Listed, InTable, Children
  <2> QED
    BY <1>1, <2>1 DEF Known, Children
<1> QED
  BY <1>1 DEF TableInv, Once, DeadSlot, EveryChildKnown

(* A step that forks nobody and leaves the table alone keeps it right.     *)
LEMMA TableAlone ==
    ASSUME TypeOK, TableInv, UNCHANGED <<vpPids, vpCount, index>>,
           watchdog' = watchdog \/ watchdog' = "gone",
           \A p \in Pids : vp'[p] # "none" => vp[p] # "none",
           \A p \in Pids : logOf[p] # -1 => logOf'[p] # -1
    PROVE  TableInv'
<1>1. ForkedBefore'
  BY DEF TableInv, ForkedBefore
<1>2. FilledInOrder'
  BY DEF TableInv, FilledInOrder
<1>3. DeadSlot'
  BY DEF TableInv, DeadSlot
<1>4. Listed'
  BY DEF TableInv, Listed, InTable
<1>5. Once'
  BY DEF TableInv, Once
<1> QED
  BY <1>1, <1>2, <1>3, <1>4, <1>5 DEF TableInv

(* A process that is forked into slot i, when no living process is there.  *)
LEMMA ForkedInto ==
    ASSUME TypeOK, TableInv, NEW p \in Pids, NEW i \in Slots, NEW life \in Lives,
           Fork(p, life), vpPids' = [vpPids EXCEPT ![i] = p], i < vpCount,
           vpCount' = vpCount, \A q \in Pids : vp[q] # "none" => vpPids[i] # q,
           watchdog' # "reaping", watchdog # "gone",
           watchdog' = "forking" => watchdog = "forking" /\ i = index /\ index' = index + 1
    PROVE  TableInv'
<1>1. /\ logOf[p] = -1
      /\ vp' = [vp EXCEPT ![p] = life] /\ logOf' = [logOf EXCEPT ![p] = wdLog]
  BY DEF Fork
<1>2. /\ \A q \in Pids : q # p => vp'[q] = vp[q] /\ logOf'[q] = logOf[q]
      /\ logOf'[p] # -1
      /\ vpPids'[i] = p /\ \A j \in Slots : j # i => vpPids'[j] = vpPids[j]
  BY <1>1 DEF TypeOK
<1>3. \A j \in Slots : vpPids[j] # p
  BY <1>1 DEF TableInv, ForkedBefore
<1>4. ForkedBefore'
  BY <1>2, <1>3 DEF TableInv, ForkedBefore
<1>5. FilledInOrder'
  <2> SUFFICES ASSUME watchdog' = "forking", NEW j \in Slots, j >= index'
               PROVE  vpPids'[j] = 0
    BY DEF FilledInOrder
  <2>1. j # i /\ j >= index
    BY DEF Slots, TypeOK
  <2> QED
    BY <1>2, <2>1 DEF TableInv, FilledInOrder
<1>6. DeadSlot'
  BY DEF DeadSlot
<1>7. Listed'
  <2> SUFFICES ASSUME NEW q \in Pids, vp'[q] # "none"
               PROVE  \E j \in Slots : j < vpCount /\ vpPids'[j] = q
    BY DEF Listed, InTable
  <2>1. CASE q = p
    BY <1>2, <2>1
  <2>2. CASE q # p
    <3>1. vp[q] # "none"
      BY <1>2, <2>2
    <3>2. PICK j \in Slots : j < vpCount /\ vpPids[j] = q
      BY <3>1 DEF TableInv, Listed, InTable
    <3>3. j # i
      BY <3>1, <3>2
    <3> QED
      BY <1>2, <3>2, <3>3
  <2> QED
    BY <2>1, <2>2
<1>8. Once'
  BY <1>2, <1>3 DEF TableInv, Once
<1> QED
  BY <1>4, <1>5, <1>6, <1>7, <1>8 DEF TableInv

LEMMA DiesType ==
    ASSUME TypeOK, NEW p \in Pids, Dies(p)
    PROVE  /\ vp' \in [Pids -> Lives] /\ pending' \in [Pids -> SUBSET Signals]
           /\ pipe' \in [Pids -> Seq(Signals \cup {"SEGV"})] /\ logOf' = logOf
<1>1. vp' \in [Pids -> Lives]
  BY DEF TypeOK, Dies, Lives
<1>2. pending' \in [Pids -> SUBSET Signals]
  BY DEF TypeOK, Dies
<1>3. pipe' \in [Pids -> Seq(Signals \cup {"SEGV"})]
  BY DEF TypeOK, Dies
<1> QED
  BY <1>1, <1>2, <1>3 DEF Dies

LEMMA DiesTable ==
    ASSUME TypeOK, TableInv, NEW p \in Pids, Dies(p), vp[p] # "none", UNCHANGED table
    PROVE  TableInv'
<1>1. \A q \in Pids : vp'[q] # "none" => vp[q] # "none"
  BY DEF TypeOK, Dies
<1>2. UNCHANGED <<vpPids, vpCount, index, watchdog, logOf>>
  BY DEF Dies, table
<1> QED
  BY <1>1, <1>2, TableAlone

-----------------------------------------------------------------------------
LEMMA TypeStep == TypeOK /\ [Next]_vars => TypeOK'
<1> SUFFICES ASSUME TypeOK, [Next]_vars PROVE TypeOK'
  OBVIOUS
<1> USE BoundsAssumption DEF TypeOK
<1>1. CASE UNCHANGED vars
  BY <1>1 DEF vars
<1>2. CASE ForkFirst
  <2>1. PICK p \in Pids : Fork(p, "young") /\ vpPids' = [vpPids EXCEPT ![index] = p]
    BY <1>2 DEF ForkFirst
  <2>2. vp' \in [Pids -> Lives] /\ logOf' \in [Pids -> Nat \cup {-1}]
        /\ UNCHANGED <<pending, pipe>>
    BY <2>1 DEF Fork, Lives
  <2>3. index' \in 0..vpCount'
    BY <1>2 DEF ForkFirst
  <2> QED
    BY <1>2, <2>1, <2>2, <2>3 DEF ForkFirst
<1>3. CASE BeginWaiting
  BY <1>3 DEF BeginWaiting, processes
<1>4. CASE Refork
  <2>1. PICK p \in Pids : Fork(p, "blocked") /\ vpPids' = [vpPids EXCEPT ![index] = p]
    BY <1>4 DEF Refork
  <2>2. vp' \in [Pids -> Lives] /\ logOf' \in [Pids -> Nat \cup {-1}]
        /\ UNCHANGED <<pending, pipe>>
    BY <2>1 DEF Fork, Lives
  <2> QED
    BY <1>4, <2>1, <2>2 DEF Refork
<1>5. CASE NoChildLeft
  BY <1>5 DEF NoChildLeft, processes
<1>6. ASSUME NEW p \in Pids, Reap(p) PROVE TypeOK'
  <2>1. SlotOf(p) \in 0..vpCount
    <3>1. CASE \E i \in Slots : i < vpCount /\ vpPids[i] = p
      <4>1. SlotOf(p) \in Slots /\ SlotOf(p) < vpCount
        BY <3>1 DEF SlotOf
      <4> QED
        BY <4>1 DEF Slots
    <3>2. CASE ~\E i \in Slots : i < vpCount /\ vpPids[i] = p
      BY <3>2 DEF SlotOf
    <3> QED
      BY <3>1, <3>2
  <2>2. vp' \in [Pids -> Lives]
    BY <1>6 DEF Reap, Lives
  <2> QED
    BY <1>6, <2>1, <2>2 DEF Reap
<1>7. CASE ForkFirstFails
  <2>1. vpCount' \in 0..VpCount /\ index' \in 0..vpCount'
    BY <1>7 DEF ForkFirstFails
  <2>2. watchdog' \in {"forking", "gone"} /\ forkFails' \in Nat /\ UNCHANGED processes
    BY <1>7 DEF ForkFirstFails, ForkFails
  <2> QED
    BY <1>7, <2>1, <2>2 DEF ForkFirstFails, processes
<1>8. CASE ReforkFails
  <2>1. vpPids' \in [Slots -> Pids \cup {0, -1}]
    BY <1>8 DEF ReforkFails
  <2>2. forkFails' \in Nat /\ UNCHANGED processes
    BY <1>8 DEF ReforkFails, ForkFails
  <2> QED
    BY <1>8, <2>1, <2>2 DEF ReforkFails, processes
<1>9. ASSUME NEW s \in Signals, SendSignal(s) PROVE TypeOK'
  BY <1>9 DEF SendSignal, table, processes
<1>10. ASSUME NEW s \in Signals, WdogSighandler(s) PROVE TypeOK'
  <2>1. pending' \in [Pids -> SUBSET Signals]
    BY <1>10 DEF WdogSighandler, Forward
  <2> QED
    BY <1>10, <2>1 DEF WdogSighandler
<1>11. ASSUME NEW p \in Pids, DiesYoung(p) PROVE TypeOK'
  BY <1>11, DiesType DEF DiesYoung, Others, table
<1>12. ASSUME NEW p \in Pids, InstallSighandlers(p) PROVE TypeOK'
  BY <1>12 DEF InstallSighandlers, Others, table, Lives
<1>13. ASSUME NEW p \in Pids, ProcessSignal(p) PROVE TypeOK'
  <2>1. UNCHANGED <<table, wdLog, rotated, toWatchdog, forkFails, sent, crashes>>
    BY <1>13 DEF ProcessSignal, Others
  <2>2. CASE Dies(p)
    BY <2>1, <2>2, DiesType DEF table
  <2>3. CASE /\ pipe' = [pipe EXCEPT ![p] = Tail(@)]
             /\ logOf' = [logOf EXCEPT ![p] = IF Head(pipe[p]) = "HUP" THEN rotated ELSE @]
             /\ UNCHANGED <<vp, pending>>
    <3>1. pipe[p] \in Seq(Signals \cup {"SEGV"}) /\ pipe[p] # <<>>
      BY <1>13 DEF ProcessSignal
    <3>2. Tail(pipe[p]) \in Seq(Signals \cup {"SEGV"})
      BY <3>1
    <3> QED
      BY <2>1, <2>3, <3>2 DEF table
  <2> QED
    BY <1>13, <2>2, <2>3 DEF ProcessSignal
<1>14. ASSUME NEW p \in Pids, FaultAgain(p) PROVE TypeOK'
  <2>1. UNCHANGED <<table, wdLog, rotated, toWatchdog, forkFails, sent, crashes>>
    BY <1>14 DEF FaultAgain, Others
  <2>2. CASE Dies(p)
    BY <2>1, <2>2, DiesType DEF table
  <2>3. CASE pipe' = [pipe EXCEPT ![p] = Append(@, "SEGV")] /\ UNCHANGED <<vp, pending, logOf>>
    BY <2>1, <2>3 DEF table
  <2> QED
    BY <1>14, <2>2, <2>3 DEF FaultAgain
<1>15. ASSUME NEW p \in Pids, Crash(p) PROVE TypeOK'
  BY <1>15, DiesType DEF Crash, Others, table
<1>16. ASSUME NEW p \in Pids, Fault(p) PROVE TypeOK'
  BY <1>16 DEF Fault, Others, table, Lives
<1>17. ASSUME NEW p \in Pids, NEW s \in Signals, ChildSighandler(p, s) PROVE TypeOK'
  <2>1. UNCHANGED <<table, wdLog, rotated, toWatchdog, forkFails, sent, crashes>>
    BY <1>17 DEF ChildSighandler, Others
  <2>2. CASE Dies(p)
    BY <2>1, <2>2, DiesType DEF table
  <2>3. CASE /\ pending' = [pending EXCEPT ![p] = @ \ {s}]
             /\ pipe' = [pipe EXCEPT ![p] = Append(@, s)]
             /\ UNCHANGED <<vp, logOf>>
    BY <2>1, <2>3 DEF table
  <2> QED
    BY <1>17, <2>2, <2>3 DEF ChildSighandler
<1> QED
  BY <1>1, <1>2, <1>3, <1>4, <1>5, <1>6, <1>7, <1>8, <1>9, <1>10, <1>11, <1>12, <1>13,
     <1>14, <1>15, <1>16, <1>17 DEF Next, Watchdog, Works

(* The state of the watchdog and its processes has its type.               *)
THEOREM TypeCorrect == Spec => []TypeOK
<1>1. Init => TypeOK
  BY BoundsAssumption DEF Init, TypeOK, Lives
<1> QED
  BY <1>1, TypeStep, PTL DEF Spec

LEMMA TableStep == TypeOK /\ TableInv /\ [Next]_vars => TableInv'
<1> SUFFICES ASSUME TypeOK, TableInv, [Next]_vars PROVE TableInv'
  OBVIOUS
<1>1. CASE UNCHANGED vars
  BY <1>1, TableAlone DEF vars
<1>2. CASE ForkFirst
  <2>1. PICK p \in Pids : Fork(p, "young") /\ vpPids' = [vpPids EXCEPT ![index] = p]
    BY <1>2 DEF ForkFirst
  <2>2. index \in Slots /\ index < vpCount /\ "young" \in Lives
    BY <1>2, BoundsAssumption DEF ForkFirst, TypeOK, Slots, Lives
  <2>3. vpPids[index] = 0
    BY <1>2, <2>2 DEF ForkFirst, TableInv, FilledInOrder, TypeOK
  <2>4. \A q \in Pids : vp[q] # "none" => vpPids[index] # q
    BY <2>3 DEF Pids
  <2> QED
    BY <1>2, <2>1, <2>2, <2>4, ForkedInto DEF ForkFirst
<1>3. CASE BeginWaiting
  <2>1. UNCHANGED <<index, vpCount, vpPids, vp, logOf>> /\ watchdog' = "waiting"
        /\ watchdog = "forking"
    BY <1>3 DEF BeginWaiting, processes
  <2> QED
    BY <2>1 DEF TableInv, ForkedBefore, FilledInOrder, DeadSlot, Listed, InTable, Once
<1>4. CASE Refork
  <2>1. PICK p \in Pids : Fork(p, "blocked") /\ vpPids' = [vpPids EXCEPT ![index] = p]
    BY <1>4 DEF Refork
  <2>2. index < vpCount /\ \A q \in Pids : vp[q] # "none" => vpPids[index] # q
    BY <1>4 DEF Refork, TableInv, DeadSlot
  <2>3. index \in Slots /\ "blocked" \in Lives
    BY <2>2, BoundsAssumption DEF TypeOK, Slots, Lives
  <2> QED
    BY <1>4, <2>1, <2>2, <2>3, ForkedInto DEF Refork
<1>5. CASE NoChildLeft
  BY <1>5, TableAlone DEF NoChildLeft, processes
<1>6. ASSUME NEW p \in Pids, Reap(p) PROVE TableInv'
  <2>1. /\ watchdog = "waiting" /\ vp[p] = "zombie" /\ watchdog' = "reaping"
        /\ index' = SlotOf(p) /\ vp' = [vp EXCEPT ![p] = "none"]
        /\ UNCHANGED <<vpCount, vpPids, logOf>>
    BY <1>6 DEF Reap
  <2>2. vp'[p] = "none" /\ \A q \in Pids : q # p => vp'[q] = vp[q]
    BY <2>1 DEF TypeOK
  <2>3. InTable(p)
    BY <2>1 DEF TableInv, Listed
  <2>4. index' \in Slots /\ index' < vpCount /\ vpPids[index'] = p
    BY <2>1, <2>3 DEF InTable, SlotOf
  <2>5. ForkedBefore' /\ Once'
    BY <2>1, <2>2 DEF TableInv, ForkedBefore, Once
  <2>6. Listed'
    BY <2>1, <2>2 DEF TableInv, Listed, InTable
  <2>7. FilledInOrder' /\ DeadSlot'
    BY <2>1, <2>2, <2>4 DEF FilledInOrder, DeadSlot
  <2> QED
    BY <2>5, <2>6, <2>7 DEF TableInv
<1>7. CASE ForkFirstFails
  <2>1. /\ watchdog = "forking" /\ vpCount' = index /\ watchdog' \in {"forking", "gone"}
        /\ UNCHANGED <<index, vpPids, vp, logOf>>
    BY <1>7 DEF ForkFirstFails, ForkFails, processes
  <2>2. ForkedBefore' /\ FilledInOrder' /\ DeadSlot' /\ Once'
    BY <2>1 DEF TableInv, ForkedBefore, FilledInOrder, DeadSlot, Once
  <2>3. Listed'
    <3> SUFFICES ASSUME NEW q \in Pids, vp[q] # "none"
                 PROVE  \E i \in Slots : i < index /\ vpPids[i] = q
      BY <2>1 DEF Listed, InTable
    <3>1. PICK i \in Slots : i < vpCount /\ vpPids[i] = q
      BY <2>1 DEF TableInv, Listed, InTable
    <3>2. vpPids[i] # 0
      BY <3>1 DEF Pids
    <3>3. i < index
      BY <2>1, <3>2 DEF TableInv, FilledInOrder, Slots, TypeOK
    <3> QED
      BY <3>1, <3>3
  <2> QED
    BY <2>2, <2>3 DEF TableInv
<1>8. CASE ReforkFails
  <2>1. /\ watchdog = "reaping" /\ watchdog' = "waiting"
        /\ vpPids' = [vpPids EXCEPT ![index] = -1] /\ UNCHANGED <<index, vpCount, vp, logOf>>
    BY <1>8 DEF ReforkFails, ForkFails, processes
  <2>2. index < vpCount /\ \A q \in Pids : vp[q] # "none" => vpPids[index] # q
    BY <2>1 DEF TableInv, DeadSlot
  <2>3. index \in Slots
    BY <2>2, BoundsAssumption DEF TypeOK, Slots
  <2>4. vpPids'[index] = -1 /\ \A j \in Slots : j # index => vpPids'[j] = vpPids[j]
    BY <2>1, <2>3 DEF TypeOK
  <2>5. ForkedBefore' /\ FilledInOrder' /\ DeadSlot' /\ Once'
    BY <2>1, <2>4 DEF TableInv, ForkedBefore, FilledInOrder, DeadSlot, Once, Pids
  <2>6. Listed'
    BY <2>1, <2>2, <2>4 DEF TableInv, Listed, InTable
  <2> QED
    BY <2>5, <2>6 DEF TableInv
<1>9. ASSUME NEW s \in Signals, SendSignal(s) PROVE TableInv'
  BY <1>9, TableAlone DEF SendSignal, table, processes
<1>10. ASSUME NEW s \in Signals, WdogSighandler(s) PROVE TableInv'
  BY <1>10, TableAlone DEF WdogSighandler
<1>11. ASSUME NEW p \in Pids, DiesYoung(p) PROVE TableInv'
  BY <1>11, DiesTable DEF DiesYoung, Others
<1>12. ASSUME NEW p \in Pids, InstallSighandlers(p) PROVE TableInv'
  <2>1. \A q \in Pids : vp'[q] # "none" => vp[q] # "none"
    BY <1>12 DEF InstallSighandlers, TypeOK
  <2> QED
    BY <1>12, <2>1, TableAlone DEF InstallSighandlers, Others, table
<1>13. ASSUME NEW p \in Pids, ProcessSignal(p) PROVE TableInv'
  <2>1. vp[p] # "none" /\ UNCHANGED table
    BY <1>13 DEF ProcessSignal, Others
  <2>2. CASE Dies(p)
    BY <2>1, <2>2, DiesTable
  <2>3. CASE /\ logOf' = [logOf EXCEPT ![p] = IF Head(pipe[p]) = "HUP" THEN rotated ELSE @]
             /\ UNCHANGED vp
    <3>1. \A q \in Pids : logOf[q] # -1 => logOf'[q] # -1
      BY <2>3 DEF TypeOK
    <3> QED
      BY <2>1, <2>3, <3>1, TableAlone DEF table
  <2> QED
    BY <1>13, <2>2, <2>3 DEF ProcessSignal
<1>14. ASSUME NEW p \in Pids, FaultAgain(p) PROVE TableInv'
  <2>1. vp[p] # "none" /\ UNCHANGED table
    BY <1>14 DEF FaultAgain, Others
  <2>2. CASE Dies(p)
    BY <2>1, <2>2, DiesTable
  <2>3. CASE UNCHANGED <<vp, logOf>>
    BY <2>1, <2>3, TableAlone DEF table
  <2> QED
    BY <1>14, <2>2, <2>3 DEF FaultAgain
<1>15. ASSUME NEW p \in Pids, Crash(p) PROVE TableInv'
  BY <1>15, DiesTable DEF Crash, Others
<1>16. ASSUME NEW p \in Pids, Fault(p) PROVE TableInv'
  <2>1. \A q \in Pids : vp'[q] # "none" => vp[q] # "none"
    BY <1>16 DEF Fault, TypeOK
  <2> QED
    BY <1>16, <2>1, TableAlone DEF Fault, Others, table
<1>17. ASSUME NEW p \in Pids, NEW s \in Signals, ChildSighandler(p, s) PROVE TableInv'
  <2>1. vp[p] # "none" /\ UNCHANGED table
    BY <1>17 DEF ChildSighandler, Others
  <2>2. CASE Dies(p)
    BY <2>1, <2>2, DiesTable
  <2>3. CASE UNCHANGED <<vp, logOf>>
    BY <2>1, <2>3, TableAlone DEF table
  <2> QED
    BY <1>17, <2>2, <2>3 DEF ChildSighandler
<1> QED
  BY <1>1, <1>2, <1>3, <1>4, <1>5, <1>6, <1>7, <1>8, <1>9, <1>10, <1>11, <1>12, <1>13,
     <1>14, <1>15, <1>16, <1>17 DEF Next, Watchdog, Works

LEMMA TableInit == Init => TableInv
  BY BoundsAssumption DEF Init, TableInv, ForkedBefore, FilledInOrder, DeadSlot, Listed,
     InTable, Once, Pids

(* The watchdog never loses a child, nor writes a pid behind its table:    *)
(* whatever fails and dies in whatever order.                              *)
THEOREM EveryChildKnownCorrect == Spec => []EveryChildKnown
  BY TableInit, TypeCorrect, TableStep, TableInvMeans, PTL DEF Spec

-----------------------------------------------------------------------------
(* The processes there are.                                                *)

(* While the watchdog waits, each slot that was not given up has its child,*)
(* which works or is yet to be waited for: what ReplacedUnlessGivenUp asks *)
(* is then up to the kernel (start_processes, main.cpp:607-660).           *)
SlotsFilled ==
    watchdog # "gone" => \A i \in Slots :
        \/ GivenUp(i)
        \/ watchdog = "forking" /\ i >= index
        \/ watchdog = "reaping" /\ i = index
        \/ vpPids[i] \in Pids /\ vp[vpPids[i]] # "none"

(* The slot of the child that has died still holds its pid.                *)
ReapedSlot == watchdog = "reaping" => vpPids[index] \in Pids

(* A slot that was given up is never filled again, though other children   *)
(* die and are replaced.                                                   *)
GivenUpForEver == \A i \in Slots : GivenUp(i) => GivenUp(i)'

(* "creates a constant number of processes": there are never more than     *)
(* vp_count, the dead ones that were not waited for included.              *)
AtMostVpCount == IsFiniteSet(Children) /\ Cardinality(Children) <= VpCount

(* A watchdog that is gone, or goes, forks nobody.                         *)
LEMMA StillThere ==
    ASSUME TypeOK, [Next]_vars, watchdog' = "gone"
    PROVE  \A p \in Pids : vp'[p] # "none" => vp[p] # "none"
<1>1. CASE UNCHANGED vars \/ ForkFirstFails \/ NoChildLeft
           \/ \E s \in Signals : SendSignal(s) \/ WdogSighandler(s)
  <2>1. UNCHANGED vp
    BY <1>1 DEF vars, ForkFirstFails, ForkFails, NoChildLeft, SendSignal, WdogSighandler, processes
  <2> QED
    BY <2>1
<1>2. CASE ForkFirst \/ BeginWaiting \/ Refork \/ ReforkFails \/ \E p \in Pids : Reap(p)
  BY <1>2 DEF ForkFirst, BeginWaiting, Refork, ReforkFails, Reap
<1>3. ASSUME NEW p \in Pids,
             Works(p) \/ Crash(p) \/ Fault(p) \/ \E s \in Signals : ChildSighandler(p, s)
      PROVE  \A q \in Pids : vp'[q] # "none" => vp[q] # "none"
  <2>1. \/ Dies(p) \/ UNCHANGED vp
        \/ vp' = [vp EXCEPT ![p] = "ready"] \/ vp' = [vp EXCEPT ![p] = "faulting"]
    BY <1>3 DEF Works, InstallSighandlers, DiesYoung, ProcessSignal, FaultAgain, Crash, Fault,
       ChildSighandler
  <2>2. vp[p] # "none"
    BY <1>3 DEF Works, InstallSighandlers, DiesYoung, ProcessSignal, FaultAgain, Crash, Fault,
       ChildSighandler
  <2> QED
    BY <2>1, <2>2 DEF Dies, TypeOK
<1> QED
  BY <1>1, <1>2, <1>3 DEF Next, Watchdog

LEMMA SlotsStep ==
    TypeOK /\ TableInv /\ SlotsFilled /\ ReapedSlot /\ [Next]_vars
        => SlotsFilled' /\ ReapedSlot' /\ GivenUpForEver
<1> SUFFICES ASSUME TypeOK, TableInv, SlotsFilled, ReapedSlot, [Next]_vars
             PROVE  SlotsFilled' /\ ReapedSlot' /\ GivenUpForEver
  OBVIOUS
<1> USE DEF GivenUp
<1>1. CASE UNCHANGED vars
  BY <1>1 DEF vars, SlotsFilled, ReapedSlot, GivenUpForEver
<1>2. CASE ForkFirst
  <2>1. PICK p \in Pids : Fork(p, "young") /\ vpPids' = [vpPids EXCEPT ![index] = p]
    BY <1>2 DEF ForkFirst
  <2>2. /\ watchdog = "forking" /\ watchdog' = "forking" /\ index < vpCount
        /\ index' = index + 1 /\ vpCount' = vpCount /\ index \in Slots
    BY <1>2, BoundsAssumption DEF ForkFirst, TypeOK, Slots
  <2>3. vp' = [vp EXCEPT ![p] = "young"]
    BY <2>1 DEF Fork
  <2>4. /\ vpPids'[index] = p /\ \A j \in Slots : j # index => vpPids'[j] = vpPids[j]
        /\ vp'[p] = "young" /\ \A q \in Pids : q # p => vp'[q] = vp[q]
    BY <2>1, <2>2, <2>3 DEF TypeOK
  <2>5. vpPids[index] = 0
    BY <2>2 DEF TableInv, FilledInOrder, TypeOK
  <2>6. SlotsFilled'
    <3> SUFFICES ASSUME NEW i \in Slots, ~(vpPids'[i] = -1 \/ i >= vpCount), ~(i >= index')
                 PROVE  vpPids'[i] \in Pids /\ vp'[vpPids'[i]] # "none"
      BY <2>2 DEF SlotsFilled
    <3>1. CASE i = index
      BY <2>4, <3>1
    <3>2. CASE i # index
      <4>1. ~(i >= index)
        BY <2>2, <3>2 DEF Slots, TypeOK
      <4> QED
        BY <2>2, <2>4, <3>2, <4>1 DEF SlotsFilled
    <3> QED
      BY <3>1, <3>2
  <2> QED
    BY <2>2, <2>4, <2>5, <2>6 DEF ReapedSlot, GivenUpForEver
<1>3. CASE BeginWaiting
  <2>1. UNCHANGED <<index, vpCount, vpPids, vp>> /\ watchdog' = "waiting"
        /\ watchdog = "forking" /\ index = vpCount
    BY <1>3 DEF BeginWaiting, processes
  <2> QED
    BY <2>1 DEF SlotsFilled, ReapedSlot, GivenUpForEver
<1>4. CASE Refork
  <2>1. PICK p \in Pids : Fork(p, "blocked") /\ vpPids' = [vpPids EXCEPT ![index] = p]
    BY <1>4 DEF Refork
  <2>2. /\ watchdog = "reaping" /\ watchdog' = "waiting" /\ index < vpCount
        /\ UNCHANGED <<index, vpCount>> /\ index \in Slots
    BY <1>4, BoundsAssumption DEF Refork, TypeOK, Slots, TableInv, DeadSlot
  <2>3. vp' = [vp EXCEPT ![p] = "blocked"]
    BY <2>1 DEF Fork
  <2>4. /\ vpPids'[index] = p /\ \A j \in Slots : j # index => vpPids'[j] = vpPids[j]
        /\ vp'[p] = "blocked" /\ \A q \in Pids : q # p => vp'[q] = vp[q]
    BY <2>1, <2>2, <2>3 DEF TypeOK
  <2>5. vpPids[index] # -1
    BY <2>2 DEF ReapedSlot, Pids
  <2>6. SlotsFilled'
    BY <2>2, <2>4 DEF SlotsFilled
  <2> QED
    BY <2>2, <2>4, <2>5, <2>6 DEF ReapedSlot, GivenUpForEver
<1>5. CASE ReforkFails
  <2>1. /\ watchdog = "reaping" /\ watchdog' = "waiting"
        /\ vpPids' = [vpPids EXCEPT ![index] = -1] /\ UNCHANGED <<index, vpCount, vp>>
    BY <1>5 DEF ReforkFails, ForkFails, processes
  <2>2. index \in Slots
    BY <2>1, BoundsAssumption DEF TypeOK, Slots, TableInv, DeadSlot
  <2>3. vpPids'[index] = -1 /\ \A j \in Slots : j # index => vpPids'[j] = vpPids[j]
    BY <2>1, <2>2 DEF TypeOK
  <2> QED
    BY <2>1, <2>3 DEF SlotsFilled, ReapedSlot, GivenUpForEver
<1>6. ASSUME NEW p \in Pids, Reap(p)
      PROVE  SlotsFilled' /\ ReapedSlot' /\ GivenUpForEver
  <2>1. /\ watchdog = "waiting" /\ vp[p] = "zombie" /\ watchdog' = "reaping"
        /\ index' = SlotOf(p) /\ vp' = [vp EXCEPT ![p] = "none"]
        /\ UNCHANGED <<vpCount, vpPids>>
    BY <1>6 DEF Reap
  <2>2. \A q \in Pids : q # p => vp'[q] = vp[q]
    BY <2>1 DEF TypeOK
  <2>3. index' \in Slots /\ vpPids[index'] = p
    BY <2>1 DEF TableInv, Listed, InTable, SlotOf
  <2>4. \A i \in Slots : i # index' => vpPids[i] # p
    BY <2>3 DEF TableInv, Once, Pids
  <2> QED
    BY <2>1, <2>2, <2>3, <2>4 DEF SlotsFilled, ReapedSlot, GivenUpForEver
<1>7. CASE ForkFirstFails
  <2>1. /\ watchdog = "forking" /\ vpCount' = index /\ watchdog' \in {"forking", "gone"}
        /\ index < vpCount /\ UNCHANGED <<index, vpPids, vp>>
    BY <1>7 DEF ForkFirstFails, ForkFails, processes
  <2>2. \A i \in Slots : i >= vpCount => i >= index
    BY <2>1, BoundsAssumption DEF Slots, TypeOK
  <2> QED
    BY <2>1, <2>2 DEF SlotsFilled, ReapedSlot, GivenUpForEver
(* No other step touches the table, nor waits for a child while the        *)
(* watchdog is there.                                                      *)
<1>8. ASSUME UNCHANGED <<index, vpCount, vpPids>>, watchdog' \in {watchdog, "gone"},
             watchdog' # "gone" => \A q \in Pids : vp[q] # "none" => vp'[q] # "none"
      PROVE  SlotsFilled' /\ ReapedSlot' /\ GivenUpForEver
  BY <1>8 DEF SlotsFilled, ReapedSlot, GivenUpForEver
<1>9. CASE NoChildLeft
  BY <1>8, <1>9 DEF NoChildLeft
<1>10. ASSUME NEW s \in Signals, SendSignal(s) \/ WdogSighandler(s)
       PROVE  SlotsFilled' /\ ReapedSlot' /\ GivenUpForEver
  <2>1. UNCHANGED <<index, vpCount, vpPids, vp>> /\ watchdog' \in {watchdog, "gone"}
    BY <1>10 DEF SendSignal, WdogSighandler, table, processes
  <2> QED
    BY <1>8, <2>1
<1>11. ASSUME NEW p \in Pids,
              Works(p) \/ Crash(p) \/ Fault(p) \/ \E s \in Signals : ChildSighandler(p, s)
       PROVE  SlotsFilled' /\ ReapedSlot' /\ GivenUpForEver
  <2>1. UNCHANGED table
    BY <1>11 DEF Works, InstallSighandlers, DiesYoung, ProcessSignal, FaultAgain, Crash, Fault,
       ChildSighandler, Others
  <2>2. \/ Dies(p) \/ UNCHANGED vp
        \/ vp' = [vp EXCEPT ![p] = "ready"] \/ vp' = [vp EXCEPT ![p] = "faulting"]
    BY <1>11 DEF Works, InstallSighandlers, DiesYoung, ProcessSignal, FaultAgain, Crash, Fault,
       ChildSighandler
  <2>3. watchdog' # "gone" => \A q \in Pids : vp[q] # "none" => vp'[q] # "none"
    BY <2>1, <2>2 DEF Dies, TypeOK, table
  <2> QED
    BY <1>8, <2>1, <2>3 DEF table
<1> QED
  BY <1>1, <1>2, <1>3, <1>4, <1>5, <1>6, <1>7, <1>9, <1>10, <1>11 DEF Next, Watchdog

(* The children of a watchdog that is there have slots of their own.       *)
LEMMA CountedBySlots ==
    TypeOK /\ TableInv /\ watchdog # "gone" => AtMostVpCount
<1> SUFFICES ASSUME TypeOK, TableInv, watchdog # "gone" PROVE AtMostVpCount
  OBVIOUS
<1> DEFINE f == [p \in Children |-> CHOOSE i \in Slots : i < vpCount /\ vpPids[i] = p]
<1>1. \A p \in Children : f[p] \in Slots /\ vpPids[f[p]] = p
  BY DEF TableInv, Listed, InTable, Children
<1>2. f \in [Children -> Slots]
  BY <1>1
<1> HIDE DEF f
<1>3. \A p, q \in Children : f[p] = f[q] => p = q
  BY <1>1
<1>4. f \in Injection(Children, Slots)
  BY <1>2, <1>3 DEF Injection, IsInjective
<1>5. IsFiniteSet(Slots) /\ Cardinality(Slots) = VpCount
  BY FS_Interval, BoundsAssumption DEF Slots
<1>6. IsFiniteSet(Children) /\ Cardinality(Children) <= Cardinality(Slots)
  BY <1>4, <1>5, FS_Injection
<1> QED
  BY <1>5, <1>6 DEF AtMostVpCount

(* There is a process in each slot that the watchdog did not give up: none *)
(* gets lost between a death, a fork and a signal.                         *)
THEOREM SlotsFilledCorrect == Spec => []SlotsFilled
<1>1. Init => TableInv /\ SlotsFilled /\ ReapedSlot
  BY TableInit, BoundsAssumption DEF Init, SlotsFilled, ReapedSlot, Slots
<1> QED
  BY <1>1, TypeCorrect, TableStep, SlotsStep, PTL DEF Spec

(* What a fork that fails has cost the server it does not get back: the    *)
(* slot stays given up, as vp_pids[i] is only searched for pids of children*)
(* (main.cpp:616-620, 643-646).                                            *)
THEOREM SlotsGivenUpForEver == Spec => [][GivenUpForEver]_vars
<1>1. Init => TableInv /\ SlotsFilled /\ ReapedSlot
  BY TableInit, BoundsAssumption DEF Init, SlotsFilled, ReapedSlot, Slots
<1>2. TypeOK /\ TableInv /\ SlotsFilled /\ ReapedSlot /\ [Next]_vars => [GivenUpForEver]_vars
  BY SlotsStep
<1> QED
  BY <1>1, <1>2, TypeCorrect, TableStep, SlotsStep, PTL DEF Spec

(* Never more than vp_count processes, even when the watchdog is gone.     *)
THEOREM AtMostVpCountCorrect == Spec => []AtMostVpCount
<1>1. Init => TableInv /\ AtMostVpCount
  <2> SUFFICES ASSUME Init PROVE TableInv /\ AtMostVpCount
    OBVIOUS
  <2>1. Children = {}
    BY DEF Init, Children
  <2> QED
    BY <2>1, TableInit, FS_EmptySet, BoundsAssumption DEF AtMostVpCount
<1>2. (TypeOK /\ TableInv /\ watchdog # "gone" => AtMostVpCount)'
  BY CountedBySlots, PTL
<1>3. TypeOK /\ TypeOK' /\ TableInv /\ TableInv' /\ AtMostVpCount /\ [Next]_vars
        => AtMostVpCount'
  <2> SUFFICES ASSUME TypeOK, TypeOK', TableInv, TableInv', AtMostVpCount, [Next]_vars
               PROVE  AtMostVpCount'
    OBVIOUS
  <2>1. CASE watchdog' # "gone"
    BY <1>2, <2>1
  <2>2. CASE watchdog' = "gone"
    <3>1. \A p \in Pids : vp'[p] # "none" => vp[p] # "none"
      BY <2>2, StillThere
    <3>2. Children' \in SUBSET Children
      BY <3>1 DEF Children
    <3>3. IsFiniteSet(Children') /\ Cardinality(Children') <= Cardinality(Children)
      BY <3>2, FS_Subset DEF AtMostVpCount
    <3>4. Cardinality(Children') \in Nat /\ Cardinality(Children) \in Nat
      BY <3>3, FS_CardinalityType DEF AtMostVpCount
    <3> QED
      BY <3>3, <3>4, BoundsAssumption DEF AtMostVpCount
  <2> QED
    BY <2>1, <2>2
<1> QED
  BY <1>1, <1>3, TypeCorrect, TableStep, PTL DEF Spec

-----------------------------------------------------------------------------
(* Signals.                                                                *)

(* Signal s is on its way to process p.                                    *)
Carries(p, s) == s \in pending[p] \/ \E k \in DOMAIN pipe[p] : pipe[p][k] = s

(* What TermEndsAll rests on: a process that outlives the watchdog has its *)
(* SIGTERM pending or in its pipe.                                         *)
TermNotLost == watchdog = "gone" => \A p \in Pids : Alive(p) => Carries(p, "TERM")

(* What LogsFollow rests on: who writes into renamed log files, watchdog or*)
(* process, has a SIGHUP to come, his own or the one the watchdog has yet  *)
(* to send on.                                                             *)
HupNotLost ==
    watchdog # "gone" =>
        /\ wdLog = rotated \/ "HUP" \in toWatchdog
        /\ \A p \in Pids : Alive(p) =>
              logOf[p] = rotated \/ Carries(p, "HUP") \/ "HUP" \in toWatchdog


-----------------------------------------------------------------------------
SignalInv == TermNotLost /\ HupNotLost

(* What a step of the processes may do to signals: one that is on its way  *)
(* stays so unless its process dies or, for SIGHUP, has opened its logs.   *)
Kept(q) ==
    /\ Alive(q)' => Alive(q) /\ logOf'[q] \in {logOf[q], rotated}
    /\ Alive(q)' /\ Carries(q, "TERM") => Carries(q, "TERM")'
    /\ Alive(q)' /\ Carries(q, "HUP") => Carries(q, "HUP")' \/ logOf'[q] = rotated

LEMMA KeptMeans ==
    ASSUME TypeOK, SignalInv, UNCHANGED <<watchdog, wdLog, rotated, toWatchdog>>,
           \A q \in Pids : Kept(q)
    PROVE  SignalInv'
<1>1. TermNotLost'
  BY DEF SignalInv, TermNotLost, Kept
<1>2. HupNotLost'
  BY DEF SignalInv, HupNotLost, Kept
<1> QED
  BY <1>1, <1>2 DEF SignalInv

(* Pipes: what is in one stays in it until it is at its head.              *)
LEMMA Headed ==
    ASSUME NEW S, NEW q \in Seq(S), q # <<>>, NEW x, x # Head(q),
           NEW k \in DOMAIN q, q[k] = x
    PROVE  \E j \in DOMAIN Tail(q) : Tail(q)[j] = x
<1>1. k # 1 /\ k \in 1..Len(q)
  OBVIOUS
<1>2. k - 1 \in 1..Len(Tail(q)) /\ Tail(q)[k - 1] = q[k]
  BY <1>1
<1> QED
  BY <1>2

LEMMA DiesKept == ASSUME TypeOK, NEW p \in Pids, Alive(p), Dies(p), NEW q \in Pids PROVE Kept(q)
<1>1. CASE q = p
  <2>1. ~Alive(p)'
    BY DEF Dies, Alive, TypeOK
  <2> QED
    BY <1>1, <2>1 DEF Kept
<1>2. CASE q # p
  <2>1. vp'[q] = vp[q] /\ pending'[q] = pending[q] /\ pipe'[q] = pipe[q] /\ logOf'[q] = logOf[q]
    BY <1>2 DEF Dies, TypeOK
  <2> QED
    BY <2>1 DEF Kept, Alive, Carries
<1> QED
  BY <1>1, <1>2

(* The steps of a process.                                                 *)
LEMMA StepsKeep ==
    ASSUME TypeOK, NEW p \in Pids,
           Works(p) \/ Crash(p) \/ Fault(p) \/ \E s \in Signals : ChildSighandler(p, s),
           NEW q \in Pids
    PROVE  Kept(q)
<1>1. Alive(p)
  BY DEF Works, InstallSighandlers, DiesYoung, ProcessSignal, FaultAgain, Crash, Fault,
     ChildSighandler, Alive
<1>2. CASE Dies(p)
  BY <1>1, <1>2, DiesKept
<1>3. CASE InstallSighandlers(p) \/ Fault(p)
  <2>1. UNCHANGED <<pending, pipe, logOf>>
    BY <1>3 DEF InstallSighandlers, Fault
  <2>2. \A r \in Pids : Alive(r)' => Alive(r)
    BY <1>1, <1>3 DEF InstallSighandlers, Fault, Alive, TypeOK
  <2> QED
    BY <2>1, <2>2 DEF Kept, Carries
<1> DEFINE Msgs == Signals \cup {"SEGV"}
<1>4. pipe[p] \in Seq(Msgs) /\ pipe \in [Pids -> Seq(Msgs)]
  BY DEF TypeOK
<1>5. ASSUME NEW s \in Signals, pending' = [pending EXCEPT ![p] = @ \ {s}],
             pipe' = [pipe EXCEPT ![p] = Append(@, s)], UNCHANGED <<vp, logOf>>
      PROVE  Kept(q)
  <2>1. CASE q = p
    <3>1. pipe'[p] = Append(pipe[p], s) /\ pending'[p] = pending[p] \ {s}
      BY <1>4, <1>5 DEF TypeOK
    <3>2. s \in Msgs
      OBVIOUS
    <3>3. \A r : Carries(p, r) => Carries(p, r)'
      <4> SUFFICES ASSUME NEW r, Carries(p, r) PROVE Carries(p, r)'
        OBVIOUS
      <4>1. CASE r \in pending[p] /\ r # s
        BY <3>1, <4>1 DEF Carries
      <4>2. CASE r = s
        <5>1. Len(pipe[p]) + 1 \in DOMAIN pipe'[p] /\ pipe'[p][Len(pipe[p]) + 1] = s
          BY <1>4, <3>1
        <5> QED
          BY <4>2, <5>1 DEF Carries
      <4>3. CASE \E k \in DOMAIN pipe[p] : pipe[p][k] = r
        <5>1. \A k \in DOMAIN pipe[p] : k \in DOMAIN pipe'[p] /\ pipe'[p][k] = pipe[p][k]
          BY <1>4, <3>1
        <5> QED
          BY <4>3, <5>1 DEF Carries
      <4> QED
        BY <4>1, <4>2, <4>3 DEF Carries
    <3> QED
      BY <1>5, <2>1, <3>3 DEF Kept, Alive
  <2>2. CASE q # p
    <3>1. pipe'[q] = pipe[q] /\ pending'[q] = pending[q]
      BY <1>4, <1>5, <2>2 DEF TypeOK
    <3> QED
      BY <1>5, <3>1 DEF Kept, Alive, Carries
  <2> QED
    BY <2>1, <2>2
<1>6. CASE /\ pipe[p] # <<>> /\ Head(pipe[p]) # "TERM"
           /\ pipe' = [pipe EXCEPT ![p] = Tail(@)]
           /\ logOf' = [logOf EXCEPT ![p] = IF Head(pipe[p]) = "HUP" THEN rotated ELSE @]
           /\ UNCHANGED <<vp, pending>>
  <2>1. CASE q = p
    <3>1. pipe'[p] = Tail(pipe[p]) /\ pending' = pending /\ vp' = vp
          /\ logOf'[p] = IF Head(pipe[p]) = "HUP" THEN rotated ELSE logOf[p]
      BY <1>4, <1>6 DEF TypeOK
    <3>2. \A r : Carries(p, r) /\ r # Head(pipe[p]) => Carries(p, r)'
      <4> SUFFICES ASSUME NEW r, Carries(p, r), r # Head(pipe[p]) PROVE Carries(p, r)'
        OBVIOUS
      <4>1. CASE r \in pending[p]
        BY <3>1, <4>1 DEF Carries
      <4>2. CASE \E k \in DOMAIN pipe[p] : pipe[p][k] = r
        <5>1. PICK k \in DOMAIN pipe[p] : pipe[p][k] = r
          BY <4>2
        <5>2. \E j \in DOMAIN Tail(pipe[p]) : Tail(pipe[p])[j] = r
          BY <1>4, <1>6, <5>1, Headed
        <5> QED
          BY <3>1, <5>2 DEF Carries
      <4> QED
        BY <4>1, <4>2 DEF Carries
    <3> QED
      BY <1>6, <2>1, <3>1, <3>2 DEF Kept, Alive
  <2>2. CASE q # p
    <3>1. pipe'[q] = pipe[q] /\ logOf'[q] = logOf[q]
      BY <1>4, <1>6, <2>2 DEF TypeOK
    <3> QED
      BY <1>6, <3>1 DEF Kept, Alive, Carries
  <2> QED
    BY <2>1, <2>2
<1>7. CASE /\ pipe' = [pipe EXCEPT ![p] = Append(@, "SEGV")]
           /\ UNCHANGED <<vp, pending, logOf>>
  <2>1. \A r : Carries(q, r) => Carries(q, r)'
    <3>1. CASE q = p
      <4>1. pipe'[p] = Append(pipe[p], "SEGV")
        BY <1>4, <1>7
      <4>2. \A k \in DOMAIN pipe[p] : k \in DOMAIN pipe'[p] /\ pipe'[p][k] = pipe[p][k]
        BY <1>4, <4>1
      <4> QED
        BY <1>7, <3>1, <4>2 DEF Carries
    <3>2. CASE q # p
      <4>1. pipe'[q] = pipe[q]
        BY <1>4, <1>7, <3>2
      <4> QED
        BY <1>7, <4>1 DEF Carries
    <3> QED
      BY <3>1, <3>2
  <2> QED
    BY <1>7, <2>1 DEF Kept, Alive
<1> QED
  BY <1>2, <1>3, <1>5, <1>6, <1>7 DEF Works, DiesYoung, ProcessSignal, FaultAgain, Crash,
     ChildSighandler

(* A new process, which writes into the logs of the watchdog.              *)
LEMMA ForkKeeps ==
    ASSUME TypeOK, SignalInv, NEW p \in Pids, NEW life \in Lives, Fork(p, life),
           watchdog # "gone", watchdog' # "gone", UNCHANGED <<wdLog, rotated, toWatchdog>>
    PROVE  SignalInv'
<1>1. /\ UNCHANGED <<pending, pipe>> /\ logOf'[p] = wdLog
      /\ \A q \in Pids : q # p => vp'[q] = vp[q] /\ logOf'[q] = logOf[q]
  BY DEF Fork, TypeOK
<1> QED
  BY <1>1 DEF SignalInv, TermNotLost, HupNotLost, Alive, Carries

LEMMA SignalStep == TypeOK /\ TableInv /\ SignalInv /\ [Next]_vars => SignalInv'
<1> SUFFICES ASSUME TypeOK, TableInv, SignalInv, [Next]_vars PROVE SignalInv'
  OBVIOUS
<1>1. CASE ForkFirst
  <2>1. PICK p \in Pids : Fork(p, "young")
    BY <1>1 DEF ForkFirst
  <2> QED
    BY <1>1, <2>1, ForkKeeps DEF ForkFirst, Lives
<1>2. CASE Refork
  <2>1. PICK p \in Pids : Fork(p, "blocked")
    BY <1>2 DEF Refork
  <2> QED
    BY <1>2, <2>1, ForkKeeps DEF Refork, Lives
(* The watchdog goes because it has no child, or it goes on.               *)
<1>3. ASSUME UNCHANGED <<pending, pipe, logOf, wdLog, rotated, toWatchdog>>,
             watchdog # "gone" \/ watchdog' = "gone",
             watchdog # "gone" /\ watchdog' = "gone" => \A q \in Pids : ~Alive(q)',
             \A q \in Pids : Alive(q)' => Alive(q)
      PROVE  SignalInv'
  BY <1>3 DEF SignalInv, TermNotLost, HupNotLost, Carries
<1>4. CASE UNCHANGED vars
  BY <1>3, <1>4 DEF vars, Alive
<1>5. CASE BeginWaiting
  BY <1>3, <1>5 DEF BeginWaiting, processes, Alive
<1>6. CASE NoChildLeft
  BY <1>3, <1>6 DEF NoChildLeft, processes, Alive, Children
<1>7. CASE ForkFirstFails
  <2>1. /\ UNCHANGED <<vp, pending, pipe, logOf, wdLog, rotated, toWatchdog>>
        /\ watchdog = "forking" /\ watchdog' = IF index = 0 THEN "gone" ELSE watchdog
    BY <1>7 DEF ForkFirstFails, ForkFails, processes
  <2>2. index = 0 => \A q \in Pids : vp[q] = "none"
    <3> SUFFICES ASSUME index = 0, NEW q \in Pids, vp[q] # "none" PROVE FALSE
      OBVIOUS
    <3>1. PICK i \in Slots : vpPids[i] = q
      BY <2>1 DEF TableInv, Listed, InTable
    <3>2. vpPids[i] = 0
      BY <2>1, <3>1, BoundsAssumption DEF TableInv, FilledInOrder, Slots
    <3> QED
      BY <3>1, <3>2 DEF Pids
  <2> QED
    BY <1>3, <2>1, <2>2 DEF Alive
<1>8. CASE ReforkFails
  BY <1>3, <1>8 DEF ReforkFails, ForkFails, processes, Alive
<1>9. ASSUME NEW p \in Pids, Reap(p) PROVE SignalInv'
  <2>1. \A q \in Pids : Alive(q)' => Alive(q)
    BY <1>9 DEF Reap, Alive, TypeOK
  <2> QED
    BY <1>3, <1>9, <2>1 DEF Reap
<1>10. ASSUME NEW s \in Signals, SendSignal(s) PROVE SignalInv'
  <2>1. /\ UNCHANGED <<watchdog, vp, pending, pipe, logOf, wdLog>> /\ watchdog # "gone"
        /\ toWatchdog' = toWatchdog \cup {s}
        /\ rotated' = IF s = "HUP" THEN rotated + 1 ELSE rotated
    BY <1>10 DEF SendSignal, table, processes
  <2> QED
    BY <2>1 DEF SignalInv, TermNotLost, HupNotLost, Alive, Carries
<1>11. ASSUME NEW s \in Signals, WdogSighandler(s) PROVE SignalInv'
  <2>1. /\ UNCHANGED <<vp, pipe, logOf, rotated>> /\ watchdog = "waiting"
        /\ toWatchdog' = toWatchdog \ {s}
        /\ watchdog' = IF s = "TERM" THEN "gone" ELSE watchdog
        /\ wdLog' = IF s = "HUP" THEN rotated ELSE wdLog
        /\ Forward(s)
    BY <1>11 DEF WdogSighandler
  <2>2. \A q \in Pids : Alive(q) => q \in Known
    BY <2>1 DEF TableInv, Listed, InTable, Known, Alive
  <2>3. \A q \in Pids : pending[q] \subseteq pending'[q] /\ (Alive(q) => s \in pending'[q])
    BY <2>1, <2>2 DEF Forward
  <2>4. CASE s = "TERM"
    BY <2>1, <2>3, <2>4 DEF SignalInv, TermNotLost, HupNotLost, Alive, Carries
  <2>5. CASE s = "HUP"
    BY <2>1, <2>3, <2>5 DEF SignalInv, TermNotLost, HupNotLost, Alive, Carries
  <2>6. CASE s \notin {"TERM", "HUP"}
    BY <2>1, <2>3, <2>6 DEF SignalInv, TermNotLost, HupNotLost, Alive, Carries
  <2> QED
    BY <2>4, <2>5, <2>6
<1>12. ASSUME NEW p \in Pids,
              Works(p) \/ Crash(p) \/ Fault(p) \/ \E s \in Signals : ChildSighandler(p, s)
       PROVE  SignalInv'
  <2>1. UNCHANGED <<watchdog, wdLog, rotated, toWatchdog>>
    BY <1>12 DEF Works, InstallSighandlers, DiesYoung, ProcessSignal, FaultAgain, Crash, Fault,
       ChildSighandler, Others, table
  <2> QED
    BY <1>12, <2>1, StepsKeep, KeptMeans
<1> QED
  BY <1>1, <1>2, <1>4, <1>5, <1>6, <1>7, <1>8, <1>9, <1>10, <1>11, <1>12 DEF Next, Watchdog

(* Any process that is alive when the watchdog is gone has been told to    *)
(* terminate, for wdog_sighandler forwards the signal before it exits      *)
(* (main.cpp:671-696), and its handler keeps the signal until it is read.  *)
THEOREM TermNotLostCorrect == Spec => []TermNotLost
<1>1. Init => TableInv /\ SignalInv
  BY TableInit DEF Init, SignalInv, TermNotLost, HupNotLost, Alive
<1>2. SignalInv => TermNotLost
  BY DEF SignalInv
<1> QED
  BY <1>1, <1>2, TypeCorrect, TableStep, SignalStep, PTL DEF Spec

(* Nobody writes into renamed log files for good: a process inherits the   *)
(* logs of the watchdog, and the SIGHUP that the watchdog has yet to take  *)
(* reaches it, whichever of fork and signal comes first.                   *)
THEOREM HupNotLostCorrect == Spec => []HupNotLost
<1>1. Init => TableInv /\ SignalInv
  BY TableInit DEF Init, SignalInv, TermNotLost, HupNotLost, Alive
<1>2. SignalInv => HupNotLost
  BY DEF SignalInv
<1> QED
  BY <1>1, <1>2, TypeCorrect, TableStep, SignalStep, PTL DEF Spec
=============================================================================
