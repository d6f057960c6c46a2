--------------------------- MODULE HoxPoolProofs ----------------------------
(***************************************************************************)
(* Theorems about HoxPool, for any limits and any number of threads.       *)
(***************************************************************************)
EXTENDS HoxPool, FiniteSetTheorems, TLAPS

-----------------------------------------------------------------------------
(* The limits.                                                             *)

(* The share of each process is the least that is enough for all.          *)
LEMMA ShareLemma ==
    ASSUME NEW n \in Nat
    PROVE  /\ Share(n) \in Nat
           /\ n <= VpCount * Share(n)
           /\ VpCount * Share(n) < n + VpCount
<1> DEFINE q == n \div VpCount
           r == n % VpCount
<1>1. VpCount \in Nat \ {0}
  BY OptionsAssumption
<1>2. q \in Nat /\ r \in 0..(VpCount - 1) /\ n = VpCount * q + r
  BY <1>1
<1>3. Share(n) = q + (IF r = 0 THEN 0 ELSE 1)
  BY DEF Share
<1> HIDE DEF q, r
<1>4. VpCount * (q + 1) = VpCount * q + VpCount
  BY <1>1, <1>2
<1>5. CASE r = 0
  <2>1. Share(n) = q
    BY <1>2, <1>3, <1>5
  <2> QED
    BY <1>1, <1>2, <1>5, <2>1
<1>6. CASE r # 0
  <2>1. Share(n) = q + 1
    BY <1>2, <1>3, <1>6
  <2> QED
    BY <1>1, <1>2, <1>4, <1>6, <2>1
<1> QED
  BY <1>5, <1>6

LEMMA ShareMonotone ==
    ASSUME NEW m \in Nat, NEW n \in Nat, m <= n
    PROVE  Share(m) <= Share(n)
<1> DEFINE s == Share(m)
           t == Share(n)
<1>1. VpCount \in Nat /\ VpCount > 0
  BY OptionsAssumption
<1>2. s \in Nat /\ VpCount * s < m + VpCount
  BY ShareLemma
<1>3. t \in Nat /\ n <= VpCount * t
  BY ShareLemma
<1> HIDE DEF s, t
<1>4. SUFFICES ASSUME t + 1 <= s PROVE FALSE
  BY <1>2, <1>3 DEF s, t
<1>5. PICK d \in Nat : s = t + 1 + d
  <2>1. s - (t + 1) \in Nat /\ s = t + 1 + (s - (t + 1))
    BY <1>2, <1>3, <1>4
  <2> QED
    BY <2>1
<1>6. VpCount * s = VpCount * t + VpCount + VpCount * d /\ VpCount * d \in Nat
     /\ VpCount * t \in Nat
  BY <1>1, <1>2, <1>3, <1>5
<1>7. VpCount * s \in Nat
  BY <1>1, <1>2
<1> QED
  BY <1>1, <1>2, <1>3, <1>6, <1>7

(* set_thread_throttling keeps the limits in order, whatever the options:  *)
(* no process has fewer threads than the lower limit of spare ones.        *)
THEOREM Throttling ==
    /\ MinWait \in Nat /\ MaxWait \in Nat /\ MaxThreads \in Nat
    /\ MinWait <= MaxWait /\ MaxWait <= MaxThreads
<1>1. AllThreads \in Nat
  <2>1. CASE OptThreads = 0
    <3> DEFINE x == FdLimit * VpCount
               y == x \div 2
    <3>1. x \in Nat
      BY OptionsAssumption
    <3> HIDE DEF x
    <3>2. y \in Nat
      BY <3>1
    <3> HIDE DEF y
    <3>3. y \div SkCount \in Nat
      BY <3>2, OptionsAssumption
    <3>4. AllThreads = y \div SkCount
      BY <2>1 DEF AllThreads, FdPerThread, x, y
    <3> QED
      BY <3>3, <3>4
  <2>2. CASE OptThreads # 0
    BY <2>2, OptionsAssumption DEF AllThreads
  <2> QED
    BY <2>1, <2>2
<1>2. AllWait \in Nat /\ AllWait <= AllThreads
  <2> DEFINE w == IF OptWait = 0 THEN MaxWaitThreadsDefault * VpCount ELSE OptWait
  <2>1. w \in Nat
    BY OptionsAssumption DEF MaxWaitThreadsDefault
  <2>2. AllWait = Least(w, AllThreads)
    BY DEF AllWait
  <2> HIDE DEF w
  <2> QED
    BY <1>1, <2>1, <2>2 DEF Least
<1>3. MaxWait \in Nat /\ MaxThreads \in Nat /\ MaxWait <= MaxThreads
  BY <1>1, <1>2, ShareLemma, ShareMonotone DEF MaxWait, MaxThreads
<1>4. MinWait \in Nat /\ MinWait <= MaxWait
  BY <1>3 DEF MinWait, Least
<1> QED
  BY <1>3, <1>4

-----------------------------------------------------------------------------
(* The counters.                                                           *)

LEMMA FailsType == TypeOK => fails \in Nat /\ waitThreads \in Int /\ busyThreads \in Int
  BY OptionsAssumption DEF TypeOK

LEMMA TypeStep == TypeOK /\ [Next]_vars => TypeOK'
<1> SUFFICES ASSUME TypeOK, [Next]_vars PROVE TypeOK'
  OBVIOUS
<1> USE DEF TypeOK
<1>1. CASE UNCHANGED vars
  BY <1>1 DEF vars
<1>2. ASSUME NEW c \in Clients, Connect(c) PROVE TypeOK'
  BY <1>2 DEF Connect
<1>3. ASSUME NEW t \in Threads, Accept(t) PROVE TypeOK'
  <2>1. queue # <<>> /\ queue' = Tail(queue) /\ client' = [client EXCEPT ![t] = Head(queue)]
    BY <1>3 DEF Accept, Serves
  <2>2. queue' \in Seq(Clients) /\ client' \in [Threads -> Clients \cup {None}]
    BY <2>1
  <2>3. waitThreads' \in Int /\ busyThreads' \in Int /\ fails' \in 0..MaxFails
    BY <1>3, OptionsAssumption DEF Accept
  <2>4. place' \in [Threads -> {"none", "accepting", "serving", "spinning"}]
    BY <1>3 DEF Accept, At
  <2> QED
    BY <2>2, <2>3, <2>4
<1>4. ASSUME NEW t \in Threads, Finish(t) PROVE TypeOK'
  BY <1>4 DEF Finish
<1> QED
  BY <1>1, <1>2, <1>3, <1>4 DEF Next

LEMMA TypeInit == Init => TypeOK
<1> SUFFICES ASSUME Init PROVE TypeOK
  OBVIOUS
<1>1. PICK S \in SUBSET Threads :
          /\ Cardinality(S) \in 1..MaxWait /\ Cardinality(S) >= MaxWait - MaxFails
          /\ place = [t \in Threads |-> IF t \in S THEN "accepting" ELSE "none"]
          /\ waitThreads = Cardinality(S)
          /\ fails = MaxWait - Cardinality(S)
  BY DEF Init
<1>2. fails \in 0..MaxFails /\ waitThreads \in Int
  BY <1>1, Throttling, OptionsAssumption
<1> QED
  BY <1>1, <1>2 DEF Init, TypeOK

(* The state has its type.                                                 *)
THEOREM TypeCorrect == Spec => []TypeOK
  BY TypeInit, TypeStep, PTL DEF Spec

LEMMA EquilibriumStep == TypeOK /\ Equilibrium /\ [Next]_vars => Equilibrium'
<1> SUFFICES ASSUME TypeOK, Equilibrium, [Next]_vars PROVE Equilibrium'
  OBVIOUS
<1> USE DEF Equilibrium
<1>1. fails \in Nat /\ waitThreads \in Int /\ busyThreads \in Int
  BY FailsType
<1>2. CASE UNCHANGED vars
  BY <1>2 DEF vars
<1>3. ASSUME NEW c \in Clients, Connect(c) PROVE Equilibrium'
  BY <1>3 DEF Connect
<1>4. ASSUME NEW t \in Threads, Accept(t) PROVE Equilibrium'
  <2>1. busyThreads' = busyThreads + 1
    BY <1>4 DEF Accept
  <2>2. CASE /\ Spare(waitThreads - 1, busyThreads + 1)
             /\ waitThreads' = (waitThreads - 1) + 1 /\ UNCHANGED fails
    BY <1>1, <2>1, <2>2, Throttling DEF Spare
  <2>3. CASE /\ Spare(waitThreads - 1, busyThreads + 1)
             /\ waitThreads' = waitThreads - 1 /\ fails' = fails + 1
    BY <1>1, <2>1, <2>3, Throttling DEF Spare
  <2>4. CASE /\ ~Spare(waitThreads - 1, busyThreads + 1)
             /\ waitThreads' = waitThreads - 1 /\ UNCHANGED fails
    BY <1>1, <2>1, <2>4, Throttling DEF Spare
  <2> QED
    BY <1>4, <2>2, <2>3, <2>4 DEF Accept
<1>5. ASSUME NEW t \in Threads, Finish(t) PROVE Equilibrium'
  <2>1. busyThreads' = busyThreads - 1 /\ UNCHANGED fails
    BY <1>5 DEF Finish
  <2>2. CASE waitThreads + 1 <= MaxWait /\ waitThreads' = waitThreads + 1
    BY <1>1, <2>1, <2>2, Throttling
  <2>3. CASE ~(waitThreads + 1 <= MaxWait) /\ waitThreads' = (waitThreads + 1) - 1
    BY <1>1, <2>1, <2>3, Throttling
  <2> QED
    BY <1>5, <2>2, <2>3 DEF Finish, Stays
<1> QED
  BY <1>2, <1>3, <1>4, <1>5 DEF Next

LEMMA EquilibriumInit == Init => Equilibrium
  BY Throttling, OptionsAssumption DEF Init, Equilibrium

(* The pool keeps between its limits: the one thread that accepts starts   *)
(* one more at most, which is enough because one at a time stops waiting.  *)
THEOREM EquilibriumCorrect == Spec => []Equilibrium
  BY EquilibriumInit, EquilibriumStep, TypeCorrect, PTL DEF Spec

LEMMA AtFinite == \A where : IsFiniteSet(At(where)) /\ Cardinality(At(where)) \in Nat
<1> SUFFICES ASSUME NEW where PROVE IsFiniteSet(At(where)) /\ Cardinality(At(where)) \in Nat
  OBVIOUS
<1>1. At(where) \in SUBSET Threads
  BY DEF At
<1>2. IsFiniteSet(At(where))
  BY <1>1, FS_Subset, ThreadsAssumption
<1> QED
  BY <1>2, FS_CardinalityType

LEMMA CountersStep == TypeOK /\ CountersTrue /\ [Next]_vars => CountersTrue'
<1> SUFFICES ASSUME TypeOK, CountersTrue, [Next]_vars PROVE CountersTrue'
  OBVIOUS
<1>0. waitThreads \in Int /\ busyThreads \in Int
  BY DEF TypeOK
<1>1. CASE UNCHANGED vars
  BY <1>1 DEF vars, CountersTrue, At
<1>2. ASSUME NEW c \in Clients, Connect(c) PROVE CountersTrue'
  BY <1>2 DEF Connect, CountersTrue, At
<1>3. ASSUME NEW t \in Threads, Accept(t) PROVE CountersTrue'
  <2>1. place[t] = "accepting" /\ busyThreads' = busyThreads + 1
    BY <1>3 DEF Accept
  <2>2. t \in At("accepting") /\ t \notin At("serving")
    BY <2>1 DEF At
  <2>3. Cardinality(At("serving") \cup {t}) = Cardinality(At("serving")) + 1
    BY <2>2, AtFinite, FS_AddElement
  <2>4. /\ IsFiniteSet(At("accepting") \ {t})
        /\ Cardinality(At("accepting") \ {t}) = Cardinality(At("accepting")) - 1
    BY <2>2, AtFinite, FS_RemoveElement
  <2>5. ASSUME NEW u \in At("none"), waitThreads' = (waitThreads - 1) + 1,
               place' = [place EXCEPT ![t] = "serving", ![u] = "accepting"]
        PROVE  CountersTrue'
    <3>1. u # t /\ place[u] = "none" /\ u \in Threads
      BY <2>1 DEF At
    <3>2. At("serving")' = At("serving") \cup {t}
      BY <2>1, <2>5, <3>1 DEF At, TypeOK
    <3>3. At("accepting")' = (At("accepting") \ {t}) \cup {u}
      BY <2>1, <2>5, <3>1 DEF At, TypeOK
    <3>4. u \notin At("accepting") \ {t}
      BY <3>1 DEF At
    <3>5. Cardinality((At("accepting") \ {t}) \cup {u}) = Cardinality(At("accepting")) - 1 + 1
      BY <2>4, <3>4, FS_AddElement
    <3> QED
      BY <1>0, <2>1, <2>3, <2>5, <3>2, <3>3, <3>5 DEF CountersTrue
  <2>6. ASSUME waitThreads' = waitThreads - 1, place' = [place EXCEPT ![t] = "serving"]
        PROVE  CountersTrue'
    <3>1. At("serving")' = At("serving") \cup {t} /\ At("accepting")' = At("accepting") \ {t}
      BY <2>1, <2>6 DEF At, TypeOK
    <3> QED
      BY <2>1, <2>3, <2>4, <2>6, <3>1 DEF CountersTrue
  <2> QED
    BY <1>3, <2>5, <2>6 DEF Accept
<1>4. ASSUME NEW t \in Threads, Finish(t) PROVE CountersTrue'
  <2>1. place[t] = "serving" /\ busyThreads' = busyThreads - 1
    BY <1>4 DEF Finish
  <2>2. t \in At("serving") /\ t \notin At("accepting")
    BY <2>1 DEF At
  <2>3. Cardinality(At("serving") \ {t}) = Cardinality(At("serving")) - 1
    BY <2>2, AtFinite, FS_RemoveElement
  <2>4. Cardinality(At("accepting") \cup {t}) = Cardinality(At("accepting")) + 1
    BY <2>2, AtFinite, FS_AddElement
  <2>5. CASE place' = [place EXCEPT ![t] = "accepting"] /\ waitThreads' = waitThreads + 1
    <3>1. At("serving")' = At("serving") \ {t} /\ At("accepting")' = At("accepting") \cup {t}
      BY <2>1, <2>5 DEF At, TypeOK
    <3> QED
      BY <2>1, <2>3, <2>4, <2>5, <3>1 DEF CountersTrue
  <2>6. CASE place' = [place EXCEPT ![t] = "none"] /\ waitThreads' = (waitThreads + 1) - 1
    <3>1. At("serving")' = At("serving") \ {t} /\ At("accepting")' = At("accepting")
      BY <2>1, <2>6 DEF At, TypeOK
    <3> QED
      BY <1>0, <2>1, <2>3, <2>6, <3>1 DEF CountersTrue
  <2> QED
    BY <1>4, <2>5, <2>6 DEF Finish
<1> QED
  BY <1>1, <1>2, <1>3, <1>4 DEF Next

LEMMA CountersInit == Init => CountersTrue
<1> SUFFICES ASSUME Init PROVE CountersTrue
  OBVIOUS
<1>1. PICK S \in SUBSET Threads :
          /\ place = [t \in Threads |-> IF t \in S THEN "accepting" ELSE "none"]
          /\ waitThreads = Cardinality(S)
  BY DEF Init
<1>2. At("accepting") = S /\ At("serving") = {}
  BY <1>1 DEF At
<1> QED
  BY <1>1, <1>2, FS_EmptySet DEF Init, CountersTrue

(* WAIT_THREADS and BUSY_THREADS count the threads that wait and serve.    *)
THEOREM CountersTrueCorrect == Spec => []CountersTrue
  BY CountersInit, CountersStep, TypeCorrect, PTL DEF Spec

-----------------------------------------------------------------------------
(* Who can wait for nothing.                                               *)

(* When no thread waits for a connection, the pool is at its limit or      *)
(* threads could not be created: the last accepting thread always starts a *)
(* spare one before it serves (handle_connections, main.cpp:938-948).      *)
NobodyLockedOut ==
    At("accepting") = {} => busyThreads = MaxThreads \/ fails >= MinWait

(* What Accepted rests on, at any number of connections and sessions.      *)
THEOREM NobodyLockedOutCorrect == Spec => []NobodyLockedOut
<1>1. TypeOK /\ CountersTrue /\ Equilibrium => NobodyLockedOut
  <2> SUFFICES ASSUME TypeOK, CountersTrue, Equilibrium, At("accepting") = {}
               PROVE  busyThreads = MaxThreads \/ fails >= MinWait
    BY DEF NobodyLockedOut
  <2>1. waitThreads = 0
    BY FS_EmptySet DEF CountersTrue
  <2> QED
    BY <2>1, FailsType, Throttling DEF Equilibrium
<1> QED
  BY <1>1, TypeCorrect, CountersTrueCorrect, EquilibriumCorrect, PTL

-----------------------------------------------------------------------------
(* Descriptors.                                                            *)

(* A process that may open as many descriptors as it holds itself and has  *)
(* threads never gets into the loop of st_accept that keeps the processor. *)
THEOREM NobodySpinsCorrect ==
    ASSUME OwnFds + MaxThreads <= FdLimit
    PROVE  SpinningSpec => []NobodySpins
<1> DEFINE Inv == TypeOK /\ CountersTrue /\ Equilibrium /\ NobodySpins
<1>1. Init => Inv
  BY TypeInit, CountersInit, EquilibriumInit DEF Init, NobodySpins, Runs, At
<1>2. Inv /\ [NextSpinning]_vars => Inv'
  <2> SUFFICES ASSUME TypeOK, CountersTrue, Equilibrium, NobodySpins, [NextSpinning]_vars
               PROVE  Inv'
    OBVIOUS
  <2>1. ASSUME NEW t \in Threads, AcceptFails(t) PROVE FALSE
    <3>1. t \in At("accepting") /\ NoFdLeft
      BY <2>1 DEF AcceptFails, At
    <3>2. Cardinality(At("accepting")) # 0
      BY <3>1, AtFinite, FS_EmptySet
    <3>3. waitThreads \in Nat /\ waitThreads # 0 /\ busyThreads \in Nat
      BY <3>2, AtFinite DEF CountersTrue
    <3>4. busyThreads < MaxThreads
      BY <3>3, Throttling DEF Equilibrium
    <3>5. OwnFds + busyThreads >= FdLimit
      BY <3>1 DEF NoFdLeft, CountersTrue
    <3> QED
      BY <3>3, <3>4, <3>5, Throttling, OptionsAssumption
  <2>2. [Next]_vars
    BY <2>1 DEF NextSpinning
  <2>3. NobodySpins'
    <3>1. \A t \in Threads : place[t] # "spinning"
      BY DEF NobodySpins, Runs, At
    <3>2. \A t \in Threads : place'[t] # "spinning"
      BY <2>2, <3>1 DEF Next, Connect, Accept, Finish, TypeOK, vars, At
    <3> QED
      BY <3>2 DEF NobodySpins, Runs, At
  <2> QED
    BY <2>2, <2>3, TypeStep, CountersStep, EquilibriumStep
<1> QED
  BY <1>1, <1>2, PTL DEF SpinningSpec

(* The default limit of threads is such: "Assuming that each client session*)
(* needs FD_PER_THREAD file descriptors" (main.cpp:425), the sockets of a  *)
(* process together stay within its descriptors, up to what is rounded up. *)
THEOREM DefaultFitsDescriptors ==
    ASSUME OptThreads = 0
    PROVE  FdPerThread * (SkCount * MaxThreads) < FdLimit + FdPerThread * SkCount
<1> DEFINE x == FdLimit * VpCount
           y == x \div 2
           a == y \div SkCount
<1>1. VpCount \in Nat /\ VpCount > 0 /\ SkCount \in Nat /\ SkCount > 0 /\ FdLimit \in Nat
  BY OptionsAssumption
<1>2. x \in Nat
  BY <1>1
<1> HIDE DEF x
<1>3. y \in Nat /\ 2 * y <= x
  BY <1>2
<1> HIDE DEF y
<1>4. a \in Nat /\ SkCount * a <= y
  BY <1>1, <1>3
<1>5. a = AllThreads
  BY DEF AllThreads, FdPerThread, x, y
<1> HIDE DEF a
<1> DEFINE m == MaxThreads
<1>6. m \in Nat /\ VpCount * m < a + VpCount
  BY <1>4, <1>5, ShareLemma DEF MaxThreads
<1> HIDE DEF m
<1>7. SUFFICES ASSUME 2 * (SkCount * m) >= FdLimit + 2 * SkCount PROVE FALSE
  BY <1>1, <1>6 DEF FdPerThread, m
<1> DEFINE k == VpCount * m
<1>8. k \in Nat /\ k + 1 <= a + VpCount
  BY <1>1, <1>4, <1>6
<1>9. VpCount * (2 * (SkCount * m)) = 2 * (SkCount * k)
  BY <1>1, <1>6
<1> HIDE DEF k
<1>10. SkCount * k + SkCount <= SkCount * a + SkCount * VpCount
  <2>1. PICK d \in Nat : a + VpCount = k + 1 + d
    <3>1. a + VpCount - (k + 1) \in Nat /\ a + VpCount = k + 1 + (a + VpCount - (k + 1))
      BY <1>1, <1>4, <1>8
    <3> QED
      BY <3>1
  <2>2. SkCount * (a + VpCount) = SkCount * k + SkCount + SkCount * d /\ SkCount * d \in Nat
    BY <1>1, <1>8, <2>1
  <2>3. SkCount * (a + VpCount) = SkCount * a + SkCount * VpCount
    BY <1>1, <1>4
  <2>4. SkCount * k \in Nat /\ SkCount * a \in Nat /\ SkCount * VpCount \in Nat
    BY <1>1, <1>4, <1>8
  <2> QED
    BY <1>1, <2>2, <2>3, <2>4
<1>11. VpCount * (FdLimit + 2 * SkCount) <= VpCount * (2 * (SkCount * m))
  <2> DEFINE u == FdLimit + 2 * SkCount
             v == 2 * (SkCount * m)
  <2>1. u \in Nat /\ v \in Nat /\ u <= v
    BY <1>1, <1>6, <1>7
  <2> HIDE DEF u, v
  <2>2. v - u \in Nat /\ v = u + (v - u)
    BY <2>1
  <2>3. VpCount * v = VpCount * u + VpCount * (v - u) /\ VpCount * (v - u) \in Nat
    BY <1>1, <2>1, <2>2
  <2>4. VpCount * u \in Nat
    BY <1>1, <2>1
  <2>5. VpCount * u <= VpCount * v
    BY <2>3, <2>4
  <2> QED
    BY <2>5 DEF u, v
<1>12. VpCount * (FdLimit + 2 * SkCount) = x + 2 * (SkCount * VpCount)
  BY <1>1 DEF x
<1>13. SkCount * k \in Nat /\ SkCount * a \in Nat /\ SkCount * VpCount \in Nat
  BY <1>1, <1>4, <1>8
<1> QED
  BY <1>1, <1>2, <1>3, <1>4, <1>9, <1>10, <1>11, <1>12, <1>13
=============================================================================
