--------------------------- MODULE HoxClockProofs ---------------------------
(***************************************************************************)
(* Theorems about HoxClock, for any settings of the timers.                *)
(***************************************************************************)
EXTENDS HoxClock, TLAPS

(* What each clock keeps of the initial time.  Free time is touched only   *)
(* once the game time is gone: with game time left it is whole.            *)
KeepsInitial(t) ==
    /\ t.nMove = initialTime.nMove
    /\ t.nGame <= initialTime.nGame /\ t.nFree <= initialTime.nFree
    /\ t.nGame > 0 => t.nFree = initialTime.nFree

ClockInv ==
    /\ TypeOK
    /\ \A c \in Colors : KeepsInitial(time[c])
    /\ phase = "Waiting" => moves = 0
    /\ FreshClocks /\ FreeTimePerMove /\ ExpiryAgrees

LEMMA InitialLemma ==
    ASSUME NEW t \in TimeInfos
    PROVE  /\ t \in Clocks
           /\ t.nGame \in Nat /\ t.nMove \in Nat /\ t.nFree \in Nat
           /\ t.nGame + t.nFree < Horizon /\ t.nMove < Horizon
<1>1. t \in [nGame: Nat, nMove: Nat, nFree: Nat]
  BY TimeInfosAssumption
<1>2. /\ t.nGame \in Nat /\ t.nMove \in Nat /\ t.nFree \in Nat
      /\ t.nGame + t.nFree < Horizon /\ t.nMove < Horizon
  BY <1>1, HorizonAssumption
<1>3. t.nGame \in 0..Horizon /\ t.nMove \in 0..Horizon /\ t.nFree \in 0..Horizon
  BY <1>2, HorizonAssumption
<1> QED
  BY <1>1, <1>2, <1>3 DEF Clocks

(* Spending time on a clock.                                               *)
LEMMA AfterLemma ==
    ASSUME initialTime \in TimeInfos, NEW t \in Clocks, KeepsInitial(t),
           NEW s \in 0..Horizon
    PROVE  After(t, s) \in Clocks /\ KeepsInitial(After(t, s))
<1>1. /\ t.nGame \in 0..Horizon /\ t.nMove \in 0..Horizon /\ t.nFree \in 0..Horizon
      /\ t = [nGame |-> t.nGame, nMove |-> t.nMove, nFree |-> t.nFree]
  BY DEF Clocks
<1>2. /\ initialTime.nGame \in Nat /\ initialTime.nFree \in Nat /\ Horizon \in Nat
  BY InitialLemma, HorizonAssumption
<1>3. CASE s <= t.nGame
  <2>1. After(t, s) = [nGame |-> t.nGame - s, nMove |-> t.nMove, nFree |-> t.nFree]
    BY <1>1, <1>3 DEF After
  <2>2. t.nGame - s \in 0..Horizon
    BY <1>1, <1>2, <1>3
  <2>3. After(t, s) \in Clocks
    BY <1>1, <2>1, <2>2 DEF Clocks
  <2> QED
    BY <1>1, <1>2, <1>3, <2>1, <2>3 DEF KeepsInitial
<1>4. CASE ~(s <= t.nGame)
  <2> DEFINE f == IF t.nFree < s - t.nGame THEN 0 ELSE t.nFree - (s - t.nGame)
  <2>1. After(t, s) = [nGame |-> 0, nMove |-> t.nMove, nFree |-> f]
    BY <1>1, <1>4 DEF After
  <2>2. f \in 0..Horizon /\ f <= t.nFree
    BY <1>1, <1>2, <1>4
  <2> HIDE DEF f
  <2>3. After(t, s) \in Clocks
    BY <1>1, <1>2, <2>1, <2>2 DEF Clocks
  <2> QED
    BY <1>1, <1>2, <2>1, <2>2, <2>3 DEF KeepsInitial
<1> QED
  BY <1>3, <1>4

(* The clock at the beginning of a turn, and the seconds it allows.        *)
LEMMA ReadyLemma ==
    ASSUME initialTime \in TimeInfos, NEW t \in Clocks, KeepsInitial(t)
    PROVE  /\ Ready(t) \in Clocks /\ KeepsInitial(Ready(t))
           /\ Ready(t).nFree = initialTime.nFree
           /\ Budget(Ready(t)) \in 0..Horizon
<1>1. /\ t.nGame \in 0..Horizon /\ t.nMove \in 0..Horizon /\ t.nFree \in 0..Horizon
      /\ t = [nGame |-> t.nGame, nMove |-> t.nMove, nFree |-> t.nFree]
  BY DEF Clocks
<1>2. /\ initialTime.nGame \in Nat /\ initialTime.nFree \in Nat /\ initialTime.nMove \in Nat
      /\ Horizon \in Nat /\ initialTime.nMove < Horizon
      /\ initialTime.nGame + initialTime.nFree < Horizon
  BY InitialLemma, HorizonAssumption
<1>3. Ready(t) = [nGame |-> t.nGame, nMove |-> initialTime.nMove,
                  nFree |-> initialTime.nFree]
  BY <1>1, <1>2 DEF Ready, KeepsInitial
<1>4. initialTime.nMove \in 0..Horizon /\ initialTime.nFree \in 0..Horizon
  BY <1>2
<1>5. Ready(t) \in Clocks
  BY <1>1, <1>3, <1>4 DEF Clocks
<1>6. KeepsInitial(Ready(t))
  BY <1>1, <1>2, <1>3 DEF KeepsInitial
<1>7. Budget(Ready(t)) \in 0..Horizon
  BY <1>1, <1>2, <1>3 DEF Budget, AtMost, KeepsInitial
<1> QED
  BY <1>3, <1>5, <1>6, <1>7

LEMMA BudgetLemma == ASSUME NEW t \in Clocks PROVE Budget(t) \in Nat
<1>1. t.nGame \in Nat /\ t.nMove \in Nat /\ t.nFree \in Nat
  BY HorizonAssumption DEF Clocks
<1> QED
  BY <1>1 DEF Budget, AtMost

LEMMA ClockInvInit == Init => ClockInv
<1> SUFFICES ASSUME Init PROVE ClockInv
  OBVIOUS
<1>1. initialTime \in TimeInfos /\ time = [c \in Colors |-> initialTime]
  BY DEF Init
<1>2. initialTime \in Clocks /\ KeepsInitial(initialTime)
  BY <1>1, InitialLemma DEF KeepsInitial
<1>3. TypeOK
  <2>1. time \in [Colors -> Clocks]
    BY <1>1, <1>2
  <2>2. 0 \in 0..Horizon /\ 0 \in -1..Horizon /\ 0 \in Nat
    BY HorizonAssumption
  <2> QED
    BY <1>1, <2>1, <2>2 DEF Init, TypeOK, Colors
<1> QED
  BY <1>1, <1>2, <1>3
     DEF Init, ClockInv, FreshClocks, FreeTimePerMove, ExpiryAgrees, Started

LEMMA ClockInvNext == ClockInv /\ [Next]_vars => ClockInv'
<1> SUFFICES ASSUME ClockInv, [Next]_vars PROVE ClockInv'
  OBVIOUS
<1>0. /\ TypeOK /\ initialTime \in TimeInfos /\ Horizon \in Nat
      /\ \A c \in Colors : time[c] \in Clocks /\ KeepsInitial(time[c])
      /\ nextColor \in Colors /\ Opponent(nextColor) \in Colors
      /\ Opponent(nextColor) # nextColor
  BY HorizonAssumption DEF ClockInv, TypeOK, Opponent, Colors
<1>t. /\ moves \in Nat /\ elapsed \in 0..Horizon /\ left \in -1..Horizon
      /\ time \in [Colors -> Clocks] /\ lost \in Colors \cup {"None"}
  BY <1>0 DEF TypeOK
<1>1. ASSUME NEW ends \in BOOLEAN, Move(ends) PROVE ClockInv'
  <2>1. /\ moves' = moves + 1 /\ moves' \in Nat /\ moves' # 0
        /\ nextColor' = Opponent(nextColor)
        /\ UNCHANGED <<initialTime, lost>>
    <3>1. moves' = moves + 1 /\ nextColor' = Opponent(nextColor)
      BY <1>1 DEF Move
    <3>2. UNCHANGED <<initialTime, lost>>
      BY <1>1 DEF Move
    <3> QED
      BY <1>t, <3>1, <3>2
  <2>2. CASE ends
    <3>1. phase' = "Over" /\ UNCHANGED <<time, elapsed, left>>
      BY <1>1, <2>2 DEF Move, clockVars
    <3>2. TypeOK'
      BY <1>0, <2>1, <3>1 DEF TypeOK
    <3> QED
      BY <1>0, <2>1, <3>1, <3>2
         DEF ClockInv, KeepsInitial, FreshClocks, FreeTimePerMove, ExpiryAgrees, Started
  <2>3. CASE ~ends
    <3>1. phase' = "InProgress" /\ elapsed' = 0
      BY <1>1, <2>3 DEF Move, ResetMoveTimers
    <3>2. CASE moves + 1 >= 2
      <4> DEFINE s    == IF moves + 1 > 2 THEN elapsed ELSE 0
                 used == After(time[nextColor], s)
                 next == Ready(time[Opponent(nextColor)])
      <4>1. /\ time' = [time EXCEPT ![nextColor] = used, ![Opponent(nextColor)] = next]
            /\ left' = Budget(next)
        BY <1>1, <2>3, <3>2 DEF Move, ResetMoveTimers
      <4>2. s \in 0..Horizon
        BY <1>0, <1>t
      <4> HIDE DEF s
      <4>3. used \in Clocks /\ KeepsInitial(used)
        BY <1>0, <4>2, AfterLemma
      <4>4. /\ next \in Clocks /\ KeepsInitial(next)
            /\ next.nFree = initialTime.nFree
            /\ Budget(next) \in 0..Horizon
        BY <1>0, ReadyLemma
      <4> HIDE DEF used, next
      <4>5. time'[nextColor] = used /\ time'[Opponent(nextColor)] = next
        BY <1>0, <4>1 DEF TypeOK
      <4>6. \A c \in Colors : c = nextColor \/ c = Opponent(nextColor)
        BY <1>0 DEF Colors, Opponent
      <4>7. \A c \in Colors : KeepsInitial(time[c])'
        BY <2>1, <4>3, <4>4, <4>5, <4>6 DEF KeepsInitial
      <4>8. time' \in [Colors -> Clocks]
        BY <1>0, <4>1, <4>3, <4>4 DEF TypeOK
      <4>9. left' \in -1..Horizon /\ elapsed' \in 0..Horizon
        BY <1>0, <3>1, <4>1, <4>4
      <4>10. TypeOK'
        BY <1>0, <2>1, <3>1, <4>8, <4>9 DEF TypeOK
      <4>11. FreeTimePerMove'
        BY <2>1, <4>4, <4>5 DEF FreeTimePerMove, KeepsInitial
      <4>12. ExpiryAgrees'
        <5>1. Budget(time[nextColor])' = Budget(next)
          BY <2>1, <4>5 DEF Budget
        <5> QED
          BY <3>1, <4>1, <4>4, <5>1 DEF ExpiryAgrees
      <4> QED
        BY <3>1, <4>7, <4>10, <4>11, <4>12 DEF ClockInv, FreshClocks
    <3>3. CASE ~(moves + 1 >= 2)
      <4>1. UNCHANGED <<time, left>> /\ ~(moves' >= 2)
        BY <1>1, <2>1, <2>3, <3>3 DEF Move, ResetMoveTimers
      <4>2. elapsed' \in 0..Horizon
        BY <1>0, <3>1
      <4>3. TypeOK'
        BY <1>0, <1>t, <2>1, <3>1, <4>1, <4>2 DEF TypeOK
      <4> QED
        BY <1>0, <2>1, <3>1, <4>1, <4>3
           DEF ClockInv, KeepsInitial, FreshClocks, FreeTimePerMove, ExpiryAgrees, Started
    <3> QED
      BY <3>2, <3>3
  <2> QED
    BY <2>2, <2>3
<1>2. ASSUME phase' = "Over", UNCHANGED <<moves, nextColor, initialTime, clockVars>>,
             lost' \in Colors \cup {"None"}
      PROVE  ClockInv'
  <2>1. TypeOK'
    BY <1>0, <1>2 DEF TypeOK, clockVars
  <2> QED
    BY <1>0, <1>2, <2>1
       DEF ClockInv, KeepsInitial, FreshClocks, FreeTimePerMove, ExpiryAgrees, Started, clockVars
<1>3. CASE EndGame
  BY <1>0, <1>2, <1>3 DEF EndGame, TypeOK
<1>4. CASE CheckTimeout
  BY <1>0, <1>2, <1>4 DEF CheckTimeout, TypeOK
<1>5. ASSUME phase' = "Waiting", moves' = 0, initialTime' \in TimeInfos,
             time' = [c \in Colors |-> initialTime'], nextColor' \in Colors,
             UNCHANGED <<elapsed, left>>, lost' \in Colors \cup {"None"}
      PROVE  ClockInv'
  <2>1. initialTime' \in Clocks /\ initialTime'.nGame \in Nat /\ initialTime'.nFree \in Nat
    BY <1>5, InitialLemma
  <2>2. TypeOK'
    BY <1>0, <1>5, <2>1 DEF TypeOK
  <2>3. \A c \in Colors : time'[c] = initialTime'
    BY <1>5
  <2>4. \A c \in Colors : KeepsInitial(time[c])'
    BY <2>1, <2>3 DEF KeepsInitial
  <2>5. FreshClocks'
    BY <2>3 DEF FreshClocks
  <2>6. FreeTimePerMove' /\ ExpiryAgrees'
    BY <1>5 DEF FreeTimePerMove, ExpiryAgrees, Started
  <2> QED
    BY <1>5, <2>2, <2>4, <2>5, <2>6 DEF ClockInv
<1>6. CASE Reset
  BY <1>0, <1>5, <1>6 DEF Reset, FullClocks, Colors
<1>7. ASSUME NEW t \in TimeInfos, Update(t) PROVE ClockInv'
  <2>1. moves' = 0
    BY <1>7 DEF Update, ClockInv
  <2> QED
    BY <1>0, <1>5, <1>7, <2>1 DEF Update, TypeOK
<1>8. CASE Tick
  <2>1. /\ Started /\ elapsed \in 0..Horizon /\ left \in -1..Horizon
        /\ UNCHANGED <<phase, moves, nextColor, initialTime, time, lost>>
    BY <1>0, <1>8 DEF Tick, TypeOK
  <2>2. /\ elapsed' = IF elapsed + 1 < Horizon THEN elapsed + 1 ELSE Horizon
        /\ left' = IF left < 0 THEN left ELSE left - 1
    BY <1>8 DEF Tick, AtMost
  <2>3. elapsed' \in 0..Horizon /\ left' \in -1..Horizon
    BY <1>0, <2>1, <2>2
  <2>4. TypeOK'
    BY <1>0, <2>1, <2>3 DEF TypeOK
  <2>5. ExpiryAgrees'
    <3> DEFINE b == Budget(time[nextColor])
    <3>1. b' = b /\ b \in Nat /\ b < Horizon
      <4>1. KeepsInitial(time[nextColor]) /\ time[nextColor] \in Clocks
        BY <1>0
      <4>2. /\ time[nextColor].nGame \in Nat /\ time[nextColor].nMove \in Nat
            /\ time[nextColor].nFree \in Nat
        BY <1>0, <4>1 DEF Clocks
      <4>3. initialTime.nMove \in Nat /\ initialTime.nMove < Horizon
        BY <1>0, InitialLemma
      <4>4. b \in Nat /\ b < Horizon
        BY <1>0, <4>1, <4>2, <4>3 DEF Budget, AtMost, KeepsInitial
      <4> QED
        BY <2>1, <4>4 DEF Budget
    <3>2. left = IF elapsed <= b THEN b - elapsed ELSE -1
      BY <2>1 DEF ClockInv, ExpiryAgrees
    <3> HIDE DEF b
    <3>3. left' = IF elapsed' <= b THEN b - elapsed' ELSE -1
      BY <1>0, <2>1, <2>2, <3>1, <3>2
    <3> QED
      BY <3>1, <3>3 DEF ExpiryAgrees, b
  <2>6. \A c \in Colors : KeepsInitial(time[c])'
    BY <1>0, <2>1 DEF KeepsInitial
  <2> QED
    BY <2>1, <2>4, <2>5, <2>6 DEF ClockInv, FreshClocks, FreeTimePerMove, Started
<1>9. CASE UNCHANGED vars
  BY <1>9 DEF vars, clockVars, ClockInv, TypeOK, KeepsInitial, FreshClocks, FreeTimePerMove,
              ExpiryAgrees, Started, Budget
<1> QED
  BY <1>1, <1>3, <1>4, <1>6, <1>7, <1>8, <1>9 DEF Next

LEMMA ClockInvariant == Spec => []ClockInv
<1> QED
  BY ClockInvInit, ClockInvNext, PTL DEF Spec

(* Every variable of the clock keeps its type: no timer goes below zero.   *)
THEOREM TypeCorrect == Spec => []TypeOK
<1>1. ClockInv => TypeOK
  BY DEF ClockInv
<1> QED
  BY <1>1, ClockInvariant, PTL

(* The expiry the manager looks at and the clock the next move is charged  *)
(* from always agree.                                                      *)
THEOREM ExpiryCorrect == Spec => []ExpiryAgrees
<1>1. ClockInv => ExpiryAgrees
  BY DEF ClockInv
<1> QED
  BY <1>1, ClockInvariant, PTL

(* Every move begins with the whole free time and time for one move.       *)
THEOREM FreeTimeCorrect == Spec => []FreeTimePerMove
<1>1. ClockInv => FreeTimePerMove
  BY DEF ClockInv
<1> QED
  BY <1>1, ClockInvariant, PTL

(* A game that waits to begin has both clocks at their initial time.       *)
THEOREM FreshClocksCorrect == Spec => []FreshClocks
<1>1. ClockInv => FreshClocks
  BY DEF ClockInv
<1> QED
  BY <1>1, ClockInvariant, PTL

(* Nobody loses on time with seconds left.                                 *)
THEOREM TimeoutIsDueCorrect == Spec => TimeoutIsDue
<1>1. ClockInv /\ [Next]_vars => [TimeoutStep]_vars
  <2> SUFFICES ASSUME ClockInv, Next, lost' # lost, lost' # "None"
               PROVE  TimeoutStep
    BY DEF TimeoutStep
  <2>1. CheckTimeout
    BY DEF Next, Move, EndGame, Reset, Update, Tick
  <2>2. Started /\ left < 0 /\ lost' = nextColor
    BY <2>1 DEF CheckTimeout
  <2>3. left = IF elapsed <= Budget(time[nextColor])
               THEN Budget(time[nextColor]) - elapsed ELSE -1
    BY <2>2 DEF ClockInv, ExpiryAgrees
  <2>4. time[nextColor] \in Clocks /\ elapsed \in 0..Horizon
    BY DEF ClockInv, TypeOK
  <2>5. Budget(time[nextColor]) \in Nat /\ elapsed \in Nat
    BY <2>4, BudgetLemma, HorizonAssumption
  <2>6. elapsed > Budget(time[nextColor])
    BY <2>2, <2>3, <2>5
  <2> QED
    BY <2>2, <2>6 DEF TimeoutStep
<1> QED
  BY <1>1, ClockInvariant, PTL DEF Spec, TimeoutIsDue

(* From the third move on a player is charged the game time that           *)
(* getCurrentTimers (hoxTable.cpp:580) last showed of him, and his         *)
(* opponent's clock gives nothing and gets nothing.                        *)
THEOREM ShownIsChargedCorrect == Spec => ShownIsCharged
<1>1. ClockInv /\ [Next]_vars => [ShownStep]_vars
  <2> SUFFICES ASSUME ClockInv, Next, moves > 2, moves' = moves + 1, phase' = "InProgress",
                      NEW c \in Colors
               PROVE  time'[c].nGame = ShownTime(c).nGame
    BY DEF ShownStep
  <2>1. /\ moves \in Nat /\ nextColor \in Colors
        /\ time \in [Colors -> Clocks]
    BY DEF ClockInv, TypeOK
  <2>2. Move(FALSE)
    <3>1. PICK ends \in BOOLEAN : Move(ends)
      BY <2>1 DEF Next, EndGame, Reset, Update, CheckTimeout, Tick
    <3> QED
      BY <3>1 DEF Move
  <2>3. time' = [time EXCEPT ![nextColor] = After(time[nextColor], elapsed),
                             ![Opponent(nextColor)] = Ready(time[Opponent(nextColor)])]
    BY <2>1, <2>2 DEF Move, ResetMoveTimers
  <2>4. Opponent(nextColor) \in Colors /\ Opponent(nextColor) # nextColor
    BY <2>1 DEF Opponent, Colors
  <2>5. CASE c = nextColor
    <3>1. time'[c] = After(time[c], elapsed)
      BY <2>1, <2>3, <2>4, <2>5
    <3>2. time[c] \in Clocks
      BY <2>1
    <3>3. After(time[c], elapsed) = [nGame |-> After(time[c], elapsed).nGame,
                                     nMove |-> After(time[c], elapsed).nMove,
                                     nFree |-> After(time[c], elapsed).nFree]
      BY <3>2 DEF After, Clocks
    <3> QED
      BY <2>1, <2>5, <3>1, <3>3 DEF ShownTime
  <2>6. CASE c # nextColor
    <3>1. c = Opponent(nextColor)
      BY <2>1, <2>6 DEF Opponent, Colors
    <3>2. time'[c] = Ready(time[c]) /\ time[c] \in Clocks
      BY <2>1, <2>3, <3>1
    <3>3. Ready(time[c]).nGame = time[c].nGame
      BY <3>2 DEF Ready, Clocks
    <3> QED
      BY <2>6, <3>2, <3>3 DEF ShownTime
  <2> QED
    BY <2>5, <2>6
<1> QED
  BY <1>1, ClockInvariant, PTL DEF Spec, ShownIsCharged
(* The game time of a player only falls, by no more than the seconds since *)
(* his opponent's move, only by a move of his own, and not by the first    *)
(* two moves of a game: a clock gains time only when the table is reset or *)
(* its times are changed before a game.                                    *)
GameTimeStep ==
    phase' # "Waiting" =>
        \A c \in Colors :
            /\ time'[c].nGame <= time[c].nGame
            /\ time[c].nGame - time'[c].nGame <= elapsed
            /\ c # nextColor \/ moves < 2 \/ moves' = moves => time'[c].nGame = time[c].nGame
GameTimeFalls == [][GameTimeStep]_vars

(* How much game time a turn uses up, and that a new turn gives none.      *)
LEMMA UsedLemma ==
    ASSUME NEW t \in Clocks, NEW s \in 0..Horizon
    PROVE  /\ t.nGame \in Nat /\ After(t, s).nGame \in Nat
           /\ After(t, s).nGame <= t.nGame
           /\ t.nGame - After(t, s).nGame <= s
           /\ Ready(t).nGame = t.nGame
<1>1. /\ t.nGame \in Nat /\ s \in Nat
      /\ t = [nGame |-> t.nGame, nMove |-> t.nMove, nFree |-> t.nFree]
  BY HorizonAssumption DEF Clocks
<1>2. After(t, s).nGame = IF s <= t.nGame THEN t.nGame - s ELSE 0
  BY <1>1 DEF After
<1>3. Ready(t).nGame = t.nGame
  BY <1>1 DEF Ready
<1> QED
  BY <1>1, <1>2, <1>3

(* No way through a game gives a player time, charges him for the other's  *)
(* turn or charges him more than has passed (hoxTable.cpp,                 *)
(* _resetMoveTimers).                                                      *)
THEOREM GameTimeFallsCorrect == Spec => GameTimeFalls
<1>1. ClockInv /\ [Next]_vars => [GameTimeStep]_vars
  <2> SUFFICES ASSUME ClockInv, Next, phase' # "Waiting", NEW c \in Colors
               PROVE  /\ time'[c].nGame <= time[c].nGame
                      /\ time[c].nGame - time'[c].nGame <= elapsed
                      /\ c # nextColor \/ moves < 2 \/ moves' = moves
                             => time'[c].nGame = time[c].nGame
    BY DEF GameTimeStep
  <2>1. /\ moves \in Nat /\ nextColor \in Colors /\ elapsed \in 0..Horizon /\ elapsed \in Nat
        /\ time \in [Colors -> Clocks] /\ time[c] \in Clocks
    BY HorizonAssumption DEF ClockInv, TypeOK
  <2>2. 0 \in 0..Horizon /\ time[c].nGame \in Nat /\ time[c].nGame - time[c].nGame = 0
    BY <2>1, HorizonAssumption, UsedLemma
  <2>3. CASE time' = time
    BY <2>1, <2>2, <2>3
  <2>4. CASE Move(FALSE) /\ moves + 1 >= 2
    <3> DEFINE s == IF moves + 1 > 2 THEN elapsed ELSE 0
    <3>1. /\ time' = [time EXCEPT ![nextColor] = After(time[nextColor], s),
                                  ![Opponent(nextColor)] = Ready(time[Opponent(nextColor)])]
          /\ moves' = moves + 1
      BY <2>4 DEF Move, ResetMoveTimers
    <3>2. Opponent(nextColor) \in Colors /\ Opponent(nextColor) # nextColor
      BY <2>1 DEF Opponent, Colors
    <3>3. s \in 0..Horizon /\ s \in Nat /\ s <= elapsed /\ (moves < 2 => s = 0)
      BY <2>1, <2>2
    <3> HIDE DEF s
    <3>4. CASE c = nextColor
      <4>1. time'[c] = After(time[c], s)
        BY <2>1, <3>1, <3>2, <3>4
      <4>2. /\ After(time[c], s).nGame \in Nat
            /\ After(time[c], s).nGame <= time[c].nGame
            /\ time[c].nGame - After(time[c], s).nGame <= s
        BY <2>1, <3>3, UsedLemma
      <4> QED
        BY <2>1, <2>2, <3>1, <3>3, <3>4, <4>1, <4>2
    <3>5. CASE c # nextColor
      <4>1. c = Opponent(nextColor)
        BY <2>1, <3>5 DEF Opponent, Colors
      <4>2. time'[c] = Ready(time[c])
        BY <2>1, <3>1, <3>2, <4>1
      <4>3. time'[c].nGame = time[c].nGame
        BY <2>1, <2>2, <4>2, UsedLemma
      <4> QED
        BY <2>1, <2>2, <4>3
    <3> QED
      BY <3>4, <3>5
  <2>5. CASE Move(FALSE) /\ ~(moves + 1 >= 2)
    <3>1. time' = time
      BY <2>5 DEF Move, ResetMoveTimers
    <3> QED
      BY <2>3, <3>1
  <2>6. ASSUME Move(TRUE) \/ EndGame \/ CheckTimeout \/ Tick PROVE time' = time
    BY <2>6 DEF Move, EndGame, CheckTimeout, Tick, clockVars
  <2>7. ASSUME Reset \/ \E t \in TimeInfos : Update(t) PROVE FALSE
    BY <2>7 DEF Reset, Update
  <2> QED
    BY <2>3, <2>4, <2>5, <2>6, <2>7 DEF Next
<1> QED
  BY <1>1, ClockInvariant, PTL DEF Spec, GameTimeFalls
=============================================================================
