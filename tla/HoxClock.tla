------------------------------ MODULE HoxClock ------------------------------
(***************************************************************************)
(* The clock of a table: the timers of class hoxTable (_resetMoveTimers,   *)
(* getCurrentTimers, checkTimeoutOnMove of server/hoxTable.cpp) and the    *)
(* table-manager thread that looks at them once a second.                  *)
(*                                                                         *)
(* Of the game only the number of moves and whether it waits, is played or *)
(* is over is kept; HoxTable has the rest.  Time stamps are kept relative  *)
(* to now, and no further than they can make a difference: elapsed is      *)
(* now - _lastMoveTime up to the bound Horizon, left is _nextMoveExpiry -  *)
(* now down to -1.  Nothing is assumed of how late the manager runs.       *)
(***************************************************************************)
EXTENDS Integers

CONSTANTS
    TimeInfos,      \* the settings nGame/nMove/nFree the players choose from
    Horizon,        \* bound: seconds after a move that are told apart
    MaxMoves        \* bound: moves of one game

ASSUME TimeInfosAssumption ==
    /\ TimeInfos \subseteq [nGame: Nat, nMove: Nat, nFree: Nat]
    /\ TimeInfos # {}
ASSUME HorizonAssumption ==
    /\ Horizon \in Nat
    /\ \A t \in TimeInfos : t.nGame + t.nFree < Horizon /\ t.nMove < Horizon
ASSUME MaxMovesAssumption == MaxMoves \in Nat

VARIABLES
    phase,          \* _status: waiting (OPEN, READY), played or over
    moves,          \* the number of _moves
    nextColor,      \* the referee's next color
    initialTime,    \* _initialTime
    time,           \* _redTime and _blackTime
    elapsed,        \* now - _lastMoveTime
    left,           \* _nextMoveExpiry - now
    lost            \* who has lost on time, "None" if nobody has

clockVars == <<time, elapsed, left>>
vars == <<phase, moves, nextColor, initialTime, clockVars, lost>>

Colors == {"Red", "Black"}
Opponent(c) == IF c = "Red" THEN "Black" ELSE "Red"
AtMost(a, b) == IF a < b THEN a ELSE b

Clocks == [nGame: 0..Horizon, nMove: 0..Horizon, nFree: 0..Horizon]

TypeOK ==
    /\ phase \in {"Waiting", "InProgress", "Over"}
    /\ moves \in Nat
    /\ nextColor \in Colors
    /\ initialTime \in TimeInfos
    /\ time \in [Colors -> Clocks]
    /\ elapsed \in 0..Horizon
    /\ left \in -1..Horizon
    /\ lost \in Colors \cup {"None"}

Init ==
    /\ phase = "Waiting"
    /\ moves = 0
    /\ nextColor = "Red"
    /\ initialTime \in TimeInfos
    /\ time = [c \in Colors |-> initialTime]
    /\ elapsed = 0
    /\ left = 0
    /\ lost = "None"

(* bGameStarted *)
Started == phase = "InProgress" /\ moves >= 2

-----------------------------------------------------------------------------
(* The timers.                                                             *)

(* Mutant: the free time is not cut off at zero.                           *)
AfterBelowZero(t, seconds) ==
    IF seconds <= t.nGame THEN [t EXCEPT !.nGame = @ - seconds]
    ELSE [t EXCEPT !.nGame = 0, !.nFree = @ - (seconds - t.nGame)]

(* The clock t after so many seconds: first the game time is used up, then *)
(* the free time, and no clock goes below zero.                            *)
After(t, seconds) ==
    IF seconds <= t.nGame THEN [t EXCEPT !.nGame = @ - seconds]
    ELSE [t EXCEPT !.nGame = 0,
                   !.nFree = IF @ < seconds - t.nGame THEN 0
                             ELSE @ - (seconds - t.nGame)]

(* Mutant: the free time comes back only while there is game time.         *)
ReadySwapped(t) == IF t.nGame # 0 THEN [t EXCEPT !.nFree = initialTime.nFree]
                   ELSE [t EXCEPT !.nMove = initialTime.nMove]

(* The clock of the player whose turn it becomes: without game time left   *)
(* he has the whole free time for each move.                               *)
Ready(t) == IF t.nGame = 0 THEN [t EXCEPT !.nFree = initialTime.nFree]
            ELSE [t EXCEPT !.nMove = initialTime.nMove]

(* The seconds he has for this move.                                       *)
Budget(t) == AtMost(t.nGame + t.nFree, t.nMove)

(* Mutant: started one move late, as the test for elapseTime is.           *)
ResetMoveTimersLate(c, n) ==
    /\ elapsed' = 0
    /\ IF n > 2
       THEN LET used == After(time[c], elapsed)
                next == Ready(time[Opponent(c)])
            IN  /\ time' = [time EXCEPT ![c] = used, ![Opponent(c)] = next]
                /\ left' = Budget(next)
       ELSE UNCHANGED <<time, left>>

(* _resetMoveTimers, after color c has made move number n.                 *)
ResetMoveTimers(c, n) ==
    /\ elapsed' = 0
    /\ IF n >= 2
       THEN LET used == After(time[c], IF n > 2 THEN elapsed ELSE 0)
                next == Ready(time[Opponent(c)])
            IN  /\ time' = [time EXCEPT ![c] = used, ![Opponent(c)] = next]
                /\ left' = Budget(next)
       ELSE UNCHANGED <<time, left>>

(* Mutant: the clock of the player who waits runs.                         *)
ShownTimeOfOther(c) ==
    LET t == After(time[c], IF moves > 2 THEN elapsed ELSE 0)
    IN  IF c = nextColor THEN time[c] ELSE t

(* getCurrentTimers: what the clients are shown of color c.                *)
ShownTime(c) ==
    LET seconds == IF moves > 2 THEN elapsed ELSE 0
        t == After(time[c], seconds)
    IN  IF c # nextColor THEN time[c]
        ELSE [t EXCEPT !.nMove = IF @ < seconds THEN 0 ELSE @ - seconds]

-----------------------------------------------------------------------------
(* acceptMove of a legal move; the time is not looked at.  A move that     *)
(* ends the game leaves the timers alone.                                  *)
Move(ends) ==
    /\ phase # "Over"
    /\ moves < MaxMoves
    /\ moves' = moves + 1
    /\ nextColor' = Opponent(nextColor)
    /\ IF ends
       THEN /\ phase' = "Over"
            /\ UNCHANGED clockVars
       ELSE /\ phase' = "InProgress"
            /\ ResetMoveTimers(nextColor, moves + 1)
    /\ UNCHANGED <<initialTime, lost>>

(* Every other end of the game: resignation, draw, a player who left.      *)
EndGame ==
    /\ phase = "InProgress"
    /\ phase' = "Over"
    /\ UNCHANGED <<moves, nextColor, initialTime, clockVars, lost>>

(* Mutant: the timers go on from where they were.                          *)
SameClocks == time

FullClocks == [c \in Colors |-> initialTime]

(* _onGameReset *)
Reset ==
    /\ ~Started
    /\ phase # "Waiting"
    /\ phase' = "Waiting"
    /\ moves' = 0
    /\ nextColor' = "Red"
    /\ time' = FullClocks
    /\ lost' = "None"
    /\ UNCHANGED <<initialTime, elapsed, left>>

(* handleUpdateRequest *)
Update(t) ==
    /\ phase = "Waiting"
    /\ initialTime' = t
    /\ time' = [c \in Colors |-> t]
    /\ UNCHANGED <<phase, moves, nextColor, elapsed, left, lost>>

(* Mutants: the last second does not count; the timers start a move late.  *)
CheckTimeoutEarly ==
    /\ Started
    /\ left <= 0
    /\ phase' = "Over"
    /\ lost' = nextColor
    /\ UNCHANGED <<moves, nextColor, initialTime, clockVars>>

CheckTimeoutLate ==
    /\ Started /\ moves > 2
    /\ left < 0
    /\ phase' = "Over"
    /\ lost' = nextColor
    /\ UNCHANGED <<moves, nextColor, initialTime, clockVars>>

(* checkTimeoutOnMove, called by manageTables.                             *)
CheckTimeout ==
    /\ Started
    /\ left < 0
    /\ phase' = "Over"
    /\ lost' = nextColor
    /\ UNCHANGED <<moves, nextColor, initialTime, clockVars>>

(* A second passes.  Until the game has started and once it is over        *)
(* nothing depends on the time stamps.                                     *)
Tick ==
    /\ Started
    /\ elapsed' = AtMost(elapsed + 1, Horizon)
    /\ left' = IF left < 0 THEN left ELSE left - 1
    /\ UNCHANGED <<phase, moves, nextColor, initialTime, time, lost>>

Next ==
    \/ \E ends \in BOOLEAN : Move(ends)
    \/ EndGame
    \/ Reset
    \/ \E t \in TimeInfos : Update(t)
    \/ CheckTimeout
    \/ Tick

(* Time passes, and the table manager, a loop around a sleep of a second,  *)
(* comes back to every table.  The clients need not do anything.           *)
Fairness == WF_vars(Tick) /\ WF_vars(CheckTimeout)

Spec == Init /\ [][Next]_vars /\ Fairness

-----------------------------------------------------------------------------
(* Properties.                                                             *)

(* The two records of the running turn agree: the time stamp at which the  *)
(* manager ends the game (_nextMoveExpiry) and the clock of the player,    *)
(* from which his next move is charged, give the same seconds left.        *)
ExpiryAgrees ==
    Started =>
        LET budget == Budget(time[nextColor])
        IN  left = IF elapsed <= budget THEN budget - elapsed ELSE -1

(* Nobody loses on time with time left: whenever the manager runs, it ends *)
(* a game only after more seconds than the player to move had.             *)
TimeoutStep ==
    lost' # lost /\ lost' # "None" =>
        /\ lost' = nextColor /\ Started
        /\ elapsed > Budget(time[nextColor])
TimeoutIsDue == [][TimeoutStep]_vars

(* Every move begins with the whole free time and the whole time for one   *)
(* move, however much of them the moves before have used.                  *)
FreeTimePerMove ==
    Started =>
        /\ time[nextColor].nFree = initialTime.nFree
        /\ time[nextColor].nMove = initialTime.nMove

(* A game that waits to begin has both clocks at their initial time: no    *)
(* way back from a finished game (Reset) and no Update leaves one behind.  *)
FreshClocks == phase = "Waiting" => \A c \in Colors : time[c] = initialTime

(* What getCurrentTimers shows from the third move on is what the player   *)
(* is charged if he moves now, and time he did not use is nobody else's.   *)
ShownStep ==
    moves > 2 /\ moves' = moves + 1 /\ phase' = "InProgress" =>
        \A c \in Colors : time'[c].nGame = ShownTime(c).nGame
ShownIsCharged == [][ShownStep]_vars

(* A game whose players stop moving does not stay forever: once both have  *)
(* moved, every turn ends, by a move or with the game.                     *)
TurnsEnd ==
    \A m \in 2..MaxMoves : (Started /\ moves = m) ~> ~(Started /\ moves = m)

-----------------------------------------------------------------------------
(* What comments of the code say and the code does not do.                 *)

(* hoxTable.h, _nextMoveExpiry: "The time before which the "next" Player   *)
(* must make a move or will lose by timeout."                              *)
LateStep == Started /\ left < 0 => moves' = moves
LateMoveLoses == [][LateStep]_vars

(* hoxTable.cpp, getCurrentTimers: "Determine the current time of the      *)
(* "next" player."  When his time is up, the timers shown say so.          *)
UsedUp(t) == t.nMove = 0 \/ (t.nGame = 0 /\ t.nFree = 0)
ShownRunsOut == Started /\ left < 0 => UsedUp(ShownTime(nextColor))
=============================================================================
