------------------------------- MODULE HoxGame -------------------------------
(***************************************************************************)
(* What a table promises about its games, without seats, moves, offers and *)
(* clocks: a game that both players have begun to play comes to an end     *)
(* with a result, the result stands until the table is cleared for the     *)
(* next game, and a game pays two players at most, once, when it ends:     *)
(* one's win is the other's loss, in results and in score.                 *)
(***************************************************************************)
EXTENDS Integers

CONSTANT Players

VARIABLES
    phase,      \* "waiting", "begun" (one move), "started" (two) or "over"
    result,     \* how the game ended, "none" before
    games,      \* wins, draws and losses of each player
    score

Letters == {"W", "D", "L"}
Results == {"RedWin", "BlackWin", "Drawn"}

RedLetter == [r \in Results |-> CASE r = "RedWin" -> "W" [] r = "Drawn" -> "D" [] OTHER -> "L"]
BlackLetter == [r \in Results |-> CASE r = "RedWin" -> "L" [] r = "Drawn" -> "D" [] OTHER -> "W"]

Init ==
    /\ phase = "waiting" /\ result = "none"
    /\ games = [p \in Players |-> [l \in Letters |-> 0]]
    /\ score \in [Players -> Int]

(* The first move of each player.                                          *)
Begin == phase = "waiting" /\ phase' = "begun" /\ UNCHANGED <<result, games, score>>
Start == phase = "begun" /\ phase' = "started" /\ UNCHANGED <<result, games, score>>

(* The table is cleared: after a game, or before both have moved.          *)
Clear ==
    /\ phase \in {"begun", "over"}
    /\ phase' = "waiting" /\ result' = "none"
    /\ UNCHANGED <<games, score>>

(* The game is paid to its players r, Red, and b, Black.                   *)
Pay(r, b) ==
    LET d == score'[r] - score[r]
    IN  /\ r # b
        /\ games' = [games EXCEPT ![r][RedLetter[result']] = @ + 1,
                                  ![b][BlackLetter[result']] = @ + 1]
        /\ score' = [score EXCEPT ![r] = @ + d, ![b] = @ - d]

Finish ==
    /\ phase # "over" /\ phase' = "over"
    /\ result' \in Results
    /\ UNCHANGED <<games, score>> \/ \E r, b \in Players : Pay(r, b)

Next == Begin \/ Start \/ Clear \/ Finish

Spec == Init /\ [][Next]_<<phase, result, games, score>>
=============================================================================
