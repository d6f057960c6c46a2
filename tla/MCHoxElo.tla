------------------------------ MODULE MCHoxElo ------------------------------
(***************************************************************************)
(* The rating arithmetic of HoxElo over bounded inputs: every state is one *)
(* finished game, seen by the player the change is computed for.           *)
(***************************************************************************)
EXTENDS HoxElo

CONSTANTS
    MaxDiff,        \* rating differences checked: -MaxDiff..MaxDiff
    Ratings,        \* old ratings checked
    Played          \* numbers of played games checked

ASSUME EloAssumption ==
    MaxDiff \in Nat /\ Ratings \subseteq Int /\ Played \subseteq Nat

\* The arguments of _Elo_calculate_NewRatingChange.
VARIABLES ratingDiff, oldRating, playedGames, gameResult
eloVars == <<ratingDiff, oldRating, playedGames, gameResult>>

EloInit ==
    /\ ratingDiff \in -MaxDiff..MaxDiff
    /\ oldRating \in Ratings
    /\ playedGames \in Played
    /\ gameResult \in {Loss, Draw, Win}

EloNext == UNCHANGED eloVars
EloSpec == EloInit /\ [][EloNext]_eloVars

Change == NewRatingChange(ratingDiff, oldRating, playedGames, gameResult)

(* The winner of a rated game always gains, the loser always loses, and    *)
(* nobody by more than the K-factor, though the change is truncated.       *)
WinnerGains ==
    /\ gameResult = Win  => Change > 0
    /\ gameResult = Loss => Change < 0
    /\ Abs(Change) <= KFactor(playedGames, oldRating)

(* _calculateNewScores computes the change for one of the two players and  *)
(* books its opposite for the other.  Which of the two it takes makes no   *)
(* difference when both have the same K-factor.                            *)
SidesAgree ==
    Change = -NewRatingChange(-ratingDiff, oldRating, playedGames, Win - gameResult)

(* K * (Result - Expected), in hundredths, from the table the way its      *)
(* comment gives it: the row of the greatest difference reached.           *)
Hundredths ==
    LET reached == CHOOSE i \in 1..9 :
                     /\ Thresholds[i] <= Abs(ratingDiff)
                     /\ \A j \in 1..9 : Thresholds[j] <= Abs(ratingDiff) => j <= i
        expected == IF ratingDiff > 0 THEN StrongerPercent[reached] ELSE WeakerPercent[reached]
    IN  KFactor(playedGames, oldRating) * (50 * gameResult - expected)

(* The float computation is the formula of the comment, less than a point  *)
(* away and never on the other side of zero.                               *)
WithinOnePoint ==
    /\ Abs(100 * Change - Hundredths) <= 100
    /\ Abs(100 * Change) <= Abs(Hundredths)

(* hoxTable.cpp: "New Rating = Old Rating + K-factor * (Result - Expected  *)
(* Result)".  Where the formula gives a whole number, the change is it.    *)
ExactWhenWhole == Hundredths % 100 = 0 => 100 * Change = Hundredths
=============================================================================
