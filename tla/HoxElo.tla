------------------------------- MODULE HoxElo -------------------------------
(***************************************************************************)
(* The rating arithmetic of server/hoxTable.cpp: the table of winning      *)
(* probabilities, the K-factor and the rating change of a finished game.   *)
(*                                                                         *)
(* The code computes in C "float" and truncates to int.  The truncation    *)
(* makes the representation error of the decimal constants visible (0.70f  *)
(* is a little less than 7/10), so the arithmetic is modelled on integers  *)
(* in units of 2^-26, rounded to the 24 significant bits of an IEEE single *)
(* wherever the code rounds.  This is the x86-64 (SSE) build.              *)
(***************************************************************************)
EXTENDS Integers, FiniteSets

(* The rating differences at which the expected result changes, ascending. *)
Thresholds == <<0, 25, 50, 100, 150, 200, 250, 300, 350>>

(* Expected result, in per cent, of the stronger and of the weaker player. *)
StrongerPercent == <<50, 53, 57, 64, 70, 76, 81, 85, 89>>
WeakerPercent   == <<50, 47, 43, 36, 30, 24, 19, 15, 11>>

(* The results of a game, in half points. *)
Loss == 0
Draw == 1
Win  == 2

KFactor(played, rating) ==
    IF played < 30 THEN 25 ELSE IF rating < 2400 THEN 15 ELSE 10

Abs(n) == IF n < 0 THEN -n ELSE n

(* Mutant: a threshold just reached does not count.                        *)
RowBeyond(diff) == Cardinality({i \in 1..9 : i = 1 \/ Abs(diff) > Thresholds[i]})

(* The row of the table that applies: as many rows as have been reached.   *)
Row(diff) == Cardinality({i \in 1..9 : Abs(diff) >= Thresholds[i]})

(* Mutant: stronger and weaker exchanged.                                  *)
ExpectedPercentSwapped(diff) ==
    IF diff > 0 THEN WeakerPercent[Row(diff)] ELSE StrongerPercent[Row(diff)]

ExpectedPercent(diff) ==
    IF diff > 0 THEN StrongerPercent[Row(diff)] ELSE WeakerPercent[Row(diff)]

-----------------------------------------------------------------------------
(* IEEE single precision, in units of 2^-26.                               *)

One == 67108864                                                 \* 2^26

(* The float nearest to pct/100: 24 significant bits.  For 11 per cent the *)
(* last bit is below the unit and is dropped.                              *)
FloatOfPercent(pct) ==
    IF pct >= 50      THEN ((pct * 16777216  + 50) \div 100) * 4
    ELSE IF pct >= 25 THEN ((pct * 33554432  + 50) \div 100) * 2
    ELSE IF pct >= 13 THEN  (pct * 67108864  + 50) \div 100
    ELSE                   ((pct * 134217728 + 50) \div 100) \div 2

(* Rounds a non-negative number of units to 24 significant bits.           *)
RoundSingle(n) ==
    LET ulp == IF n < One \div 4  THEN 1 ELSE IF n < One \div 2 THEN 2
               ELSE IF n < One    THEN 4 ELSE IF n < 2 * One    THEN 8
               ELSE IF n < 4 * One THEN 16 ELSE IF n < 8 * One  THEN 32
               ELSE IF n < 16 * One THEN 64 ELSE 128
    IN  ((n + ulp \div 2) \div ulp) * ulp

(* Mutant: towards minus infinity.                                         *)
TruncateDown(n) == n \div One

(* The conversion (int) of a number of units: towards zero.                *)
Truncate(n) == IF n < 0 THEN -((-n) \div One) ELSE n \div One

(* Mutant: the sign of the difference is lost.                             *)
ScaledDifferenceUnsigned(k, result, pct) ==
    Truncate(RoundSingle(k * RoundSingle(Abs((result * One) \div 2 - FloatOfPercent(pct)))))

(* K-factor * (result - expected), in float, truncated.                    *)
ScaledDifference(k, result, pct) ==
    LET d == (result * One) \div 2 - FloatOfPercent(pct)
        m == RoundSingle(k * RoundSingle(Abs(d)))
    IN  Truncate(IF d < 0 THEN -m ELSE m)

NewRatingChange(diff, rating, played, result) ==
    ScaledDifference(KFactor(played, rating), result, ExpectedPercent(diff))
=============================================================================
