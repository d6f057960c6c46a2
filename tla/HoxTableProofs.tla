--------------------------- MODULE HoxTableProofs ---------------------------
(***************************************************************************)
(* Theorems about HoxTable, for any players, scores and limits.            *)
(***************************************************************************)
EXTENDS HoxTable, MCHoxElo, FiniteSetTheorems, SequenceTheorems, TLAPS

-----------------------------------------------------------------------------
(* The rating arithmetic stays within the integers.                        *)

(* Some row of the table of winning probabilities applies to every rating  *)
(* difference (the loop of _Elo_calculate_NewRatingChange always breaks).  *)
LEMMA RowInTable ==
    ASSUME NEW diff \in Int
    PROVE  Row(diff) \in 1..9
<1> DEFINE reached == {i \in 1..9 : Abs(diff) >= Thresholds[i]}
<1>1. IsFiniteSet(1..9) /\ Cardinality(1..9) = 9
  <2>1. 1 \in Int /\ 9 \in Int
    OBVIOUS
  <2>2. /\ IsFiniteSet(1..9)
        /\ Cardinality(1..9) = IF 1 > 9 THEN 0 ELSE 9 - 1 + 1
    BY <2>1, FS_Interval, Zenon
  <2> QED
    BY <2>2
<1>2. Abs(diff) >= Thresholds[1]
  BY DEF Abs, Thresholds
<1>3. reached \subseteq 1..9 /\ 1 \in reached
  BY <1>2
<1>4. IsFiniteSet(reached) /\ Cardinality(reached) \in Nat /\ Cardinality(reached) <= 9
  BY <1>1, <1>3, FS_Subset, FS_CardinalityType
<1>5. Cardinality(reached) # 0
  BY <1>3, <1>4, FS_EmptySet
<1> QED
  BY <1>4, <1>5 DEF Row

LEMMA ScaledDifferenceIsInt ==
    ASSUME NEW k \in Int, NEW result \in Int, NEW pct \in Int
    PROVE  ScaledDifference(k, result, pct) \in Int
<1>1. \A n \in Int : Truncate(n) \in Int
  BY DEF Truncate, One
<1>2. \A n \in Int : RoundSingle(n) \in Int
  BY DEF RoundSingle, One
<1>3. FloatOfPercent(pct) \in Int
  BY DEF FloatOfPercent
<1>4. (result * One) \div 2 \in Int
  BY DEF One
<1> QED
  BY <1>1, <1>2, <1>3, <1>4 DEF ScaledDifference, Abs

LEMMA ChangeIsInt ==
    ASSUME NEW diff \in Int, NEW rating \in Int, NEW played \in Int,
           NEW result \in Int
    PROVE  NewRatingChange(diff, rating, played, result) \in Int
<1>1. KFactor(played, rating) \in Int
  BY DEF KFactor
<1>2. ExpectedPercent(diff) \in Int
  BY RowInTable DEF ExpectedPercent, StrongerPercent, WeakerPercent
<1> QED
  BY <1>1, <1>2, ScaledDifferenceIsInt DEF NewRatingChange

(* In units of 2^-26, a float is near the number it stands for: a constant *)
(* to within 4 units of its percentage, a product to within 64.            *)
LEMMA FloatNear ==
    ASSUME NEW pct \in 11..89
    PROVE  /\ FloatOfPercent(pct) \in Nat /\ FloatOfPercent(pct) <= One
           /\ 100 * FloatOfPercent(pct) <= pct * One + 400
           /\ 100 * FloatOfPercent(pct) >= pct * One - 400
BY DEF FloatOfPercent, One

LEMMA RoundingNear ==
    ASSUME NEW n \in Nat
    PROVE  RoundSingle(n) \in Nat /\ RoundSingle(n) <= n + 64 /\ RoundSingle(n) >= n - 64
BY DEF RoundSingle, One

(* The table in hundredths, and what the K-factor can be.                   *)
Percents == {50, 53, 57, 64, 70, 76, 81, 85, 89, 47, 43, 36, 30, 24, 19, 15, 11}
Factors  == {10, 15, 25}

(* The product, before its sign is put back and it is truncated.            *)
Scaled(k, result, pct) ==
    RoundSingle(k * RoundSingle(Abs((result * One) \div 2 - FloatOfPercent(pct))))

(* Hundredths of the change by the formula of the comment, without a sign.  *)
Ideal(k, result, pct) == k * Abs(50 * result - pct)

LEMMA ScaledIs ==
    ASSUME NEW k \in Factors, NEW result \in {Loss, Draw, Win}, NEW pct \in Percents
    PROVE  /\ Scaled(k, result, pct) \in Nat
           /\ 50 * result > pct => ScaledDifference(k, result, pct) = Truncate(Scaled(k, result, pct))
           /\ 50 * result < pct => ScaledDifference(k, result, pct) = Truncate(-Scaled(k, result, pct))
<1> DEFINE F == FloatOfPercent(pct)
           d == (result * One) \div 2 - F
<1>1. pct \in 11..89
  BY DEF Percents
<1>2. /\ F \in Nat /\ 100 * F <= pct * One + 400 /\ 100 * F >= pct * One - 400
  BY <1>1, FloatNear
<1>3. (result * One) \div 2 = result * 33554432
  BY DEF Loss, Draw, Win, One
<1> HIDE DEF F
<1>4. d \in Int /\ (50 * result > pct => d > 0) /\ (50 * result < pct => d < 0)
  BY <1>1, <1>2, <1>3 DEF Loss, Draw, Win, One
<1>5. RoundSingle(Abs(d)) \in Nat
  BY <1>4, RoundingNear DEF Abs
<1>6. Scaled(k, result, pct) \in Nat
  BY <1>5, RoundingNear DEF Scaled, F, Factors
<1>7. ScaledDifference(k, result, pct) =
        Truncate(IF d < 0 THEN -Scaled(k, result, pct) ELSE Scaled(k, result, pct))
  BY DEF ScaledDifference, Scaled, F
<1> QED
  BY <1>1, <1>4, <1>6, <1>7 DEF Loss, Draw, Win

LEMMA ScaledNear ==
    ASSUME NEW k \in Factors, NEW result \in {Loss, Draw, Win}, NEW pct \in Percents
    PROVE  /\ 100 * Scaled(k, result, pct) <= Ideal(k, result, pct) * One + 200000
           /\ 100 * Scaled(k, result, pct) >= Ideal(k, result, pct) * One - 200000
           /\ Ideal(k, result, pct) \in Nat
<1> DEFINE F == FloatOfPercent(pct)
           d == (result * One) \div 2 - F
           a == Abs(50 * result - pct)
<1>1. pct \in 11..89
  BY DEF Percents
<1>2. /\ F \in Nat /\ 100 * F <= pct * One + 400 /\ 100 * F >= pct * One - 400
  BY <1>1, FloatNear
<1>3. (result * One) \div 2 = result * 33554432
  BY DEF Loss, Draw, Win, One
<1> HIDE DEF F
<1>4. Abs(d) \in Nat /\ 100 * Abs(d) <= a * One + 400 /\ 100 * Abs(d) >= a * One - 400 /\ a \in Nat
  BY <1>1, <1>2, <1>3 DEF Loss, Draw, Win, One, Abs
<1> DEFINE e == RoundSingle(Abs(d))
<1>5. e \in Nat /\ e <= Abs(d) + 64 /\ e >= Abs(d) - 64
  BY <1>4, RoundingNear
<1> DEFINE f == RoundSingle(k * e)
<1>6. f \in Nat /\ f <= k * e + 64 /\ f >= k * e - 64
  BY <1>5, RoundingNear DEF Factors
<1>7. f = Scaled(k, result, pct) /\ k * a = Ideal(k, result, pct)
  BY DEF Scaled, Ideal, F
<1> HIDE DEF d, a, e, f
<1>8. 100 * e <= a * One + 6800 /\ 100 * e >= a * One - 6800
  BY <1>4, <1>5 DEF One
<1>9. 100 * f <= (k * a) * One + 200000 /\ 100 * f >= (k * a) * One - 200000 /\ k * a \in Nat
  BY <1>4, <1>5, <1>6, <1>8 DEF One, Factors
<1> QED
  BY <1>7, <1>9

(* Where the formula gives no whole number, truncation finds its floor.     *)
LEMMA TruncatedIdeal ==
    ASSUME NEW k \in Factors, NEW result \in {Loss, Draw, Win}, NEW pct \in Percents,
           NEW n \in Nat, 100 * n < Ideal(k, result, pct), Ideal(k, result, pct) < 100 * (n + 1)
    PROVE  /\ 50 * result > pct => ScaledDifference(k, result, pct) = n
           /\ 50 * result < pct => ScaledDifference(k, result, pct) = -n
<1> DEFINE m == Scaled(k, result, pct)
           N == Ideal(k, result, pct)
<1>1. m \in Nat /\ N \in Nat /\ 100 * m <= N * One + 200000 /\ 100 * m >= N * One - 200000
  BY ScaledIs, ScaledNear
<1>2. 100 * n < N /\ N < 100 * (n + 1)
  OBVIOUS
<1> HIDE DEF m, N
<1>3. n * One <= m /\ m < (n + 1) * One
  BY <1>1, <1>2 DEF One
<1>4. Truncate(m) = n /\ Truncate(-m) = -n
  BY <1>1, <1>3 DEF Truncate, One
<1> QED
  BY <1>4, ScaledIs DEF m

(* Every percentage is more than ten off a whole result: a K-factor of 10   *)
(* still makes a point of it.                                               *)
LEMMA DecidedChange ==
    ASSUME NEW k \in Factors, NEW pct \in Percents
    PROVE  /\ ScaledDifference(k, Win, pct) \in 1..k
           /\ ScaledDifference(k, Loss, pct) \in -k..-1
           /\ ScaledDifference(k, Draw, pct) \in -k..k
<1>1. \A m \in Nat : One <= m /\ m < (k + 1) * One => Truncate(m) \in 1..k /\ Truncate(-m) \in -k..-1
  BY DEF Truncate, One, Factors
<1>2. \A m \in Nat : m < (k + 1) * One => Truncate(m) \in 0..k /\ Truncate(-m) \in -k..0
  BY DEF Truncate, One, Factors
<1>3. ASSUME NEW result \in {Loss, Draw, Win}
      PROVE  Scaled(k, result, pct) \in Nat /\ Scaled(k, result, pct) < (k + 1) * One
  <2>1. Ideal(k, result, pct) <= 89 * k
    BY DEF Ideal, Abs, Percents, Factors, Loss, Draw, Win
  <2> QED
    BY <2>1, ScaledIs, ScaledNear DEF One, Factors
<1>4. ASSUME NEW result \in {Loss, Win} PROVE Scaled(k, result, pct) >= One
  <2>1. Ideal(k, result, pct) >= 110
    BY DEF Ideal, Abs, Percents, Factors, Loss, Win
  <2> QED
    BY <2>1, ScaledIs, ScaledNear DEF One
<1>5. ScaledDifference(k, Win, pct) = Truncate(Scaled(k, Win, pct))
  BY ScaledIs DEF Win, Percents
<1>6. ScaledDifference(k, Loss, pct) = Truncate(-Scaled(k, Loss, pct))
  BY ScaledIs DEF Loss, Percents
<1>7. \/ ScaledDifference(k, Draw, pct) = Truncate(Scaled(k, Draw, pct))
      \/ ScaledDifference(k, Draw, pct) = Truncate(-Scaled(k, Draw, pct))
  BY DEF ScaledDifference, Scaled
<1>8. /\ ScaledDifference(k, Win, pct) \in 1..k
      /\ ScaledDifference(k, Loss, pct) \in -k..-1
  BY <1>1, <1>3, <1>4, <1>5, <1>6
<1>9. ScaledDifference(k, Draw, pct) \in -k..k
  <2>1. 0..k \subseteq -k..k /\ -k..0 \subseteq -k..k
    BY DEF Factors
  <2> QED
    BY <1>2, <1>3, <1>7, <2>1
<1> QED
  BY <1>8, <1>9

(* The percentages whose floats, and those of their complements, add up to *)
(* one.                                                                    *)
Exact == {50, 57, 43, 64, 36, 70, 30, 81, 19}

LEMMA ComplementExact ==
    ASSUME NEW pct \in Exact
    PROVE  FloatOfPercent(pct) + FloatOfPercent(100 - pct) = One
BY DEF Exact, FloatOfPercent, One

(* The change computed for one player is the opposite of the other's, with *)
(* the same K-factor: the errors of the floats never show.                  *)
LEMMA OppositeChanges ==
    ASSUME NEW k \in Factors, NEW result \in {Loss, Draw, Win}, NEW pct \in Percents
    PROVE  ScaledDifference(k, result, pct) = -ScaledDifference(k, Win - result, 100 - pct)
<1>0. /\ Win - result \in {Loss, Draw, Win} /\ 100 - pct \in Percents
      /\ Ideal(k, Win - result, 100 - pct) = Ideal(k, result, pct)
  <2>1. Abs(50 * (Win - result) - (100 - pct)) = Abs(50 * result - pct)
    BY DEF Win, Draw, Loss, Percents, Abs
  <2> QED
    BY <2>1 DEF Win, Draw, Loss, Percents, Ideal
<1>1. CASE pct \in Exact
  <2> DEFINE d == (result * One) \div 2 - FloatOfPercent(pct)
             e == ((Win - result) * One) \div 2 - FloatOfPercent(100 - pct)
             m == RoundSingle(k * RoundSingle(Abs(d)))
  <2>1. d \in Int /\ e = -d
    <3>1. FloatOfPercent(pct) \in Nat /\ FloatOfPercent(100 - pct) \in Nat
      <4>1. pct \in 11..89 /\ 100 - pct \in 11..89
        BY DEF Percents
      <4> QED
        BY <4>1, FloatNear
    <3>2. FloatOfPercent(100 - pct) = One - FloatOfPercent(pct)
      BY <1>1, <3>1, ComplementExact DEF One
    <3>3. (result * One) \div 2 = result * 33554432
          /\ ((Win - result) * One) \div 2 = One - result * 33554432
      BY DEF Loss, Draw, Win, One
    <3> QED
      BY <3>1, <3>2, <3>3 DEF Loss, Draw, Win, One
  <2>2. Abs(e) = Abs(d)
    BY <2>1 DEF Abs
  <2>3. ScaledDifference(k, result, pct) = Truncate(IF d < 0 THEN -m ELSE m)
    BY DEF ScaledDifference
  <2>4. ScaledDifference(k, Win - result, 100 - pct) = Truncate(IF e < 0 THEN -m ELSE m)
    BY <2>2 DEF ScaledDifference
  <2>5. m \in Nat /\ (d = 0 => m = 0)
    <3>1. Abs(d) \in Nat /\ (d = 0 => Abs(d) = 0)
      BY <2>1 DEF Abs
    <3>2. RoundSingle(0) = 0
      BY DEF RoundSingle, One
    <3>3. RoundSingle(Abs(d)) \in Nat
      BY <3>1, RoundingNear
    <3>4. k * RoundSingle(Abs(d)) \in Nat /\ (d = 0 => k * RoundSingle(Abs(d)) = 0)
      BY <3>1, <3>2, <3>3 DEF Factors
    <3> QED
      BY <3>2, <3>4, RoundingNear
  <2> HIDE DEF d, e, m
  <2>6. Truncate(-m) = -Truncate(m) /\ (m = 0 => Truncate(m) = 0) /\ Truncate(m) \in Int
    BY <2>5 DEF Truncate, One
  <2> QED
    BY <2>1, <2>3, <2>4, <2>5, <2>6
<1>2. CASE Ideal(k, result, pct) % 100 # 0
  <2> DEFINE N == Ideal(k, result, pct)
             n == N \div 100
  <2>1. N \in Nat
    BY ScaledNear
  <2>2. n \in Nat /\ 100 * n < N /\ N < 100 * (n + 1)
    <3> HIDE DEF N
    <3> QED
      BY <1>2, <2>1 DEF N
  <2>3. /\ 50 * result > pct => ScaledDifference(k, result, pct) = n
        /\ 50 * result < pct => ScaledDifference(k, result, pct) = -n
        /\ 50 * (Win - result) > 100 - pct => ScaledDifference(k, Win - result, 100 - pct) = n
        /\ 50 * (Win - result) < 100 - pct => ScaledDifference(k, Win - result, 100 - pct) = -n
    BY <1>0, <2>2, TruncatedIdeal
  <2>4. 50 * result # pct
    BY <1>2 DEF Ideal, Abs, Percents, Factors, Loss, Draw, Win
  <2> HIDE DEF n
  <2> QED
    BY <2>2, <2>3, <2>4 DEF Percents, Loss, Draw, Win
<1>3. CASE k = 25 /\ result \in {Loss, Win} /\ pct \in {76, 24}
  <2>1. FloatOfPercent(76) = 51002736 /\ FloatOfPercent(24) = 16106127
    BY DEF FloatOfPercent
  <2>2. /\ ScaledDifference(25, Win, 76) = 6   /\ ScaledDifference(25, Loss, 24) = -6
        /\ ScaledDifference(25, Loss, 76) = -19 /\ ScaledDifference(25, Win, 24) = 19
    <3>1. /\ RoundSingle(16106128) = 16106128 /\ RoundSingle(16106127) = 16106127
          /\ RoundSingle(51002736) = 51002736 /\ RoundSingle(51002737) = 51002736
      BY DEF RoundSingle, One
    <3>2. /\ RoundSingle(402653200) = 402653216 /\ RoundSingle(402653175) = 402653184
          /\ RoundSingle(1275068400) = 1275068416
      BY DEF RoundSingle, One
    <3>3. /\ Truncate(402653216) = 6 /\ Truncate(-402653184) = -6
          /\ Truncate(1275068416) = 19 /\ Truncate(-1275068416) = -19
      BY DEF Truncate, One
    <3>4. ScaledDifference(25, Win, 76) = Truncate(RoundSingle(25 * RoundSingle(16106128)))
      BY <2>1 DEF ScaledDifference, Win, One, Abs
    <3>5. ScaledDifference(25, Loss, 76) = Truncate(-RoundSingle(25 * RoundSingle(51002736)))
      BY <2>1 DEF ScaledDifference, Loss, One, Abs
    <3>6. ScaledDifference(25, Win, 24) = Truncate(RoundSingle(25 * RoundSingle(51002737)))
      BY <2>1 DEF ScaledDifference, Win, One, Abs
    <3>7. ScaledDifference(25, Loss, 24) = Truncate(-RoundSingle(25 * RoundSingle(16106127)))
      BY <2>1 DEF ScaledDifference, Loss, One, Abs
    <3> QED
      BY <3>1, <3>2, <3>3, <3>4, <3>5, <3>6, <3>7
  <2> QED
    BY <1>3, <2>2 DEF Win, Loss
<1>4. \/ pct \in Exact
      \/ Ideal(k, result, pct) % 100 # 0
      \/ k = 25 /\ result \in {Loss, Win} /\ pct \in {76, 24}
  <2> SUFFICES ASSUME pct \notin Exact, ~(k = 25 /\ result \in {Loss, Win} /\ pct \in {76, 24})
               PROVE  Ideal(k, result, pct) % 100 # 0
    BY Zenon
  <2>1. pct \in {53, 76, 85, 89, 47, 24, 15, 11}
    BY DEF Percents, Exact
  <2>2. CASE k = 10
    BY <2>1, <2>2 DEF Ideal, Abs, Loss, Draw, Win
  <2>3. CASE k = 15
    BY <2>1, <2>3 DEF Ideal, Abs, Loss, Draw, Win
  <2>4. CASE k = 25
    BY <2>1, <2>4 DEF Ideal, Abs, Loss, Draw, Win
  <2> QED
    BY <2>2, <2>3, <2>4 DEF Factors
<1> QED
  BY <1>1, <1>2, <1>3, <1>4

(* The player expected to lose is the complement of the other.             *)
LEMMA ExpectedComplement ==
    ASSUME NEW diff \in Int
    PROVE  ExpectedPercent(diff) \in Percents /\ ExpectedPercent(-diff) = 100 - ExpectedPercent(diff)
<1>1. Row(diff) \in 1..9 /\ Row(-diff) = Row(diff)
  <2>1. Abs(-diff) = Abs(diff)
    BY DEF Abs
  <2> QED
    BY <2>1, RowInTable DEF Row
<1>2. diff = 0 => Row(diff) = 1
  <2>1. {i \in 1..9 : Abs(0) >= Thresholds[i]} = {1}
    BY DEF Abs, Thresholds
  <2> QED
    BY <2>1, FS_Singleton DEF Row
<1> QED
  BY <1>1, <1>2 DEF ExpectedPercent, StrongerPercent, WeakerPercent, Percents

-----------------------------------------------------------------------------
(* The rating arithmetic for all ratings and games, not only the bounded    *)
(* ones of the run.                                                        *)

EloTypeOK ==
    /\ ratingDiff \in Int
    /\ oldRating \in Int
    /\ playedGames \in Nat
    /\ gameResult \in {Loss, Draw, Win}

LEMMA EloTypeCorrect == EloSpec => []EloTypeOK
<1>1. EloInit => EloTypeOK
  BY EloAssumption DEF EloInit, EloTypeOK
<1>2. EloTypeOK /\ [EloNext]_eloVars => EloTypeOK'
  BY DEF EloTypeOK, EloNext, eloVars
<1> QED
  BY <1>1, <1>2, PTL DEF EloSpec

(* Whatever the two ratings and the games played, the winner's change is   *)
(* positive, the loser's negative, and none is more than the K-factor      *)
(* (_Elo_calculate_NewRatingChange, hoxTable.cpp:117-142).                 *)
THEOREM WinnerGainsCorrect == EloSpec => []WinnerGains
<1>1. EloTypeOK => WinnerGains
  <2> SUFFICES ASSUME EloTypeOK PROVE WinnerGains
    OBVIOUS
  <2> DEFINE k == KFactor(playedGames, oldRating)
  <2>1. k \in Factors
    BY DEF EloTypeOK, KFactor, Factors
  <2>2. ExpectedPercent(ratingDiff) \in Percents
    BY ExpectedComplement DEF EloTypeOK
  <2>3. Change = ScaledDifference(k, gameResult, ExpectedPercent(ratingDiff))
    BY DEF Change, NewRatingChange
  <2> HIDE DEF k
  <2>4. /\ gameResult = Win => Change \in 1..k
        /\ gameResult = Loss => Change \in -k..-1
        /\ Change \in -k..k
    <3>1. 1..k \subseteq -k..k /\ -k..-1 \subseteq -k..k
      BY <2>1 DEF Factors
    <3> QED
      BY <2>1, <2>2, <2>3, <3>1, DecidedChange DEF EloTypeOK
  <2>5. Abs(Change) <= k
    BY <2>1, <2>4 DEF Abs, Factors
  <2>6. (gameResult = Win => Change > 0) /\ (gameResult = Loss => Change < 0)
    BY <2>1, <2>4 DEF Factors
  <2> QED
    BY <2>5, <2>6 DEF WinnerGains, k
<1> QED
  BY <1>1, EloTypeCorrect, PTL

(* Whichever of two players with one K-factor the change is computed for,  *)
(* the other's is its opposite: _calculateNewScores may take either        *)
(* (hoxTable.cpp:879-922), for all the truncation of floats.               *)
THEOREM SidesAgreeCorrect == EloSpec => []SidesAgree
<1>1. EloTypeOK => SidesAgree
  <2> SUFFICES ASSUME EloTypeOK PROVE SidesAgree
    OBVIOUS
  <2>1. KFactor(playedGames, oldRating) \in Factors
    BY DEF EloTypeOK, KFactor, Factors
  <2> QED
    BY <2>1, ExpectedComplement, OppositeChanges DEF EloTypeOK, SidesAgree, Change, NewRatingChange
<1> QED
  BY <1>1, EloTypeCorrect, PTL

(* The row that is counted is the last one whose difference is reached.    *)
LEMMA RowIsLast ==
    ASSUME NEW d \in Int
    PROVE  /\ Thresholds[Row(d)] <= Abs(d)
           /\ \A j \in 1..9 : Thresholds[j] <= Abs(d) => j <= Row(d)
<1> DEFINE reached == {i \in 1..9 : Abs(d) >= Thresholds[i]}
<1>1. \E m \in 1..9 : /\ Thresholds[m] <= Abs(d)
                      /\ \A j \in 1..9 : Thresholds[j] <= Abs(d) => j <= m
  BY DEF Abs, Thresholds
<1>2. PICK m \in 1..9 : /\ Thresholds[m] <= Abs(d)
                        /\ \A j \in 1..9 : Thresholds[j] <= Abs(d) => j <= m
  BY <1>1
<1>3. \A i \in 1..9 : i <= m => Thresholds[i] <= Thresholds[m] /\ Thresholds[i] \in Int
  BY DEF Thresholds
<1>4. reached = 1..m
  <2>1. Abs(d) \in Int /\ Thresholds[m] \in Int
    BY DEF Abs, Thresholds
  <2> QED
    BY <1>2, <1>3, <2>1
<1>5. Cardinality(1..m) = m
  <2>1. 1 \in Int /\ m \in Int /\ ~(1 > m) /\ m - 1 + 1 = m
    BY <1>2
  <2>2. Cardinality(1..m) = IF 1 > m THEN 0 ELSE m - 1 + 1
    BY <2>1, FS_Interval, Zenon
  <2> QED
    BY <2>1, <2>2
<1>6. Row(d) = m
  BY <1>4, <1>5 DEF Row
<1> QED
  BY <1>2, <1>6

(* The computation in floats gives the formula of the comment              *)
(* (hoxTable.cpp:101-142) towards zero, a point away at most: its errors   *)
(* are never seen as a point more than the game is worth.                  *)
THEOREM WithinOnePointCorrect == EloSpec => []WithinOnePoint
<1>1. EloTypeOK => WithinOnePoint
  <2> SUFFICES ASSUME EloTypeOK PROVE WithinOnePoint
    OBVIOUS
  <2> DEFINE k == KFactor(playedGames, oldRating)
             p == ExpectedPercent(ratingDiff)
             m == Scaled(k, gameResult, p)
             N == Ideal(k, gameResult, p)
  <2>1. k \in Factors
    BY DEF EloTypeOK, KFactor, Factors
  <2>2. p \in Percents
    BY ExpectedComplement DEF EloTypeOK
  <2>3. Hundredths = k * (50 * gameResult - p)
    <3> DEFINE Last(i) == /\ Thresholds[i] <= Abs(ratingDiff)
                          /\ \A j \in 1..9 : Thresholds[j] <= Abs(ratingDiff) => j <= i
    <3>1. Row(ratingDiff) \in 1..9 /\ Last(Row(ratingDiff))
      BY RowInTable, RowIsLast DEF EloTypeOK
    <3>2. \A i \in 1..9 : Last(i) => i = Row(ratingDiff)
      BY <3>1
    <3> DEFINE last == CHOOSE i \in 1..9 : Last(i)
    <3>3. last = Row(ratingDiff)
      BY <3>1, <3>2
    <3>4. Hundredths = k * (50 * gameResult - (IF ratingDiff > 0 THEN StrongerPercent[last]
                                                                 ELSE WeakerPercent[last]))
      BY Zenon DEF Hundredths
    <3> HIDE DEF last
    <3> QED
      BY <3>3, <3>4 DEF ExpectedPercent
  <2>4. /\ m \in Nat /\ N \in Nat
        /\ 100 * m <= N * One + 200000
        /\ 100 * m >= N * One - 200000
    BY <2>1, <2>2, ScaledIs, ScaledNear DEF EloTypeOK
  <2>5. Change = ScaledDifference(k, gameResult, p)
    BY DEF Change, NewRatingChange
  <2>6. /\ Change = Truncate(m) \/ Change = Truncate(-m)
        /\ 50 * gameResult > p => Change = Truncate(m)
        /\ 50 * gameResult < p => Change = Truncate(-m)
    <3>1. \/ ScaledDifference(k, gameResult, p) = Truncate(m)
          \/ ScaledDifference(k, gameResult, p) = Truncate(-m)
      BY DEF ScaledDifference, Scaled
    <3> QED
      BY <2>1, <2>2, <2>5, <3>1, ScaledIs DEF EloTypeOK
  <2>7. /\ 50 * gameResult > p => Hundredths = N
        /\ 50 * gameResult < p => Hundredths = -N
        /\ 50 * gameResult = p => N = 0 /\ Hundredths = 0
    <3>1. gameResult \in {0, 1, 2} /\ p \in Int
      BY <2>2 DEF EloTypeOK, Loss, Draw, Win, Percents
    <3> HIDE DEF p
    <3>2. /\ 50 * gameResult > p => Abs(50 * gameResult - p) = 50 * gameResult - p
          /\ 50 * gameResult < p => Abs(50 * gameResult - p) = -(50 * gameResult - p)
          /\ 50 * gameResult = p => Abs(50 * gameResult - p) = 0 /\ 50 * gameResult - p = 0
      BY <3>1 DEF Abs
    <3> QED
      BY <2>1, <2>3, <3>1, <3>2 DEF Ideal, Factors
  <2> DEFINE q == m \div One
  <2>8. Truncate(m) = q /\ Truncate(-m) = -q
    <3> HIDE DEF m
    <3> QED
      BY <2>4 DEF Truncate, One
  <2>9. q \in Nat /\ 100 * q <= N /\ N <= 100 * q + 100
    <3> HIDE DEF m, N
    <3>1. q \in Nat /\ q * One <= m /\ m < q * One + One
      BY <2>4 DEF One
    <3> HIDE DEF q
    <3> QED
      BY <2>4, <3>1 DEF One
  <2>10. 50 * gameResult > p \/ 50 * gameResult < p \/ 50 * gameResult = p
    BY <2>2 DEF Percents, EloTypeOK, Loss, Draw, Win
  <2> HIDE DEF m, N, q, p, k
  <2> QED
    BY <2>4, <2>6, <2>7, <2>8, <2>9, <2>10 DEF WithinOnePoint, Abs
<1> QED
  BY <1>1, EloTypeCorrect, PTL

-----------------------------------------------------------------------------
(* The end of a game.                                                      *)

LedgerType ==
    /\ results \in [Players -> [Letters -> Nat]]
    /\ score \in [Players -> Int]
    /\ saved \in Seq([id: Players, score: Int, result: Letters])
    /\ scoreShown \in [Players -> Int]

(* A recorded game has two players, neither of them a guest.               *)
LEMMA RecordedSeats ==
    ASSUME TypeOK, ~NullSeatDereferenced, IsRecorded
    PROVE  \A c \in Colors : seat[c] \in Players \ Guests
<1>1. seat["Red"] \in Occupants /\ seat["Black"] \in Occupants
  BY DEF TypeOK, Colors
<1>2. seat["Red"] \notin Guests /\ seat["Black"] \notin Guests
  BY DEF IsRecorded, Colors
<1>3. seat["Red"] # NoPlayer /\ seat["Black"] # NoPlayer
  BY <1>2 DEF NullSeatDereferenced
<1> QED
  BY <1>1, <1>2, <1>3 DEF Colors, Occupants

LEMMA LettersOfResults ==
    \A c \in Colors, result \in Over :
        /\ Letter(c, result) \in Letters
        /\ Points(c, result) \in Int
  BY DEF Letter, Points, Letters, Draw, Win, Loss

LEMMA RedScoreChangeIsInt ==
    ASSUME TypeOK, NEW result \in Over,
           \A c \in Colors : seat[c] \in Players
    PROVE  RedScoreChange(result) \in Int
<1>1. \A c \in Colors : Opponent(c) \in Colors
  BY DEF Colors, Opponent
<1>2. \A p \in Players : score[p] \in Int
  BY DEF TypeOK
<1>3. \A p \in Players : PlayedGames(p) \in Int
  <2>1. \A p \in Players : \A l \in Letters : results[p][l] \in Nat
    BY DEF TypeOK
  <2> QED
    BY <2>1 DEF PlayedGames, Letters
<1>4. ASSUME NEW c \in Colors
      PROVE  ScoreChange(c, result) \in Int
  <2>1. seat[c] \in Players /\ seat[Opponent(c)] \in Players
    BY <1>1
  <2>2. score[seat[c]] \in Int /\ score[seat[Opponent(c)]] \in Int
    BY <1>2, <2>1
  <2>3. score[seat[c]] - score[seat[Opponent(c)]] \in Int
    BY <2>2
  <2>4. PlayedGames(seat[c]) \in Int /\ Points(c, result) \in Int
    BY <1>3, <2>1, LettersOfResults
  <2> QED
    BY <2>2, <2>3, <2>4, ChangeIsInt DEF ScoreChange
<1>5. ScoreChange("Red", result) \in Int /\ ScoreChange("Black", result) \in Int
  BY <1>4 DEF Colors
<1> QED
  BY <1>5 DEF RedScoreChange

(* _recordGameResult keeps the types of the players' records.              *)
LEMMA RecordGameResultType ==
    ASSUME TypeOK, NEW result \in Over,
           \A c \in Colors : seat[c] \in Players,
           RecordGameResult(result)
    PROVE  LedgerType'
<1> DEFINE r == seat["Red"]
           b == seat["Black"]
           d == RedScoreChange(result)
           newScore == [score EXCEPT ![r] = @ + d, ![b] = @ - d]
<1>1. r \in Players /\ b \in Players
  BY DEF Colors
<1>2. d \in Int
  BY RedScoreChangeIsInt
<1>3. newScore \in [Players -> Int]
  BY <1>1, <1>2 DEF TypeOK
<1>4. score' = newScore
  BY DEF RecordGameResult
<1>5. Letter("Red", result) \in Letters /\ Letter("Black", result) \in Letters
  BY LettersOfResults DEF Colors
<1>6. results' \in [Players -> [Letters -> Nat]]
  <2>1. results' = [results EXCEPT ![r][Letter("Red", result)]   = @ + 1,
                                   ![b][Letter("Black", result)] = @ + 1]
    BY DEF RecordGameResult
  <2> DEFINE first == [results EXCEPT ![r][Letter("Red", result)] = @ + 1]
  <2>2. results \in [Players -> [Letters -> Nat]]
    BY DEF TypeOK
  <2>3. first \in [Players -> [Letters -> Nat]]
    BY <2>2, <1>1, <1>5
  <2>4. results' = [first EXCEPT ![b][Letter("Black", result)] =
                                      results[b][Letter("Black", result)] + 1]
    BY <2>1
  <2>5. results[b][Letter("Black", result)] + 1 \in Nat
    BY <2>2, <1>1, <1>5
  <2> HIDE DEF first, b
  <2> QED
    BY <2>3, <2>4, <2>5, <1>1, <1>5
<1>7. saved' \in Seq([id: Players, score: Int, result: Letters])
  <2>1. \A c \in Colors : SaveRequest(c, result, newScore)
                            \in [id: Players, score: Int, result: Letters]
    BY <1>3, LettersOfResults DEF SaveRequest
  <2>2. saved' = saved \o <<SaveRequest("Red", result, newScore),
                            SaveRequest("Black", result, newScore)>>
    BY DEF RecordGameResult
  <2> HIDE DEF newScore
  <2> QED
    BY <2>1, <2>2 DEF TypeOK, Colors
<1>8. scoreShown' \in [Players -> Int]
  <2>1. \/ scoreShown' = scoreShown
        \/ scoreShown' = [scoreShown EXCEPT ![r] = newScore[r], ![b] = newScore[b]]
    BY DEF RecordGameResult
  <2>2. newScore[r] \in Int /\ newScore[b] \in Int
    BY <1>1, <1>3
  <2> HIDE DEF newScore
  <2> QED
    BY <2>1, <2>2, <1>1 DEF TypeOK
<1> QED
  BY <1>3, <1>4, <1>6, <1>7, <1>8 DEF LedgerType

(* _onGameEnded, whichever way it goes.                                    *)
LEMMA OnGameEndedType ==
    ASSUME TypeOK, NEW result \in Over, OnGameEnded(result)
    PROVE  /\ status' = result /\ drawPlayerId' = NoPlayer
           /\ crashed' \in BOOLEAN
           /\ LedgerType'
<1>1. status' = result /\ drawPlayerId' = NoPlayer
  BY DEF OnGameEnded
<1>2. crashed' \in BOOLEAN
  BY DEF OnGameEnded, NullSeatDereferenced
<1>3. CASE ~NullSeatDereferenced /\ IsRecorded
  <2>1. RecordGameResult(result)
    BY <1>3 DEF OnGameEnded
  <2> QED
    BY <1>1, <1>2, <1>3, <2>1, RecordedSeats, RecordGameResultType
<1>4. CASE ~(~NullSeatDereferenced /\ IsRecorded)
  <2>1. UNCHANGED ledgerVars
    BY <1>4 DEF OnGameEnded
  <2> QED
    BY <1>1, <1>2, <2>1 DEF TypeOK, LedgerType, ledgerVars
<1> QED
  BY <1>3, <1>4

-----------------------------------------------------------------------------
(* Type correctness.                                                       *)

LEMMA ColorLemma ==
    \A c \in Colors : /\ Opponent(c) \in Colors /\ Opponent(Opponent(c)) = c
                      /\ Opponent(c) # c
                      /\ WinOf(c) \in {"RedWin", "BlackWin"}
                      /\ WinOf(c) # WinOf(Opponent(c))
  BY DEF Colors, Opponent, WinOf

LEMMA ColorOfLemma == \A p : ColorOf(p) \in Colors
  BY DEF ColorOf, Colors

(* A verdict on a move either ends the game or leaves it in progress.      *)
LEMMA VerdictLemma ==
    \A c \in Colors : \A kind : Verdict(c, kind) \in Over \cup {"InProgress"}
  BY ColorLemma DEF Verdict, Over

(* _updateStatus only moves between OPEN and READY.                        *)
LEMMA UpdatedStatusLemma ==
    \A st \in Statuses : \A s :
        /\ UpdatedStatus(st, s) \in Statuses
        /\ UpdatedStatus(st, s) # st => {st, UpdatedStatus(st, s)} = {"Open", "Ready"}
        /\ UpdatedStatus(st, s) = "Ready" => BothSeated(s)
        /\ UpdatedStatus(st, s) = "Open" => ~BothSeated(s)
        /\ st \notin {"Open", "Ready"} => UpdatedStatus(st, s) = st
  BY DEF UpdatedStatus, Statuses, Over

LEMMA SeatsWithoutType ==
    ASSUME TypeOK, NEW p
    PROVE  SeatsWithout(p) \in [Colors -> Occupants]
  BY DEF TypeOK, SeatsWithout, Occupants

LEMMA TypeInit == Init => TypeOK
<1> SUFFICES ASSUME Init PROVE TypeOK
  OBVIOUS
<1>1. saved \in Seq([id: Players, score: Int, result: Letters])
  BY DEF Init
<1>2. results \in [Players -> [Letters -> Nat]]
  BY DEF Init
<1>3. score \in [Players -> Int] /\ scoreShown \in [Players -> Int]
  BY ScoreAssumption DEF Init
<1> QED
  BY <1>1, <1>2, <1>3 DEF Init, TypeOK, Colors, Occupants, Statuses

LEMMA TypeNext == TypeOK /\ [Next]_vars => TypeOK'
<1> SUFFICES ASSUME TypeOK, [Next]_vars PROVE TypeOK'
  OBVIOUS
<1> USE DEF seatVars, boardVars, ledgerVars
<1>1. ASSUME NEW p \in Players, NEW c \in Colors \cup {"None"}, Join(p, c)
      PROVE  TypeOK'
  <2>1. seat' \in [Colors -> Occupants]
    BY <1>1, SeatsWithoutType DEF Join, Occupants
  <2>2. status' \in Statuses
    BY <1>1, UpdatedStatusLemma DEF Join, TypeOK
  <2> QED
    BY <1>1, <2>1, <2>2 DEF Join, TypeOK
<1>2. ASSUME NEW p \in Players, LeaveLosing(p)
      PROVE  TypeOK'
  <2> DEFINE result == WinOf(Opponent(ColorOf(p)))
  <2>1. result \in Over
    BY ColorLemma, ColorOfLemma DEF Over
  <2>2. OnGameEnded(result)
    BY <1>2 DEF LeaveLosing
  <2>3. CASE NullSeatDereferenced
    BY <1>2, <2>1, <2>2, <2>3, OnGameEndedType
       DEF LeaveLosing, TypeOK, LedgerType, Statuses, Occupants
  <2>4. CASE ~NullSeatDereferenced
    <3>1. Unassign(p, result)
      BY <1>2, <2>4 DEF LeaveLosing
    <3>2. seat' \in [Colors -> Occupants] /\ allPlayers' \in SUBSET Players
      BY <3>1, SeatsWithoutType DEF Unassign, TypeOK
    <3>3. status' \in Statuses
      BY <2>1, <3>1, UpdatedStatusLemma DEF Unassign, Statuses
    <3> QED
      BY <1>2, <2>1, <2>2, <3>2, <3>3, OnGameEndedType
         DEF LeaveLosing, TypeOK, LedgerType, Occupants
  <2> QED
    BY <2>3, <2>4
<1>3. ASSUME NEW p \in Players, Leave(p)
      PROVE  TypeOK'
  <2>1. seat' \in [Colors -> Occupants] /\ allPlayers' \in SUBSET Players
    BY <1>3, SeatsWithoutType DEF Leave, Unassign, TypeOK
  <2>2. status' \in Statuses
    BY <1>3, UpdatedStatusLemma DEF Leave, Unassign, TypeOK
  <2> QED
    BY <1>3, <2>1, <2>2 DEF Leave, TypeOK
<1>4. ASSUME NEW p \in Players, NEW kind \in {"mate", "check", "quiet"},
             AcceptMove(p, kind)
      PROVE  TypeOK'
  <2> DEFINE verdict == Verdict(nextColor, kind)
  <2>1. moves' \in Nat /\ nextColor' \in Colors
    BY <1>4, ColorLemma DEF AcceptMove, TypeOK
  <2>2. /\ checks' \in [Colors -> Nat]
        /\ effectiveMoves' \in Nat
        /\ isPrevMoveCheck' \in BOOLEAN
    <3>1. CASE kind = "mate"
      BY <1>4, <3>1 DEF AcceptMove, TypeOK
    <3>2. CASE kind # "mate"
      <4>1. DetectLongGameAndPerpetualCheck(nextColor, kind)
        BY <1>4, <3>2 DEF AcceptMove
      <4>2. checks[nextColor] \in Nat
        BY DEF TypeOK
      <4> QED
        BY <4>1, <4>2 DEF DetectLongGameAndPerpetualCheck, TypeOK
    <3> QED
      BY <3>1, <3>2
  <2>3. /\ status' \in Statuses /\ drawPlayerId' \in Occupants
        /\ crashed' \in BOOLEAN /\ LedgerType'
    <3>1. CASE verdict \in Over
      <4>1. OnGameEnded(verdict)
        BY <1>4, <3>1 DEF AcceptMove
      <4> QED
        BY <3>1, <4>1, OnGameEndedType DEF Statuses, Occupants
    <3>2. CASE verdict \notin Over
      <4>1. status' = verdict /\ UNCHANGED <<drawPlayerId, ledgerVars, crashed>>
        BY <1>4, <3>2 DEF AcceptMove
      <4>2. verdict \in Statuses
        BY <3>2, VerdictLemma DEF TypeOK, Statuses
      <4> QED
        BY <4>1, <4>2 DEF TypeOK, LedgerType
    <3> QED
      BY <3>1, <3>2
  <2>4. UNCHANGED <<seatVars, gameType>>
    BY <1>4 DEF AcceptMove
  <2> QED
    BY <2>1, <2>2, <2>3, <2>4 DEF TypeOK, LedgerType
<1>5. ASSUME NEW result \in Over, OnGameEnded(result),
             UNCHANGED <<seatVars, gameType, boardVars>>
      PROVE  TypeOK'
  BY <1>5, OnGameEndedType DEF TypeOK, LedgerType, Statuses, Occupants
<1>6. ASSUME NEW p \in Players, Resign(p)
      PROVE  TypeOK'
  BY <1>5, <1>6, ColorLemma, ColorOfLemma DEF Resign, Over
<1>7. ASSUME NEW p \in Players, OfferDraw(p)
      PROVE  TypeOK'
  BY <1>7 DEF OfferDraw, TypeOK, Occupants
<1>8. ASSUME NEW p \in Players, AgreeDraw(p)
      PROVE  TypeOK'
  BY <1>5, <1>8 DEF AgreeDraw, Over
<1>9. ASSUME NEW p \in Players, SwitchSeats(p)
      PROVE  TypeOK'
  BY <1>9, ColorLemma DEF SwitchSeats, TypeOK
<1>10. ASSUME NEW p \in Players, ResetGame(p)
       PROVE  TypeOK'
  <2>1. status' \in Statuses
    BY <1>10, UpdatedStatusLemma DEF ResetGame, Statuses
  <2> QED
    BY <1>10, <2>1 DEF ResetGame, ResetBoard, TypeOK, Colors, Occupants
<1>11. ASSUME NEW p \in Players, NEW type \in {"Rated", "NonRated"},
              Update(p, type)
       PROVE  TypeOK'
  BY <1>11 DEF Update, TypeOK
<1>12. CASE TimeoutOnMove
  BY <1>5, <1>12, ColorLemma DEF TimeoutOnMove, Over, TypeOK
<1>13. CASE UNCHANGED vars
  BY <1>13 DEF vars, TypeOK
<1> QED
  BY <1>1, <1>2, <1>3, <1>4, <1>6, <1>7, <1>8, <1>9, <1>10, <1>11, <1>12,
     <1>13 DEF Next

(* Every variable of the table keeps its type.                             *)
THEOREM TypeCorrect == Spec => []TypeOK
<1>1. Init => TypeOK
  BY TypeInit
<1>2. TypeOK /\ [Next]_vars => TypeOK'
  BY TypeNext
<1> QED
  BY <1>1, <1>2, PTL DEF Spec

-----------------------------------------------------------------------------
(* Seating.                                                                *)

LEMMA SeatingNext == TypeOK /\ Seating /\ [Next]_vars => Seating'
<1> SUFFICES ASSUME TypeOK, Seating, [Next]_vars PROVE Seating'
  OBVIOUS
<1> USE DEF seatVars
<1>1. ASSUME NEW p \in Players, NEW c \in Colors \cup {"None"}, Join(p, c)
      PROVE  Seating'
  <2>1. seat' = [d \in Colors |-> IF d = c THEN p ELSE SeatsWithout(p)[d]]
    BY <1>1 DEF Join
  <2>2. /\ BothSeated(seat') => seat'["Red"] # seat'["Black"]
        /\ \A d \in Colors : seat'[d] # NoPlayer => seat'[d] \in allPlayers'
    BY <1>1, <2>1, PlayersAssumption
       DEF Join, Seating, SeatsWithout, BothSeated, Colors, TypeOK, Occupants
  <2>3. status' = UpdatedStatus(status, seat')
    BY <1>1 DEF Join
  <2>4. /\ status' = "Ready" => BothSeated(seat')
        /\ status' = "Open" => ~BothSeated(seat')
    <3>1. status \in Statuses
      BY DEF TypeOK
    <3> QED
      BY <2>3, <3>1, UpdatedStatusLemma
  <2> QED
    BY <2>2, <2>4 DEF Seating, BothSeated
<1>2. ASSUME NEW p \in Players, NEW st \in Statuses, Unassign(p, st)
      PROVE  Seating'
  <2>1. seat' = [c \in Colors |-> IF seat[c] = p THEN NoPlayer ELSE seat[c]]
    BY <1>2 DEF Unassign, SeatsWithout
  <2>2. /\ BothSeated(seat') => seat'["Red"] # seat'["Black"]
        /\ \A d \in Colors : seat'[d] # NoPlayer => seat'[d] \in allPlayers'
    BY <1>2, <2>1 DEF Unassign, Seating, BothSeated, Colors, TypeOK
  <2> QED
    BY <1>2, <2>2, UpdatedStatusLemma DEF Unassign, Seating, BothSeated
<1>3. ASSUME UNCHANGED seatVars, status' \notin {"Open", "Ready"}
      PROVE  Seating'
  BY <1>3 DEF Seating, BothSeated
<1>4. ASSUME NEW p \in Players, LeaveLosing(p)
      PROVE  Seating'
  <2> DEFINE result == WinOf(Opponent(ColorOf(p)))
  <2>1. result \in Over
    BY ColorLemma, ColorOfLemma DEF Over
  <2>2. CASE NullSeatDereferenced
    <3>1. UNCHANGED seatVars /\ status' = result
      BY <1>4, <2>2 DEF LeaveLosing, OnGameEnded
    <3> QED
      BY <1>3, <2>1, <3>1 DEF Over
  <2>3. CASE ~NullSeatDereferenced
    <3>1. Unassign(p, result)
      BY <1>4, <2>3 DEF LeaveLosing
    <3> QED
      BY <1>2, <2>1, <3>1 DEF Statuses
  <2> QED
    BY <2>2, <2>3
<1>5. ASSUME NEW p \in Players, Leave(p)
      PROVE  Seating'
  BY <1>2, <1>5 DEF Leave, TypeOK
<1>6. ASSUME NEW p \in Players, NEW kind, AcceptMove(p, kind)
      PROVE  Seating'
  <2>1. status' = Verdict(nextColor, kind)
    BY <1>6 DEF AcceptMove, OnGameEnded
  <2> QED
    BY <1>3, <1>6, <2>1, VerdictLemma DEF AcceptMove, Over, TypeOK
<1>7. ASSUME NEW result \in Over, OnGameEnded(result), UNCHANGED seatVars
      PROVE  Seating'
  BY <1>3, <1>7 DEF OnGameEnded, Over
<1>8. ASSUME NEW p \in Players, Resign(p)
      PROVE  Seating'
  BY <1>7, <1>8, ColorLemma, ColorOfLemma DEF Resign, Over
<1>9. ASSUME NEW p \in Players, OfferDraw(p)
      PROVE  Seating'
  BY <1>3, <1>9 DEF OfferDraw
<1>10. ASSUME NEW p \in Players, AgreeDraw(p)
       PROVE  Seating'
  BY <1>7, <1>10 DEF AgreeDraw, Over
<1>11. ASSUME NEW p \in Players, SwitchSeats(p)
       PROVE  Seating'
  BY <1>11 DEF SwitchSeats, Seating, BothSeated, Colors, Opponent
<1>12. ASSUME NEW p \in Players, ResetGame(p)
       PROVE  Seating'
  <2>1. status' = UpdatedStatus("Open", seat) /\ UNCHANGED seatVars
    BY <1>12 DEF ResetGame
  <2>2. "Open" \in Statuses
    BY DEF Statuses
  <2> QED
    BY <2>1, <2>2, UpdatedStatusLemma DEF Seating, BothSeated
<1>13. ASSUME NEW p \in Players, NEW type, Update(p, type)
       PROVE  Seating'
  BY <1>13 DEF Update, Seating, BothSeated
<1>14. CASE TimeoutOnMove
  BY <1>7, <1>14, ColorLemma DEF TimeoutOnMove, Over, TypeOK
<1>15. CASE UNCHANGED vars
  BY <1>15 DEF vars, Seating, BothSeated
<1> QED
  BY <1>1, <1>4, <1>5, <1>6, <1>8, <1>9, <1>10, <1>11, <1>12, <1>13, <1>14,
     <1>15 DEF Next

(* Whoever joins, leaves, switches or resets: no player holds both seats,  *)
(* seats belong to players at the table, a READY table has two players and *)
(* an OPEN one has not (what _updateStatus and the RESET handler rely on). *)
THEOREM SeatingCorrect == Spec => []Seating
<1>1. Init => Seating
  BY DEF Init, Seating, BothSeated, Colors
<1>2. TypeOK /\ Seating /\ [Next]_vars => Seating'
  BY SeatingNext
<1> QED
  BY <1>1, <1>2, TypeCorrect, PTL DEF Spec

-----------------------------------------------------------------------------
(* A new game starts clean.                                                *)

(* A step that ends a game clears the draw offer and leaves OPEN, READY.   *)
LEMMA EndKeepsFresh ==
    ASSUME NEW result \in Over, OnGameEnded(result)
    PROVE  FreshBoard'
  BY DEF OnGameEnded, FreshBoard, Over

(* Seats change, the board does not; OPEN and READY may swap.              *)
LEMMA SeatsKeepFresh ==
    ASSUME TypeOK, FreshBoard, UNCHANGED <<boardVars, drawPlayerId>>, NEW s,
           status' = UpdatedStatus(status, s)
    PROVE  FreshBoard'
  BY UpdatedStatusLemma DEF FreshBoard, boardVars, TypeOK

LEMMA FreshBoardNext == TypeOK /\ FreshBoard /\ [Next]_vars => FreshBoard'
<1> SUFFICES ASSUME TypeOK, FreshBoard, [Next]_vars PROVE FreshBoard'
  OBVIOUS
<1>1. ASSUME NEW p \in Players, NEW c, Join(p, c)
      PROVE  FreshBoard'
  BY <1>1, SeatsKeepFresh DEF Join
<1>2. ASSUME NEW p \in Players, LeaveLosing(p)
      PROVE  FreshBoard'
  <2> DEFINE result == WinOf(Opponent(ColorOf(p)))
  <2>1. result \in Over
    BY ColorLemma, ColorOfLemma DEF Over
  <2>2. drawPlayerId' = NoPlayer
    BY <1>2 DEF LeaveLosing, OnGameEnded
  <2>3. status' = result
    <3>1. result \in Statuses /\ result \notin {"Open", "Ready"}
      BY <2>1 DEF Statuses, Over
    <3>2. CASE NullSeatDereferenced
      BY <1>2, <3>2 DEF LeaveLosing, OnGameEnded
    <3>3. CASE ~NullSeatDereferenced
      BY <1>2, <3>1, <3>3, UpdatedStatusLemma DEF LeaveLosing, Unassign
    <3> QED
      BY <3>2, <3>3
  <2> QED
    BY <2>1, <2>2, <2>3 DEF FreshBoard, Over
<1>3. ASSUME NEW p \in Players, Leave(p)
      PROVE  FreshBoard'
  BY <1>3, SeatsKeepFresh DEF Leave, Unassign
<1>4. ASSUME NEW p \in Players, NEW kind, AcceptMove(p, kind)
      PROVE  FreshBoard'
  <2> DEFINE verdict == Verdict(nextColor, kind)
  <2>1. CASE verdict \in Over
    BY <1>4, <2>1, EndKeepsFresh DEF AcceptMove
  <2>2. CASE verdict \notin Over
    <3>1. verdict = "InProgress"
      BY <2>2, VerdictLemma DEF TypeOK
    <3>2. status' = "InProgress"
      BY <1>4, <2>2, <3>1 DEF AcceptMove
    <3> QED
      BY <3>2 DEF FreshBoard
  <2> QED
    BY <2>1, <2>2
<1>5. ASSUME NEW p \in Players, Resign(p)
      PROVE  FreshBoard'
  BY <1>5, EndKeepsFresh, ColorLemma, ColorOfLemma DEF Resign, Over
<1>6. ASSUME NEW p \in Players, OfferDraw(p)
      PROVE  FreshBoard'
  BY <1>6 DEF OfferDraw, FreshBoard
<1>7. ASSUME NEW p \in Players, AgreeDraw(p)
      PROVE  FreshBoard'
  BY <1>7, EndKeepsFresh DEF AgreeDraw, Over
<1>8. ASSUME NEW p \in Players, SwitchSeats(p)
      PROVE  FreshBoard'
  BY <1>8 DEF SwitchSeats, FreshBoard, boardVars
<1>9. ASSUME NEW p \in Players, ResetGame(p)
      PROVE  FreshBoard'
  BY <1>9, UpdatedStatusLemma DEF ResetGame, ResetBoard, FreshBoard, Statuses
<1>10. ASSUME NEW p \in Players, NEW type, Update(p, type)
       PROVE  FreshBoard'
  BY <1>10 DEF Update, FreshBoard, boardVars
<1>11. CASE TimeoutOnMove
  BY <1>11, EndKeepsFresh, ColorLemma DEF TimeoutOnMove, Over, TypeOK
<1>12. CASE UNCHANGED vars
  BY <1>12 DEF vars, boardVars, FreshBoard
<1> QED
  BY <1>1, <1>2, <1>3, <1>4, <1>5, <1>6, <1>7, <1>8, <1>9, <1>10, <1>11,
     <1>12 DEF Next

(* No path to OPEN or READY leaves anything of an earlier game behind, and *)
(* a draw offer exists only while a game is in progress.                   *)
THEOREM FreshBoardCorrect == Spec => []FreshBoard
<1>1. Init => FreshBoard
  BY DEF Init, FreshBoard, Colors
<1>2. TypeOK /\ FreshBoard /\ [Next]_vars => FreshBoard'
  BY FreshBoardNext
<1> QED
  BY <1>1, <1>2, TypeCorrect, PTL DEF Spec

-----------------------------------------------------------------------------
(* Perpetual check and the long game.                                      *)

(* While nobody has won or drawn, no count is beyond its limit, so a step  *)
(* that leaves the counts alone can give the game any result.              *)
LEMMA CountsKeptInPlay ==
    ASSUME LimitsEndTheGame, status \notin Over, UNCHANGED boardVars
    PROVE  LimitsEndTheGame'
  BY ColorLemma DEF LimitsEndTheGame, boardVars, Over

LEMMA LimitsNext == TypeOK /\ LimitsEndTheGame /\ [Next]_vars => LimitsEndTheGame'
<1> SUFFICES ASSUME TypeOK, LimitsEndTheGame, [Next]_vars
             PROVE  LimitsEndTheGame'
  OBVIOUS
<1>1. ASSUME UNCHANGED <<boardVars, status>>
      PROVE  LimitsEndTheGame'
  BY <1>1 DEF LimitsEndTheGame, boardVars
<1>2. ASSUME NEW s, status' = UpdatedStatus(status, s), UNCHANGED boardVars
      PROVE  LimitsEndTheGame'
  <2>1. CASE status \in Over
    BY <1>1, <1>2, <2>1, UpdatedStatusLemma DEF Over, Statuses
  <2>2. CASE status \notin Over
    BY <1>2, <2>2, CountsKeptInPlay
  <2> QED
    BY <2>1, <2>2
<1>3. ASSUME NEW p \in Players, LeaveLosing(p)
      PROVE  LimitsEndTheGame'
  BY <1>3, CountsKeptInPlay DEF LeaveLosing, Started, Over
<1>4. ASSUME NEW p \in Players, NEW kind \in {"mate", "check", "quiet"},
             AcceptMove(p, kind)
      PROVE  LimitsEndTheGame'
  <2> DEFINE verdict == Verdict(nextColor, kind)
  <2>1. status' = verdict
    BY <1>4 DEF AcceptMove, OnGameEnded
  <2>2. /\ \A c \in Colors : checks[c] \in Nat /\ checks[c] <= ChecksMax
        /\ effectiveMoves \in Nat /\ effectiveMoves <= EffectiveMax
    <3>1. status \notin Over
      BY <1>4 DEF AcceptMove, Over
    <3>2. \A c \in Colors : ~(checks[c] > ChecksMax)
      BY <3>1, ColorLemma DEF LimitsEndTheGame, Over
    <3>3. ~(effectiveMoves > EffectiveMax)
      BY <3>1 DEF LimitsEndTheGame, Over
    <3> QED
      BY <3>2, <3>3, LimitsAssumption DEF TypeOK
  <2>3. CASE kind = "mate"
    <3>1. UNCHANGED <<checks, effectiveMoves>>
      BY <1>4, <2>3 DEF AcceptMove
    <3> QED
      BY <2>2, <3>1, LimitsAssumption DEF LimitsEndTheGame
  <2>4. CASE kind # "mate"
    <3>1. DetectLongGameAndPerpetualCheck(nextColor, kind)
      BY <1>4, <2>4 DEF AcceptMove
    <3>2. checks' = [checks EXCEPT ![nextColor] =
                        IF kind = "check" THEN checks[nextColor] + 1 ELSE 0]
      BY <3>1 DEF DetectLongGameAndPerpetualCheck
    <3>3. ASSUME NEW c \in Colors, checks'[c] > ChecksMax
          PROVE  status' = WinOf(Opponent(c))
      <4>1. c = nextColor /\ kind = "check" /\ checks[c] + 1 > ChecksMax
        BY <2>2, <3>2, <3>3, LimitsAssumption DEF TypeOK
      <4> QED
        BY <2>1, <2>4, <4>1 DEF Verdict
    <3>4. ASSUME effectiveMoves' > EffectiveMax
          PROVE  status' = "Drawn"
      <4>1. kind = "quiet" /\ ~isPrevMoveCheck /\ effectiveMoves + 1 > EffectiveMax
        BY <2>2, <3>1, <3>4, LimitsAssumption DEF DetectLongGameAndPerpetualCheck
      <4> QED
        BY <2>1, <4>1 DEF Verdict
    <3> QED
      BY <3>3, <3>4 DEF LimitsEndTheGame
  <2> QED
    BY <2>3, <2>4
<1>5. ASSUME NEW p \in Players, ResetGame(p)
      PROVE  LimitsEndTheGame'
  BY <1>5, LimitsAssumption DEF ResetGame, ResetBoard, LimitsEndTheGame
<1>6. ASSUME NEW p \in Players, Resign(p) \/ AgreeDraw(p)
      PROVE  LimitsEndTheGame'
  BY <1>6, CountsKeptInPlay DEF Resign, AgreeDraw, Over
<1>7. CASE TimeoutOnMove
  BY <1>7, CountsKeptInPlay DEF TimeoutOnMove, Started, Over
<1>8. ASSUME NEW p \in Players, NEW c, Join(p, c)
      PROVE  LimitsEndTheGame'
  BY <1>2, <1>8 DEF Join
<1>9. ASSUME NEW p \in Players, Leave(p)
      PROVE  LimitsEndTheGame'
  BY <1>2, <1>9 DEF Leave, Unassign
<1>10. ASSUME NEW p \in Players, NEW type,
              OfferDraw(p) \/ SwitchSeats(p) \/ Update(p, type)
       PROVE  LimitsEndTheGame'
  BY <1>1, <1>10 DEF OfferDraw, SwitchSeats, Update
<1>11. CASE UNCHANGED vars
  BY <1>1, <1>11 DEF vars
<1> QED
  BY <1>3, <1>4, <1>5, <1>6, <1>7, <1>8, <1>9, <1>10, <1>11 DEF Next

(* A perpetual checker has lost and a long game is drawn, and it stays so  *)
(* until the reset, for any limits.                                        *)
THEOREM LimitsCorrect == Spec => []LimitsEndTheGame
<1>1. Init => LimitsEndTheGame
  BY LimitsAssumption DEF Init, LimitsEndTheGame
<1>2. TypeOK /\ LimitsEndTheGame /\ [Next]_vars => LimitsEndTheGame'
  BY LimitsNext
<1> QED
  BY <1>1, <1>2, TypeCorrect, PTL DEF Spec

-----------------------------------------------------------------------------
(* Action properties.                                                      *)

(* Recording a result moves points between two rated players.              *)
LEMMA RecordingIsZeroSum ==
    ASSUME TypeOK, Seating, NEW result \in Over, ~NullSeatDereferenced,
           IsRecorded, RecordGameResult(result)
    PROVE  LET r == seat["Red"]
               b == seat["Black"]
           IN  /\ {r, b} \subseteq Players \ Guests /\ r # b
               /\ score'[r] + score'[b] = score[r] + score[b]
               /\ \A p \in Players \ {r, b} :
                      results'[p] = results[p] /\ score'[p] = score[p]
<1> DEFINE r == seat["Red"]
           b == seat["Black"]
           d == RedScoreChange(result)
<1>1. {r, b} \subseteq Players \ Guests
  BY RecordedSeats DEF Colors
<1>2. r # b
  BY <1>1, PlayersAssumption DEF Seating, BothSeated
<1>3. d \in Int
  BY RecordedSeats, RedScoreChangeIsInt
<1>4. score' = [score EXCEPT ![r] = @ + d, ![b] = @ - d]
  BY DEF RecordGameResult
<1>5. score \in [Players -> Int]
  BY DEF TypeOK
<1>6. score'[r] + score'[b] = score[r] + score[b]
  <2> HIDE DEF r, b, d
  <2> QED
    BY <1>1, <1>2, <1>3, <1>4, <1>5
<1>7. \A p \in Players \ {r, b} : score'[p] = score[p]
  <2> HIDE DEF r, b, d
  <2> QED
    BY <1>1, <1>4, <1>5
<1>8. \A p \in Players \ {r, b} : results'[p] = results[p]
  BY <1>1 DEF RecordGameResult, TypeOK
<1> QED
  BY <1>1, <1>2, <1>6, <1>7, <1>8

(* A game that ends from a status other than a result obeys LedgerStep.    *)
LEMMA EndPaysOnce ==
    ASSUME TypeOK, Seating, NEW result \in Over, OnGameEnded(result),
           status \notin Over, status' \in Over
    PROVE  LedgerStep
<1>1. CASE ~NullSeatDereferenced /\ IsRecorded
  <2>1. RecordGameResult(result)
    BY <1>1 DEF OnGameEnded
  <2>2. gameType = "Rated"
    BY <1>1 DEF IsRecorded
  <2> QED
    BY <1>1, <2>1, <2>2, RecordingIsZeroSum, Zenon DEF LedgerStep
<1>2. CASE ~(~NullSeatDereferenced /\ IsRecorded)
  BY <1>2 DEF OnGameEnded, ledgerVars, LedgerStep
<1> QED
  BY <1>1, <1>2

LEMMA PaidOnceNext == TypeOK /\ Seating /\ [Next]_vars => LedgerStep
<1> SUFFICES ASSUME TypeOK, Seating, [Next]_vars PROVE LedgerStep
  OBVIOUS
<1>1. ASSUME UNCHANGED ledgerVars PROVE LedgerStep
  BY <1>1 DEF ledgerVars, LedgerStep
<1>2. ASSUME NEW result \in Over, OnGameEnded(result), status \notin Over
      PROVE  LedgerStep
  <2>1. status' = result
    BY <1>2 DEF OnGameEnded
  <2> QED
    BY <1>2, <2>1, EndPaysOnce
<1>3. ASSUME NEW p \in Players, LeaveLosing(p)
      PROVE  LedgerStep
  <2>1. WinOf(Opponent(ColorOf(p))) \in Over
    BY ColorLemma, ColorOfLemma DEF Over
  <2> QED
    BY <1>2, <1>3, <2>1 DEF LeaveLosing, Started, Over
<1>4. ASSUME NEW p \in Players, NEW kind, AcceptMove(p, kind)
      PROVE  LedgerStep
  <2> DEFINE verdict == Verdict(nextColor, kind)
  <2>1. CASE verdict \in Over
    BY <1>2, <1>4, <2>1 DEF AcceptMove, Over
  <2>2. CASE verdict \notin Over
    BY <1>1, <1>4, <2>2 DEF AcceptMove
  <2> QED
    BY <2>1, <2>2
<1>5. ASSUME NEW p \in Players, Resign(p) \/ AgreeDraw(p)
      PROVE  LedgerStep
  <2>1. WinOf(Opponent(ColorOf(p))) \in Over /\ "Drawn" \in Over
    BY ColorLemma, ColorOfLemma DEF Over
  <2> QED
    BY <1>2, <1>5, <2>1 DEF Resign, AgreeDraw, Over
<1>6. CASE TimeoutOnMove
  <2>1. WinOf(Opponent(nextColor)) \in Over
    BY ColorLemma DEF Over, TypeOK
  <2> QED
    BY <1>2, <1>6, <2>1 DEF TimeoutOnMove, Started, Over
<1>7. ASSUME NEW p \in Players, NEW c, NEW type,
             \/ Join(p, c) \/ Leave(p) \/ OfferDraw(p) \/ SwitchSeats(p)
             \/ ResetGame(p) \/ Update(p, type)
      PROVE  LedgerStep
  BY <1>1, <1>7 DEF Join, Leave, OfferDraw, SwitchSeats, ResetGame, Update
<1>8. CASE UNCHANGED vars
  BY <1>1, <1>8 DEF vars
<1> QED
  BY <1>3, <1>4, <1>5, <1>6, <1>7, <1>8 DEF Next

(* A rated game between two players who are no guests is paid for exactly  *)
(* in the step that ends it, and the scores it changes sum to the same.    *)
THEOREM PaidOnceCorrect == Spec => PaidOnce
<1>1. TypeOK /\ Seating /\ [Next]_vars => LedgerStep
  BY PaidOnceNext
<1> QED
  BY <1>1, TypeCorrect, SeatingCorrect, PTL DEF Spec, PaidOnce

LEMMA ResultStandsNext == TypeOK /\ [Next]_vars => ResultStep
<1> SUFFICES ASSUME TypeOK, [Next]_vars, status \in Over
             PROVE  \/ status' = status
                    \/ status' \in {"Open", "Ready"} /\ moves' = 0
  BY DEF ResultStep
<1>1. \A s : UpdatedStatus(status, s) = status
  BY UpdatedStatusLemma DEF Over, Statuses
<1>2. ASSUME NEW p \in Players, NEW c, NEW kind,
             \/ LeaveLosing(p) \/ AcceptMove(p, kind) \/ Resign(p) \/ OfferDraw(p)
             \/ AgreeDraw(p) \/ SwitchSeats(p)
      PROVE  FALSE
  BY <1>2 DEF LeaveLosing, AcceptMove, Resign, OfferDraw, AgreeDraw,
              SwitchSeats, Started, Over
<1>3. ASSUME NEW p \in Players, NEW c, Join(p, c) \/ Leave(p)
      PROVE  status' = status
  BY <1>1, <1>3 DEF Join, Leave, Unassign
<1>4. ASSUME NEW p \in Players, ResetGame(p)
      PROVE  status' \in {"Open", "Ready"} /\ moves' = 0
  BY <1>4, UpdatedStatusLemma DEF ResetGame, ResetBoard, UpdatedStatus
<1>5. ASSUME NEW p \in Players, NEW type, Update(p, type)
      PROVE  status' = status
  BY <1>5 DEF Update
<1>6. ~TimeoutOnMove
  BY DEF TimeoutOnMove, Started, Over
<1>7. CASE UNCHANGED vars
  BY <1>7 DEF vars
<1> QED
  BY <1>2, <1>3, <1>4, <1>5, <1>6, <1>7 DEF Next

(* The result of a finished game changes only by the reset to a new game.  *)
THEOREM ResultStandsCorrect == Spec => ResultStands
<1>1. TypeOK /\ [Next]_vars => ResultStep
  BY ResultStandsNext
<1> QED
  BY <1>1, TypeCorrect, PTL DEF Spec, ResultStands

LEMMA PlayedOutNext == TypeOK /\ [Next]_vars => PlayStep
<1> SUFFICES ASSUME TypeOK, [Next]_vars, Started
             PROVE  \/ status' \in Over
                    \/ status' = "InProgress" /\ moves' \in {moves, moves + 1}
  BY DEF PlayStep
<1>1. \A s : UpdatedStatus(status, s) = status
  BY DEF UpdatedStatus, Started
<1>2. ASSUME NEW p \in Players, LeaveLosing(p)
      PROVE  status' \in Over
  <2> DEFINE result == WinOf(Opponent(ColorOf(p)))
  <2>1. result \in Over
    BY ColorLemma, ColorOfLemma DEF Over
  <2>2. CASE NullSeatDereferenced
    BY <1>2, <2>1, <2>2 DEF LeaveLosing, OnGameEnded
  <2>3. CASE ~NullSeatDereferenced
    BY <1>2, <2>1, <2>3, UpdatedStatusLemma
       DEF LeaveLosing, Unassign, Over, Statuses
  <2> QED
    BY <2>2, <2>3
<1>3. ASSUME NEW p \in Players, NEW kind, AcceptMove(p, kind)
      PROVE  moves' = moves + 1 /\ status' \in Over \cup {"InProgress"}
  <2>1. status' = Verdict(nextColor, kind)
    BY <1>3 DEF AcceptMove, OnGameEnded
  <2> QED
    BY <1>3, <2>1, VerdictLemma DEF AcceptMove, TypeOK
<1>4. ASSUME NEW p \in Players, Resign(p) \/ AgreeDraw(p)
      PROVE  status' \in Over
  BY <1>4, ColorLemma, ColorOfLemma
     DEF Resign, AgreeDraw, OnGameEnded, Over
<1>5. ASSUME NEW p \in Players, NEW c, Join(p, c) \/ Leave(p) \/ OfferDraw(p)
      PROVE  status' = status /\ moves' = moves
  BY <1>1, <1>5 DEF Join, Leave, Unassign, OfferDraw, boardVars
<1>6. ASSUME NEW p \in Players, NEW type,
             SwitchSeats(p) \/ ResetGame(p) \/ Update(p, type)
      PROVE  FALSE
  BY <1>6 DEF SwitchSeats, ResetGame, MayReset, Update, Started
<1>7. CASE TimeoutOnMove
  BY <1>7, ColorLemma DEF TimeoutOnMove, OnGameEnded, Over, TypeOK
<1>8. CASE UNCHANGED vars
  <2>1. status' = status /\ moves' = moves
    BY <1>8 DEF vars, boardVars
  <2> QED
    BY <2>1 DEF Started
<1>9. status = "InProgress" /\ moves \in Nat
  BY DEF Started, TypeOK
<1> QED
  BY <1>2, <1>3, <1>4, <1>5, <1>6, <1>7, <1>8, <1>9 DEF Next

(* Once both players have moved, a game goes on or ends with a result.     *)
THEOREM PlayedOutCorrect == Spec => PlayedOut
<1>1. TypeOK /\ [Next]_vars => PlayStep
  BY PlayedOutNext
<1> QED
  BY <1>1, TypeCorrect, PTL DEF Spec, PlayedOut

-----------------------------------------------------------------------------
(* HoxTable implements HoxGame.                                            *)

LEMMA LettersAgree ==
    \A result \in Over : /\ result \in Game!Results
                         /\ Letter("Red", result) = Game!RedLetter[result]
                         /\ Letter("Black", result) = Game!BlackLetter[result]
  BY DEF Over, Letter, WinOf, Game!Results, Game!RedLetter, Game!BlackLetter

(* Recording a result is paying the game.                                  *)
LEMMA RecordingPays ==
    ASSUME TypeOK, Seating, NEW result \in Over, ~NullSeatDereferenced,
           IsRecorded, RecordGameResult(result), status' = result
    PROVE  \E r, b \in Players : Game!Pay(r, b)
<1> DEFINE r == seat["Red"]
           b == seat["Black"]
           d == RedScoreChange(result)
           e == score'[r] - score[r]
<1>1. r \in Players /\ b \in Players /\ r # b
  BY RecordedSeats, PlayersAssumption DEF Colors, Seating, BothSeated
<1>2. d \in Int
  BY RecordedSeats, RedScoreChangeIsInt
<1>3. score' = [score EXCEPT ![r] = @ + d, ![b] = @ - d]
  BY DEF RecordGameResult
<1>4. results' = [results EXCEPT ![r][Letter("Red", result)] = @ + 1,
                                 ![b][Letter("Black", result)] = @ + 1]
  BY DEF RecordGameResult
<1>5. Outcome' = result
  BY DEF Outcome, Over
<1>6. results' = [results EXCEPT ![r][Game!RedLetter[Outcome']] = @ + 1,
                                 ![b][Game!BlackLetter[Outcome']] = @ + 1]
  BY <1>4, <1>5, LettersAgree, Zenon
<1> HIDE DEF r, b, d
<1>7. score'[r] = score[r] + d
  BY <1>1, <1>2, <1>3 DEF TypeOK
<1>8. e = d
  BY <1>1, <1>2, <1>7 DEF TypeOK
<1>9. score' = [score EXCEPT ![r] = @ + e, ![b] = @ - e]
  BY <1>3, <1>8, Zenon
<1>10. Game!Pay(r, b)
  BY <1>1, <1>6, <1>9, Zenon DEF Game!Pay
<1> QED
  BY <1>1, <1>10

(* Every way a game ends is a Finish.                                      *)
LEMMA EndFinishes ==
    ASSUME TypeOK, Seating, NEW result \in Over, OnGameEnded(result),
           status \notin Over
    PROVE  Game!Finish
<1>1. status' = result
  BY DEF OnGameEnded
<1>2. Phase # "over" /\ Phase' = "over" /\ Outcome' = result
  BY <1>1 DEF Phase, Outcome, Over
<1>3. result \in Game!Results
  BY LettersAgree
<1>4. UNCHANGED <<results, score>> \/ \E r, b \in Players : Game!Pay(r, b)
  <2>1. CASE ~NullSeatDereferenced /\ IsRecorded
    <3>1. RecordGameResult(result)
      BY <2>1 DEF OnGameEnded
    <3> QED
      BY <1>1, <2>1, <3>1, RecordingPays
  <2>2. CASE ~(~NullSeatDereferenced /\ IsRecorded)
    BY <2>2 DEF OnGameEnded, ledgerVars
  <2> QED
    BY <2>1, <2>2
<1> QED
  BY <1>2, <1>3, <1>4 DEF Game!Finish

(* A step that keeps the ledger, the number of moves and whether the game  *)
(* waits, is played or is over is no step of the game.                     *)
LEMMA NoStep ==
    ASSUME TypeOK, UNCHANGED <<moves, results, score>>,
           status' = status \/ {status, status'} = {"Open", "Ready"}
    PROVE  UNCHANGED <<Phase, Outcome, results, score>>
<1>1. status' \in {"Open", "Ready"} <=> status \in {"Open", "Ready"}
  OBVIOUS
<1>2. status' \in Over <=> status \in Over
  BY DEF Over
<1>3. status \in Over => status' = status
  BY DEF Over
<1>4. Phase' = Phase
  BY <1>1, <1>2 DEF Phase
<1>5. Outcome' = Outcome
  BY <1>2, <1>3 DEF Outcome
<1> QED
  BY <1>4, <1>5

LEMMA GameInit == Init => Game!Init
<1> SUFFICES ASSUME Init PROVE Game!Init
  OBVIOUS
<1>1. Phase = "waiting" /\ Outcome = "none"
  BY DEF Init, Phase, Outcome, Over
<1> QED
  BY <1>1, ScoreAssumption DEF Init, Game!Init, Game!Letters, Letters

LEMMA GameNext ==
    TypeOK /\ Seating /\ FreshBoard /\ [Next]_vars
        => [Game!Next]_<<Phase, Outcome, results, score>>
<1> SUFFICES ASSUME TypeOK, Seating, FreshBoard, [Next]_vars
             PROVE  Game!Next \/ UNCHANGED <<Phase, Outcome, results, score>>
  BY DEF Game!Next
<1>1. ASSUME NEW result \in Over, OnGameEnded(result), status \notin Over
      PROVE  Game!Next
  BY <1>1, EndFinishes DEF Game!Next
<1>2. ASSUME NEW p \in Players, LeaveLosing(p)
      PROVE  Game!Next
  <2>1. WinOf(Opponent(ColorOf(p))) \in Over
    BY ColorLemma, ColorOfLemma DEF Over
  <2> QED
    BY <1>1, <1>2, <2>1 DEF LeaveLosing, Started, Over
<1>3. ASSUME NEW p \in Players, NEW kind, AcceptMove(p, kind)
      PROVE  Game!Next \/ UNCHANGED <<Phase, Outcome, results, score>>
  <2> DEFINE verdict == Verdict(nextColor, kind)
  <2>1. status \in {"Ready", "InProgress"} /\ moves' = moves + 1
    BY <1>3 DEF AcceptMove
  <2>2. CASE verdict \in Over
    BY <1>1, <1>3, <2>1, <2>2 DEF AcceptMove, Over
  <2>3. CASE verdict \notin Over
    <3>1. status' = "InProgress" /\ UNCHANGED <<results, score>>
      BY <1>3, <2>3, VerdictLemma DEF AcceptMove, TypeOK, ledgerVars
    <3>2. Outcome' = Outcome
      BY <2>1, <3>1 DEF Outcome, Over
    <3>3. CASE status = "Ready"
      <4>1. moves = 0
        BY <3>3 DEF FreshBoard
      <4>2. Phase = "waiting" /\ Phase' = "begun"
        BY <2>1, <3>1, <3>3, <4>1 DEF Phase, Over
      <4> QED
        BY <3>1, <3>2, <4>2 DEF Game!Next, Game!Begin
    <3>4. CASE status = "InProgress"
      <4>0. moves \in Nat
        BY DEF TypeOK
      <4>1. CASE moves >= 2
        <5>1. Phase = "started" /\ Phase' = "started"
          BY <2>1, <3>1, <3>4, <4>0, <4>1 DEF Phase, Over
        <5> QED
          BY <3>1, <3>2, <5>1
      <4>2. CASE moves = 1
        <5>1. Phase = "begun" /\ Phase' = "started"
          BY <2>1, <3>1, <3>4, <4>2 DEF Phase, Over
        <5> QED
          BY <3>1, <3>2, <5>1 DEF Game!Next, Game!Start
      <4>3. CASE moves = 0
        <5>1. Phase = "begun" /\ Phase' = "begun"
          BY <2>1, <3>1, <3>4, <4>3 DEF Phase, Over
        <5> QED
          BY <3>1, <3>2, <5>1
      <4> QED
        BY <4>0, <4>1, <4>2, <4>3
    <3> QED
      BY <2>1, <3>3, <3>4
  <2> QED
    BY <2>2, <2>3
<1>4. ASSUME NEW p \in Players, Resign(p) \/ AgreeDraw(p)
      PROVE  Game!Next
  <2>1. WinOf(Opponent(ColorOf(p))) \in Over /\ "Drawn" \in Over
    BY ColorLemma, ColorOfLemma DEF Over
  <2> QED
    BY <1>1, <1>4, <2>1 DEF Resign, AgreeDraw, Over
<1>5. CASE TimeoutOnMove
  <2>1. WinOf(Opponent(nextColor)) \in Over
    BY ColorLemma DEF Over, TypeOK
  <2> QED
    BY <1>1, <1>5, <2>1 DEF TimeoutOnMove, Started, Over
<1>6. ASSUME NEW p \in Players, NEW c, Join(p, c) \/ Leave(p)
      PROVE  UNCHANGED <<Phase, Outcome, results, score>>
  <2>1. UNCHANGED <<moves, results, score>> /\ status' = UpdatedStatus(status, seat')
    BY <1>6 DEF Join, Leave, Unassign, boardVars, ledgerVars
  <2>2. status \in Statuses
    BY DEF TypeOK
  <2>3. status' = status \/ {status, status'} = {"Open", "Ready"}
    BY <2>1, <2>2, UpdatedStatusLemma
  <2> QED
    BY <2>1, <2>3, NoStep
<1>7. ASSUME NEW p \in Players, NEW type, OfferDraw(p) \/ SwitchSeats(p) \/ Update(p, type)
      PROVE  UNCHANGED <<Phase, Outcome, results, score>>
  <2>1. UNCHANGED <<moves, results, score, status>>
    BY <1>7 DEF OfferDraw, SwitchSeats, Update, boardVars, ledgerVars
  <2> QED
    BY <2>1, NoStep
<1>8. ASSUME NEW p \in Players, ResetGame(p)
      PROVE  Game!Next
  <2>1. /\ status \notin {"Open", "Ready"} /\ ~Started /\ UNCHANGED <<results, score>>
        /\ status' = UpdatedStatus("Open", seat)
    BY <1>8 DEF ResetGame, MayReset, ledgerVars
  <2>2. status' \in {"Open", "Ready"}
    BY <2>1 DEF UpdatedStatus
  <2>3. Phase' = "waiting" /\ Outcome' = "none"
    BY <2>2 DEF Phase, Outcome, Over
  <2>4. Phase \in {"begun", "over"}
    BY <2>1 DEF Phase, Started, TypeOK, Statuses, Over
  <2> QED
    BY <2>1, <2>3, <2>4 DEF Game!Next, Game!Clear
<1>9. CASE UNCHANGED vars
  <2>1. UNCHANGED <<moves, results, score, status>>
    BY <1>9 DEF vars, boardVars, ledgerVars
  <2> QED
    BY <2>1, NoStep
<1> QED
  BY <1>2, <1>3, <1>4, <1>5, <1>6, <1>7, <1>8, <1>9 DEF Next

(* Every behaviour of the table is a behaviour of the abstract game: with  *)
(* any players and limits, a started game ends with one result that stands *)
(* and pays at most once.                                                  *)
THEOREM GameCorrect == Spec => GameSpec
<1>1. Init => Game!Init
  BY GameInit
<1>2. TypeOK /\ Seating /\ FreshBoard /\ [Next]_vars
        => [Game!Next]_<<Phase, Outcome, results, score>>
  BY GameNext
<1> QED
  BY <1>1, <1>2, TypeCorrect, SeatingCorrect, FreshBoardCorrect, PTL
     DEF Spec, GameSpec, Game!Spec

-----------------------------------------------------------------------------
(* What the database is told.                                              *)

SavesOf(q, p) == {i \in DOMAIN q : q[i].id = p}

(* The requests q add up to the results and the score of player p.          *)
Account(q, p, result, points) ==
    /\ \A l \in Letters : result[l] = Cardinality({i \in SavesOf(q, p) : q[i].result = l})
    /\ SavesOf(q, p) = {} => points = InitialScore[p]
    /\ SavesOf(q, p) # {} => \E i \in SavesOf(q, p) : /\ \A j \in SavesOf(q, p) : j <= i
                                                      /\ points = q[i].score

Accounts == \A p \in Players : Account(saved, p, results[p], score[p])

(* One more request: for its player one result more, and the score it has. *)
LEMMA OneMoreSave ==
    ASSUME NEW q \in Seq([id: Players, score: Int, result: Letters]),
           NEW e \in [id: Players, score: Int, result: Letters],
           NEW p \in Players, NEW result \in [Letters -> Nat], NEW points \in Int,
           Account(q, p, result, points)
    PROVE  /\ e.id # p => Account(Append(q, e), p, result, points)
           /\ e.id = p => Account(Append(q, e), p, [result EXCEPT ![e.result] = @ + 1], e.score)
<1> DEFINE n == Len(q)
           r == Append(q, e)
           Before(l) == {i \in SavesOf(q, p) : q[i].result = l}
           After(l) == {i \in SavesOf(r, p) : r[i].result = l}
<1>1. /\ n \in Nat /\ DOMAIN q = 1..n /\ DOMAIN r = 1..(n + 1)
      /\ r \in Seq([id: Players, score: Int, result: Letters])
      /\ \A i \in 1..n : r[i] = q[i]
      /\ r[n + 1] = e
  BY AppendProperties
<1> HIDE DEF n, r
<1>2. /\ 1..(n + 1) = 1..n \cup {n + 1} /\ n + 1 \notin 1..n
      /\ \A i \in 1..n : i <= n + 1
  BY <1>1
<1>3. SavesOf(r, p) = IF e.id = p THEN SavesOf(q, p) \cup {n + 1} ELSE SavesOf(q, p)
  BY <1>1, <1>2 DEF SavesOf
<1>4. SavesOf(q, p) \subseteq 1..n
  BY <1>1 DEF SavesOf
<1>5. CASE e.id # p
  <2>1. SavesOf(r, p) = SavesOf(q, p) /\ \A i \in SavesOf(q, p) : r[i] = q[i]
    BY <1>1, <1>3, <1>4, <1>5
  <2>2. \A l : After(l) = Before(l)
    BY <2>1
  <2> QED
    BY <1>5, <2>1, <2>2 DEF Account, r
<1>6. CASE e.id = p
  <2>1. /\ SavesOf(r, p) = SavesOf(q, p) \cup {n + 1}
        /\ \A i \in SavesOf(q, p) : r[i] = q[i]
        /\ n + 1 \notin SavesOf(q, p)
    BY <1>1, <1>2, <1>3, <1>4, <1>6
  <2>2. ASSUME NEW l \in Letters
        PROVE  Cardinality(After(l)) = [result EXCEPT ![e.result] = @ + 1][l]
    <3>1. IsFiniteSet(Before(l))
      <4>1. IsFiniteSet(1..n)
        BY <1>1, FS_Interval
      <4>2. Before(l) \subseteq 1..n
        BY <1>4
      <4> QED
        BY <4>1, <4>2, FS_Subset
    <3>2. Cardinality(Before(l)) = result[l]
      BY DEF Account
    <3>3. CASE e.result = l
      <4>1. After(l) = Before(l) \cup {n + 1} /\ n + 1 \notin Before(l)
        BY <1>1, <2>1, <3>3
      <4>2. Cardinality(After(l)) = Cardinality(Before(l)) + 1
        <5> HIDE DEF Before, After
        <5> QED
          BY <3>1, <4>1, FS_AddElement
      <4> QED
        BY <3>2, <3>3, <4>2
    <3>4. CASE e.result # l
      <4>1. After(l) = Before(l)
        BY <1>1, <2>1, <3>4
      <4> QED
        BY <3>2, <3>4, <4>1
    <3> QED
      BY <3>3, <3>4
  <2>3. \A l \in Letters : [result EXCEPT ![e.result] = @ + 1][l] = Cardinality(After(l))
    BY <2>2
  <2>4. \E i \in SavesOf(r, p) : (\A j \in SavesOf(r, p) : j <= i) /\ e.score = r[i].score
    <3>1. n + 1 \in SavesOf(r, p) /\ \A j \in SavesOf(r, p) : j <= n + 1
      BY <1>1, <1>2, <1>4, <2>1
    <3> QED
      BY <1>1, <3>1
  <2> QED
    BY <1>6, <2>1, <2>3, <2>4 DEF Account, r
<1> QED
  BY <1>5, <1>6

(* _recordGameResult tells the database of both players what it has done   *)
(* to them.                                                                *)
LEMMA RecordingIsSaved ==
    ASSUME TypeOK, Seating, Accounts, NEW result \in Over, ~NullSeatDereferenced,
           IsRecorded, RecordGameResult(result)
    PROVE  Accounts'
<1> DEFINE Saves == [id: Players, score: Int, result: Letters]
<1>1. PICK r, b, d, x, y :
         /\ r = seat["Red"] /\ b = seat["Black"] /\ d = RedScoreChange(result)
         /\ x = SaveRequest("Red", result, score') /\ y = SaveRequest("Black", result, score')
  OBVIOUS
<1>2. r \in Players /\ b \in Players /\ r # b /\ d \in Int
  BY <1>1, RecordedSeats, RedScoreChangeIsInt, PlayersAssumption DEF Seating, BothSeated, Colors
<1>3. /\ score \in [Players -> Int] /\ results \in [Players -> [Letters -> Nat]]
      /\ saved \in Seq(Saves)
  BY DEF TypeOK
<1>4. PICK m, k : /\ m = Letter("Red", result) /\ k = Letter("Black", result)
                  /\ m \in Letters /\ k \in Letters
  BY LettersOfResults DEF Colors
<1>5. /\ score' = [score EXCEPT ![r] = @ + d, ![b] = @ - d]
      /\ results' = [results EXCEPT ![r][m] = @ + 1, ![b][k] = @ + 1]
      /\ saved' = saved \o <<x, y>>
  BY <1>1, <1>4 DEF RecordGameResult
<1>6. score'[r] \in Int /\ score'[b] \in Int
  BY <1>2, <1>3, <1>5
<1>7. /\ x = [id |-> r, score |-> score'[r], result |-> m]
      /\ y = [id |-> b, score |-> score'[b], result |-> k]
  BY <1>1, <1>4 DEF SaveRequest
<1>8. x \in Saves /\ y \in Saves
  BY <1>2, <1>4, <1>6, <1>7
<1>9. saved' = Append(Append(saved, x), y) /\ Append(saved, x) \in Seq(Saves)
  <2> HIDE DEF Saves
  <2>1. /\ Append(saved, x) \in Seq(Saves)
        /\ Append(saved, x) = saved \o <<x>>
    BY <1>3, <1>8, AppendProperties, AppendIsConcat
  <2>2. Append(Append(saved, x), y) = Append(saved, x) \o <<y>>
    BY <1>8, <2>1, AppendIsConcat
  <2>3. <<x>> \in Seq(Saves) /\ <<y>> \in Seq(Saves)
    BY <1>8
  <2>4. (saved \o <<x>>) \o <<y>> = saved \o (<<x>> \o <<y>>)
    BY <1>3, <2>3, ConcatAssociative
  <2>5. <<x>> \o <<y>> = <<x, y>>
    <3>1. <<x>> \o <<y>> \in Seq(Saves) /\ <<x, y>> \in Seq(Saves)
      BY <1>8, <2>3, ConcatProperties
    <3>2. Len(<<x>>) = 1 /\ Len(<<y>>) = 1 /\ Len(<<x, y>>) = 2
      OBVIOUS
    <3>3. Len(<<x>> \o <<y>>) = 2
      BY <2>3, <3>2, ConcatProperties
    <3>4. \A i \in 1..2 : (<<x>> \o <<y>>)[i] = <<x, y>>[i]
      OBVIOUS
    <3> QED
      BY <3>1, <3>2, <3>3, <3>4, SeqEqual
  <2> QED
    BY <1>5, <2>1, <2>2, <2>4, <2>5
<1>10. ASSUME NEW p \in Players
       PROVE  Account(saved', p, results'[p], score'[p])
  <2>1. Account(saved, p, results[p], score[p]) /\ results[p] \in [Letters -> Nat] /\ score[p] \in Int
    BY <1>3 DEF Accounts
  <2>2. CASE p = r
    <3>1. Account(Append(saved, x), r, [results[r] EXCEPT ![m] = @ + 1], score'[r])
      BY <1>2, <1>3, <1>7, <1>8, <2>1, <2>2, OneMoreSave
    <3>2. results'[r] = [results[r] EXCEPT ![m] = @ + 1]
      BY <1>2, <1>3, <1>5
    <3>3. results'[r] \in [Letters -> Nat]
      BY <1>2, <1>3, <1>4, <3>2
    <3>4. y.id # r
      BY <1>2, <1>7
    <3> QED
      BY <1>2, <1>6, <1>8, <1>9, <2>2, <3>1, <3>2, <3>3, <3>4, OneMoreSave
  <2>3. CASE p = b
    <3>1. x.id # b
      BY <1>2, <1>7
    <3>2. Account(Append(saved, x), b, results[b], score[b])
      BY <1>2, <1>3, <1>8, <2>1, <2>3, <3>1, OneMoreSave
    <3>3. results'[b] = [results[b] EXCEPT ![k] = @ + 1]
      BY <1>2, <1>3, <1>5
    <3>4. y.id = b /\ y.result = k /\ y.score = score'[b]
      BY <1>7
    <3>5. Account(Append(Append(saved, x), y), b, [results[b] EXCEPT ![y.result] = @ + 1], y.score)
      BY <1>2, <1>8, <1>9, <2>1, <2>3, <3>2, <3>4, OneMoreSave
    <3> QED
      BY <1>9, <2>3, <3>3, <3>4, <3>5
  <2>4. CASE p # r /\ p # b
    <3>1. results'[p] = results[p] /\ score'[p] = score[p]
      BY <1>2, <1>3, <1>5, <2>4
    <3>2. x.id # p /\ y.id # p
      BY <1>7, <2>4
    <3>3. Account(Append(saved, x), p, results[p], score[p])
      BY <1>3, <1>8, <2>1, <3>2, OneMoreSave
    <3> QED
      BY <1>8, <1>9, <2>1, <3>1, <3>2, <3>3, OneMoreSave
  <2> QED
    BY <2>2, <2>3, <2>4
<1> QED
  BY <1>10 DEF Accounts

(* Nothing but _recordGameResult changes a player's record.                 *)
LEMMA AccountsNext == TypeOK /\ Seating /\ Accounts /\ [Next]_vars => Accounts'
<1> SUFFICES ASSUME TypeOK, Seating, Accounts, [Next]_vars PROVE Accounts'
  OBVIOUS
<1>1. ASSUME UNCHANGED ledgerVars PROVE Accounts'
  BY <1>1 DEF ledgerVars, Accounts
<1>2. ASSUME NEW result \in Over, OnGameEnded(result) PROVE Accounts'
  <2>1. CASE ~NullSeatDereferenced /\ IsRecorded
    BY <1>2, <2>1, RecordingIsSaved DEF OnGameEnded
  <2>2. CASE ~(~NullSeatDereferenced /\ IsRecorded)
    BY <1>1, <1>2, <2>2 DEF OnGameEnded
  <2> QED
    BY <2>1, <2>2
<1>3. ASSUME NEW p \in Players, LeaveLosing(p) PROVE Accounts'
  <2>1. WinOf(Opponent(ColorOf(p))) \in Over
    BY ColorLemma, ColorOfLemma DEF Over
  <2> QED
    BY <1>2, <1>3, <2>1 DEF LeaveLosing
<1>4. ASSUME NEW p \in Players, NEW kind, AcceptMove(p, kind) PROVE Accounts'
  <2> DEFINE verdict == Verdict(nextColor, kind)
  <2>1. CASE verdict \in Over
    BY <1>2, <1>4, <2>1 DEF AcceptMove
  <2>2. CASE verdict \notin Over
    BY <1>1, <1>4, <2>2 DEF AcceptMove
  <2> QED
    BY <2>1, <2>2
<1>5. ASSUME NEW p \in Players, Resign(p) \/ AgreeDraw(p) PROVE Accounts'
  <2>1. WinOf(Opponent(ColorOf(p))) \in Over /\ "Drawn" \in Over
    BY ColorLemma, ColorOfLemma DEF Over
  <2> QED
    BY <1>2, <1>5, <2>1 DEF Resign, AgreeDraw
<1>6. CASE TimeoutOnMove
  <2>1. WinOf(Opponent(nextColor)) \in Over
    BY ColorLemma DEF Over, TypeOK
  <2> QED
    BY <1>2, <1>6, <2>1 DEF TimeoutOnMove
<1>7. ASSUME NEW p \in Players, NEW c, NEW type,
             \/ Join(p, c) \/ Leave(p) \/ OfferDraw(p) \/ SwitchSeats(p)
             \/ ResetGame(p) \/ Update(p, type)
      PROVE  Accounts'
  BY <1>1, <1>7 DEF Join, Leave, OfferDraw, SwitchSeats, ResetGame, Update
<1>8. CASE UNCHANGED vars
  BY <1>1, <1>8 DEF vars
<1> QED
  BY <1>3, <1>4, <1>5, <1>6, <1>7, <1>8 DEF Next

(* Replaying the calls of set_player_info gives every player the results   *)
(* and the score the server shows (hoxTable.cpp:832-879): no game is saved *)
(* for one of its players only, or with the score of another moment.       *)
THEOREM SavedCorrect == Spec => []SavedMatchesLedger
<1>1. Init => Accounts
  <2> SUFFICES ASSUME Init, NEW p \in Players PROVE Account(saved, p, results[p], score[p])
    BY DEF Accounts
  <2>1. SavesOf(saved, p) = {}
    BY DEF Init, SavesOf
  <2>2. \A l \in Letters : {i \in SavesOf(saved, p) : saved[i].result = l} = {}
    BY <2>1
  <2>3. /\ score[p] = InitialScore[p]
        /\ \A l \in Letters : results[p][l] = 0
    BY DEF Init
  <2> QED
    BY <2>1, <2>2, <2>3, FS_EmptySet DEF Account
<1>2. TypeOK /\ Accounts => SavedMatchesLedger
  <2> SUFFICES ASSUME TypeOK, NEW p \in Players, Account(saved, p, results[p], score[p])
               PROVE  LET mine == {i \in DOMAIN saved : saved[i].id = p}
                      IN  /\ \A l \in Letters :
                              results[p][l] = Cardinality({i \in mine : saved[i].result = l})
                          /\ score[p] = IF mine = {} THEN InitialScore[p]
                                ELSE saved[CHOOSE i \in mine : \A j \in mine : j <= i].score
    BY DEF Accounts, SavedMatchesLedger
  <2>1. ASSUME SavesOf(saved, p) # {}
        PROVE  score[p] = saved[CHOOSE i \in SavesOf(saved, p) :
                                    \A j \in SavesOf(saved, p) : j <= i].score
    <3>1. PICK i \in SavesOf(saved, p) : /\ \A j \in SavesOf(saved, p) : j <= i
                                         /\ score[p] = saved[i].score
      BY <2>1 DEF Account
    <3>2. SavesOf(saved, p) \subseteq Int
      BY DEF SavesOf, TypeOK
    <3>3. \A k \in SavesOf(saved, p) : (\A j \in SavesOf(saved, p) : j <= k) => k = i
      BY <3>1, <3>2
    <3>4. (CHOOSE k \in SavesOf(saved, p) : \A j \in SavesOf(saved, p) : j <= k) = i
      BY <3>1, <3>3
    <3> QED
      BY <3>1, <3>4
  <2> QED
    BY <2>1 DEF Account, SavesOf
<1>3. TypeOK /\ Seating /\ Accounts /\ [Next]_vars => Accounts'
  BY AccountsNext
<1> QED
  BY <1>1, <1>2, <1>3, TypeCorrect, SeatingCorrect, PTL DEF Spec

-----------------------------------------------------------------------------
(* What the result of a game does to the ratings of its players.           *)

(* Only the end of a game touches the accounts.                             *)
LEMMA AccountsMoveAtTheEnd ==
    ASSUME TypeOK, [Next]_vars
    PROVE  \/ UNCHANGED ledgerVars
           \/ \E result \in Over : OnGameEnded(result) /\ status \notin Over
<1>1. ASSUME NEW p \in Players, LeaveLosing(p) \/ Resign(p) \/ AgreeDraw(p)
      PROVE  \E result \in Over : OnGameEnded(result) /\ status \notin Over
  <2>1. WinOf(Opponent(ColorOf(p))) \in Over /\ "Drawn" \in Over
    BY ColorLemma, ColorOfLemma DEF Over
  <2> QED
    BY <1>1, <2>1 DEF LeaveLosing, Resign, AgreeDraw, Started, Over
<1>2. ASSUME NEW p \in Players, NEW kind, AcceptMove(p, kind)
      PROVE  \/ UNCHANGED ledgerVars
             \/ \E result \in Over : OnGameEnded(result) /\ status \notin Over
  <2> DEFINE verdict == Verdict(nextColor, kind)
  <2>1. CASE verdict \in Over
    BY <1>2, <2>1 DEF AcceptMove, Over
  <2>2. CASE verdict \notin Over
    BY <1>2, <2>2 DEF AcceptMove
  <2> QED
    BY <2>1, <2>2
<1>3. CASE TimeoutOnMove
  <2>1. WinOf(Opponent(nextColor)) \in Over
    BY ColorLemma DEF Over, TypeOK
  <2> QED
    BY <1>3, <2>1 DEF TimeoutOnMove, Started, Over
<1>4. ASSUME NEW p \in Players, NEW c, NEW type,
             \/ Join(p, c) \/ Leave(p) \/ OfferDraw(p) \/ SwitchSeats(p)
             \/ ResetGame(p) \/ Update(p, type)
      PROVE  UNCHANGED ledgerVars
  BY <1>4 DEF Join, Leave, OfferDraw, SwitchSeats, ResetGame, Update
<1>5. CASE UNCHANGED vars
  BY <1>5 DEF vars, ledgerVars
<1> QED
  BY <1>1, <1>2, <1>3, <1>4, <1>5 DEF Next

(* The change computed for a color with the result it had.                  *)
LEMMA ScoreChangeRange ==
    ASSUME TypeOK, NEW c \in Colors, NEW result \in Over,
           \A d \in Colors : seat[d] \in Players \ Guests
    PROVE  /\ ScoreChange(c, result) \in -25..25
           /\ result = WinOf(c) => ScoreChange(c, result) \in 1..25
           /\ result = WinOf(Opponent(c)) => ScoreChange(c, result) \in -25..-1
<1> DEFINE p == seat[c]
           diff == score[seat[c]] - score[seat[Opponent(c)]]
           k == KFactor(PlayedGames(p), score[p])
           pct == ExpectedPercent(diff)
<1>1. diff \in Int
  BY DEF TypeOK, Colors, Opponent
<1>2. pct \in Percents /\ k \in Factors
  BY <1>1, ExpectedComplement DEF KFactor, Factors
<1>3. ScoreChange(c, result) = ScaledDifference(k, Points(c, result), pct)
  BY DEF ScoreChange, NewRatingChange
<1>4. /\ Points(c, result) \in {Loss, Draw, Win}
      /\ result = WinOf(c) => Points(c, result) = Win
      /\ result = WinOf(Opponent(c)) => Points(c, result) = Loss
  BY DEF Points, WinOf, Opponent, Colors
<1> HIDE DEF k, pct
<1>5. 1..k \subseteq 1..25 /\ -k..-1 \subseteq -25..-1 /\ -k..k \subseteq -25..25
        /\ 1..25 \subseteq -25..25 /\ -25..-1 \subseteq -25..25
  BY <1>2 DEF Factors
<1> QED
  BY <1>2, <1>3, <1>4, <1>5, DecidedChange

WinnerStep ==
    results' # results =>
        \A c \in Colors : status' = WinOf(c) =>
            /\ score'[seat[c]] - score[seat[c]] \in 1..25
            /\ score'[seat[Opponent(c)]] - score[seat[Opponent(c)]] \in -25..-1

LEMMA WinnerNext == TypeOK /\ Seating /\ [Next]_vars => WinnerStep
<1> SUFFICES ASSUME TypeOK, Seating, [Next]_vars, results' # results, NEW c \in Colors, status' = WinOf(c)
             PROVE  /\ score'[seat[c]] - score[seat[c]] \in 1..25
                    /\ score'[seat[Opponent(c)]] - score[seat[Opponent(c)]] \in -25..-1
  BY DEF WinnerStep
<1>1. PICK result \in Over : OnGameEnded(result)
  BY AccountsMoveAtTheEnd DEF ledgerVars
<1>2. result = WinOf(c)
  BY <1>1 DEF OnGameEnded
<1>3. ~NullSeatDereferenced /\ IsRecorded /\ RecordGameResult(result)
  BY <1>1 DEF OnGameEnded, ledgerVars
<1>4. \A d \in Colors : seat[d] \in Players \ Guests
  BY <1>3, RecordedSeats
<1>5. seat["Red"] # seat["Black"]
  BY <1>4, PlayersAssumption DEF Seating, BothSeated, Colors
<1> DEFINE d == RedScoreChange(result)
<1>6. /\ d \in -25..25
      /\ c = "Red" => d \in 1..25
      /\ c = "Black" => d \in -25..-1
  <2>1. /\ ScoreChange("Red", result) \in -25..25 /\ ScoreChange("Black", result) \in -25..25
        /\ c = "Red" => ScoreChange("Red", result) \in 1..25 /\ ScoreChange("Black", result) \in -25..-1
        /\ c = "Black" => ScoreChange("Red", result) \in -25..-1 /\ ScoreChange("Black", result) \in 1..25
    BY <1>2, <1>4, ScoreChangeRange DEF Colors, Opponent
  <2>2. d = ScoreChange("Red", result) \/ d = -ScoreChange("Black", result)
    BY DEF RedScoreChange
  <2> QED
    BY <2>1, <2>2
<1>7. score' = [score EXCEPT ![seat["Red"]] = @ + d, ![seat["Black"]] = @ - d]
  BY <1>3 DEF RecordGameResult
<1> HIDE DEF d
<1>8. score \in [Players -> Int]
  BY DEF TypeOK
<1>9. /\ score'[seat["Red"]] - score[seat["Red"]] = d
      /\ score'[seat["Black"]] - score[seat["Black"]] = -d
  BY <1>4, <1>5, <1>6, <1>7, <1>8 DEF Colors
<1> QED
  BY <1>6, <1>9 DEF Colors, Opponent

(* A recorded win raises the winner's rating and lowers the loser's, by a  *)
(* point at least and 25 at most, whoever of the two the change was        *)
(* computed for (_calculateNewScores, hoxTable.cpp:879-922).               *)
THEOREM WinnerPaidCorrect == Spec => [][WinnerStep]_vars
<1>1. TypeOK /\ Seating /\ [Next]_vars => WinnerStep
  BY WinnerNext
<1> QED
  BY <1>1, TypeCorrect, SeatingCorrect, PTL DEF Spec
=============================================================================
