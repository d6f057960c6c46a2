------------------------------ MODULE HoxTable ------------------------------
(***************************************************************************)
(* One game table of the server: server/hoxTable.cpp, class hoxTable, with *)
(* the guards its callers in server/hoxPlayer.cpp add.                     *)
(*                                                                         *)
(* The server runs on cooperative threads that switch only at socket I/O,  *)
(* sleeps and waits.  No handler of the table contains one, so a handler   *)
(* is one atomic action.  Which handler runs next, and for which player,   *)
(* is up to the clients.                                                   *)
(*                                                                         *)
(* The rules of the board (hoxReferee) are reduced to what they tell the   *)
(* table about a legal move: it mates, it gives check, or neither.  The    *)
(* clock (timers of the two players) is module HoxClock; here the move may *)
(* time out whenever a started game is in progress.                        *)
(***************************************************************************)
EXTENDS HoxElo, Sequences

CONSTANTS
    Players,        \* the player objects known to the server
    Guests,         \* those of type hoxPLAYER_TYPE_GUEST
    NoPlayer,       \* the NULL pointer, and the empty player id
    InitialScore,   \* the score each player logged in with
    ChecksMax,      \* hoxPERPETUAL_CHECKS_MAX
    EffectiveMax,   \* hoxEFFECTIVE_MOVES_MAX
    MaxMoves,       \* bound: moves of one game
    MaxGames        \* bound: recorded games of one player

ASSUME PlayersAssumption == NoPlayer \notin Players /\ Guests \subseteq Players
ASSUME ScoreAssumption   == InitialScore \in [Players -> Int]
ASSUME LimitsAssumption  == ChecksMax \in Nat /\ EffectiveMax \in Nat
ASSUME BoundsAssumption  == MaxMoves \in Nat /\ MaxGames \in Nat

VARIABLES
    seat,            \* _redPlayer and _blackPlayer
    allPlayers,      \* _allPlayers, players and observers
    status,          \* _status
    gameType,        \* _gameType
    moves,           \* the number of _moves
    nextColor,       \* the referee's next color
    drawPlayerId,    \* _drawPlayerId
    isPrevMoveCheck, \* _isPrevMoveCheck
    effectiveMoves,  \* _effectiveMoves
    checks,          \* _redChecks and _blackChecks
    results,         \* wins, draws and losses of each hoxPlayer
    score,           \* the score of each hoxPlayer
    saved,           \* the calls of hoxDbClient::set_player_info, in order
    scoreShown,      \* the score the last E_SCORE event of each player told
    crashed          \* a NULL player was dereferenced: the process is gone

seatVars   == <<seat, allPlayers>>
boardVars  == <<moves, nextColor, isPrevMoveCheck, effectiveMoves, checks>>
ledgerVars == <<results, score, saved, scoreShown>>
vars == <<seatVars, status, gameType, boardVars, drawPlayerId, ledgerVars, crashed>>

Colors    == {"Red", "Black"}
Letters   == {"W", "D", "L"}
Over      == {"RedWin", "BlackWin", "Drawn"}
Statuses  == {"Open", "Ready", "InProgress"} \cup Over
Occupants == Players \cup {NoPlayer}

TypeOK ==
    /\ seat \in [Colors -> Occupants]
    /\ allPlayers \in SUBSET Players
    /\ status \in Statuses
    /\ gameType \in {"Rated", "NonRated"}
    /\ moves \in Nat
    /\ nextColor \in Colors
    /\ drawPlayerId \in Occupants
    /\ isPrevMoveCheck \in BOOLEAN
    /\ effectiveMoves \in Nat
    /\ checks \in [Colors -> Nat]
    /\ results \in [Players -> [Letters -> Nat]]
    /\ score \in [Players -> Int]
    /\ saved \in Seq([id: Players, score: Int, result: Letters])
    /\ scoreShown \in [Players -> Int]
    /\ crashed \in BOOLEAN

Init ==
    /\ seat = [c \in Colors |-> NoPlayer]
    /\ allPlayers = {}
    /\ status = "Open"
    /\ gameType = "Rated"
    /\ moves = 0
    /\ nextColor = "Red"
    /\ drawPlayerId = NoPlayer
    /\ isPrevMoveCheck = FALSE
    /\ effectiveMoves = 0
    /\ checks = [c \in Colors |-> 0]
    /\ results = [p \in Players |-> [l \in Letters |-> 0]]
    /\ score = InitialScore
    /\ saved = <<>>
    /\ scoreShown = InitialScore
    /\ crashed = FALSE

-----------------------------------------------------------------------------
(* Helpers.                                                                *)

Opponent(c) == IF c = "Red" THEN "Black" ELSE "Red"
WinOf(c)    == IF c = "Red" THEN "RedWin" ELSE "BlackWin"

BothSeated(s)  == s["Red"] # NoPlayer /\ s["Black"] # NoPlayer
IsSeated(p)    == \E c \in Colors : seat[c] = p
ColorOf(p)     == IF seat["Red"] = p THEN "Red" ELSE "Black"
PlayedGames(p) == results[p]["W"] + results[p]["D"] + results[p]["L"]

(* Mutant: the status is not asked.                                        *)
StartedOnceMoved == moves >= 2

(* bGameStarted: each player has made a move, the timers are running.      *)
Started == status = "InProgress" /\ moves >= 2

(* _updateStatus *)
UpdatedStatus(st, s) ==
    IF st = "Open" /\ BothSeated(s) THEN "Ready"
    ELSE IF st = "Ready" /\ ~BothSeated(s) THEN "Open"
    ELSE st

(* Mutant: the seat held before is kept.                                   *)
SeatsWithNone(p) == seat

(* _addPlayer, _removePlayer: a player leaves at most one of the two seats.            *)
SeatsWithout(p) ==
    [c \in Colors |-> IF seat[c] = p THEN NoPlayer ELSE seat[c]]

-----------------------------------------------------------------------------
(* The end of a game.                                                      *)

(* What the result is worth to color c, in half points.                    *)
Points(c, result) ==
    IF result = "Drawn" THEN Draw ELSE IF result = WinOf(c) THEN Win ELSE Loss

Letter(c, result) ==
    IF result = "Drawn" THEN "D" ELSE IF result = WinOf(c) THEN "W" ELSE "L"

(* _calculateNewScores: the change of the score of color c, computed from  *)
(* his rating, his games and the difference to the opponent's rating.      *)
ScoreChange(c, result) ==
    NewRatingChange(score[seat[c]] - score[seat[Opponent(c)]],
                    score[seat[c]], PlayedGames(seat[c]), Points(c, result))

(* It is computed for the player with more games, BLACK when they are even.*)
RedScoreChange(result) ==
    IF PlayedGames(seat["Red"]) > PlayedGames(seat["Black"])
    THEN ScoreChange("Red", result) ELSE -ScoreChange("Black", result)

(* Mutant: called before the new scores are set.                           *)
SaveOldScore(c, result, newScore) ==
    [id |-> seat[c], score |-> score[seat[c]], result |-> Letter(c, result)]

(* What set_player_info is told of the player of color c.                  *)
SaveRequest(c, result, newScore) ==
    [id |-> seat[c], score |-> newScore[seat[c]], result |-> Letter(c, result)]

(* _recordGameResult, and the score events posted when it returns true.    *)
(* The DRAWN case falls through to the default and returns false.          *)
RecordGameResult(result) ==
    LET r == seat["Red"]
        b == seat["Black"]
        d == RedScoreChange(result)
        newScore == [score EXCEPT ![r] = @ + d, ![b] = @ - d]
    IN  /\ score' = newScore
        /\ results' = [results EXCEPT ![r][Letter("Red", result)]   = @ + 1,
                                      ![b][Letter("Black", result)] = @ + 1]
        /\ saved' = saved \o <<SaveRequest("Red", result, newScore),
                               SaveRequest("Black", result, newScore)>>
        /\ scoreShown' = IF result = "Drawn" THEN scoreShown
                         ELSE [scoreShown EXCEPT ![r] = newScore[r],
                                                 ![b] = newScore[b]]

(* The test for a guest table dereferences RED, then BLACK unless RED was  *)
(* a guest already.                                                        *)
NullSeatDereferenced ==
    \/ seat["Red"] = NoPlayer
    \/ seat["Red"] \notin Guests /\ seat["Black"] = NoPlayer

IsRecorded ==
    gameType = "Rated" /\ \A c \in Colors : seat[c] \notin Guests

(* _onGameEnded *)
OnGameEnded(result) ==
    /\ status' = result
    /\ drawPlayerId' = NoPlayer
    /\ crashed' = NullSeatDereferenced
    /\ IF ~NullSeatDereferenced /\ IsRecorded
       THEN RecordGameResult(result)
       ELSE UNCHANGED ledgerVars

-----------------------------------------------------------------------------
(* Handlers.                                                               *)

(* assignPlayerAs: JOIN as RED, BLACK or observer, also to change seats.   *)
Join(p, c) ==
    /\ ~crashed
    /\ c \in Colors => seat[c] = NoPlayer
    /\ seat' = [d \in Colors |-> IF d = c THEN p ELSE SeatsWithout(p)[d]]
    /\ allPlayers' = allPlayers \cup {p}
    /\ status' = UpdatedStatus(status, seat')
    /\ UNCHANGED <<gameType, boardVars, drawPlayerId, ledgerVars, crashed>>

(* onLeave_FromPlayer: LEAVE, and every table when a session shuts down.   *)
(* Nobody checks that the player is at the table.                          *)
Unassign(p, st) ==
    /\ seat' = SeatsWithout(p)
    /\ allPlayers' = allPlayers \ {p}
    /\ status' = UpdatedStatus(st, seat')

LeaveLosing(p) ==
    /\ ~crashed
    /\ Started /\ IsSeated(p)
    /\ LET result == WinOf(Opponent(ColorOf(p)))
       IN  /\ OnGameEnded(result)
           /\ IF NullSeatDereferenced
              THEN UNCHANGED seatVars
              ELSE Unassign(p, result)
    /\ UNCHANGED <<gameType, boardVars>>

Leave(p) ==
    /\ ~crashed
    /\ ~(Started /\ IsSeated(p))
    /\ Unassign(p, status)
    /\ UNCHANGED <<gameType, boardVars, drawPlayerId, ledgerVars, crashed>>

(* Mutants: the checked player loses; the status is left unset.            *)
VerdictAgainstChecked(c, kind) ==
    IF kind = "mate" THEN WinOf(c)
    ELSE IF kind = "check" /\ checks[c] + 1 > ChecksMax THEN WinOf(c)
    ELSE IF kind = "quiet" /\ ~isPrevMoveCheck /\ effectiveMoves + 1 > EffectiveMax
         THEN "Drawn"
    ELSE "InProgress"

VerdictUnset(c, kind) == IF kind = "mate" THEN WinOf(c) ELSE "Unknown"

(* acceptMove of a legal move.  kind is what the referee says of it:       *)
(* "mate" (validateMove reports a win), else "check" or "quiet".           *)
(* Verdict is the status after _detectLongGameAndPerpetualCheck.           *)
Verdict(c, kind) ==
    IF kind = "mate" THEN WinOf(c)
    ELSE IF kind = "check" /\ checks[c] + 1 > ChecksMax THEN WinOf(Opponent(c))
    ELSE IF kind = "quiet" /\ ~isPrevMoveCheck /\ effectiveMoves + 1 > EffectiveMax
         THEN "Drawn"
    ELSE "InProgress"

DetectLongGameAndPerpetualCheck(c, kind) ==
    /\ checks' = [checks EXCEPT ![c] = IF kind = "check" THEN @ + 1 ELSE 0]
    /\ effectiveMoves' = IF kind = "quiet" /\ ~isPrevMoveCheck
                         THEN effectiveMoves + 1 ELSE effectiveMoves
    /\ isPrevMoveCheck' = (kind = "check")

AcceptMove(p, kind) ==
    /\ ~crashed
    /\ p \in allPlayers
    /\ status \in {"Ready", "InProgress"}
    /\ seat[nextColor] = p
    /\ moves < MaxMoves
    /\ moves = 0 => \A c \in Colors : PlayedGames(seat[c]) < MaxGames
    /\ moves' = moves + 1
    /\ nextColor' = Opponent(nextColor)
    /\ IF kind = "mate"
       THEN UNCHANGED <<checks, effectiveMoves, isPrevMoveCheck>>
       ELSE DetectLongGameAndPerpetualCheck(nextColor, kind)
    /\ LET verdict == Verdict(nextColor, kind)
       IN  IF verdict \in Over
           THEN OnGameEnded(verdict)
           ELSE /\ status' = verdict
                /\ UNCHANGED <<drawPlayerId, ledgerVars, crashed>>
    /\ UNCHANGED <<seatVars, gameType>>

(* Mutant: the status is not asked.                                        *)
ResignAnyTime(p) ==
    /\ ~crashed
    /\ p \in allPlayers
    /\ moves > 0
    /\ IsSeated(p)
    /\ OnGameEnded(WinOf(Opponent(ColorOf(p))))
    /\ UNCHANGED <<seatVars, gameType, boardVars>>

(* handleResignRequest *)
Resign(p) ==
    /\ ~crashed
    /\ p \in allPlayers
    /\ status = "InProgress"
    /\ IsSeated(p)
    /\ OnGameEnded(WinOf(Opponent(ColorOf(p))))
    /\ UNCHANGED <<seatVars, gameType, boardVars>>

(* handleDrawRequest: the first request, and the one that agrees to it.    *)
(* A second request of the same player changes nothing.                    *)
OfferDraw(p) ==
    /\ ~crashed
    /\ p \in allPlayers
    /\ status = "InProgress"
    /\ IsSeated(p)
    /\ drawPlayerId = NoPlayer
    /\ drawPlayerId' = p
    /\ UNCHANGED <<seatVars, status, gameType, boardVars, ledgerVars, crashed>>

AgreeDraw(p) ==
    /\ ~crashed
    /\ p \in allPlayers
    /\ status = "InProgress"
    /\ IsSeated(p)
    /\ drawPlayerId \notin {NoPlayer, p}
    /\ OnGameEnded("Drawn")
    /\ UNCHANGED <<seatVars, gameType, boardVars>>

(* handleResetRequest.  RED of a game not yet begun gives up the first     *)
(* move: the two players switch seats.                                     *)
SwitchSeats(p) ==
    /\ ~crashed
    /\ p \in allPlayers
    /\ status = "Ready"
    /\ seat["Red"] = p
    /\ seat' = [c \in Colors |-> seat[Opponent(c)]]
    /\ UNCHANGED <<allPlayers, status, gameType, boardVars, drawPlayerId,
                   ledgerVars, crashed>>

(* Mutants: a started game may be reset; the counts survive the reset.     *)
MayAlwaysReset(p) == IsSeated(p)

ResetMovesOnly ==
    /\ moves' = 0
    /\ nextColor' = "Red"
    /\ UNCHANGED <<isPrevMoveCheck, effectiveMoves, checks>>

MayReset(p) == ~Started /\ IsSeated(p)

(* _onGameReset: a finished game, or one with a single move.               *)
ResetBoard ==
    /\ moves' = 0
    /\ nextColor' = "Red"
    /\ isPrevMoveCheck' = FALSE
    /\ effectiveMoves' = 0
    /\ checks' = [c \in Colors |-> 0]

ResetGame(p) ==
    /\ ~crashed
    /\ p \in allPlayers
    /\ MayReset(p)
    /\ status \notin {"Open", "Ready"}
    /\ status' = UpdatedStatus("Open", seat)
    /\ drawPlayerId' = NoPlayer
    /\ ResetBoard
    /\ UNCHANGED <<seatVars, gameType, ledgerVars, crashed>>

(* handleUpdateRequest: RED, or BLACK while there is no RED.               *)
Update(p, type) ==
    /\ ~crashed
    /\ p \in allPlayers
    /\ status \in {"Open", "Ready"}
    /\ \/ seat["Red"] = p
       \/ seat["Black"] = p /\ seat["Red"] = NoPlayer
    /\ gameType' = type
    /\ UNCHANGED <<seatVars, status, boardVars, drawPlayerId, ledgerVars, crashed>>

(* checkTimeoutOnMove, called by hoxTableMgr::manageTables.                *)
TimeoutOnMove ==
    /\ ~crashed
    /\ Started
    /\ OnGameEnded(WinOf(Opponent(nextColor)))
    /\ UNCHANGED <<seatVars, gameType, boardVars>>

Next ==
    \/ \E p \in Players :
         \/ \E c \in Colors \cup {"None"} : Join(p, c)
         \/ LeaveLosing(p)
         \/ Leave(p)
         \/ \E kind \in {"mate", "check", "quiet"} : AcceptMove(p, kind)
         \/ Resign(p)
         \/ OfferDraw(p)
         \/ AgreeDraw(p)
         \/ SwitchSeats(p)
         \/ ResetGame(p)
         \/ \E type \in {"Rated", "NonRated"} : Update(p, type)
    \/ TimeoutOnMove

Spec == Init /\ [][Next]_vars
-----------------------------------------------------------------------------
(* Properties.                                                             *)

(* Seating: nobody sits on both sides (assignPlayerAs, SwitchSeats), seats *)
(* belong to players at the table, and _updateStatus has kept OPEN and     *)
(* READY in step with the two seats whatever joined, left or was reset.    *)
Seating ==
    /\ BothSeated(seat) => seat["Red"] # seat["Black"]
    /\ \A c \in Colors : seat[c] # NoPlayer => seat[c] \in allPlayers
    /\ status = "Ready" => BothSeated(seat)
    /\ status = "Open"  => ~BothSeated(seat)

(* A game that has not begun starts from a clean board: no path to OPEN or *)
(* READY (_onGameReset, _updateStatus) leaves a move, a check count, an    *)
(* effective move, BLACK to move, or a draw offer from an earlier game.    *)
FreshBoard ==
    /\ status \in {"Open", "Ready"} =>
        /\ moves = 0 /\ nextColor = "Red"
        /\ ~isPrevMoveCheck /\ effectiveMoves = 0
        /\ \A c \in Colors : checks[c] = 0
    /\ drawPlayerId # NoPlayer => status = "InProgress"

(* The limits of _detectLongGameAndPerpetualCheck end the game at once, in *)
(* the right way: the perpetual checker has lost, a long game is drawn,    *)
(* and until the reset nothing turns that result into another one.         *)
LimitsEndTheGame ==
    /\ \A c \in Colors : checks[c] > ChecksMax => status = WinOf(Opponent(c))
    /\ effectiveMoves > EffectiveMax => status = "Drawn"

(* What the database is told (set_player_info) adds up to what the server  *)
(* holds in memory: replaying the requests gives every player's results,   *)
(* and his last request carries his current score.                         *)
SavedMatchesLedger ==
    \A p \in Players :
        LET mine == {i \in DOMAIN saved : saved[i].id = p}
        IN  /\ \A l \in Letters :
                results[p][l] = Cardinality({i \in mine : saved[i].result = l})
            /\ score[p] = IF mine = {} THEN InitialScore[p]
                          ELSE saved[CHOOSE i \in mine : \A j \in mine : j <= i].score

(* A game is paid for once, when it ends: results and scores change only   *)
(* in the step that ends a rated game, for the two players seated then,    *)
(* neither of them a guest, and what one gains in score the other loses.   *)
LedgerStep ==
    <<results, score>>' # <<results, score>> =>
        /\ status \notin Over /\ status' \in Over
        /\ gameType = "Rated"
        /\ LET r == seat["Red"]
               b == seat["Black"]
           IN  /\ {r, b} \subseteq Players \ Guests /\ r # b
               /\ score'[r] + score'[b] = score[r] + score[b]
               /\ \A p \in Players \ {r, b} :
                     results'[p] = results[p] /\ score'[p] = score[p]
PaidOnce == [][LedgerStep]_vars

(* A result stands until the table is reset for a new game: no resignation,*)
(* timeout, draw, leave or change of seats alters it.                      *)
ResultStep ==
    status \in Over => \/ status' = status
                       \/ status' \in {"Open", "Ready"} /\ moves' = 0
ResultStands == [][ResultStep]_vars

(* A started game is played out: once both players have moved, it ends     *)
(* with a result; neither a reset nor empty seats cancel it.               *)
PlayStep ==
    Started => \/ status' \in Over
               \/ status' = "InProgress" /\ moves' \in {moves, moves + 1}
PlayedOut == [][PlayStep]_vars

(* The table implements a game (HoxGame): whatever seats, offers, resets,  *)
(* leaves and timeouts do, a started game ends with one result, that       *)
(* stands, and pays at most once.                                          *)
Phase ==
    IF status \in {"Open", "Ready"} THEN "waiting"
    ELSE IF status \in Over THEN "over"
    ELSE IF moves >= 2 THEN "started" ELSE "begun"
Outcome == IF status \in Over THEN status ELSE "none"

Game == INSTANCE HoxGame WITH phase <- Phase, result <- Outcome, games <- results
GameSpec == Game!Spec

-----------------------------------------------------------------------------
(* What comments of the code say and the code does not do.                 *)

(* hoxTable.cpp, handleDrawRequest: "Otherwise, both two players agree to  *)
(* draw."  A draw by agreement needs the offer of one who still plays.     *)
DrawStep ==
    status = "InProgress" /\ status' = "Drawn" /\ moves' = moves =>
        IsSeated(drawPlayerId)
DrawsAreAgreed == [][DrawStep]_vars

(* hoxEnums.h, E_SCORE: every new score is told to the players.            *)
ScoresAreTold == scoreShown = score

(* hoxTable.cpp, onLeave_FromPlayer: "If the Player is playing, then he    *)
(* loses this game."  Whoever gives up a seat of a started game loses.     *)
DesertStep ==
    \A c \in Colors :
        Started /\ seat[c] # NoPlayer /\ seat'[c] # seat[c] => status' = WinOf(Opponent(c))
DeserterLoses == [][DesertStep]_vars

(* hoxTable.cpp, handleResignRequest: "If the Player is playing, then he   *)
(* loses this game."  The server survives a resignation and records it.    *)
ResignStep == \A p \in Players : Resign(p) => ~crashed'
ResigningLoses == [][ResignStep]_vars
=============================================================================
