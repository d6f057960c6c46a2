# A TLA+ model of hoxServer

hoxServer is a Xiangqi (Chinese chess) server in C++: one process of
cooperative threads (SGI State Threads) that keeps sessions, tables and games
in memory, a watchdog that forks and replaces such processes, and a program,
`dbagent`, that keeps the players in SQLite. Its repository also holds the
engines that play for the robots of the client. This directory holds TLA+
modules translated from its sources, the configurations TLC checks them with and
the theorems TLAPS proves about them. Paths below are relative to `src/`.

## 1. The system

| Part | State it keeps | Operations | Correct when |
|---|---|---|---|
| `hoxTable` (server/hoxTable.cpp) | seats, everybody at the table, status, moves, draw offer, counters of checks and quiet moves, timers | join, leave, move, resign, draw, reset, update, timeout | seats and status agree; a result is recorded once, stands until the reset, and nothing of a game reaches the next one |
| Elo rating (hoxTable.cpp:35-142, 879-922) | none | change of a rating after a game | the right sign, the opposite change from both sides, a point at most from the formula |
| table clock (hoxTable.cpp:550-602, 670-714; session.cpp:412-426) | time left of both sides, time of the last move, expiry of the next | move, tick, timeout check, show | a player loses on time exactly when his time is used up, and sees the time he is charged |
| `hoxTableMgr`, `hoxPlayer` | tables by id, free ids; the tables of each player | new, join, leave, leave all, clean-up | ids are unique for life; tables and players agree on who is where |
| `hoxSession` (persistent, Flash) | state, connection, read and write thread, queue of events | login, resume, event loop, write thread, close, shutdown | one live session per player, served by one connection and one writer; no wait without end |
| `hoxSessionMgr` | all sessions by id | create, find, close and delete, expire, purge, post an event | a session in use is listed; one that is shut down goes |
| polling sessions (HTTP) | queue of events | one request per connection | no event lost between two polls |
| `hoxReferee` | board, pieces, next colour | validate a move, detect check and mate | exactly the legal moves; a refused move leaves no trace |
| `hoxDbClient` and `dbagent` | socket with a lock, queue of saves; the players' rows | get, put, set, log, read a file | every saved result arrives once and in order |
| server/main.cpp | pids of the processes, counters of waiting and busy threads | fork, restart, accept | as many processes and threads as configured |
| `hoxFileMgr`, `hoxSocketAPI`, `hoxUtil`, `hoxTypes`, `hoxLog` | file cache, pending log lines | read and write lines, parse, format, log | - |
| `plugins/AI_*` (XQWLight, HaQiKi D, TSITO, Folium, MaxQi) | a position kept in several forms (squares, piece lists, keys, values), tables of the search | set up, follow a move, answer with a move | the forms agree after any game; the moves are those of the rules; a mate is taken and not walked into |
| `hoxTest`, `tests` | clients of the server | - | - |

How they interact: a connection thread (`handle_session`) logs a player in,
which finds, resumes, replaces or creates his session, and then runs the
session's event loop; a request reaches `hoxPlayer`, which calls the table; the
table posts events to the sessions of everybody at it, which their write
threads send, and queues the new scores with `hoxDbClient`. The session manager
wakes every five seconds, the table manager every second. Each server process
has one socket to `dbagent`, used in turn under a lock by its logins,
registrations, file requests, log flushes and the thread that writes scores.
The watchdog and the processes talk by signals; a process turns each signal into
a number in a pipe, which one of its threads reads. The engines live in the
client: a robot's engine is told every move of the table and asked for its own.

What is hard: every read, write, sleep, lock and condition gives up the
processor, so a handler that waits finds the shared state changed; sessions are
torn down by four kinds of threads; timers are decided on by one thread and
charged by another; tables live through any sequence of requests, games and
seat changes; saves are asynchronous and carry what a session remembers;
processes crash, and signals come while they are being forked; arithmetic on
ratings and timers truncates; and an engine that keeps its position in four
forms must change all of them with every move, captures, null moves and undoing
included. The hazards are listed in PROJECT.json, each at its line.

## 2. Modules

| Module | Models | Lives in |
|---|---|---|
| `HoxElo` | the rating change, IEEE single precision included, as integer arithmetic on multiples of 2^-26 | operators only |
| `HoxTable` | one table and its games; uses `HoxElo` | a state machine |
| `HoxTableMgr` | table ids, tables and membership | a state machine |
| `HoxClock` | the timers of one table | a state machine with time |
| `HoxReferee` | the board, the moves of the pieces, check and mate | a state machine over one board |
| `HoxSession` | the sessions of one player, their threads, the session manager | a state machine of cooperative threads |
| `HoxGame` | what a table promises about its games, seats and moves left out | an abstract specification, implemented by `HoxTable` |
| `HoxDb` | the database clients of all processes, their lock, socket and write thread, and the agent | a state machine of threads and processes |
| `HoxLedger` | what the server promises about results and accounts, threads and sockets left out | an abstract specification, implemented by `HoxDb` |
| `HoxPool` | the connection threads of one process | a state machine of cooperative threads |
| `HoxWatchdog` | the watchdog, its processes, their signals and log files | a state machine of processes |
| `HoxXQWLight`, `HoxHaQiKiD`, `HoxTsito`, `HoxFolium` | four engines: position, moves, values, search | operators over one position and the actions of the plugin |
| `HoxPieceSquares` | the values of pieces on squares that three of them share | operators only |
| `MCEngines` | one game, refereed by the rules written afresh, that all four follow | a state machine; TLC only |
| `Hox...Proofs` | the theorems about each | TLAPS proofs |
| `MCHox...` | constants for TLC | TLC only |

### HoxTable

One action per request handler: `Join` (`assignPlayerAs`), `LeaveLosing` and
`Leave` (`onLeave_FromPlayer` in and outside a started game), `AcceptMove`,
`Resign`, `OfferDraw` and `AgreeDraw` (the branches of `handleDrawRequest`),
`SwitchSeats` and `ResetGame` (those of `handleResetRequest`), `Update`,
`TimeoutOnMove`. No handler waits, so each is one step; `OnGameEnded`,
`RecordGameResult`, `DetectLongGameAndPerpetualCheck` and `ResetBoard` are the
private functions they call. `seat` is `_redPlayer` and `_blackPlayer`;
`saved` is the sequence of calls to `hoxDbClient::set_player_info`;
`scoreShown` what the last `E_SCORE` told; `crashed` a dereferenced NULL seat.
The referee's verdict on a move is an input: `"mate"`, `"check"` or `"quiet"`;
a refused move changes nothing and has no action. A timeout may strike at any
moment of a started game; when it may is the business of `HoxClock`.

`Game == INSTANCE HoxGame WITH phase <- Phase, result <- Outcome, games <-
results` is the refinement: `Phase` is "waiting" without a move, "begun" after
the first, "started" after the second, "over" with a result. `GameSpec`
says that a game once started ends only with a result, that the result stands
until the table is cleared, and that it pays two different players once, one's
gain being the other's loss.

### HoxClock

`time` is `_redTime` and `_blackTime`. Time stamps are kept relative to the
present: `elapsed` is `now - _lastMoveTime`, `left` is `_nextMoveExpiry - now`,
and `Tick` is a second. `Move` charges the mover and starts the next turn
(`_resetMoveTimers`); `CheckTimeout` is one look of the table-manager thread.
Both ends of a game by other causes are `EndGame`. `ShownTime` is
`getCurrentTimers`.

### HoxTableMgr

`tableMap` maps ids to table objects, so a table taken out of the map and one
created later under the same id are told apart; `allPlayers` is a table's side
of the membership and `tables` the player's. `RunCleanup` purges the tables
without players and frees their ids in the order of the map, which sorts ids as
strings and therefore is any order here. It is called when a session is closed.

### HoxSession

The threads are cooperative: `turn` names the thread that has not yet given up
the processor, a step that waits sets it to `None`, and only when no thread is
`Ready` may `Poll` deliver I/O and timers. A connection, its thread, and the
session and first write thread it makes share a name. The actions follow the
code between two waits: the login up to the database call (`ReadLogin`),
its answer (`DbAnswer`), creation, resumption (`Resume`, `WaitReader`,
`Resumed`) or replacement (`Replace`, `Replaced`), the event loop (`LoopTest`,
`HandleRequest`, `Disconnect`), closing (`CloseIO`, `Joined`), the end of the
connection (`LeaveAndDelete`, `Leave`, `Deleted`), the write thread
(`WriterRuns`, `WriterWaits`, `WriterTakes`, `Written`, `WriterEnds`), and the
manager (`Purge`, `Expire`, `Advanced`, `ScanDone`). `fault` is a NULL handed to
`st_read` or `st_write`, or an iterator that was advanced after its element was
erased. `guest` is fixed at the start: a guest needs no database and resumes
nothing; `Guests` says which players a run looks at. Two constants choose what
else happens: `Overlap` (a login may come while another connection is served)
and `SlowClients` (a write may block).

### HoxReferee

`board` is `BoardInfoAPI::Board`: `cells` is `m_cells`, `pos` the positions the
pieces know of themselves, `active` and `dead` are `m_pieces` and
`m_deadPieces`. `Set`, `Unset`, `Capture`, `MovePieceTo`, `Putback`, `Record`
and `Undo` are the private functions of `Board`, with their `hoxCHECK_RET`s,
which log and return. `Accept` and `Refuse` are the two ways through
`ValidateMove`; the requests it refuses before it touches the board have no
action. A trial move of `Simulation_IsValidMove` is an operator
(`SimulatedValid`): it gives up no processor, and `UndoRestores` proves that
nothing of it stays. A move comes as four characters, each minus `'0'`, so
targets reach beside the board. `Starts` are the positions a game is taken up
from, the opening or positions reached later; in each the side that has just
moved is not in check (`StartsAssumption`).

### HoxDb and HoxLedger

The threads of a process are cooperative and the processes run in parallel.
`Ask` takes `s_mutex` or queues for it (`lockq`), and `Release` hands it on. What
a thread does is `task`: a login (`StartLogin`, `LoginAnswered`, `Admit`), a
registration, which asks for the name and puts it in two requests
(`StartRegister`, `NameAnswered`, `RegisterAnswered`), a file (`StartFile`,
`FileAnswered`, `BodyRead`), a flush of the log (`StartFlush`, `FlushAnswered`)
and SIGTERM (`StartTerm`, `Exit`), which flushes the log and exits without the
queue. `EndGame` is what `HoxTable` does to the scores: two entries in `queue`,
with the scores the sessions remember (`mem`); `WriterTakes`, `WriterWaits` and
`WriterAnswered` are the write thread. `toAgent`, `work` and `fromAgent` are the
two directions of the socket and the request in the hands of the agent's thread
(`AgentReads`, `AgentAnswers`, `AgentCloses`); SQLite may refuse a statement as
busy when two of those threads work at once, and the agent then answers with an
error. `rows` holds the rows of each pid in the order in which they were inserted:
`Inserted` adds one whatever rows there are (the INSERT of hoxDBAPI.cpp:80 makes no
check of its own), `Updated` changes every row of the pid, `Selected` reads the
first (`LIMIT 1`). The schema of the table is not in the repository. Whether it
declares pid unique is the variable `unique`, which `Init` leaves open and nothing
changes; if it does, SQLite refuses the second row (`Refused`, external). All runs and
theorems cover both. That the columns `wins`, `draws` and `losses` start at
zero, which an INSERT without them leaves to the schema too, is assumed (`NewRow`).

`NameIsHis` says what REGISTER keeps: whoever was told that a name is his has a row
of his own under it, which nothing takes away, and with a unique pid it is the only
row. The first question of REGISTER contributes nothing to that: another
registration may come between it and the INSERT, and the INSERT follows also when the
question was answered with an error, a busy database for example. What counts is
that SQLite refuses and that the refusal is looked at. Without a unique pid both
registrations are confirmed (`NameGivenOnce`, section 3); the second client has then
an account that no SELECT finds, and the password of the first row decides who logs
in.

Answers carry the name of who asked so that `OwnAnswer` can speak of it;
the program does not see it.

`Ledger == INSTANCE HoxLedger WITH Owners <- Threads`, with `due`, the saves of a
process on their way and in its queue. `LedgerSpec` says that results are settled
one by one, in order, at most once, each for one player and completely or not
at all, that an account is opened once if pid is unique (`unique` is a variable of the
ledger, too), and that a process which ends loses what is due.

### HoxPool

`set_thread_throttling` becomes the constants' arithmetic (`AllThreads`,
`AllWait`, `Share`, `MinWait`); `Accept` and `Finish` are the two halves of the
loop in `handle_connections` around a session, each with its test of the
counters. `fails` counts the threads that could not be created. `AcceptFails`, in
`SpinningSpec` only, is `st_accept` out of descriptors: the loop goes on without
ever waiting.

### HoxWatchdog

`ForkFirst`, `ForkFirstFails` and `BeginWaiting` are the first part of
`start_processes`, `Reap`, `Refork`, `ReforkFails` and `NoChildLeft` its loop
around `wait()`. A process has the signal handling of its parent until
`InstallSighandlers`; then `ChildSighandler` writes into its pipe and
`ProcessSignal` reads it. A pipe holds `PipeSize` signals; a handler that cannot
write makes the process exit. `Crash` is a process that dies, `Fault` one whose
handler of SIGSEGV returns to the faulting instruction. Log files are
generations: SIGHUP renames them (`rotated`), and a process writes to the ones
it opened last. `EarlySpec` adds the signals that arrive before the handlers of
the watchdog are installed.

### The engines

An engine is a record of what its position consists of, and operators in the
order of its code: generate, make, undo, evaluate, search. A board is the function
of its occupied squares, a hash key the set of what has been exclusive-ored into
it: two positions have one key only if they have one board. Everything else is
kept and changed incrementally as in the program, so that `BooksAgree` may compare
it with what the board gives. The recursion of the searches is that of the code,
with null moves, extensions by check, repetitions, killers, histories and hash
tables where the engine uses them.

What the program leaves open is a parameter: `Noises` (XQWLight adds a random
number to a value at the root), `Jitter` (HaQiKi D does in the first moves),
`Garbage` and `Stray` (HaQiKi D reads a move that was never set and a square
beside its board), `Book` (XQWLight's opening book), `Wide` (whether
TSITO's keys have 32 or 64 bits). HaQiKi D stops by the clock and is stopped
after any number of moves at the root; XQWLight's depth and Folium's rounds are
arguments, TSITO always searches two plies.

`MCEngines` holds the rules of the game a second time, as sets of moves on a
coordinate board, and translates to each engine's numbering. `Play` is a move of
anyone that all engines are told (`onHumanMove`); `XThink`, `QThink`, `TThink`
and `FThink` ask one engine and tell the others.

## 3. What TLC checks

| Run | Configuration | Question | Distinct states |
|---|---|---|---|
| `table` | two rated players 200 points apart, a guest, five moves, two games, limits 1 and 2 | seats, limits, results, payments; the abstract game | 190 584 |
| `elo` | all differences up to 401, ratings and games at and beside each threshold | the sign of a change, the same change from both sides | 21 681 |
| `table_mgr` | three players, five tables created | ids and membership | 34 696 |
| `clock` | four settings of the timers, six moves, six seconds | expiry, charges, what is shown, turns end | 4 239 |
| `referee` | three endgames of ten pieces, two moves each, targets beside the board | the two books of the board, moves against the rules, kings, mate, undoing | 2 116 |
| `session` | two connections in turn, with resumption | one session, one writer, every wait ends | 66 273 |
| `session_overlap` | two connections of a player or a guest at once, slow clients | an active session is served by a live connection; nothing of a guest's that was deleted is used again, no ghost at a table | 2 412 846 |
| `session_dangling` | two connections in turn | the manager's iterator | stops at the violation |
| `db` | two processes, three threads with login, registration of one name, file, flush and SIGTERM, two tasks, one game, pid unique or not | answers go to who asked, whoever was confirmed a name has a row, alone if pid is unique, results arrive in order and at most once, nobody waits for ever | 210 608 |
| `pool` | five clients, five threads, two processes sharing 8 threads of which 6 wait, one thread that cannot be created | the counters, the limits, every client is accepted | 85 480 |
| `watchdog` | two processes, nine pids, a crash, two failed forks, three signals, a pipe of one | no child lost, the dead replaced, SIGTERM ends all, SIGHUP reaches all | 127 666 |
| `engines` | two endgames of eight and nine men and the opening, two plies, four engines | their moves are those of the rules, their books those of the board, their answers sound | 310 |

Bounds, and why they suffice. *Table*: `ChecksMax` and `EffectiveMax` stand for
6 and 200; with 1 and 2 both limits are met and passed within five moves, and
either may be met together with mate. Two games show everything one game can
leave to the next. Three players give every seating, an observer, a newcomer to
an emptied seat and a game with a guest. *Elo*: beyond 350 the table has one
row; 401 takes in differences on both sides of each threshold, and 0, 29, 30
games and 1500, 2399, 2400 points are both sides of each limit of the K-factor.
*Table manager*: five creations let an id be freed, reused and freed again
while another gap is open. *Clock*: the settings make the time for the move,
the game time and the free time run out first in turn, and the horizon is two
seconds beyond the longest turn. *Referee*: the endgames hold every kind of
piece, RED and BLACK pawns on both sides of the river, and stand one or two
moves before mates of both sides, captures, pins and the meeting of the kings;
what a move does to the board concerns the moved piece and the captured one
only, and whether a piece may move is compared with the rules for each piece
and each square in each of the 2 116 positions. The opening with 32 pieces
takes too long. *Session*: two connections are what a login
meets at most at a time: the session found and the one made. A third would show
what an old interrupt does to a thread that has gone on to another connection;
it is out of reach and not claimed. HOXCHESS clients may resume a session and
TEST clients delete theirs when the connection ends; FLASH clients do neither,
which the steps of a guest with HOXCHESS show as well, so the large runs leave
them out.

*Database*: the two tasks may be any two of the three threads', in one process or
in two, so that two registrations of a name, a login beside a save, a file or a
flush beside either, and SIGTERM in the middle of each all meet; the game's two
saves are queued while they run. A third task would only lengthen the queue for
a lock that is handed on first come first served. *Pool*: four threads a process
may have, two it keeps waiting and three it starts with are reached, passed
and refused with five clients. *Watchdog*: two slots are needed for one
fork to fail and the other to live; a pipe of one overflows with the second
signal; two failed forks give up one slot or both; the three kinds of signals
come once each or one of them repeatedly. Nine pids are not used up: two
processes, and one for each death within the other bounds.
*Engines*: between them the endgames
hold men of every kind, and stand one or two moves before mates and exchanges;
the opening has the book. A position of the endgames has
some thirty moves, the first of which is any, and each engine answers in each
(TSITO, which always searches two plies, at the start and after an engine's move).
Folium's search has at least three rounds in the program; the run takes two.

The runs of `HoxSession` switch off the deadlock check because the server stops
at a fault and because nobody need connect again; those of `HoxTable` because
it stops at a NULL dereference; those of `HoxDb`, `HoxPool`, `HoxWatchdog` and
`MCEngines` because tasks, clients, pids and moves run out, a server is stopped by
SIGTERM, and a game ends.

Fairness. `HoxClock`: time passes and the table-manager thread comes back after
each sleep (`WF` on `Tick` and on `CheckTimeout`); clients owe nothing.
`HoxSession`: State Threads runs its ready threads in the order they became
ready, so a thread or the manager that stays ready runs (`WF`); a write thread
may be made ready and unready by others, but each time it is ready it is in the
queue (`SF`); and a timer that is set goes off although other events do so too
(`SF` on the polls that wake the manager). Clients need not send anything; the
runs with liveness assume clients that read (`SlowClients = FALSE`), since
`st_write` has no timeout.
`HoxDb`: a thread of the server that can go on does, and the agent answers while
it lives (`WF` on each thread, each write thread and each agent's thread); the lock
needs no `SF`, it is handed on in order. `HoxPool`: accepting threads run (`WF`); a
session may last for ever. `HoxWatchdog`: the kernel runs the processes and
delivers signals that are not blocked (`WF` on each); nobody need send one.

### Configurations TLC refutes

Beside `session_dangling` these configurations, which are not in the list of
runs, state what one would expect and the code does not keep; TLC prints the
behaviour:

- `TableDraw.cfg`, `TableResign.cfg`, `RefereeKings.cfg`: the disagreements 1, 2 and
  4 below.
- `TableScore.cfg`, `ScoresAreTold`: a `break` is missing after the draw in
  `_recordGameResult` (hoxTable.cpp:861), so scores that a draw between players
  of different ratings changes are saved but no `E_SCORE` is sent
  (hoxEnums.h:95: "Event generated to inform of a player's new Score.").
- `EloExact.cfg`, `ExactWhenWhole`: where the formula gives a whole number the
  float product may be just below it and is truncated to one less.
- `ClockLate.cfg`, `LateMoveLoses`: between the expiry and the manager's next
  look `acceptMove` takes the late move.
- `DbTwoRows.cfg`, `NameGivenOnce`: with a schema that does not declare pid unique
  two registrations that both found the name free are both confirmed, in one
  process or in two. session.cpp:100 says "Check if the Player's ID has been taken";
  nothing in the repository makes the check and the INSERT one step.
- `DbScore.cfg`, `ScoreKept`: a save carries the score the session remembers. A
  login that reads the row while a save of the same player is still queued
  remembers the old score, and his next game overwrites the new one.
- `DbInterrupt.cfg`, `OwnAnswer` with `Interrupt`: a thread interrupted while it
  waits for the lock goes on without it, one interrupted while it reads leaves
  its answer to the next.
- `DbEmptyFile.cfg`, `AllServed` with files of no bytes: `read_nbytes` waits for a
  byte before it compares the size, and keeps the lock.
- `PoolFails.cfg`, `Accepted` with two threads that cannot be created: a pool
  that has lost its spare threads does not try again while its last thread
  serves.
- `PoolSpins.cfg`, `NobodySpins`: without descriptors `st_accept` fails at once,
  and the loop never waits.
- `WatchdogReplaced.cfg`, `Replaced`: after a failed fork the slot is given up,
  although processes are said to be replaced when they die.
- `WatchdogEarly.cfg`, `TermEndsAll` with signals before the handlers: the
  watchdog dies alone, and its processes live on.

Some more are stated in the modules and refuted when put in place of the
property of a configuration: `MovesArePlayed` (a PROPERTY, in `RefereeKings.cfg`): the
disagreement 5 below. `DeserterLoses` (in `TableDraw.cfg`): a seated player
who joins his own table as observer during a game gives up his seat without
losing, and the game goes on against an empty seat (hoxTable.cpp:620-624).
`ShownRunsOut` (an invariant, in `ClockLate.cfg`): `getCurrentTimers`
(hoxTable.cpp:584) counts the elapsed time only from the third move on, the
expiry runs from the second: during the third move the timers shown stand still,
and a game is lost with the full time shown. `OneSession` and `OneWriter` (in
`SessionOverlap.cfg`): two logins that wait for the database together both find
no session and both create one; of two threads that close the same session the
second does not wait for the write thread, and a new one is started beside it.

### Disagreements between the code and its comments

The third is the finding of PROJECT.json; the others are the configurations
named above.

1. A draw offer is never withdrawn by moves or by its author leaving his seat,
   so another player's first offer "agrees" (`DrawsAreAgreed`).
2. Resigning against an emptied seat dereferences NULL (`ResigningLoses`).
3. The comment in `manageSessions` says a race is avoided by deleting expired
   sessions in the next run; `handleShutdown` waits inside the loop, and the
   connection's thread erases the element meanwhile (`NoDangling`).
4. `_IsKingFaceKing` takes any piece in the kings' column for one in between, so
   a king with a piece of its own behind it may step in front of the other
   (`KingsApart`).
5. A chariot, cannon, horse, elephant or crossed pawn may "move" to a place
   beside the board: nothing moves, the move is accepted and the turn passes
   (`MovesArePlayed`). `acceptMove` then appends it to the moves of the game.

## 4. What TLAPS proves

For every value of the constants that meets the named assumptions (60 theorems
in eight modules). Liveness is beyond the prover, but much of what makes it true is
safety: that no signal, wake-up, lock or slot is lost on the way. For most of the
properties that TLC checks under fairness that part is proved (the table at the end
of this section).


- `HoxTableProofs`: `TypeOK`, `Seating`, `FreshBoard`, `LimitsEndTheGame`,
  `PaidOnce`, `ResultStands`, `PlayedOut`. `TypeOK` is inductive, but only with
  the lemma that the rating change is an integer (`ChangeIsInt`), which goes
  through the table rows of `HoxElo`. The other invariants are inductive
  together with `TypeOK`; the three action properties use `TypeOK` and, for
  `PaidOnce`, `Seating`: without two different players in the seats the two
  halves of a payment would overwrite each other. `GameCorrect` is the
  refinement: every behaviour of `HoxTable` is one of `HoxGame`. Each handler's
  step is shown to be a step of the abstract game or to leave it alone; that a
  started game never goes back to "waiting" needs `FreshBoard`, that it pays two
  players needs `Seating`. `SavedMatchesLedger` is about a sequence that grows;
  its invariant `Accounts` says of each player that the saves of his games, kept
  in the sequence, count the results and end with the score the server holds, so
  that one step need only look at the two saves it appends. The rating arithmetic
  is proved for every rating difference, rating and number of games. In units of
  2^-26 a constant of the table is off by at most 4 (`FloatNear`) and a product by
  at most 64 (`RoundingNear`), too little to carry the result of a decided game
  past zero (`DecidedChange`). The changes of the two players are opposite
  (`OppositeChanges`) for one of three reasons: the floats of the two percentages
  add up to exactly one; or the formula gives no whole number and truncation
  finds its floor in spite of the errors; or K is 25 and the percentages are 76
  and 24, which is computed. `WinnerGains` and `SidesAgree` of `MCHoxElo` follow,
  and `WithinOnePoint`: the change is never further from zero than the formula of
  the comment, and nearer to zero by a point at most; the module is
  extended together with `HoxTable` for these three. `WinnerPaid` is an action
  property of `HoxTable` that TLC does not check: a recorded win raises the
  winner's rating and lowers the loser's.
- `HoxClockProofs`: `TypeOK`, `ExpiryAgrees`, `FreeTimePerMove`, `FreshClocks`,
  `TimeoutIsDue`, `ShownIsCharged` and `GameTimeFalls`, from one invariant `ClockInv`, which adds to
  the properties that a clock between its turns holds whole free time unless its
  owner has game time left, and that no clock exceeds the settings it started from.
  `GameTimeFalls`: game time is lost by the player's own moves only, from the third
  of a game on, at most what has passed, and nothing in a game gives it back.
- `HoxTableMgrProofs`: `TypeOK`, `IdsPartition`, `MembershipAgrees`,
  `IdsForLife`. `IdsInv` couples types and ids: a new id is in range only
  because used and free ids partition 1..n, and the size of the free list must
  be known for that. `AllInv` adds that objects not yet created have no players.
- `HoxSessionProofs`: `TypeOK` (with `SessKnown`: a thread past its login has a
  session), `ActiveServed` for every combination of `Guests`, `Overlap` and
  `SlowClients`, `OneSession` if connections do not overlap (`ASSUME ~Overlap`;
  TLC refutes it otherwise), and `ActiveListed` and `NoGhost`, which are about
  guests. The strengthening for `OneSession` says where the thread of a connection
  stands and that a session it holds is the only one found. `NoGhost` needs
  `SeatsInv`: a session whose player is at a table is listed, not shut down and
  about to be erased by nobody, or its own thread is on its way to shut it down;
  for that a guest's session is read by the thread that made it (`OwnReader`),
  which never waits for a request of a session it disconnected. `OneWriter` is
  proved for connections that do not overlap and clients that read
  (`ASSUME ~Overlap, ~SlowClients`); TLC refutes it without either: the session
  manager expires a session whose writer hangs in `st_write`, the client leaves,
  the second `st_thread_join` fails and the session is resumed beside the old
  writer. The invariant `WriterInv` tells why nothing else does: a writer that a
  failed join leaves behind has been signalled (`WillEnd`, `Awake`), finds the
  session not active and ends before the next login has its answer from the
  database (`AllEnded`). Under the same two hypotheses `NoLostWakeup` and
  `JoinsCanEnd` hold, from `WakeInv`: with one writer a session its condition has
  one waiter, so that one `st_cond_signal` is enough, and a thread that joins a
  writer has woken it after the state had changed. TLC refutes both when
  connections overlap and clients are slow.
- `HoxRefereeProofs`: `TypeOK`, `BoardAgrees`, `KingsLive`, `NoTrace`,
  `MateIsRight`, `RulesOfPieces`, for any set of pieces with two kings and any
  positions.
  `RecordForm` says in one expression what `_RecordMove` does to a board whose
  books agree, `UndoRestores` that `_UndoMove` is its inverse. `KingsLive` alone
  is not inductive: `MoverSafe` is needed, that the side that has just moved is
  not in check, for then no move reaches its king. `PotentialCovers` says that
  `GetPotentialNextPositions` leaves out no square a piece can move to, from
  which a declared mate is one. `RulesOfPieces` compares two ways to say how a
  piece moves, the code's conditions on coordinates with the squares it collects
  between, and walks step by step; `StraightWalk` and `MiddleWalked` identify the
  squares walked over with those collected, `WalkEnds` where a walk stops.
  `LastMoverSafe` and the action property `MovesAreMoves` say what a game is made
  of: positions in which the side that moved is safe, and moves that displace one
  piece, take one of the other side at most and bring none back.
- `HoxPoolProofs`: `Throttling`, that the limits that `set_thread_throttling`
  computes are in order for any options and any number of processes (rounding up
  keeps `MinWait` at most `MaxWait` and `MaxWait` at most `MaxThreads`); `TypeOK`;
  `Equilibrium`, which rests on `Throttling`; `CountersTrue`, by counting the
  threads in each place; and `NobodyLockedOut`, which follows from the three.
  `NobodySpins` assumes that a process has descriptors for its own files and one
  for each thread (`OwnFds + MaxThreads <= FdLimit`). The limit main.cpp:425
  computes when no option gives one leaves room for that (`DefaultFitsDescriptors`);
  a limit given as an option may not, and PoolSpins.cfg shows what follows.
- `HoxWatchdogProofs`: `TypeOK` and `EveryChildKnown`, for any number of
  processes. The strengthening `TableInv` says that the slots are filled in
  order, that while a dead child is being replaced its slot is the one whose
  process is gone, and that the pids of the table were all forked; without
  the last a new pid might already be listed. From it follow `SlotsFilled` and that
  a slot given up is never filled again; with the injection of children into slots,
  `AtMostVpCount`. `TermNotLost` and `HupNotLost` are inductive together
  (`SignalInv`): a signal pending at the watchdog, pending at a process or in its
  pipe is one that will be handled, and a process forked in between inherits the
  logs of the watchdog that has the signal yet to come.
- `HoxDbProofs`: `TypeOK`, `OwnAnswer`, `NameIsHis` and, as `LedgerCorrect`, the
  refinement of `HoxLedger`, for any number of processes, threads and games. The
  invariant is `DbInv`: what each thread asks for follows from its task
  (`ThreadsAsk`, `WritersAsk`), who reads from the socket holds the lock
  (`LockHeld`), and the two directions of the socket and the agent's hands hold
  together one request of the lock's owner, or the answer to it, or, for a file,
  the size and the body still to come; nothing while nobody reads (`TrafficInv`).
  `OwnAnswer` is read off it. For `NameIsHis` the answer OK to an INSERT on its way
  means that a row of the one who asked is there (`Answering`), and a row once there
  keeps its place and its owner (`RowsNext`); with a unique pid no player has more
  than one (`OneRow`). The theorem supposes nothing about the schema: its two parts
  are for any schema and, under `unique =>`, for one with the key. For the refinement `Hand` says which save a
  write thread carries: from the moment it leaves the queue until the agent
  executes it or the connection breaks. Each step is then a step of the ledger or
  none. `NobodyForgotten` rests on two more invariants: `QueueInv`, that those who
  wait for the lock are the queue of its owner, each once, who is on his way to
  release it; and `ServedInv`, that who reads has his request or its answer on the
  way. It assumes that no file asked for is empty (`0 \notin FileSizes`): of an
  empty one the agent sends the size and no content, and the lock stays with the
  thread that waits for it (DbEmptyFile.cfg). `NoSaveForgotten`: a write thread
  that waits for its condition has an empty queue.

Checked by TLC only:

- liveness, which needs fairness: `TurnsEnd`, `JoinsEnd`, `Purged`, `AllServed`,
  `Accepted`, `ReplacedUnlessGivenUp`, `TermEndsAll`, `LogsFollow`;
- the engines: what a search returns is defined by RECURSIVE operators, about
  which the prover cannot reason; that the engines know the rules and follow the
  game (`EnginesKnowRules`, `EnginesFollow`) is stated in a module that reaches
  those operators.

| Checked under fairness | Proved of it |
|---|---|
| `JoinsEnd` | `JoinsCanEnd`, `NoLostWakeup`, `OneWriter` |
| `AllServed` | `NobodyForgotten`, `NoSaveForgotten` |
| `Accepted` | `NobodyLockedOut`, `NobodySpins` |
| `ReplacedUnlessGivenUp` | `SlotsFilled`, `EveryChildKnown` |
| `TermEndsAll` | `TermNotLost` |
| `LogsFollow` | `HupNotLost` |
| `TurnsEnd` | `ExpiryAgrees` |

## 5. What is not modelled

- Texts of messages, parsing, formatting, logging. Events appear only where a
  property speaks of them (`E_SCORE`, the queue of a session).
- Polling sessions (HTTP) and the reuse of a session by its id (the FIXME in
  session.cpp:284): they share `hoxSessionMgr` with the others, each request is a
  connection of its own, and the interesting cases need a third connection in
  `HoxSession`, which is beyond TLC (two take 2.4 million states).
- `hoxFileMgr`: its cache is a map from names to texts which a request fills;
  `HoxDb` has the request. `hoxSocketAPI` appears as reads and writes that succeed,
  fail or wait.
- In `HoxSession`: the bodies of the handlers (a handler is a point where the
  thread may change who is at a table), waits for the database inside a
  handler, the NULL terminator Flash clients send, the end of a session object's
  life.
- The schema of the players' table, which is not in the repository: see `unique` and
  `NewRow` in section 2.
- In `HoxDb`: the handlers of passwords and profiles on both sides and
  `WWW_authenticate`, which nobody calls. The server never connects to the agent
  a second time (the socket is opened in `initialize` only), so a restart of the
  agent has no action: `AgentCloses` is final.
- `deleteTable` and other operations of `hoxTableMgr` nobody calls.
- Option parsing, daemon set-up and the dump of counters in main.cpp.
- The referee's verdict is an input of `HoxTable`; the two are not composed.
- Engines: MaxQi, one function over global variables that stops by the clock;
  the program HaQiKi D was made from, which is not built; the load generator
  `hoxTest` and the tests. In XQWLight the cap of 256 moves in the history. In
  TSITO the opening book, the quiescence search and the iteration, which the
  plugin switches off. In Folium collisions of keys and the end of its arrays of
  512 plies, which `initGame` alone would reset; the positions of the endgames
  start its record of plies anew, as `initGame` does with the opening (the plugin
  ignores the position it is given). `AI_Folium` does not look at the result of
  `make_move`; every move of the run is legal, so it is never refused there.

## 6. Plan

What is left, in order of worth:

1. `HoxReferee` composed with `HoxTable`: its verdict in place of the input of
   `AcceptMove`, so that a game ends with the board it shows.
2. Polling sessions and reuse by id, in a module that abstracts the write threads
   of `HoxSession` so that a third connection fits.
3. The end of a session object's life, with the raw pointer of its write thread.
4. MaxQi, behind the interface of the other engines.

## 7. Running

    tlc -workers 2 -config Table.cfg MCHoxTable
    tlc -workers 2 -config Pool.cfg HoxPool
    tlapm HoxTableProofs.tla

PROJECT.json names the module and configuration of every run, the source lines
of every definition, and for every property a plausible bug of the code (a
mutant definition beside the original) that breaks it.
