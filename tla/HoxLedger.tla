------------------------------ MODULE HoxLedger ------------------------------
(***************************************************************************)
(* What the server and the database of players promise about results, with *)
(* no threads, sockets or locks: a result that is recorded is due, results *)
(* are settled one by one in the order in which they were recorded, and a  *)
(* settled result changes the score and the count of one player together,  *)
(* or nothing.  A process that ends loses what is due.  An account is      *)
(* opened once if the database lets no second row of a player in.          *)
(***************************************************************************)
EXTENDS Integers, Sequences

CONSTANTS
    Vps,          \* the processes that record results
    Players,
    Owners,       \* who may open an account
    Registered,   \* the players who have an account from the start
    NewScore,     \* NEW_PLAYER_SCORE
    None

VARIABLES
    due,          \* the results of each process that are not settled
    rows,         \* the accounts: the rows of each player, oldest first
    unique        \* whether a player has one row at most

Letters == {"W", "D", "L"}

Row(score, results, owner) == [score |-> score, results |-> results, owner |-> owner]
NewRow(owner) == Row(NewScore, [l \in Letters |-> 0], owner)

(* UPDATE players SET score = .., wins = wins+1 WHERE pid = ..             *)
UpdatedRow(old, s) ==
    Row(s.score, [old.results EXCEPT ![s.result] = @ + 1], old.owner)
Applied(s) ==
    LET old == rows[s.pid]
    IN  [rows EXCEPT ![s.pid] = [i \in DOMAIN old |-> UpdatedRow(old[i], s)]]

Init ==
    /\ due = [v \in Vps |-> <<>>]
    /\ rows = [p \in Players |-> IF p \in Registered THEN <<NewRow(None)>> ELSE <<>>]
    /\ unique \in BOOLEAN

(* The results of one game, of its two players.                            *)
OneGame(s, t) ==
    /\ s.pid # t.pid
    /\ <<s.result, t.result>> \in {<<"W", "L">>, <<"L", "W">>, <<"D", "D">>}

(* A game has ended: two results more are due.                             *)
Record(v) ==
    LET n == Len(due[v])
    IN  /\ Len(due'[v]) = n + 2
        /\ OneGame(due'[v][n + 1], due'[v][n + 2])
        /\ due' = [due EXCEPT ![v] = due[v] \o <<due'[v][n + 1], due'[v][n + 2]>>]
        /\ UNCHANGED rows

(* The oldest result is settled, or refused.                               *)
Settle(v) ==
    /\ due[v] # <<>>
    /\ due' = [due EXCEPT ![v] = Tail(due[v])]
    /\ rows' \in {rows, Applied(Head(due[v]))}

(* An account is opened; once, if the player's rows are unique.            *)
Open(p, o) ==
    /\ unique => rows[p] = <<>>
    /\ rows' = [rows EXCEPT ![p] = Append(@, NewRow(o))]
    /\ UNCHANGED due

Lose(v) ==
    /\ due[v] # <<>>
    /\ due' = [due EXCEPT ![v] = <<>>]
    /\ UNCHANGED rows

Step ==
    \/ \E v \in Vps : Settle(v) \/ Lose(v) \/ Record(v)
    \/ \E p \in Players, o \in Owners : Open(p, o)

Next == Step /\ UNCHANGED unique

Spec == Init /\ [][Next]_<<due, rows, unique>>
=============================================================================
