------------------------------- MODULE HoxDb -------------------------------
(***************************************************************************)
(* The way to the database of players: hoxDbClient of each server process  *)
(* (server/hoxDbClient.cpp), the requests of server/session.cpp,           *)
(* hoxFileMgr, hoxLog and hoxTable that go through it, and the agent at the*)
(* other end (dbagent/main.cpp, dbagent/hoxDBAPI.cpp) over SQLite.         *)
(*                                                                         *)
(* A process has one socket to the agent, which its threads use in turn    *)
(* under a lock, and one thread that writes results from a queue.  Its     *)
(* threads are cooperative: a step lasts from one wait to the next.  The   *)
(* agent has a thread for each process; these run in parallel, and SQLite  *)
(* refuses a statement that meets another connection's write.              *)
(*                                                                         *)
(* Where a session stands (HoxSession) and how a game is decided (HoxTable)*)
(* are abstracted: mem holds the score of each player who is logged in, as *)
(* his session remembers it.                                               *)
(*                                                                         *)
(* The schema of the table "players" is not in the repository.  The code   *)
(* relies on two things it may say: that the counts of results start at    *)
(* zero, which is assumed, and that pid is unique, which may be so or not: *)
(* the variable unique, which Init leaves open and nothing changes.        *)
(***************************************************************************)
EXTENDS Integers, Sequences, FiniteSets

CONSTANTS
    Vps,          \* the server processes; each names its write thread, too
    Threads,      \* the other threads that use the database
    Home,         \* the process of each thread
    Players,
    Registered,   \* the players who have an account from the start
    NewScore,     \* NEW_PLAYER_SCORE
    FileSizes,    \* the sizes of the files that are asked for
    Tasks,        \* what each thread may do, and for whom
    LoggedIn,     \* who is logged in at the start, and in which process
    MaxTasks,     \* bound: tasks that begin
    MaxGames,     \* bound: games that end
    None

ASSUME NamesAssumption  == Vps \cap Threads = {} /\ None \notin Vps \cup Threads \cup Players
ASSUME HomeAssumption   == Home \in [Threads -> Vps]
ASSUME ScoreAssumption  == Registered \subseteq Players /\ NewScore \in Nat
ASSUME TasksAssumption ==
    Tasks \in [Threads -> SUBSET ({"login", "register"} \X Players
                                  \cup {"file", "flush", "term"} \X {None})]
ASSUME FilesAssumption  == FileSizes \subseteq Nat
ASSUME LoginAssumption  == LoggedIn \subseteq Vps \X Registered
ASSUME BoundAssumption  == MaxTasks \in Nat /\ MaxGames \in Nat

VARIABLES
    pc,           \* where each thread is
    task,         \* what it does
    req,          \* the request it makes, or made last
    got,          \* the score a login has read
    owner,        \* who holds s_mutex
    lockq,        \* who waits for it, first come first
    queue,        \* s_requestList
    sock,         \* the connection of each process to the agent
    toAgent,      \* requests written to the connection
    work,         \* the request the agent's thread executes
    fromAgent,    \* answers written to the connection
    rows,         \* the table "players": the rows of each pid, oldest first
    unique,       \* whether its schema declares pid unique
    mem,          \* the score of each player's session in each process
    tasks,        \* the number of tasks that have begun
    games,        \* the number of games that have ended
    registered    \* the registrations that were confirmed to the client

lockVars   == <<owner, lockq>>
chanVars   == <<toAgent, fromAgent>>
agentVars  == <<work, rows, unique>>
playVars   == <<mem, games>>
vars == <<pc, task, tasks, req, got, lockVars, queue, sock, chanVars, agentVars, playVars, registered>>

Users     == Vps \cup Threads
HomeOf(u) == IF u \in Vps THEN u ELSE Home[u]
Letters   == {"W", "D", "L"}
DbOps     == {"GET", "PUT", "SET"}
Ops       == DbOps \cup {"HTTP", "LOG"}

Request(op, u, p, s, l) == [op |-> op, by |-> u, pid |-> p, score |-> s, result |-> l]
Answer(r, code, val)    == [op |-> r.op, by |-> r.by, pid |-> r.pid, code |-> code, val |-> val]
NoRequest == Request("LOG", None, None, 0, "D")
Failed    == [op |-> "UNKNOWN", by |-> None, pid |-> None, code |-> "ERR", val |-> 0]

Row(score, results, by) == [score |-> score, results |-> results, owner |-> by]
NewRow(by) == Row(NewScore, [l \in Letters |-> 0], by)

Requests == [op: Ops, by: Users \cup {None}, pid: Players \cup {None}, score: Int,
             result: Letters]
Answers  == [op: Ops \cup {"BODY"}, by: Users \cup {None}, pid: Players \cup {None},
             code: {"OK", "NOT_FOUND", "ERR"}, val: Int]
Rows     == [score: Int, results: [Letters -> Nat], owner: Threads \cup {None}]

TypeOK ==
    /\ pc \in [Users -> {"idle", "locking", "reading", "body", "admitted", "waiting", "gone"}]
    /\ task \in [Threads -> {"none", "login", "register", "file", "flush", "term"}]
    /\ req \in [Users -> Requests]
    /\ got \in [Threads -> Int]
    /\ owner \in [Vps -> Users \cup {None}]
    /\ lockq \in [Vps -> Seq(Users)]
    /\ queue \in [Vps -> Seq([pid: Players, score: Int, result: Letters])]
    /\ sock \in [Vps -> {"open", "closed"}]
    /\ toAgent \in [Vps -> Seq(Requests)]
    /\ work \in [Vps -> Requests]
    /\ fromAgent \in [Vps -> Seq(Answers)]
    /\ rows \in [Players -> Seq(Rows)]
    /\ unique \in BOOLEAN
    /\ mem \in [Vps -> [Players -> Int \cup {None}]]
    /\ tasks \in 0..MaxTasks
    /\ games \in 0..MaxGames
    /\ registered \subseteq Threads \X Players

Init ==
    /\ pc = [u \in Users |-> IF u \in Vps THEN "waiting" ELSE "idle"]
    /\ task = [t \in Threads |-> "none"]
    /\ req = [u \in Users |-> NoRequest]
    /\ got = [t \in Threads |-> 0]
    /\ owner = [v \in Vps |-> None]
    /\ lockq = [v \in Vps |-> <<>>]
    /\ queue = [v \in Vps |-> <<>>]
    /\ sock = [v \in Vps |-> "open"]
    /\ toAgent = [v \in Vps |-> <<>>]
    /\ work = [v \in Vps |-> NoRequest]
    /\ fromAgent = [v \in Vps |-> <<>>]
    /\ rows = [p \in Players |-> IF p \in Registered THEN <<NewRow(None)>> ELSE <<>>]
    /\ unique \in BOOLEAN
    /\ mem = [v \in Vps |-> [p \in Players |->
                IF <<v, p>> \in LoggedIn THEN NewScore ELSE None]]
    /\ tasks = 0
    /\ games = 0
    /\ registered = {}

-----------------------------------------------------------------------------
(* The lock and the socket.                                                *)

(* A request is written; to a closed socket, in vain.                      *)
Written(v, r) ==
    IF sock[v] = "open" THEN [toAgent EXCEPT ![v] = Append(toAgent[v], r)] ELSE toAgent

(* Mutant: the lock is not taken.                                          *)
AskUnlocked(u, r) ==
    /\ req' = [req EXCEPT ![u] = r]
    /\ pc' = [pc EXCEPT ![u] = "reading"]
    /\ toAgent' = Written(HomeOf(u), r)
    /\ UNCHANGED lockVars

(* Lock, and once it is obtained _send_request_over_socket: the request is *)
(* written and its answer waited for.                                      *)
Ask(u, r) ==
    LET v == HomeOf(u)
    IN  /\ req' = [req EXCEPT ![u] = r]
        /\ \/ /\ owner[v] = None
              /\ owner' = [owner EXCEPT ![v] = u]
              /\ pc' = [pc EXCEPT ![u] = "reading"]
              /\ toAgent' = Written(v, r)
              /\ UNCHANGED lockq
           \/ /\ owner[v] # None
              /\ lockq' = [lockq EXCEPT ![v] = Append(lockq[v], u)]
              /\ pc' = [pc EXCEPT ![u] = "locking"]
              /\ UNCHANGED <<owner, toAgent>>

(* st_mutex_unlock passes the mutex to the first who waits for it.         *)
NextOwner(v) == IF lockq[v] = <<>> THEN None ELSE Head(lockq[v])

(* ~Lock: st_mutex_unlock, which does nothing for who is not the owner.  Of *)
(* the request only a login's remains.                                     *)
Release(u, l) ==
    LET v == HomeOf(u)
    IN  /\ pc' = [pc EXCEPT ![u] = l]
        /\ req' = IF l = "admitted" THEN req ELSE [req EXCEPT ![u] = NoRequest]
        /\ \/ /\ owner[v] = u
              /\ owner' = [owner EXCEPT ![v] = NextOwner(v)]
              /\ lockq' = [lockq EXCEPT ![v] = IF lockq[v] = <<>> THEN <<>> ELSE Tail(lockq[v])]
           \/ /\ owner[v] # u
              /\ UNCHANGED lockVars

(* ~Lock, and Lock for the next request in the same run of the thread.     *)
ReleaseAndAsk(u, r) ==
    LET v == HomeOf(u)
    IN  /\ req' = [req EXCEPT ![u] = r]
        /\ \/ /\ owner[v] = u /\ lockq[v] = <<>>
              /\ toAgent' = Written(v, r)
              /\ UNCHANGED <<lockVars, pc>>
           \/ /\ owner[v] = u /\ lockq[v] # <<>>
              /\ owner' = [owner EXCEPT ![v] = NextOwner(v)]
              /\ lockq' = [lockq EXCEPT ![v] = Append(Tail(lockq[v]), u)]
              /\ pc' = [pc EXCEPT ![u] = "locking"]
              /\ UNCHANGED toAgent
           \/ /\ owner[v] # u
              /\ lockq' = [lockq EXCEPT ![v] = Append(lockq[v], u)]
              /\ pc' = [pc EXCEPT ![u] = "locking"]
              /\ UNCHANGED <<owner, toAgent>>

(* The lock was passed on to u, who writes.                                *)
Locked(u) ==
    LET v == HomeOf(u)
    IN  /\ pc[u] = "locking" /\ owner[v] = u
        /\ pc' = [pc EXCEPT ![u] = "reading"]
        /\ toAgent' = Written(v, req[u])
        /\ UNCHANGED <<task, req, got, lockVars, queue, sock, fromAgent, agentVars, playVars,
                       registered, tasks>>

(* _read_line returns: with an answer, or because the connection is closed.*)
Returns(u) ==
    LET v == HomeOf(u)
    IN  /\ pc[u] = "reading"
        /\ fromAgent[v] # <<>> \/ sock[v] = "closed"
        /\ fromAgent' = [fromAgent EXCEPT ![v] = IF @ = <<>> THEN @ ELSE Tail(@)]

Reply(u) ==
    LET v == HomeOf(u) IN IF fromAgent[v] = <<>> THEN Failed ELSE Head(fromAgent[v])

(* What the caller makes of the answer: its type is compared, and for GET  *)
(* the player's id.                                                        *)
Result(u) ==
    IF Reply(u).op # req[u].op \/ (Reply(u).op = "GET" /\ Reply(u).code = "OK"
                                                  /\ Reply(u).pid # req[u].pid)
    THEN "ERR" ELSE Reply(u).code

-----------------------------------------------------------------------------
(* Threads that serve clients.                                             *)

Begin(t, job, p, r) ==
    /\ pc[t] = "idle" /\ task[t] = "none"
    /\ <<job, p>> \in Tasks[t] /\ tasks < MaxTasks
    /\ task' = [task EXCEPT ![t] = job]
    /\ tasks' = tasks + 1
    /\ Ask(t, r)
    /\ UNCHANGED <<got, queue, sock, fromAgent, agentVars, playVars, registered>>

(* _authenticate_player, and the first half of REGISTER.                   *)
StartLogin(t, p)    == Begin(t, "login", p, Request("GET", t, p, 0, "D"))
StartRegister(t, p) == Begin(t, "register", p, Request("GET", t, p, 0, "D"))

(* get_http_file; log_msg of the messages pending.                         *)
StartFile(t)  == Begin(t, "file", None, Request("HTTP", t, None, 0, "D"))
StartFlush(t) == Begin(t, "flush", None, Request("LOG", t, None, 0, "D"))

(* SIGTERM: the messages pending are flushed first.                        *)
StartTerm(t)  == Begin(t, "term", None, Request("LOG", t, None, 0, "D"))

Done(t, job) ==
    /\ task[t] = job
    /\ task' = [task EXCEPT ![t] = "none"]

(* The login is refused, for want of an answer, an account or the right    *)
(* password; or it is accepted.                                            *)
LoginAnswered(t) ==
    /\ task[t] = "login"
    /\ Returns(t)
    /\ \/ /\ Done(t, "login")
          /\ Release(t, "idle")
          /\ UNCHANGED got
       \/ /\ Result(t) = "OK"
          /\ Release(t, "admitted")
          /\ got' = [got EXCEPT ![t] = Reply(t).val]
          /\ UNCHANGED task
    /\ UNCHANGED <<queue, sock, toAgent, agentVars, playVars, registered, tasks>>

(* The session there is goes on with the score it has; or it is closed, or *)
(* was meanwhile, and the new one has the score that was read.             *)
Admit(t) ==
    LET v == Home[t]
        p == req[t].pid
    IN  /\ pc[t] = "admitted"
        /\ Done(t, "login")
        /\ pc' = [pc EXCEPT ![t] = "idle"]
        /\ req' = [req EXCEPT ![t] = NoRequest]
        /\ got' = [got EXCEPT ![t] = 0]
        /\ \/ mem[v][p] # None /\ UNCHANGED mem
           \/ mem' = [mem EXCEPT ![v] = [mem[v] EXCEPT ![p] = got[t]]]
        /\ UNCHANGED <<lockVars, queue, sock, chanVars, agentVars, games, registered, tasks>>

(* REGISTER: the name is taken; if not, or if nobody knows, it is put.     *)
NameAnswered(t) ==
    /\ task[t] = "register" /\ req[t].op = "GET"
    /\ Returns(t)
    /\ \/ /\ Result(t) = "OK"
          /\ Done(t, "register")
          /\ Release(t, "idle")
          /\ UNCHANGED toAgent
       \/ /\ Result(t) # "OK"
          /\ ReleaseAndAsk(t, Request("PUT", t, req[t].pid, NewScore, "D"))
          /\ UNCHANGED task
    /\ UNCHANGED <<got, queue, sock, agentVars, playVars, registered, tasks>>

(* Mutant: the answer to the INSERT is not looked at.                      *)
RegisteredAnyway(t) ==
    /\ req[t].op = "PUT"
    /\ Done(t, "register")
    /\ Returns(t)
    /\ Release(t, "idle")
    /\ registered' = registered \cup {<<t, req[t].pid>>}
    /\ UNCHANGED <<got, queue, sock, toAgent, agentVars, playVars, tasks>>

(* The client is told that the account is his, if the INSERT was done.     *)
RegisterAnswered(t) ==
    /\ req[t].op = "PUT"
    /\ Done(t, "register")
    /\ Returns(t)
    /\ Release(t, "idle")
    /\ registered' = IF Result(t) = "OK" THEN registered \cup {<<t, req[t].pid>>}
                     ELSE registered
    /\ UNCHANGED <<got, queue, sock, toAgent, agentVars, playVars, tasks>>

(* get_http_file: after the size, read_nbytes under the same lock.         *)
FileAnswered(t) ==
    /\ task[t] = "file"
    /\ Returns(t)
    /\ \/ /\ Result(t) = "OK"
          /\ pc' = [pc EXCEPT ![t] = "body"]
          /\ UNCHANGED <<task, req, lockVars>>
       \/ /\ Result(t) # "OK"
          /\ Done(t, "file")
          /\ Release(t, "idle")
    /\ UNCHANGED <<got, queue, sock, toAgent, agentVars, playVars, registered, tasks>>

BodyRead(t) ==
    LET v == Home[t]
    IN  /\ pc[t] = "body"
        /\ fromAgent[v] # <<>> \/ sock[v] = "closed"
        /\ fromAgent' = [fromAgent EXCEPT ![v] = IF @ = <<>> THEN @ ELSE Tail(@)]
        /\ Done(t, "file")
        /\ Release(t, "idle")
        /\ UNCHANGED <<got, queue, sock, toAgent, agentVars, playVars, registered, tasks>>

FlushAnswered(t) ==
    /\ Done(t, "flush")
    /\ Returns(t)
    /\ Release(t, "idle")
    /\ UNCHANGED <<got, queue, sock, toAgent, agentVars, playVars, registered, tasks>>

(* deinitialize and exit: what was written to the agent is on its way.     *)
Exit(t) ==
    LET v == Home[t]
    IN  /\ task[t] = "term"
        /\ pc[t] = "reading"
        /\ fromAgent[v] # <<>> \/ sock[v] = "closed"
        /\ pc' = [u \in Users |-> IF HomeOf(u) = v THEN "gone" ELSE pc[u]]
        /\ req' = [u \in Users |-> IF HomeOf(u) = v THEN NoRequest ELSE req[u]]
        /\ got' = [u \in Threads |-> IF HomeOf(u) = v THEN 0 ELSE got[u]]
        /\ task' = [u \in Threads |-> IF HomeOf(u) = v THEN "none" ELSE task[u]]
        /\ owner' = [owner EXCEPT ![v] = None]
        /\ lockq' = [lockq EXCEPT ![v] = <<>>]
        /\ sock' = [sock EXCEPT ![v] = "closed"]
        /\ queue' = [queue EXCEPT ![v] = <<>>]
        /\ fromAgent' = [fromAgent EXCEPT ![v] = <<>>]
        /\ mem' = [mem EXCEPT ![v] = [p \in Players |-> None]]
        /\ UNCHANGED <<toAgent, agentVars, games, registered, tasks>>

-----------------------------------------------------------------------------
(* Results.                                                                *)

Change(l) == IF l = "W" THEN 1 ELSE IF l = "L" THEN -1 ELSE 0
Counterpart(l) == IF l = "W" THEN "L" ELSE IF l = "L" THEN "W" ELSE "D"
Save(v, p, l) == [pid |-> p, score |-> mem[v][p] + Change(l), result |-> l]

(* Two calls of set_player_info: the requests are queued.                  *)
Queued(v, s, t) == [queue EXCEPT ![v] = queue[v] \o <<s, t>>]

(* Mutant: the write thread is not told.                                   *)
SignalLost(v) == pc

(* st_cond_signal of s_writeCond.                                          *)
Signal(v) == IF pc[v] = "waiting" THEN [pc EXCEPT ![v] = "idle"] ELSE pc

(* A rated game between players of one process ends, the scores their      *)
(* sessions remember change and both are saved.                            *)
EndGame(v, p, q, l) ==
    /\ pc[v] # "gone" /\ games < MaxGames
    /\ p # q /\ mem[v][p] # None /\ mem[v][q] # None
    /\ games' = games + 1
    /\ mem' = [mem EXCEPT ![v] =
                 [mem[v] EXCEPT ![p] = @ + Change(l), ![q] = @ + Change(Counterpart(l))]]
    /\ queue' = Queued(v, Save(v, p, l), Save(v, q, Counterpart(l)))
    /\ pc' = Signal(v)
    /\ UNCHANGED <<task, req, got, lockVars, sock, chanVars, agentVars, registered, tasks>>

SetRequest(v, s) == Request("SET", v, s.pid, s.score, s.result)

(* Mutant: the newest result is taken first.                               *)
WriterTakesLast(v) ==
    LET n == Len(queue[v])
    IN  /\ pc[v] = "idle" /\ queue[v] # <<>>
        /\ queue' = [queue EXCEPT ![v] = SubSeq(queue[v], 1, n - 1)]
        /\ Ask(v, SetRequest(v, queue[v][n]))
        /\ UNCHANGED <<task, got, sock, fromAgent, agentVars, playVars, registered, tasks>>

(* The write thread: the first request is taken out of the queue, or the   *)
(* condition waited for.                                                   *)
WriterTakes(v) ==
    /\ pc[v] = "idle" /\ queue[v] # <<>>
    /\ queue' = [queue EXCEPT ![v] = Tail(queue[v])]
    /\ Ask(v, SetRequest(v, Head(queue[v])))
    /\ UNCHANGED <<task, got, sock, fromAgent, agentVars, playVars, registered, tasks>>

WriterWaits(v) ==
    /\ pc[v] = "idle" /\ queue[v] = <<>>
    /\ pc' = [pc EXCEPT ![v] = "waiting"]
    /\ UNCHANGED <<task, req, got, lockVars, queue, sock, chanVars, agentVars, playVars,
                   registered, tasks>>

(* An answer that is no confirmation is logged, and the next request taken *)
(* at once.  Else the thread yields.                                       *)
WriterAnswered(v) ==
    /\ Returns(v)
    /\ \/ /\ Result(v) # "OK" /\ queue[v] # <<>>
          /\ ReleaseAndAsk(v, SetRequest(v, Head(queue[v])))
          /\ queue' = [queue EXCEPT ![v] = Tail(queue[v])]
       \/ /\ Result(v) = "OK" \/ queue[v] = <<>>
          /\ Release(v, IF Result(v) = "OK" THEN "idle" ELSE "waiting")
          /\ UNCHANGED <<toAgent, queue>>
    /\ UNCHANGED <<task, got, sock, agentVars, playVars, registered, tasks>>

-----------------------------------------------------------------------------
(* The agent.                                                              *)

Works(v) == work[v] # NoRequest

AgentReads(v) ==
    /\ ~Works(v) /\ toAgent[v] # <<>>
    /\ work' = [work EXCEPT ![v] = Head(toAgent[v])]
    /\ toAgent' = [toAgent EXCEPT ![v] = Tail(toAgent[v])]
    /\ UNCHANGED <<pc, task, req, got, lockVars, queue, sock, fromAgent, rows, unique,
                   playVars, registered, tasks>>

(* The statement meets one of another connection, and one of them writes.  *)
Busy(v) ==
    \E w \in Vps \ {v} :
        /\ {work[v].op, work[w].op} \subseteq DbOps
        /\ {work[v].op, work[w].op} # {"GET"}
        /\ Works(w)

(* INSERT INTO players: one row more, whatever rows there are.             *)
Inserted(r) == [rows EXCEPT ![r.pid] = Append(@, NewRow(r.by))]

(* A unique pid is the schema's affair: SQLite refuses a second row.       *)
Refused(r) == unique /\ rows[r.pid] # <<>>

(* UPDATE players SET score = .., wins = wins+1 WHERE pid = ..             *)
UpdatedRow(old, r) ==
    Row(r.score, [old.results EXCEPT ![r.result] = @ + 1], old.owner)
Updated(r) ==
    LET old == rows[r.pid]
    IN  [rows EXCEPT ![r.pid] = [i \in DOMAIN old |-> UpdatedRow(old[i], r)]]

(* SELECT * FROM players WHERE pid = .. LIMIT 1: a score, if there is one. *)
Selected(r, code, val) ==
    IF rows[r.pid] = <<>> THEN code = "NOT_FOUND" /\ val = 0
    ELSE code = "OK" /\ val = rows[r.pid][1].score
Scores == UNION {{rows[p][i].score : i \in DOMAIN rows[p]} : p \in Players}

HandleGet(r, code, val) == r.op = "GET" /\ Selected(r, code, val) /\ UNCHANGED rows

HandlePut(r, code, val) ==
    /\ r.op = "PUT" /\ val = 0
    /\ \/ Refused(r) /\ code = "ERR" /\ UNCHANGED rows
       \/ ~Refused(r) /\ code = "OK" /\ rows' = Inserted(r)

HandleSet(r, code, val) == r.op = "SET" /\ code = "OK" /\ val = 0 /\ rows' = Updated(r)

(* The size of the file, or of the text that it was not found.             *)
HandleHttpGet(r, code, val) ==
    r.op = "HTTP" /\ code = "OK" /\ val \in FileSizes /\ UNCHANGED rows

HandleLog(r, code, val) == r.op = "LOG" /\ code = "OK" /\ val = 0 /\ UNCHANGED rows

(* handle_request: the statement is executed, as a whole.                  *)
HandleRequest(r, code, val) ==
    \/ HandleGet(r, code, val) \/ HandlePut(r, code, val) \/ HandleSet(r, code, val)
    \/ HandleHttpGet(r, code, val) \/ HandleLog(r, code, val)

(* write_response; the content of a file follows its size.                 *)
Answered(v, code, val) ==
    LET a == Answer(work[v], code, val)
        body == [a EXCEPT !.op = "BODY"]
    IN  fromAgent' = [fromAgent EXCEPT ![v] =
                        IF sock[v] = "closed" THEN @
                        ELSE @ \o (IF a.op = "HTTP" /\ val > 0 THEN <<a, body>> ELSE <<a>>)]

AgentAnswers(v) ==
    /\ Works(v)
    /\ \/ /\ Busy(v)
          /\ Answered(v, "ERR", 0)
          /\ UNCHANGED rows
       \/ \E val \in {0, work[v].score} \cup FileSizes \cup Scores,
             code \in {"OK", "NOT_FOUND", "ERR"} :
            /\ HandleRequest(work[v], code, val)
            /\ Answered(v, code, val)
    /\ work' = [work EXCEPT ![v] = NoRequest]
    /\ UNCHANGED <<pc, task, req, got, lockVars, queue, sock, toAgent, unique, playVars,
                   registered, tasks>>

(* The agent's thread ends, or the agent dies.                             *)
AgentCloses(v) ==
    /\ sock[v] = "open"
    /\ sock' = [sock EXCEPT ![v] = "closed"]
    /\ work' = [work EXCEPT ![v] = NoRequest]
    /\ toAgent' = [toAgent EXCEPT ![v] = <<>>]
    /\ UNCHANGED <<pc, task, req, got, lockVars, queue, fromAgent, rows, unique, playVars,
                   registered, tasks>>

-----------------------------------------------------------------------------
(* st_thread_interrupt: resumeConnection (hoxSession.cpp:606) may send it  *)
(* to a thread that has left the session and serves another login by now.  *)
(* st_mutex_lock fails, which nobody asks; st_read fails, and what it      *)
(* waited for stays in the socket.                                         *)
Interrupt(t) ==
    LET v == Home[t]
    IN  /\ task[t] = "login"
        /\ \/ /\ pc[t] = "locking" /\ owner[v] # t
              /\ lockq' = [lockq EXCEPT ![v] = SelectSeq(@, LAMBDA u : u # t)]
              /\ pc' = [pc EXCEPT ![t] = "reading"]
              /\ toAgent' = Written(v, req[t])
              /\ UNCHANGED <<task, req, owner>>
           \/ /\ pc[t] = "reading"
              /\ Done(t, "login")
              /\ Release(t, "idle")
              /\ UNCHANGED toAgent
        /\ UNCHANGED <<got, queue, sock, fromAgent, agentVars, playVars, registered, tasks>>

ThreadStep(t) ==
    \/ Locked(t) \/ LoginAnswered(t) \/ Admit(t) \/ NameAnswered(t) \/ RegisterAnswered(t)
    \/ FileAnswered(t) \/ BodyRead(t) \/ FlushAnswered(t) \/ Exit(t)

WriterStep(v) == Locked(v) \/ WriterTakes(v) \/ WriterWaits(v) \/ WriterAnswered(v)

AgentStep(v) == AgentReads(v) \/ AgentAnswers(v)

Next ==
    \/ \E t \in Threads :
        \/ ThreadStep(t)
        \/ StartFile(t) \/ StartFlush(t) \/ StartTerm(t)
        \/ \E p \in Players : StartLogin(t, p) \/ StartRegister(t, p)
    \/ \E v \in Vps :
        \/ WriterStep(v) \/ AgentStep(v) \/ AgentCloses(v)
        \/ \E p, q \in Players, l \in {"W", "D"} : EndGame(v, p, q, l)

Spec == Init /\ [][Next]_vars

(* Threads that can run do, and the agent answers while it is there.       *)
Fairness ==
    /\ \A t \in Threads : WF_vars(ThreadStep(t))
    /\ \A v \in Vps : WF_vars(WriterStep(v)) /\ WF_vars(AgentStep(v))

FairSpec == Spec /\ Fairness

(* The same, with interrupts.                                              *)
InterruptedSpec == Init /\ [][Next \/ \E t \in Threads : Interrupt(t)]_vars

-----------------------------------------------------------------------------
(* Correctness.                                                            *)

(* Who reads from the socket reads the answer to his own request: the lock *)
(* ("Provide exclusve access to DB/Disk resources", hoxDbClient.cpp:74) is *)
(* held from the request to the end of the answer, a file's content        *)
(* included, since answers carry no mark of whom they are for.             *)
OwnAnswer ==
    \A u \in Users : pc[u] \in {"reading", "body"} /\ fromAgent[HomeOf(u)] # <<>>
                        => Head(fromAgent[HomeOf(u)]).by = u

(* Whoever was told that he has registered a name has a row of his own, and*)
(* the row is found by his pid: it is the only one, if the schema lets no  *)
(* other in.  REGISTER asks for the name and puts it in two requests,      *)
(* between which others come, of the same process or of another, and it    *)
(* puts the name too if the first was not answered (session.cpp:101): the  *)
(* question protects nothing, the answer to the INSERT everything.         *)
Owns(t, p) == \E i \in DOMAIN rows[p] : rows[p][i].owner = t
NameIsHis ==
    \A r \in registered : Owns(r[1], r[2]) /\ (unique => Len(rows[r[2]]) = 1)

(* No name is given to two clients ("Check if the Player's ID has been     *)
(* taken", session.cpp:100).  Without a unique pid it is, and both rows    *)
(* stay; the first alone is ever read.                                     *)
NameGivenOnce == \A r, s \in registered : r[2] = s[2] => r = s

(* What a process records reaches the database result by result, in order  *)
(* and at most once, whoever else uses the lock, the socket and SQLite.    *)
SaveOf(r) == [pid |-> r.pid, score |-> r.score, result |-> r.result]
InHand(v) ==
    IF pc[v] = "locking" THEN <<SaveOf(req[v])>>
    ELSE IF work[v].op = "SET" THEN <<SaveOf(work[v])>>
    ELSE IF toAgent[v] # <<>> /\ Head(toAgent[v]).op = "SET" THEN <<SaveOf(Head(toAgent[v]))>>
    ELSE <<>>
due == [v \in Vps |-> InHand(v) \o queue[v]]

Ledger == INSTANCE HoxLedger WITH Owners <- Threads
LedgerSpec == Ledger!Spec

(* The score of an account is what its results make it, once they have all *)
(* arrived ("Save the new Score(s) and game-result to Database",           *)
(* hoxTable.cpp:871): saves carry the score a session remembers, which a   *)
(* login has read from the database and games have changed since.          *)
ScoreKept ==
    \A p \in Players :
        /\ \A v \in Vps : \A i \in DOMAIN due[v] : due[v][i].pid # p
        /\ rows[p] # <<>>
        => rows[p][1].score = NewScore + rows[p][1].results["W"] - rows[p][1].results["L"]

(* Nobody waits for ever for the lock or for an answer, and no result stays*)
(* in the queue, unless the process is told to end.                        *)
AllServed ==
    /\ \A t \in Threads : task[t] # "none" ~> task[t] = "none"
    /\ \A v \in Vps : queue[v] # <<>> ~> queue[v] = <<>>
=============================================================================
