----------------------------- MODULE HoxSession -----------------------------
(***************************************************************************)
(* The sessions of one player: hoxPersistentSession (server/hoxSession.cpp)*)
(* and hoxSessionMgr, used by the connection threads (_authenticate_request*)
(* and handle_session of server/session.cpp), the write thread of each     *)
(* session and the session-manager thread.                                 *)
(*                                                                         *)
(* All are cooperative threads: a thread runs until it blocks or sleeps.   *)
(* turn is the thread that has the processor and has not yet given it up;  *)
(* a step after which others may run leaves turn = None.  Only when no     *)
(* thread is ready does the scheduler look for I/O and timers (Poll).      *)
(*                                                                         *)
(* Every connection is served by one thread and brings one LOGIN; it       *)
(* creates at most one session and one write thread.  So a connection, its *)
(* thread, and the session and the write thread it created share a name.   *)
(***************************************************************************)
EXTENDS Integers, Sequences, FiniteSets

CONSTANTS
    Conns,          \* the connections of the player, one after another or at once
    ClientTypes,    \* kinds of clients: "HOXCHESS", "FLASH", "TEST"
    Guests,         \* which players there are: guests (no password, no DB) or not
    Overlap,        \* a client may log in while another connection is served
    SlowClients,    \* a write to a client may block
    Manager,        \* the session-manager thread
    None            \* NULL

ASSUME NamesAssumption == Manager \notin Conns /\ None \notin Conns \cup {Manager}
ASSUME TypesAssumption == ClientTypes \subseteq {"HOXCHESS", "FLASH", "TEST"}
ASSUME ModesAssumption == Guests \subseteq BOOLEAN /\ {Overlap, SlowClients} \subseteq BOOLEAN

VARIABLES
    guest,          \* the player is a guest
    turn,           \* the thread that runs, None between two yields
    pc,             \* where each thread is
    woken,          \* the threads that Poll has made ready
    sess,           \* the session each thread works on (pSession)
    client,         \* clientType of each connection
    then,           \* where a thread goes after closeIO
    joining,        \* the write thread a thread waits for in st_thread_join
    interrupted,    \* threads with a pending st_thread_interrupt
    state,          \* _state of each session
    nfd,            \* _nfd
    readThread,     \* _readThread
    writeThread,    \* _writeThread
    pending,        \* _responseList is not empty
    idle,           \* the last update is older than SESSION_EXPIRY
    playing,        \* sessions whose player is at some table
    listed,         \* the sessions in _sessions
    todo,           \* those manageSessions has still to look at
    waiters,        \* write threads waiting on _writeCond, first come first
    writing,        \* the connection a write thread writes to
    wpc,            \* where each write thread is
    dangling,       \* an iterator to an erased session was advanced
    fault           \* what crashed the server: I/O on NULL, or the iterator

threadVars  == <<turn, pc, woken, sess, client, then, joining, interrupted>>
sessionVars == <<state, nfd, readThread, writeThread, idle, playing>>
writerVars  == <<writing, wpc>>
queueVars   == <<pending, waiters>>
mgrVars     == <<listed, todo, dangling>>
vars == <<guest, threadVars, sessionVars, writerVars, queueVars, mgrVars, fault>>

Threads  == Conns \cup {Manager}
Sessions == Conns
States   == {"NONE", "ACTIVE", "DISCONNECT", "SHUTDOWN"}
Labels   == {"start", "db", "authenticated", "waitReader", "resumed", "replaced",
             "reading", "looping", "left", "closeIO", "join", "deleted", "closed",
             "sleep", "scan"}

TypeOK ==
    /\ guest \in BOOLEAN
    /\ turn \in Threads \cup {None}
    /\ pc \in [Threads -> Labels]
    /\ woken \subseteq Threads
    /\ sess \in [Threads -> Sessions \cup {None}]
    /\ client \in [Conns -> ClientTypes \cup {None}]
    /\ then \in [Threads -> {"resumed", "replaced", "left", "deleted", "closed", "scan"}]
    /\ joining \in [Threads -> Conns \cup {None}]
    /\ interrupted \subseteq Conns
    /\ state \in [Sessions -> States]
    /\ nfd \in [Sessions -> Conns \cup {None}]
    /\ readThread \in [Sessions -> Conns \cup {None}]
    /\ writeThread \in [Sessions -> Conns \cup {None}]
    /\ pending \in [Sessions -> BOOLEAN]
    /\ idle \in [Sessions -> BOOLEAN]
    /\ playing \subseteq Sessions
    /\ listed \subseteq Sessions
    /\ todo \subseteq Sessions
    /\ waiters \in [Sessions -> Seq(Conns)]
    /\ writing \in [Conns -> Conns \cup {None}]
    /\ wpc \in [Conns -> {"none", "loop", "writing", "nap", "ended"}]
    /\ dangling \in BOOLEAN
    /\ fault \in {"none", "nullIO", "iterator"}

Init ==
    /\ guest \in Guests
    /\ turn = None
    /\ pc = [x \in Threads |-> IF x = Manager THEN "sleep" ELSE "start"]
    /\ woken = {}
    /\ sess = [x \in Threads |-> None]
    /\ client = [t \in Conns |-> None]
    /\ then = [x \in Threads |-> "closed"]
    /\ joining = [x \in Threads |-> None]
    /\ interrupted = {}
    /\ state = [s \in Sessions |-> "NONE"]
    /\ nfd = [s \in Sessions |-> None]
    /\ readThread = [s \in Sessions |-> None]
    /\ writeThread = [s \in Sessions |-> None]
    /\ pending = [s \in Sessions |-> FALSE]
    /\ idle = [s \in Sessions |-> FALSE]
    /\ playing = {}
    /\ listed = {}
    /\ todo = {}
    /\ waiters = [s \in Sessions |-> <<>>]
    /\ writing = [w \in Conns |-> None]
    /\ wpc = [w \in Conns |-> "none"]
    /\ dangling = FALSE
    /\ fault = "none"

-----------------------------------------------------------------------------
(* Threads, conditions and events.                                         *)

(* Thread x has the processor at l and goes on to m, running or yielding.  *)
Up == fault = "none"
At(x, l) == Up /\ turn \in {None, x} /\ pc[x] = l
RunTo(x, m)   == pc' = [pc EXCEPT ![x] = m] /\ turn' = x /\ woken' = woken \ {x}
YieldTo(x, m) == pc' = [pc EXCEPT ![x] = m] /\ turn' = None /\ woken' = woken \ {x}

(* The write threads that are neither at st_write nor at st_cond_wait.     *)
CanWrite(w) == /\ wpc[w] \in {"loop", "nap"}
               /\ \A k \in DOMAIN waiters[sess[w]] : waiters[sess[w]][k] # w

(* Some thread can go on without I/O or a timer.                           *)
Ready ==
    \/ turn # None
    \/ woken # {}
    \/ \E t \in interrupted : pc[t] \in {"reading", "looping"}
    \/ \E x \in Threads : pc[x] = "join" /\ wpc[joining[x]] = "ended"
    \/ \E w \in Conns : CanWrite(w) /\ wpc[w] = "loop"

(* The idle thread of the scheduler: I/O and timers of some threads.       *)
Poll ==
    /\ Up /\ ~Ready
    /\ woken' \in SUBSET {x \in Threads :
                    pc[x] \in {"db", "reading", "looping", "waitReader", "sleep"}}
    /\ woken' # {}
    /\ UNCHANGED <<turn, pc, sess, client, then, joining, interrupted, sessionVars,
                   writerVars, queueVars, mgrVars, fault, guest>>

(* Mutant: the condition is never signalled.                               *)
SignalledNot(S) == waiters

(* st_cond_signal wakes the first waiter.                                  *)
Signalled(S) ==
    [s \in Sessions |-> IF s \in S /\ waiters[s] # <<>> THEN Tail(waiters[s])
                        ELSE waiters[s]]

(* addResponse to the sessions S: queued if ACTIVE, signalled in any case. *)
AddResponse(S) ==
    /\ pending' = [s \in Sessions |-> pending[s] \/ (s \in S /\ state[s] = "ACTIVE")]
    /\ waiters' = Signalled(S)

(* What findSession may return: the first in the order of the random ids.  *)
Found == {s \in listed : state[s] # "SHUTDOWN"}

(* Mutant: existing sessions are not looked up.                            *)
FindNoSession == {None}

FindSession == IF Found = {} THEN {None} ELSE Found

(* Mutant: the state is left alone.                                        *)
StillConnected(s) == state

Disconnected(s) == [state EXCEPT ![s] = "DISCONNECT"]

-----------------------------------------------------------------------------
(* Closing.                                                                *)

(* Mutant: the player keeps his seats.                                     *)
LeaveNoTable(s) == playing' = playing

(* leaveAllTables of the player of session s.                              *)
LeaveAllTables(s) == playing' = playing \ {s}

(* handleShutdown of session s by thread x, which goes on to l.            *)
HandleShutdown(x, s, l) ==
    /\ LeaveAllTables(s)
    /\ state' = [state EXCEPT ![s] = "SHUTDOWN"]
    /\ AddResponse(listed \ {s})
    /\ then' = [then EXCEPT ![x] = l]
    /\ RunTo(x, IF nfd[s] # None THEN "closeIO" ELSE l)

(* Mutant: the write thread is not waited for.                             *)
JoinFailsAlways(w) == TRUE

(* The second to join a thread gets an error.                              *)
JoinFails(w) == \E y \in Threads : joining[y] = w

(* closeIO: without a write thread, or when the join fails, at once.       *)
CloseIO(x) ==
    LET s == sess[x]
        w == writeThread[s]
    IN  /\ At(x, "closeIO")
        /\ readThread' = [readThread EXCEPT ![s] = None]
        /\ waiters' = Signalled(IF w = None THEN {} ELSE {s})
        /\ IF w = None \/ JoinFails(w)
           THEN /\ nfd' = [nfd EXCEPT ![s] = None]
                /\ RunTo(x, then[x])
                /\ UNCHANGED joining
           ELSE /\ joining' = [joining EXCEPT ![x] = w]
                /\ YieldTo(x, "join")
                /\ UNCHANGED nfd
        /\ UNCHANGED <<sess, client, then, interrupted, state, writeThread, pending, idle, playing,
                       writerVars, mgrVars, fault, guest>>

(* The write thread has ended: the rest of closeIO.                        *)
Joined(x) ==
    /\ At(x, "join")
    /\ wpc[joining[x]] = "ended"
    /\ joining' = [joining EXCEPT ![x] = None]
    /\ nfd' = [nfd EXCEPT ![sess[x]] = None]
    /\ RunTo(x, then[x])
    /\ UNCHANGED <<sess, client, then, interrupted, state, readThread, writeThread, idle,
                   playing, writerVars, queueVars, mgrVars, fault, guest>>
-----------------------------------------------------------------------------
(* A connection thread: authentication.                                    *)

(* The first request, a LOGIN: findSession comes before the await of the   *)
(* player's record from the DB.                                            *)
ReadLogin(t, type) ==
    /\ At(t, "start")
    /\ Overlap \/ \A u \in Conns \ {t} : pc[u] \in {"start", "closed"}
    /\ client' = [client EXCEPT ![t] = type]
    /\ \E s \in FindSession : sess' = [sess EXCEPT ![t] = s]
    /\ IF guest THEN RunTo(t, "authenticated") ELSE YieldTo(t, "db")
    /\ UNCHANGED <<then, joining, interrupted, sessionVars, writerVars, queueVars,
                   mgrVars, fault, guest>>

(* The DB answers: the password is right, or the client is turned away.    *)
DbAnswer(t) ==
    /\ At(t, "db") /\ t \in woken
    /\ \/ RunTo(t, "authenticated")
       \/ YieldTo(t, "closed")
    /\ UNCHANGED <<sess, client, then, joining, interrupted, sessionVars, writerVars,
                   queueVars, mgrVars, fault, guest>>

(* Mutant: a thread that is not joinable.                                  *)
StartWriterDetached(t, s) ==
    /\ writeThread' = [writeThread EXCEPT ![s] = t]
    /\ wpc' = [wpc EXCEPT ![t] = "detached"]

(* A session gets its write thread.                                        *)
StartWriter(t, s) ==
    /\ writeThread' = [writeThread EXCEPT ![s] = t]
    /\ wpc' = [wpc EXCEPT ![t] = "loop"]

(* createSession, and handle_LOGIN as the first request.                   *)
Create(t) ==
    /\ At(t, "authenticated")
    /\ sess[t] = None
    /\ sess' = [sess EXCEPT ![t] = t]
    /\ state' = [state EXCEPT ![t] = "ACTIVE"]
    /\ nfd' = [nfd EXCEPT ![t] = t]
    /\ readThread' = [readThread EXCEPT ![t] = t]
    /\ StartWriter(t, t)
    /\ listed' = listed \cup {t}
    /\ pending' = [s \in Sessions |-> pending[s] \/ s = t
                                      \/ (s \in listed /\ state[s] = "ACTIVE")]
    /\ waiters' = Signalled(listed)
    /\ YieldTo(t, "reading")
    /\ UNCHANGED <<client, then, joining, interrupted, idle, playing, writing, todo,
                   dangling, fault, guest>>

(* Mutant: guests resume, too.                                             *)
ResumableGuest(t) == client[t] = "HOXCHESS"

(* resumeConnection: HOXCHESS clients of players who are not guests.       *)
Resumable(t) == ~guest /\ client[t] = "HOXCHESS"

Resume(t) ==
    LET s == sess[t]
        r == readThread[s]
    IN  /\ At(t, "authenticated")
        /\ s # None /\ Resumable(t)
        /\ IF nfd[s] = None
           THEN RunTo(t, "resumed") /\ UNCHANGED <<then, interrupted, state>>
           ELSE /\ state' = Disconnected(s)
                /\ then' = [then EXCEPT ![t] = "resumed"]
                /\ IF r = None
                   THEN RunTo(t, "closeIO") /\ UNCHANGED interrupted
                   ELSE YieldTo(t, "waitReader") /\ interrupted' = interrupted \cup {r}
        /\ UNCHANGED <<sess, client, joining, nfd, readThread, writeThread, idle, playing,
                       writerVars, queueVars, mgrVars, fault, guest>>

(* The wait for the read thread: up to five sleeps of a second.            *)
WaitReader(t) ==
    /\ At(t, "waitReader") /\ t \in woken
    /\ RunTo(t, "closeIO")
    /\ UNCHANGED <<sess, client, then, joining, interrupted, sessionVars, writerVars,
                   queueVars, mgrVars, fault, guest>>

(* Mutant: the session keeps the connection it had.                        *)
OldConnection(s, t) == nfd

NewConnection(s, t) == [nfd EXCEPT ![s] = t]

(* The rest of resumeConnection, and handle_LOGIN.                         *)
Resumed(t) ==
    LET s == sess[t]
    IN  /\ At(t, "resumed")
        /\ nfd' = NewConnection(s, t)
        /\ readThread' = [readThread EXCEPT ![s] = t]
        /\ state' = [state EXCEPT ![s] = "ACTIVE"]
        /\ StartWriter(t, s)
        /\ idle' = [idle EXCEPT ![s] = FALSE]
        /\ pending' = [r \in Sessions |->
                            \/ r # s /\ pending[r]
                            \/ r \in listed /\ (r = s \/ state[r] = "ACTIVE")]
        /\ waiters' = Signalled(listed)
        /\ YieldTo(t, "reading")
        /\ UNCHANGED <<sess, client, then, joining, interrupted, playing, writing,
                       mgrVars, fault, guest>>

(* closeAndDeleteSession of the session found, which cannot be resumed.    *)
Replace(t) ==
    /\ At(t, "authenticated")
    /\ sess[t] # None /\ ~Resumable(t)
    /\ HandleShutdown(t, sess[t], "replaced")
    /\ UNCHANGED <<sess, client, joining, interrupted, nfd, readThread, writeThread, idle,
                   writerVars, mgrVars, fault, guest>>

Replaced(t) ==
    /\ At(t, "replaced")
    /\ listed' = listed \ {sess[t]}
    /\ sess' = [sess EXCEPT ![t] = None]
    /\ RunTo(t, "authenticated")
    /\ UNCHANGED <<client, then, joining, interrupted, sessionVars, writerVars, queueVars,
                   todo, dangling, fault, guest>>

-----------------------------------------------------------------------------
(* A connection thread: the event loop.                                    *)

(* After st_sleep, which takes an interrupt: the loop's condition.         *)
(* readRequest then waits on whatever _nfd is.                             *)
LoopTest(t) ==
    LET s == sess[t]
    IN  /\ At(t, "looping") /\ t \in woken \cup interrupted
        /\ IF state[s] # "ACTIVE" THEN RunTo(t, "left") /\ UNCHANGED fault
           ELSE YieldTo(t, "reading") /\ fault' = IF nfd[s] = None THEN "nullIO" ELSE "none"
        /\ interrupted' = interrupted \ {t}
        /\ UNCHANGED <<sess, client, then, joining, sessionVars, writerVars, queueVars,
                       mgrVars, guest>>

(* A request has come and is handled, whatever happened to the session in  *)
(* the meantime.                                                           *)
HandleRequest(t, kind) ==
    LET s == sess[t]
    IN  /\ At(t, "reading") /\ t \in woken \ interrupted
        /\ idle' = [idle EXCEPT ![s] = FALSE]
        /\ state' = IF kind = "LOGOUT" THEN [state EXCEPT ![s] = "SHUTDOWN"] ELSE state
        /\ playing' = IF kind = "JOIN" THEN playing \cup {s}
                      ELSE IF kind = "LEAVE" THEN playing \ {s} ELSE playing
        /\ IF kind = "PING" THEN AddResponse({s})
           ELSE IF kind = "JOIN" THEN AddResponse({s} \cap listed)
           ELSE UNCHANGED queueVars
        /\ YieldTo(t, "looping")
        /\ UNCHANGED <<sess, client, then, joining, interrupted, nfd, readThread,
                       writeThread, writerVars, mgrVars, fault, guest>>

(* The connection is closed, timed out or sent nonsense, or the thread was *)
(* interrupted: onDisconnected.                                            *)
Disconnect(t) ==
    /\ At(t, "reading") /\ t \in woken \cup interrupted
    /\ interrupted' = interrupted \ {t}
    /\ state' = Disconnected(sess[t])
    /\ then' = [then EXCEPT ![t] = "left"]
    /\ RunTo(t, "closeIO")
    /\ UNCHANGED <<sess, client, joining, nfd, readThread, writeThread, idle, playing,
                   writerVars, queueVars, mgrVars, fault, guest>>

(* The end of handle_session.  handle_connections closes the connection.   *)
LeaveAndDelete(t) ==
    LET s == sess[t]
    IN  /\ At(t, "left")
        /\ state[s] = "SHUTDOWN" \/ client[t] = "TEST"
        /\ HandleShutdown(t, s, "deleted")
        /\ UNCHANGED <<sess, client, joining, interrupted, nfd, readThread, writeThread,
                       idle, writerVars, mgrVars, fault, guest>>

Leave(t) ==
    /\ At(t, "left")
    /\ state[sess[t]] # "SHUTDOWN" /\ client[t] # "TEST"
    /\ YieldTo(t, "closed")
    /\ UNCHANGED <<sess, client, then, joining, interrupted, sessionVars, writerVars,
                   queueVars, mgrVars, fault, guest>>

Deleted(t) ==
    /\ At(t, "deleted")
    /\ listed' = listed \ {sess[t]}
    /\ YieldTo(t, "closed")
    /\ UNCHANGED <<sess, client, then, joining, interrupted, sessionVars, writerVars,
                   queueVars, todo, dangling, fault, guest>>
-----------------------------------------------------------------------------
(* The write threads: handleWrite.                                         *)

WriterRuns(w) == Up /\ turn = None /\ CanWrite(w)

WriterEnds(w) ==
    LET s == sess[w]
    IN  /\ WriterRuns(w)
        /\ state[s] # "ACTIVE"
        /\ writeThread' = [writeThread EXCEPT ![s] = None]
        /\ wpc' = [wpc EXCEPT ![w] = "ended"]
        /\ UNCHANGED <<threadVars, state, nfd, readThread, idle, playing, writing, queueVars,
                       mgrVars, fault, guest>>

WriterWaits(w) ==
    LET s == sess[w]
    IN  /\ WriterRuns(w)
        /\ state[s] = "ACTIVE" /\ ~pending[s]
        /\ waiters' = [waiters EXCEPT ![s] = Append(@, w)]
        /\ wpc' = [wpc EXCEPT ![w] = "loop"]
        /\ UNCHANGED <<threadVars, sessionVars, writing, pending, mgrVars, fault, guest>>

(* Events are taken until a write succeeds, which is followed by st_sleep, *)
(* or blocks, or until all have failed and the thread waits for more.      *)
WriterTakes(w) ==
    LET s == sess[w]
        Ends(more, label) == /\ pending' = [pending EXCEPT ![s] = more]
                             /\ wpc' = [wpc EXCEPT ![w] = label]
    IN  /\ WriterRuns(w)
        /\ state[s] = "ACTIVE" /\ pending[s]
        /\ fault' = IF nfd[s] = None THEN "nullIO" ELSE "none"
        /\ \/ /\ \E more \in BOOLEAN : Ends(more, "nap")
              /\ idle' = [idle EXCEPT ![s] = FALSE]
              /\ UNCHANGED <<writing, waiters>>
           \/ /\ SlowClients
              /\ \E more \in BOOLEAN : Ends(more, "writing")
              /\ writing' = [writing EXCEPT ![w] = nfd[s]]
              /\ UNCHANGED <<idle, waiters>>
           \/ /\ Ends(FALSE, "loop")
              /\ waiters' = [waiters EXCEPT ![s] = Append(@, w)]
              /\ UNCHANGED <<idle, writing>>
        /\ UNCHANGED <<threadVars, state, nfd, readThread, writeThread, playing, mgrVars,
                       guest>>

(* The blocked write is done, or fails.                                    *)
Written(w) ==
    /\ Up /\ turn = None /\ wpc[w] = "writing"
    /\ writing' = [writing EXCEPT ![w] = None]
    /\ \/ /\ wpc' = [wpc EXCEPT ![w] = "nap"]
          /\ idle' = [idle EXCEPT ![sess[w]] = FALSE]
       \/ wpc' = [wpc EXCEPT ![w] = "loop"] /\ UNCHANGED idle
    /\ UNCHANGED <<threadVars, state, nfd, readThread, writeThread, playing, queueVars,
                   mgrVars, fault, guest>>

-----------------------------------------------------------------------------
(* The session manager: manageSessions.                                    *)

(* Mutant: nothing is purged.                                              *)
PurgeNothing ==
    /\ At(Manager, "sleep") /\ Manager \in woken
    /\ UNCHANGED listed
    /\ todo' = {s \in Found : idle[s]}
    /\ RunTo(Manager, "scan")
    /\ UNCHANGED <<sess, client, then, joining, interrupted, sessionVars, writerVars,
                   queueVars, dangling, fault, guest>>

(* The sessions shut down are purged, then the others are looked at.       *)
Purge ==
    /\ At(Manager, "sleep") /\ Manager \in woken
    /\ listed' = Found
    /\ todo' = {s \in Found : idle[s]}
    /\ RunTo(Manager, "scan")
    /\ UNCHANGED <<sess, client, then, joining, interrupted, sessionVars, writerVars,
                   queueVars, dangling, fault, guest>>

(* After handleShutdown the iterator is advanced.  When the session it is  *)
(* at was erased in the meantime, that may work or crash.                  *)
Advanced ==
    LET erased == sess[Manager] # None /\ sess[Manager] \notin listed
    IN  /\ dangling' = (dangling \/ erased)
        /\ fault' \in {"none"} \cup (IF erased THEN {"iterator"} ELSE {})

Expire(s) ==
    /\ At(Manager, "scan")
    /\ s \in todo \cap listed /\ idle[s]
    /\ Advanced
    /\ todo' = todo \ {s}
    /\ sess' = [sess EXCEPT ![Manager] = s]
    /\ HandleShutdown(Manager, s, "scan")
    /\ UNCHANGED <<client, joining, interrupted, nfd, readThread, writeThread, idle,
                   writerVars, listed, guest>>

ScanDone ==
    /\ At(Manager, "scan")
    /\ \A s \in todo \cap listed : ~idle[s]
    /\ Advanced
    /\ todo' = {}
    /\ sess' = [sess EXCEPT ![Manager] = None]
    /\ YieldTo(Manager, "sleep")
    /\ UNCHANGED <<client, then, joining, interrupted, sessionVars, writerVars, queueVars,
                   listed, guest>>

-----------------------------------------------------------------------------
(* Other players: an event for the session.  Time: nothing was heard of    *)
(* the session for ten minutes.                                            *)
PostEvent(s) ==
    /\ Up /\ turn = None
    /\ s \in listed
    /\ AddResponse({s})
    /\ UNCHANGED <<threadVars, sessionVars, writerVars, mgrVars, fault, guest>>

GetIdle(s) ==
    /\ Up /\ ~Ready
    /\ s \in listed /\ ~idle[s]
    /\ \A t \in Conns : sess[t] = s => pc[t] \notin {"looping", "waitReader"} /\ wpc[t] # "nap"
    /\ idle' = [idle EXCEPT ![s] = TRUE]
    /\ UNCHANGED <<threadVars, state, nfd, readThread, writeThread, playing, writerVars,
                   queueVars, mgrVars, fault, guest>>

Requests == {"LOGOUT", "JOIN", "LEAVE", "PING"}

(* What a connection thread does once its client has sent the LOGIN.       *)
Serve(t) ==
    \/ DbAnswer(t) \/ Create(t) \/ Resume(t) \/ WaitReader(t) \/ Resumed(t)
    \/ Replace(t) \/ Replaced(t) \/ LoopTest(t)
    \/ \E kind \in Requests : HandleRequest(t, kind)
    \/ Disconnect(t) \/ LeaveAndDelete(t) \/ Leave(t) \/ Deleted(t)
    \/ CloseIO(t) \/ Joined(t)

WriterStep(w) == WriterEnds(w) \/ WriterWaits(w) \/ WriterTakes(w) \/ Written(w)

ManagerStep ==
    \/ Purge
    \/ \E s \in Sessions : Expire(s)
    \/ ScanDone \/ CloseIO(Manager) \/ Joined(Manager)

Next ==
    \/ \E t \in Conns :
        \/ \E type \in ClientTypes : ReadLogin(t, type)
        \/ Serve(t)
        \/ WriterStep(t)
    \/ ManagerStep
    \/ Poll
    \/ \E s \in Sessions : PostEvent(s) \/ GetIdle(s)

Spec == Init /\ [][Next]_vars

(* Ready threads run first come, first served, and all block or sleep in   *)
(* time; the yield of a write thread and the timer of the session manager  *)
(* end, whatever I/O there is.  Nothing is asked of clients or the DB.     *)
Fairness ==
    /\ \A t \in Conns : WF_vars(Serve(t)) /\ SF_vars(WriterStep(t))
    /\ WF_vars(ManagerStep)
    /\ SF_vars(Poll /\ Manager \in woken')

FairSpec == Spec /\ Fairness

-----------------------------------------------------------------------------
(* Correctness.                                                            *)

(* A player has one session that is not shut down (findSession returns the *)
(* first it meets; "If there is an existing Session, then close it first", *)
(* session.cpp:299).  It takes two logins at once to break it.             *)
OneSession == \A a, b \in Found : a = b

(* At most one thread writes the events of a session: resumeConnection gets*)
(* rid of the old connection and its thread first ("Close the existing     *)
(* connection, if any", hoxSession.cpp:598).                               *)
OneWriter ==
    \A w, v \in Conns : /\ wpc[w] \in {"loop", "nap", "writing"}
                        /\ wpc[v] \in {"loop", "nap", "writing"}
                        /\ sess[w] = sess[v]
                        => w = v

(* An active session has a connection: its threads call st_read and        *)
(* st_write on _nfd without looking when the state is ACTIVE.              *)
ActiveConnected == \A s \in Sessions : state[s] = "ACTIVE" => nfd[s] # None

(* And never one that handle_connections has closed: it is the connection  *)
(* of the thread that reads for the session.                               *)
ActiveServed ==
    \A s \in Sessions : state[s] = "ACTIVE" /\ nfd[s] # None
        => sess[nfd[s]] = s /\ pc[nfd[s]] \in {"reading", "looping"}

(* The session of a guest that works is in _sessions: what was deleted is  *)
(* not used again, though threads hold on to it across their waits.        *)
ActiveListed == guest => \A s \in Sessions : state[s] = "ACTIVE" => s \in listed

(* No guest stays at a table when  there is no session left to act for him *)
(* (handleShutdown makes him leave all tables).                            *)
NoGhost ==
    guest => \A s \in playing :
                 s \in listed \/ \E t \in Conns : sess[t] = s /\ pc[t] # "closed"

(* The loop of manageSessions never stands on an erased session ("To avoid *)
(* race condition..., delete the expired sessions that were detected in    *)
(* the last run of this function", hoxSessionMgr.cpp:153).                 *)
NoDangling == ~dangling

(* closeIO always gets the write thread to end.                            *)
JoinsEnd == \A x \in Threads : pc[x] = "join" ~> pc[x] # "join" \/ fault # "none"

(* A session that is shut down does not stay in _sessions.                 *)
Purged ==
    \A s \in Sessions :
        state[s] = "SHUTDOWN" ~> s \notin listed \/ state[s] # "SHUTDOWN" \/ fault # "none"
=============================================================================
