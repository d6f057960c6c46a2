----------------------------- MODULE HoxDbProofs -----------------------------
(***************************************************************************)
(* Theorems about HoxDb, for any number of processes, threads, players,    *)
(* tasks and games.                                                        *)
(***************************************************************************)
EXTENDS HoxDb, SequenceTheorems, TLAPS

-----------------------------------------------------------------------------
(* The inductive invariant.                                                *)

Saves == [pid: Players, score: Int, result: Letters]
Asking == {"locking", "reading", "body", "admitted"}

(* What a thread asks for in each of its tasks.                            *)
Jobs == {<<"login", "GET">>, <<"register", "GET">>, <<"register", "PUT">>,
         <<"file", "HTTP">>, <<"flush", "LOG">>, <<"term", "LOG">>}

ThreadAsks(t) ==
    pc[t] \in Asking =>
        /\ req[t].by = t
        /\ <<task[t], req[t].op>> \in Jobs
        /\ task[t] \in {"login", "register"} => req[t].pid \in Players
        /\ pc[t] = "body" => task[t] = "file"
ThreadsAsk == \A t \in Threads : ThreadAsks(t)
WriterAsks(v) ==
    /\ pc[v] # "body"
    /\ pc[v] \in {"locking", "reading"} => \E s \in Saves : req[v] = SetRequest(v, s)
WritersAsk == \A v \in Vps : WriterAsks(v)

(* Who reads from the socket holds the lock.                               *)
LockHeld == \A u \in Users : pc[u] \in {"reading", "body"} => owner[HomeOf(u)] = u

(* What is on the socket of v, and in the agent's hands, is one request of *)
(* the owner of the lock or the answer to it: nothing at all while nobody  *)
(* waits for an answer.                                                    *)
Silent(v) == toAgent[v] = <<>> /\ work[v] = NoRequest
Quiet(v) == Silent(v) /\ fromAgent[v] = <<>>
Sent(v, r) ==
    /\ fromAgent[v] = <<>>
    /\ \/ toAgent[v] = <<r>> /\ work[v] = NoRequest
       \/ toAgent[v] = <<>> /\ work[v] = r
Body(r, val) == [Answer(r, "OK", val) EXCEPT !.op = "BODY"]
Answering(v, r) ==
    /\ Silent(v)
    /\ \/ /\ r.op # "HTTP"
          /\ \E code \in {"OK", "NOT_FOUND", "ERR"}, val \in Int :
                /\ fromAgent[v] = <<Answer(r, code, val)>>
                /\ r.op = "PUT" /\ code = "OK" => Owns(r.by, r.pid)
       \/ /\ r.op = "HTTP"
          /\ \E val \in Int : fromAgent[v] \in {<<Answer(r, "OK", val)>>,
                                                <<Answer(r, "OK", val), Body(r, val)>>}
Following(v, r) == Silent(v) /\ \E val \in Int : fromAgent[v] = <<Body(r, val)>>
Traffic(v) ==
    \/ Quiet(v)
    \/ /\ owner[v] \in Users /\ HomeOf(owner[v]) = v
       /\ \/ /\ pc[owner[v]] = "reading"
             /\ Sent(v, req[owner[v]]) \/ Answering(v, req[owner[v]])
          \/ pc[owner[v]] = "body" /\ Following(v, req[owner[v]])
TrafficInv == \A v \in Vps : Traffic(v) /\ (sock[v] = "closed" => Silent(v))

(* Whose name was confirmed has a row; and what a unique pid means.        *)
NamesOwned == \A r \in registered : Owns(r[1], r[2])
OneRow == unique => \A p \in Players : Len(rows[p]) \in 0..1

DbInv ==
    TypeOK /\ ThreadsAsk /\ WritersAsk /\ LockHeld /\ TrafficInv /\ NamesOwned /\ OneRow

-----------------------------------------------------------------------------
(* What the steps do to the lock and the socket: a request is asked for    *)
(* first, or after an answer; the lock is obtained; it is released after an*)
(* answer; the content of a file follows its size; or neither is touched.  *)
Holders == Users \cup {None}
Elsewhere == <<sock, work, rows>>

Asks(u, r) ==
    /\ pc[u] = "idle" /\ r.by = u
    /\ Ask(u, r)
    /\ UNCHANGED <<Elsewhere, fromAgent>>
Obtains(u) ==
    /\ pc[u] = "locking" /\ owner[HomeOf(u)] = u
    /\ pc' = [pc EXCEPT ![u] = "reading"]
    /\ toAgent' = Written(HomeOf(u), req[u])
    /\ UNCHANGED <<Elsewhere, req, lockVars, fromAgent>>
Receives(u) ==
    LET v == HomeOf(u)
    IN  /\ fromAgent[v] # <<>> \/ sock[v] = "closed"
        /\ fromAgent' = [fromAgent EXCEPT ![v] = IF @ = <<>> THEN @ ELSE Tail(@)]
(* No content of a file is still to come.                                  *)
AllRead(u) == pc[u] = "body" \/ (pc[u] = "reading" /\ (req[u].op = "HTTP" => Result(u) # "OK"))
Releases(u, l) ==
    /\ AllRead(u) /\ Receives(u)
    /\ l \in {"idle", "waiting", "admitted"}
    /\ Release(u, l)
    /\ UNCHANGED <<Elsewhere, toAgent>>
AsksAgain(u, r) ==
    /\ pc[u] = "reading" /\ AllRead(u) /\ Receives(u) /\ r.by = u
    /\ ReleaseAndAsk(u, r)
    /\ UNCHANGED Elsewhere
FileFollows(u) ==
    /\ pc[u] = "reading" /\ req[u].op = "HTTP" /\ Result(u) = "OK"
    /\ Receives(u)
    /\ pc' = [pc EXCEPT ![u] = "body"]
    /\ UNCHANGED <<Elsewhere, req, lockVars, toAgent>>
Pauses(u, l) ==
    /\ pc[u] \in {"idle", "waiting", "admitted"} /\ l \in {"idle", "waiting"}
    /\ pc' = [pc EXCEPT ![u] = l]
    /\ req' \in {req, [req EXCEPT ![u] = NoRequest]}
    /\ UNCHANGED <<Elsewhere, lockVars, chanVars>>

UserStep(u) ==
    \/ \E r \in Requests : Asks(u, r) \/ AsksAgain(u, r)
    \/ Obtains(u) \/ FileFollows(u)
    \/ \E l \in {"idle", "waiting", "admitted"} : Releases(u, l) \/ Pauses(u, l)

SocketStep ==
    \/ \E u \in Users : UserStep(u)
    \/ \E t \in Threads : Exit(t)
    \/ \E v \in Vps : AgentReads(v) \/ AgentAnswers(v) \/ AgentCloses(v)
    \/ UNCHANGED <<Elsewhere, pc, req, lockVars, chanVars>>

LEMMA HomeType ==
    /\ \A u \in Users : HomeOf(u) \in Vps
    /\ \A v \in Vps : HomeOf(v) = v
    /\ \A t \in Threads : HomeOf(t) = Home[t] /\ t \notin Vps
  BY NamesAssumption, HomeAssumption DEF HomeOf, Users

LEMMA RequestType ==
    /\ \A op \in Ops, u \in Users, p \in Players \cup {None}, s \in Int, l \in Letters :
            Request(op, u, p, s, l) \in Requests
    /\ \A u \in Users, p \in Players \cup {None} :
            /\ Request("GET", u, p, 0, "D") \in Requests
            /\ Request("PUT", u, p, NewScore, "D") \in Requests
            /\ Request("HTTP", u, p, 0, "D") \in Requests
            /\ Request("LOG", u, p, 0, "D") \in Requests
    /\ \A v \in Vps, s \in Saves : SetRequest(v, s) \in Requests
    /\ NoRequest \in Requests
  BY ScoreAssumption DEF Request, Requests, SetRequest, Saves, NoRequest, Users, Ops, DbOps, Letters

LEMMA RequestBy ==
    /\ \A op, u, p, s, l : Request(op, u, p, s, l).by = u /\ Request(op, u, p, s, l).op = op
    /\ \A v, s : SetRequest(v, s).by = v /\ SetRequest(v, s).op = "SET"
  BY DEF Request, SetRequest

LEMMA QueueHead ==
    ASSUME TypeOK, NEW v \in Vps, queue[v] # <<>>
    PROVE  /\ Head(queue[v]) \in Saves
           /\ Tail(queue[v]) \in Seq(Saves)
<1>1. queue[v] \in Seq(Saves)
  BY DEF TypeOK, Saves
<1> QED
  BY <1>1, HeadTailProperties

LEMMA BeginAsks ==
    ASSUME NEW t \in Threads, NEW job, NEW p, NEW r \in Requests, r.by = t, Begin(t, job, p, r)
    PROVE  UserStep(t)
<1>1. Asks(t, r)
  BY DEF Begin, Asks, Elsewhere, agentVars
<1> QED
  BY <1>1 DEF UserStep

(* What a thread's steps are.                                              *)
LEMMA ThreadKind ==
    ASSUME DbInv, NEW t \in Threads,
           \/ ThreadStep(t) \/ StartFile(t) \/ StartFlush(t) \/ StartTerm(t)
           \/ \E p \in Players : StartLogin(t, p) \/ StartRegister(t, p)
    PROVE  UserStep(t) \/ Exit(t)
<1> USE DEF DbInv
<1>1. ASSUME StartFile(t) \/ StartFlush(t) \/ StartTerm(t) PROVE UserStep(t)
  <2>1. \A op \in {"HTTP", "LOG"} :
            /\ Request(op, t, None, 0, "D") \in Requests
            /\ Request(op, t, None, 0, "D").by = t
    BY RequestType, RequestBy DEF Users
  <2> QED
    BY <1>1, <2>1, BeginAsks DEF StartFile, StartFlush, StartTerm
<1>2. ASSUME NEW p \in Players, StartLogin(t, p) \/ StartRegister(t, p)
      PROVE  UserStep(t)
  <2>1. Request("GET", t, p, 0, "D") \in Requests /\ Request("GET", t, p, 0, "D").by = t
    BY RequestType, RequestBy DEF Users
  <2> QED
    BY <1>2, <2>1, BeginAsks DEF StartLogin, StartRegister
<1>3. ASSUME Admit(t) PROVE UserStep(t)
  <2>1. Pauses(t, "idle")
    BY <1>3 DEF Admit, Pauses, Elsewhere, agentVars
  <2> QED
    BY <2>1 DEF UserStep
<1>4. ASSUME LoginAnswered(t) \/ FlushAnswered(t) \/ RegisterAnswered(t)
      PROVE  UserStep(t)
  <2>1. Receives(t) /\ pc[t] = "reading"
    BY <1>4 DEF LoginAnswered, FlushAnswered, RegisterAnswered, Returns, Receives
  <2>2. AllRead(t)
    BY <1>4, <2>1 DEF AllRead, ThreadsAsk, ThreadAsks, Asking, Jobs, LoginAnswered, FlushAnswered,
                      RegisterAnswered, Done
  <2>3. \E l \in {"idle", "admitted"} : Release(t, l)
    BY <1>4 DEF LoginAnswered, FlushAnswered, RegisterAnswered
  <2>4. UNCHANGED <<Elsewhere, toAgent>>
    BY <1>4 DEF LoginAnswered, FlushAnswered, RegisterAnswered, Elsewhere, agentVars
  <2>5. \E l \in {"idle", "admitted"} : Releases(t, l)
    BY <2>1, <2>2, <2>3, <2>4 DEF Releases
  <2> QED
    BY <2>5 DEF UserStep
<1>5. ASSUME NameAnswered(t) PROVE UserStep(t)
  <2>1. Receives(t) /\ pc[t] = "reading" /\ req[t].op = "GET"
    BY <1>5 DEF NameAnswered, Returns, Receives
  <2>2. AllRead(t)
    BY <2>1 DEF AllRead
  <2>3. UNCHANGED Elsewhere
    BY <1>5 DEF NameAnswered, Elsewhere, agentVars
  <2>4. CASE Release(t, "idle") /\ UNCHANGED toAgent
    <3>1. Releases(t, "idle")
      BY <2>1, <2>2, <2>3, <2>4 DEF Releases
    <3> QED
      BY <3>1 DEF UserStep
  <2>5. CASE ReleaseAndAsk(t, Request("PUT", t, req[t].pid, NewScore, "D"))
    <3> DEFINE r == Request("PUT", t, req[t].pid, NewScore, "D")
    <3>1. req[t].pid \in Players \cup {None}
      BY DEF TypeOK, Requests, Users
    <3>2. r \in Requests /\ r.by = t
      BY <3>1, RequestType, RequestBy DEF Users
    <3>3. AsksAgain(t, r)
      BY <2>1, <2>2, <2>3, <2>5, <3>2 DEF AsksAgain
    <3> QED
      BY <3>2, <3>3 DEF UserStep
  <2> QED
    BY <1>5, <2>4, <2>5 DEF NameAnswered
<1>6. ASSUME FileAnswered(t) PROVE UserStep(t)
  <2>1. Receives(t) /\ pc[t] = "reading" /\ task[t] = "file"
    BY <1>6 DEF FileAnswered, Returns, Receives
  <2>2. req[t].op = "HTTP"
    BY <2>1 DEF ThreadsAsk, ThreadAsks, Asking, Jobs
  <2>3. UNCHANGED <<Elsewhere, toAgent>>
    BY <1>6 DEF FileAnswered, Elsewhere, agentVars
  <2>4. CASE Result(t) = "OK"
    <3>1. FileFollows(t)
      BY <1>6, <2>1, <2>2, <2>3, <2>4 DEF FileAnswered, FileFollows
    <3> QED
      BY <3>1 DEF UserStep
  <2>5. CASE Result(t) # "OK"
    <3>1. Releases(t, "idle")
      BY <1>6, <2>1, <2>2, <2>3, <2>5 DEF FileAnswered, Releases, AllRead
    <3> QED
      BY <3>1 DEF UserStep
  <2> QED
    BY <2>4, <2>5
<1>7. ASSUME BodyRead(t) PROVE UserStep(t)
  <2>1. Home[t] = HomeOf(t)
    BY HomeType
  <2>2. Releases(t, "idle")
    BY <1>7, <2>1 DEF BodyRead, Releases, AllRead, Receives, Elsewhere, agentVars
  <2> QED
    BY <2>2 DEF UserStep
<1>8. ASSUME Locked(t) PROVE UserStep(t)
  <2>1. Obtains(t)
    BY <1>8 DEF Locked, Obtains, Elsewhere, agentVars
  <2> QED
    BY <2>1 DEF UserStep
<1> QED
  BY <1>1, <1>2, <1>3, <1>4, <1>5, <1>6, <1>7, <1>8 DEF ThreadStep

(* What a write thread's steps are.                                        *)
LEMMA WriterKind ==
    ASSUME DbInv, NEW v \in Vps, WriterStep(v) PROVE UserStep(v)
<1> USE DEF DbInv
<1>1. ASSUME WriterWaits(v) PROVE UserStep(v)
  <2>1. Pauses(v, "waiting")
    BY <1>1 DEF WriterWaits, Pauses, Elsewhere, agentVars
  <2> QED
    BY <2>1 DEF UserStep
<1>2. ASSUME WriterTakes(v) PROVE UserStep(v)
  <2>1. Head(queue[v]) \in Saves
    BY <1>2, QueueHead DEF WriterTakes
  <2>2. SetRequest(v, Head(queue[v])) \in Requests
    BY <2>1, RequestType
  <2>3. SetRequest(v, Head(queue[v])).by = v
    BY RequestBy
  <2>4. Asks(v, SetRequest(v, Head(queue[v])))
    BY <1>2, <2>3 DEF WriterTakes, Asks, Elsewhere, agentVars
  <2> QED
    BY <2>2, <2>4 DEF UserStep
<1>3. ASSUME WriterAnswered(v) PROVE UserStep(v)
  <2>1. Receives(v) /\ pc[v] = "reading"
    BY <1>3 DEF WriterAnswered, Returns, Receives
  <2>2. AllRead(v)
    BY <2>1, RequestBy DEF AllRead, WritersAsk, WriterAsks
  <2>3. CASE Result(v) # "OK" /\ queue[v] # <<>> /\ ReleaseAndAsk(v, SetRequest(v, Head(queue[v])))
    <3>1. SetRequest(v, Head(queue[v])) \in Requests /\ SetRequest(v, Head(queue[v])).by = v
      <4>1. Head(queue[v]) \in Saves
        BY <2>3, QueueHead
      <4> QED
        BY <4>1, RequestType, RequestBy
    <3>2. AsksAgain(v, SetRequest(v, Head(queue[v])))
      BY <1>3, <2>1, <2>2, <2>3, <3>1 DEF WriterAnswered, AsksAgain, Elsewhere, agentVars
    <3> QED
      BY <3>1, <3>2 DEF UserStep
  <2>4. CASE Release(v, IF Result(v) = "OK" THEN "idle" ELSE "waiting") /\ UNCHANGED toAgent
    <3>1. Releases(v, IF Result(v) = "OK" THEN "idle" ELSE "waiting")
      BY <1>3, <2>1, <2>2, <2>4 DEF WriterAnswered, Releases, Elsewhere, agentVars
    <3> QED
      BY <3>1 DEF UserStep
  <2> QED
    BY <1>3, <2>3, <2>4 DEF WriterAnswered
<1>4. ASSUME Locked(v) PROVE UserStep(v)
  <2>1. Obtains(v)
    BY <1>4 DEF Locked, Obtains, Elsewhere, agentVars
  <2> QED
    BY <2>1 DEF UserStep
<1> QED
  BY <1>1, <1>2, <1>3, <1>4 DEF WriterStep

LEMMA StepKind == DbInv /\ [Next]_vars => SocketStep
<1> SUFFICES ASSUME DbInv, [Next]_vars PROVE SocketStep
  OBVIOUS
<1>1. ASSUME NEW v \in Vps, NEW p \in Players, NEW q \in Players, NEW l \in {"W", "D"},
             EndGame(v, p, q, l)
      PROVE  SocketStep
  <2>1. CASE pc[v] = "waiting"
    <3>1. Pauses(v, "idle")
      BY <1>1, <2>1 DEF EndGame, Signal, Pauses, Elsewhere, agentVars
    <3> QED
      BY <3>1 DEF SocketStep, UserStep, Users
  <2>2. CASE pc[v] # "waiting"
    BY <1>1, <2>2 DEF EndGame, Signal, SocketStep, Elsewhere, agentVars, lockVars, chanVars
  <2> QED
    BY <2>1, <2>2
<1>2. ASSUME UNCHANGED vars PROVE SocketStep
  BY <1>2 DEF SocketStep, vars, Elsewhere, lockVars, chanVars, agentVars
<1> QED
  BY <1>1, <1>2, ThreadKind, WriterKind DEF SocketStep, Next, AgentStep, Users

-----------------------------------------------------------------------------
(* The lock.                                                               *)

LEMMA LockHeldNext == DbInv /\ [Next]_vars => LockHeld'
<1> SUFFICES ASSUME DbInv, SocketStep PROVE LockHeld'
  BY StepKind
<1> USE HomeType
<1>1. LockHeld
  BY DEF DbInv
<1>2. /\ pc \in [Users -> {"idle", "locking", "reading", "body", "admitted", "waiting", "gone"}]
      /\ owner \in [Vps -> Users \cup {None}]
  BY DEF DbInv, TypeOK
<1>3. ASSUME NEW u \in Users, NEW r \in Requests, Asks(u, r) PROVE LockHeld'
  BY <1>1, <1>2, <1>3, NamesAssumption DEF Asks, Ask, LockHeld, Users
<1>4. ASSUME NEW u \in Users, NEW r \in Requests, AsksAgain(u, r) PROVE LockHeld'
  BY <1>1, <1>2, <1>4 DEF AsksAgain, ReleaseAndAsk, LockHeld, lockVars
<1>5. ASSUME NEW u \in Users, Obtains(u) \/ FileFollows(u) PROVE LockHeld'
  BY <1>1, <1>2, <1>5 DEF Obtains, FileFollows, LockHeld, lockVars
<1>6. ASSUME NEW u \in Users, NEW l \in {"idle", "waiting", "admitted"}, Releases(u, l)
      PROVE  LockHeld'
  BY <1>1, <1>2, <1>6 DEF Releases, Release, AllRead, LockHeld, lockVars
<1>7. ASSUME NEW u \in Users, NEW l \in {"idle", "waiting", "admitted"}, Pauses(u, l)
      PROVE  LockHeld'
  BY <1>1, <1>2, <1>7 DEF Pauses, LockHeld, lockVars
<1>8. ASSUME NEW t \in Threads, Exit(t) PROVE LockHeld'
  BY <1>1, <1>2, <1>8 DEF Exit, LockHeld
<1>9. CASE UNCHANGED <<pc, owner>>
  BY <1>1, <1>9 DEF LockHeld
<1> QED
  BY <1>3, <1>4, <1>5, <1>6, <1>7, <1>8, <1>9
     DEF SocketStep, UserStep, AgentReads, AgentAnswers, AgentCloses, lockVars

-----------------------------------------------------------------------------
(* The socket.                                                             *)

LEMMA ShortSequences ==
    /\ \A x : /\ Append(<<>>, x) = <<x>> /\ <<>> \o <<x>> = <<x>> /\ <<x>> # <<>>
              /\ Head(<<x>>) = x /\ Tail(<<x>>) = <<>>
    /\ \A x, y : /\ <<>> \o <<x, y>> = <<x, y>> /\ <<x, y>> # <<>>
                 /\ Head(<<x, y>>) = x /\ Tail(<<x, y>>) = <<y>>
  OBVIOUS

LEMMA AnswerIs ==
    /\ \A r, code, val : /\ Answer(r, code, val).op = r.op /\ Answer(r, code, val).by = r.by
                         /\ Answer(r, code, val).pid = r.pid
                         /\ Answer(r, code, val).code = code /\ Answer(r, code, val).val = val
    /\ \A r, val : /\ Body(r, val).op = "BODY" /\ Body(r, val).by = r.by
    /\ Failed.op = "UNKNOWN"
  BY DEF Answer, Body, Failed

(* Who waits for an answer has sent a request of his own.                  *)
LEMMA OwnRequest ==
    ASSUME DbInv, NEW u \in Users, pc[u] \in {"locking", "reading", "body"}
    PROVE  req[u] \in Requests /\ req[u].by = u /\ req[u] # NoRequest
<1>1. req[u] \in Requests
  BY DEF DbInv, TypeOK
<1>2. u \in Vps => req[u].by = u
  BY RequestBy DEF DbInv, WritersAsk, WriterAsks
<1>3. u \in Threads => req[u].by = u
  BY DEF DbInv, ThreadsAsk, ThreadAsks, Asking
<1>4. req[u].by = u
  BY <1>2, <1>3 DEF Users
<1>5. u # None
  BY NamesAssumption DEF Users
<1> QED
  BY <1>1, <1>4, <1>5, RequestBy DEF NoRequest

(* After an answer is read, nothing is left.                               *)
LEMMA ReadAll ==
    ASSUME DbInv, NEW u \in Users, AllRead(u), Receives(u)
    PROVE  LET v == HomeOf(u) IN Silent(v) /\ fromAgent'[v] = <<>>
<1> DEFINE v == HomeOf(u)
<1>1. v \in Vps
  BY HomeType
<1>2. owner[v] = u /\ pc[u] \in {"reading", "body"}
  BY DEF DbInv, LockHeld, AllRead
<1>3. fromAgent' = [fromAgent EXCEPT ![v] = IF @ = <<>> THEN @ ELSE Tail(@)]
      /\ fromAgent \in [Vps -> Seq(Answers)] /\ (fromAgent[v] # <<>> \/ sock[v] = "closed")
  BY DEF Receives, DbInv, TypeOK
<1>4. fromAgent'[v] = IF fromAgent[v] = <<>> THEN <<>> ELSE Tail(fromAgent[v])
  BY <1>1, <1>3
<1>5. Traffic(v) /\ (sock[v] = "closed" => Silent(v))
  BY <1>1 DEF DbInv, TrafficInv
<1>6. CASE Quiet(v)
  BY <1>4, <1>6 DEF Quiet
<1>7. CASE Sent(v, req[u])
  BY <1>3, <1>4, <1>5, <1>7 DEF Sent
<1>8. CASE pc[u] = "reading" /\ Answering(v, req[u])
  <2>1. CASE req[u].op # "HTTP"
    BY <1>4, <1>8, <2>1, ShortSequences DEF Answering
  <2>2. CASE req[u].op = "HTTP"
    <3>1. PICK val \in Int : fromAgent[v] \in {<<Answer(req[u], "OK", val)>>,
                                               <<Answer(req[u], "OK", val), Body(req[u], val)>>}
      BY <1>8, <2>2 DEF Answering
    <3>2. Reply(u) = Answer(req[u], "OK", val)
      BY <3>1, ShortSequences DEF Reply
    <3>3. Result(u) = "OK"
      BY <2>2, <3>2, AnswerIs DEF Result
    <3> QED
      BY <1>8, <2>2, <3>3 DEF AllRead
  <2> QED
    BY <2>1, <2>2
<1>9. CASE pc[u] = "body" /\ Following(v, req[u])
  BY <1>4, <1>9, ShortSequences DEF Following
<1> QED
  BY <1>2, <1>5, <1>6, <1>7, <1>8, <1>9 DEF Traffic

(* Traffic and silence at v hang on the variables of v only.               *)
SameAt(v) ==
    /\ toAgent'[v] = toAgent[v] /\ work'[v] = work[v] /\ fromAgent'[v] = fromAgent[v]
    /\ sock'[v] = sock[v] /\ owner'[v] = owner[v]
    /\ owner[v] \in Users /\ HomeOf(owner[v]) = v =>
          pc'[owner[v]] = pc[owner[v]] /\ req'[owner[v]] = req[owner[v]]

LEMMA QuietStays ==
    ASSUME DbInv, NEW v \in Vps, Quiet(v), toAgent'[v] = toAgent[v], work'[v] = work[v],
           fromAgent'[v] = fromAgent[v]
    PROVE  Traffic(v)' /\ Silent(v)'
  BY DEF Quiet, Silent, Traffic

LEMMA TrafficStays ==
    ASSUME DbInv, NEW v \in Vps, SameAt(v), rows' = rows
    PROVE  Traffic(v)' /\ (sock'[v] = "closed" => Silent(v)')
<1>1. Traffic(v) /\ (sock[v] = "closed" => Silent(v))
  BY DEF DbInv, TrafficInv
<1>2. Silent(v)' <=> Silent(v)
  BY DEF SameAt, Silent
<1>3. CASE Quiet(v)
  BY <1>1, <1>2, <1>3, QuietStays DEF SameAt
<1>4. CASE ~Quiet(v)
  <2>1. owner[v] \in Users /\ HomeOf(owner[v]) = v
    BY <1>1, <1>4 DEF Traffic
  <2>2. \A r : Sent(v, r)' = Sent(v, r) /\ Answering(v, r)' = Answering(v, r)
                /\ Following(v, r)' = Following(v, r)
    <3>1. \A t, p : Owns(t, p)' = Owns(t, p)
      BY DEF Owns
    <3> QED
      BY <1>2, <3>1 DEF SameAt, Sent, Answering, Following
  <2> QED
    BY <1>1, <1>2, <1>4, <2>1, <2>2 DEF SameAt, Traffic
<1> QED
  BY <1>3, <1>4

(* What a step of u leaves alone: everything elsewhere.                    *)
LEMMA OthersSame ==
    ASSUME DbInv, NEW u \in Users, NEW v \in Vps, v # HomeOf(u),
           \A w \in Users : w # u => pc'[w] = pc[w] /\ req'[w] = req[w],
           toAgent'[v] = toAgent[v], fromAgent'[v] = fromAgent[v], owner'[v] = owner[v],
           UNCHANGED Elsewhere
    PROVE  Traffic(v)' /\ (sock'[v] = "closed" => Silent(v)')
  BY TrafficStays DEF SameAt, Elsewhere

(* A request is written: by its author, who holds the lock, while nothing  *)
(* else is on the way.                                                     *)
LEMMA RequestWritten ==
    ASSUME DbInv, NEW u \in Users, NEW r \in Requests, Silent(HomeOf(u)),
           fromAgent'[HomeOf(u)] = <<>>, UNCHANGED <<sock, work>>,
           owner'[HomeOf(u)] = u, pc'[u] = "reading", req'[u] = r,
           toAgent' = Written(HomeOf(u), r)
    PROVE  LET v == HomeOf(u) IN Traffic(v)' /\ (sock'[v] = "closed" => Silent(v)')
<1> DEFINE v == HomeOf(u)
<1>1. v \in Vps
  BY HomeType
<1>2. toAgent \in [Vps -> Seq(Requests)] /\ sock \in [Vps -> {"open", "closed"}]
  BY DEF DbInv, TypeOK
<1>3. CASE sock[v] = "open"
  <2>1. toAgent'[v] = <<r>>
    BY <1>1, <1>2, <1>3, ShortSequences DEF Written, Silent
  <2>2. Sent(v, r)'
    BY <2>1 DEF Sent, Silent
  <2> QED
    BY <1>3, <2>2 DEF Traffic
<1>4. CASE sock[v] = "closed"
  BY <1>4 DEF Written, Quiet, Silent, Traffic
<1> QED
  BY <1>1, <1>2, <1>3, <1>4

LEMMA WrittenElsewhere ==
    ASSUME DbInv, NEW v \in Vps, NEW w \in Vps \ {v}, NEW r
    PROVE  Written(v, r)[w] = toAgent[w]
  BY DEF Written, DbInv, TypeOK

(* Only threads register.                                                  *)
LEMMA Registering ==
    ASSUME DbInv, NEW u \in Users, pc[u] = "reading", req[u].op = "PUT"
    PROVE  u \in Threads /\ req[u].by = u /\ req[u].pid \in Players /\ task[u] = "register"
<1>1. u \notin Vps
  BY RequestBy DEF DbInv, WritersAsk, WriterAsks
<1>2. u \in Threads
  BY <1>1 DEF Users
<1> QED
  BY <1>2 DEF DbInv, ThreadsAsk, ThreadAsks, Asking, Jobs

(* What the agent works on is the request of who waits for its answer.     *)
LEMMA WorkOf ==
    ASSUME DbInv, NEW v \in Vps, Works(v)
    PROVE  \E u \in Users : /\ u = owner[v] /\ HomeOf(u) = v /\ pc[u] = "reading"
                            /\ work[v] = req[u] /\ toAgent[v] = <<>> /\ fromAgent[v] = <<>>
                            /\ sock[v] = "open"
<1>1. work[v] # NoRequest /\ Traffic(v) /\ (sock[v] = "closed" => Silent(v))
  BY DEF DbInv, TrafficInv, Works
<1>2. sock[v] = "open"
  BY <1>1 DEF Silent, DbInv, TypeOK
<1> QED
  BY <1>1, <1>2 DEF Traffic, Quiet, Silent, Answering, Following, Sent

(* A row keeps its place and its owner; with a unique pid it stays alone.  *)
LEMMA RowUpdated ==
    ASSUME NEW s \in Seq(Rows), NEW r \in Requests,
           NEW u, u = [i \in DOMAIN s |-> UpdatedRow(s[i], r)]
    PROVE  /\ u \in Seq(Rows) /\ Len(u) = Len(s)
           /\ \A i \in 1..Len(s) : u[i].owner = s[i].owner
<1>1. Len(s) \in Nat /\ s \in [1..Len(s) -> Rows] /\ DOMAIN s = 1..Len(s)
  BY LenProperties
<1>2. ASSUME NEW i \in 1..Len(s) PROVE UpdatedRow(s[i], r) \in Rows
  <2>1. s[i] \in Rows /\ r.score \in Int /\ r.result \in Letters
    BY <1>1, <1>2 DEF Requests
  <2>2. PICK f \in [Letters -> Nat] : f = s[i].results
    BY <2>1 DEF Rows
  <2>3. [f EXCEPT ![r.result] = f[r.result] + 1] \in [Letters -> Nat]
    BY <2>1
  <2>4. s[i].owner \in Threads \cup {None}
    BY <2>1 DEF Rows
  <2> QED
    BY <2>1, <2>2, <2>3, <2>4 DEF UpdatedRow, Row, Rows
<1>3. \A i \in 1..Len(s) : UpdatedRow(s[i], r).owner = s[i].owner
  BY DEF UpdatedRow, Row
<1> DEFINE n == Len(s)
<1>4. n \in Nat /\ u \in [1..n -> Rows] /\ \A i \in 1..n : u[i].owner = s[i].owner
  BY <1>1, <1>2, <1>3
<1> HIDE DEF n
<1>5. u \in Seq(Rows) /\ Len(u) = n
  BY <1>4
<1> QED
  BY <1>4, <1>5 DEF n

LEMMA RowAppended ==
    ASSUME NEW s \in Seq(Rows), NEW t \in Threads
    PROVE  /\ NewRow(t) \in Rows /\ NewRow(t).owner = t
           /\ Append(s, NewRow(t)) \in Seq(Rows) /\ Len(Append(s, NewRow(t))) = Len(s) + 1
           /\ \A i \in 1..Len(s) : Append(s, NewRow(t))[i] = s[i]
           /\ Append(s, NewRow(t))[Len(s) + 1] = NewRow(t)
<1>1. NewRow(t) \in Rows /\ NewRow(t).owner = t
  BY ScoreAssumption DEF NewRow, Row, Rows
<1> QED
  BY <1>1, AppendProperties

LEMMA RowsNext ==
    ASSUME DbInv, NEW w \in Vps, AgentAnswers(w), NEW p \in Players
    PROVE  /\ rows'[p] \in Seq(Rows) /\ Len(rows'[p]) >= Len(rows[p])
           /\ \A i \in 1..Len(rows[p]) : rows'[p][i].owner = rows[p][i].owner
           /\ unique /\ Len(rows[p]) \in 0..1 => Len(rows'[p]) \in 0..1
<1> DEFINE r == work[w]
<1>1. /\ rows \in [Players -> Seq(Rows)] /\ r \in Requests
      /\ rows[p] \in Seq(Rows) /\ Len(rows[p]) \in Nat
  BY LenProperties DEF DbInv, TypeOK
<1>2. \/ rows' = rows
      \/ r.op = "PUT" /\ ~Refused(r) /\ rows' = Inserted(r)
      \/ rows' = Updated(r)
  BY DEF AgentAnswers, HandleRequest, HandleGet, HandlePut, HandleSet, HandleHttpGet, HandleLog
<1>3. CASE rows' = rows
  BY <1>1, <1>3
<1>4. CASE r.op = "PUT" /\ ~Refused(r) /\ rows' = Inserted(r)
  <2>1. r.by \in Threads
    BY <1>4, WorkOf, Registering DEF AgentAnswers
  <2>2. CASE r.pid # p
    <3>1. rows'[p] = rows[p]
      BY <1>1, <1>4, <2>2 DEF Inserted
    <3> QED
      BY <1>1, <3>1
  <2>3. CASE r.pid = p
    <3>1. rows'[p] = Append(rows[p], NewRow(r.by)) /\ (unique => rows[p] = <<>>)
      BY <1>1, <1>4, <2>3 DEF Inserted, Refused
    <3> QED
      BY <1>1, <2>1, <3>1, RowAppended, EmptySeq
  <2> QED
    BY <2>2, <2>3
<1>5. CASE rows' = Updated(r)
  <2>1. CASE r.pid # p
    <3>1. rows'[p] = rows[p]
      BY <1>1, <1>5, <2>1 DEF Updated
    <3> QED
      BY <1>1, <3>1
  <2>2. CASE r.pid = p
    <3> DEFINE s == rows[p]
               u == rows'[p]
    <3>1. u = [i \in DOMAIN s |-> UpdatedRow(s[i], r)]
      BY <1>1, <1>5, <2>2 DEF Updated
    <3>2. /\ u \in Seq(Rows) /\ Len(u) = Len(s)
          /\ \A i \in 1..Len(s) : u[i].owner = s[i].owner
      BY <1>1, <3>1, RowUpdated
    <3> QED
      BY <1>1, <3>2
  <2> QED
    BY <2>1, <2>2
<1> QED
  BY <1>2, <1>3, <1>4, <1>5

LEMMA ScoresAre == DbInv => Scores \subseteq Int
<1> SUFFICES ASSUME DbInv, NEW x \in Scores PROVE x \in Int
  OBVIOUS
<1>1. PICK p \in Players : x \in {rows[p][i].score : i \in DOMAIN rows[p]}
  BY DEF Scores
<1>2. PICK i \in DOMAIN rows[p] : x = rows[p][i].score
  BY <1>1
<1>3. rows[p] \in Seq(Rows)
  BY DEF DbInv, TypeOK
<1>4. rows[p][i] \in Rows
  BY <1>3, LenProperties, ElementOfSeq
<1> QED
  BY <1>2, <1>4 DEF Rows

LEMMA OwnersStay ==
    ASSUME DbInv, NEW w \in Vps, AgentAnswers(w), NEW p \in Players, NEW t, Owns(t, p)
    PROVE  Owns(t, p)'
<1>1. /\ rows[p] \in Seq(Rows) /\ rows'[p] \in Seq(Rows) /\ Len(rows'[p]) >= Len(rows[p])
      /\ \A i \in 1..Len(rows[p]) : rows'[p][i].owner = rows[p][i].owner
  BY RowsNext DEF DbInv, TypeOK
<1>2. /\ DOMAIN rows[p] = 1..Len(rows[p]) /\ DOMAIN rows'[p] = 1..Len(rows'[p])
      /\ Len(rows[p]) \in Nat /\ Len(rows'[p]) \in Nat
  BY <1>1, LenProperties
<1>3. PICK i \in DOMAIN rows[p] : rows[p][i].owner = t
  BY DEF Owns
<1>4. i \in DOMAIN rows'[p] /\ rows'[p][i].owner = t
  BY <1>1, <1>2, <1>3
<1> QED
  BY <1>4 DEF Owns

(* Who has just inserted a row owns one.                                   *)
LEMMA PutOwns ==
    ASSUME DbInv, NEW w \in Vps, AgentAnswers(w), NEW r, r = work[w], r.op = "PUT",
           rows' = Inserted(r)
    PROVE  Owns(r.by, r.pid)'
<1> DEFINE p == r.pid
<1>1. r.by \in Threads /\ p \in Players
  BY WorkOf, Registering DEF AgentAnswers
<1>2. rows \in [Players -> Seq(Rows)] /\ rows[p] \in Seq(Rows) /\ Len(rows[p]) \in Nat
  BY <1>1, LenProperties DEF DbInv, TypeOK
<1>3. rows'[p] = Append(rows[p], NewRow(r.by))
  BY <1>1, <1>2 DEF Inserted
<1> DEFINE n == Len(rows[p]) + 1
<1>4. n \in 1..n /\ DOMAIN rows'[p] = 1..n /\ rows'[p][n].owner = r.by
  BY <1>1, <1>2, <1>3, RowAppended, LenProperties
<1> QED
  BY <1>4 DEF Owns

LEMMA TrafficNext == DbInv /\ [Next]_vars => TrafficInv'
<1> SUFFICES ASSUME DbInv, SocketStep, NEW v \in Vps
             PROVE  Traffic(v)' /\ (sock'[v] = "closed" => Silent(v)')
  BY StepKind DEF TrafficInv
<1> USE HomeType
<1>1. /\ pc \in [Users -> {"idle", "locking", "reading", "body", "admitted", "waiting", "gone"}]
      /\ owner \in [Vps -> Users \cup {None}] /\ req \in [Users -> Requests]
      /\ toAgent \in [Vps -> Seq(Requests)] /\ work \in [Vps -> Requests]
      /\ fromAgent \in [Vps -> Seq(Answers)]
  BY DEF DbInv, TypeOK
<1>2. Traffic(v) /\ (sock[v] = "closed" => Silent(v))
  BY DEF DbInv, TrafficInv
<1>3. ASSUME owner[v] = None \/ pc[owner[v]] \notin {"reading", "body"} PROVE Quiet(v)
  BY <1>2, <1>3, NamesAssumption DEF Traffic, Users
<1>4. ASSUME NEW u \in Users, NEW r \in Requests, Asks(u, r)
      PROVE  Traffic(v)' /\ (sock'[v] = "closed" => Silent(v)')
  <2>1. /\ \A w \in Users : w # u => pc'[w] = pc[w] /\ req'[w] = req[w]
        /\ UNCHANGED <<Elsewhere, fromAgent>> /\ req'[u] = r
    BY <1>1, <1>4 DEF Asks, Ask, lockVars
  <2>2. CASE v # HomeOf(u)
    <3>1. toAgent'[v] = toAgent[v] /\ owner'[v] = owner[v]
      BY <1>1, <1>4, <2>2, WrittenElsewhere DEF Asks, Ask, lockVars
    <3> QED
      BY <2>1, <2>2, <3>1, OthersSame
  <2>3. CASE v = HomeOf(u) /\ owner[v] = None
    <3>1. owner'[v] = u /\ pc'[u] = "reading" /\ toAgent' = Written(v, r)
      BY <1>1, <1>4, <2>3 DEF Asks, Ask
    <3>2. Quiet(v)
      BY <1>3, <2>3
    <3> QED
      BY <2>1, <2>3, <3>1, <3>2, RequestWritten DEF Quiet, Elsewhere
  <2>4. CASE v = HomeOf(u) /\ owner[v] # None
    <3>1. UNCHANGED <<owner, toAgent>>
      BY <1>4, <2>4 DEF Asks, Ask
    <3>2. owner[v] = u => Quiet(v)
      BY <1>3, <1>4 DEF Asks
    <3>3. CASE owner[v] # u
      BY <2>1, <3>1, <3>3, TrafficStays DEF SameAt, Elsewhere
    <3> QED
      BY <1>2, <2>1, <3>1, <3>2, <3>3, QuietStays DEF Elsewhere
  <2> QED
    BY <2>2, <2>3, <2>4
<1>5. ASSUME NEW u \in Users, NEW r \in Requests, AsksAgain(u, r)
      PROVE  Traffic(v)' /\ (sock'[v] = "closed" => Silent(v)')
  <2>1. /\ \A w \in Users : w # u => pc'[w] = pc[w] /\ req'[w] = req[w]
        /\ UNCHANGED Elsewhere /\ req'[u] = r
        /\ HomeOf(u) # v => fromAgent'[v] = fromAgent[v]
    BY <1>1, <1>5 DEF AsksAgain, ReleaseAndAsk, Receives
  <2>2. CASE v # HomeOf(u)
    <3>1. toAgent'[v] = toAgent[v] /\ owner'[v] = owner[v]
      BY <1>1, <1>5, <2>2, WrittenElsewhere DEF AsksAgain, ReleaseAndAsk, lockVars
    <3> QED
      BY <2>1, <2>2, <3>1, OthersSame
  <2>3. CASE v = HomeOf(u)
    <3>1. Silent(v) /\ fromAgent'[v] = <<>>
      BY <1>5, <2>3, ReadAll DEF AsksAgain
    <3>2. CASE toAgent' = Written(v, r) /\ UNCHANGED <<lockVars, pc>>
      <4>1. owner[v] = u /\ pc[u] = "reading"
        BY <1>5, <2>3 DEF DbInv, LockHeld, AsksAgain
      <4> QED
        BY <2>1, <2>3, <3>1, <3>2, <4>1, RequestWritten DEF Elsewhere, lockVars
    <3>3. CASE UNCHANGED toAgent
      BY <2>1, <3>1, <3>3 DEF Elsewhere, Silent, Quiet, Traffic
    <3> QED
      BY <1>5, <2>3, <3>2, <3>3 DEF AsksAgain, ReleaseAndAsk
  <2> QED
    BY <2>2, <2>3
<1>6. ASSUME NEW u \in Users, Obtains(u)
      PROVE  Traffic(v)' /\ (sock'[v] = "closed" => Silent(v)')
  <2>1. /\ \A w \in Users : w # u => pc'[w] = pc[w] /\ req'[w] = req[w]
        /\ UNCHANGED <<Elsewhere, fromAgent, owner>> /\ req'[u] = req[u] /\ pc'[u] = "reading"
    BY <1>1, <1>6 DEF Obtains, lockVars
  <2>2. CASE v # HomeOf(u)
    <3>1. toAgent'[v] = toAgent[v]
      BY <1>6, <2>2, WrittenElsewhere DEF Obtains
    <3> QED
      BY <2>1, <2>2, <3>1, OthersSame
  <2>3. CASE v = HomeOf(u)
    <3>1. owner[v] = u /\ pc[u] = "locking" /\ toAgent' = Written(v, req[u])
      BY <1>6, <2>3 DEF Obtains
    <3>2. Quiet(v)
      BY <1>3, <3>1
    <3> QED
      BY <1>1, <2>1, <2>3, <3>1, <3>2, RequestWritten DEF Quiet, Elsewhere
  <2> QED
    BY <2>2, <2>3
<1>7. ASSUME NEW u \in Users, FileFollows(u)
      PROVE  Traffic(v)' /\ (sock'[v] = "closed" => Silent(v)')
  <2>1. /\ \A w \in Users : w # u => pc'[w] = pc[w] /\ req'[w] = req[w]
        /\ UNCHANGED <<Elsewhere, toAgent, owner, req>> /\ pc'[u] = "body" /\ pc[u] = "reading"
        /\ HomeOf(u) # v => fromAgent'[v] = fromAgent[v]
    BY <1>1, <1>7 DEF FileFollows, Receives, lockVars
  <2>2. CASE v # HomeOf(u)
    BY <2>1, <2>2, OthersSame
  <2>3. CASE v = HomeOf(u)
    <3>1. owner[v] = u
      BY <2>1, <2>3 DEF DbInv, LockHeld
    <3>2. fromAgent'[v] = IF fromAgent[v] = <<>> THEN <<>> ELSE Tail(fromAgent[v])
      BY <1>1, <1>7, <2>3 DEF FileFollows, Receives
    <3>3. fromAgent[v] # <<>>
      BY <1>7, <2>3, AnswerIs DEF FileFollows, Result, Reply
    <3>4. Answering(v, req[u])
      BY <1>2, <2>1, <3>1, <3>3 DEF Traffic, Quiet, Sent
    <3>5. PICK val \in Int : fromAgent[v] \in {<<Answer(req[u], "OK", val)>>,
                                               <<Answer(req[u], "OK", val), Body(req[u], val)>>}
      BY <1>7, <3>4 DEF Answering, FileFollows
    <3>6. Silent(v)'
      BY <2>1, <3>4 DEF Answering, Silent, Elsewhere
    <3>7. fromAgent'[v] = <<>> \/ fromAgent'[v] = <<Body(req[u], val)>>
      <4>1. PICK a, b : b = Body(req[u], val) /\ fromAgent[v] \in {<<a>>, <<a, b>>}
        BY <3>5
      <4>2. fromAgent[v] = <<a>> => fromAgent'[v] = <<>>
        BY <3>2, ShortSequences
      <4>3. fromAgent[v] = <<a, b>> => fromAgent'[v] = <<b>>
        BY <3>2, ShortSequences
      <4> QED
        BY <4>1, <4>2, <4>3
    <3>8. Quiet(v)' \/ Following(v, req[u])'
      <4>1. req' = req
        BY <2>1
      <4>2. CASE fromAgent'[v] = <<>>
        BY <3>6, <4>2 DEF Quiet, Silent
      <4>3. CASE fromAgent'[v] = <<Body(req[u], val)>>
        <5>1. PICK r : r = req[u]
          OBVIOUS
        <5>2. Following(v, r)'
          BY <3>6, <4>3, <5>1 DEF Following
        <5> QED
          BY <4>1, <5>1, <5>2
      <4> QED
        BY <3>7, <4>2, <4>3
    <3> QED
      BY <2>1, <2>3, <3>1, <3>6, <3>8 DEF Traffic
  <2> QED
    BY <2>2, <2>3
<1>8. ASSUME NEW u \in Users, NEW l \in {"idle", "waiting", "admitted"}, Releases(u, l)
      PROVE  Traffic(v)' /\ (sock'[v] = "closed" => Silent(v)')
  <2>1. /\ \A w \in Users : w # u => pc'[w] = pc[w] /\ req'[w] = req[w]
        /\ UNCHANGED <<Elsewhere, toAgent>>
        /\ HomeOf(u) # v => fromAgent'[v] = fromAgent[v] /\ owner'[v] = owner[v]
    BY <1>1, <1>8 DEF Releases, Release, Receives, lockVars
  <2>2. CASE v # HomeOf(u)
    BY <2>1, <2>2, OthersSame
  <2>3. CASE v = HomeOf(u)
    <3>1. Silent(v) /\ fromAgent'[v] = <<>>
      BY <1>8, <2>3, ReadAll DEF Releases
    <3> QED
      BY <2>1, <3>1 DEF Elsewhere, Silent, Quiet, Traffic
  <2> QED
    BY <2>2, <2>3
<1>9. ASSUME NEW u \in Users, NEW l \in {"idle", "waiting", "admitted"}, Pauses(u, l)
      PROVE  Traffic(v)' /\ (sock'[v] = "closed" => Silent(v)')
  <2>1. /\ \A w \in Users : w # u => pc'[w] = pc[w] /\ req'[w] = req[w]
        /\ UNCHANGED <<Elsewhere, toAgent, fromAgent, owner>> /\ pc[u] \notin {"reading", "body"}
    BY <1>1, <1>9 DEF Pauses, lockVars, chanVars
  <2>2. CASE owner[v] = u
    BY <1>2, <1>3, <2>1, <2>2, QuietStays DEF Elsewhere
  <2>3. CASE owner[v] # u
    BY <2>1, <2>3, TrafficStays DEF SameAt, Elsewhere
  <2> QED
    BY <2>2, <2>3
<1>10. ASSUME NEW t \in Threads, Exit(t)
      PROVE  Traffic(v)' /\ (sock'[v] = "closed" => Silent(v)')
  <2>1. CASE v # Home[t]
    <3>1. SameAt(v) /\ rows' = rows
      BY <1>1, <1>10, <2>1 DEF Exit, SameAt, agentVars
    <3> QED
      BY <3>1, TrafficStays
  <2>2. CASE v = Home[t]
    <3>1. pc[t] = "reading" /\ owner[v] = t /\ (fromAgent[v] # <<>> \/ sock[v] = "closed")
      BY <1>10, <2>2 DEF Exit, DbInv, LockHeld, Users
    <3>2. Silent(v)
      BY <1>2, <3>1 DEF Traffic, Quiet, Sent, Answering
    <3>3. toAgent' = toAgent /\ work' = work /\ fromAgent'[v] = <<>>
      BY <1>1, <1>10, <2>2 DEF Exit, agentVars
    <3> QED
      BY <3>2, <3>3 DEF Silent, Quiet, Traffic
  <2> QED
    BY <2>1, <2>2
<1>11. ASSUME NEW w \in Vps, AgentReads(w)
      PROVE  Traffic(v)' /\ (sock'[v] = "closed" => Silent(v)')
  <2>1. UNCHANGED <<pc, req, owner, sock, fromAgent, rows>>
    BY <1>11 DEF AgentReads, lockVars
  <2>2. CASE v # w
    <3>1. SameAt(v)
      BY <1>1, <1>11, <2>1, <2>2 DEF AgentReads, SameAt
    <3> QED
      BY <2>1, <3>1, TrafficStays
  <2>3. CASE v = w
    <3>1. toAgent[v] # <<>> /\ work'[v] = Head(toAgent[v]) /\ toAgent'[v] = Tail(toAgent[v])
      BY <1>1, <1>11, <2>3 DEF AgentReads
    <3>2. PICK r : r = req[owner[v]] /\ pc[owner[v]] = "reading" /\ owner[v] \in Users
                    /\ HomeOf(owner[v]) = v /\ Sent(v, r)
      BY <1>2, <3>1 DEF Traffic, Quiet, Silent, Answering, Following
    <3>3. toAgent[v] = <<r>> /\ fromAgent[v] = <<>>
      BY <3>1, <3>2 DEF Sent
    <3>4. toAgent'[v] = <<>> /\ work'[v] = r
      BY <3>1, <3>3, ShortSequences
    <3>5. Sent(v, r)'
      BY <2>1, <3>3, <3>4 DEF Sent
    <3> QED
      BY <1>2, <2>1, <3>2, <3>1, <3>5 DEF Traffic, Silent
  <2> QED
    BY <2>2, <2>3
<1>12. ASSUME NEW w \in Vps, AgentCloses(w)
      PROVE  Traffic(v)' /\ (sock'[v] = "closed" => Silent(v)')
  <2>1. UNCHANGED <<pc, req, owner, fromAgent, rows>>
    BY <1>12 DEF AgentCloses, lockVars, agentVars
  <2>2. CASE v # w
    <3>1. SameAt(v)
      BY <1>1, <1>12, <2>1, <2>2 DEF AgentCloses, SameAt
    <3> QED
      BY <2>1, <3>1, TrafficStays
  <2>3. CASE v = w
    <3>1. toAgent'[v] = <<>> /\ work'[v] = NoRequest
      BY <1>1, <1>12, <2>3 DEF AgentCloses
    <3>2. Silent(v)'
      BY <3>1 DEF Silent
    <3>3. \A r : (Sent(v, r) => Quiet(v)') /\ (Answering(v, r) => Answering(v, r)')
                  /\ (Following(v, r) => Following(v, r)')
      <4>1. \A t, p : Owns(t, p)' = Owns(t, p)
        BY <2>1 DEF Owns
      <4> QED
        BY <2>1, <3>2, <4>1 DEF Sent, Answering, Following, Quiet
    <3>4. Quiet(v) => Quiet(v)'
      BY <2>1, <3>2 DEF Quiet
    <3> QED
      BY <1>2, <2>1, <3>2, <3>3, <3>4 DEF Traffic
  <2> QED
    BY <2>2, <2>3
<1>13. CASE UNCHANGED <<Elsewhere, pc, req, lockVars, chanVars>>
  BY <1>13, TrafficStays DEF SameAt, Elsewhere, lockVars, chanVars
<1>14. ASSUME NEW w \in Vps, AgentAnswers(w)
      PROVE  Traffic(v)' /\ (sock'[v] = "closed" => Silent(v)')
  <2>1. UNCHANGED <<pc, req, owner, sock, toAgent>> /\ Works(w)
        /\ work' = [work EXCEPT ![w] = NoRequest]
    BY <1>14 DEF AgentAnswers, lockVars
  <2>2. CASE v # w
    <3>1. work'[v] = work[v] /\ fromAgent'[v] = fromAgent[v]
      BY <1>1, <1>14, <2>1, <2>2 DEF AgentAnswers, Answered
    <3>2. Silent(v)' <=> Silent(v)
      BY <2>1, <3>1 DEF Silent
    <3>3. ASSUME owner[v] \in Users, pc[owner[v]] = "reading", Answering(v, req[owner[v]])
          PROVE  Answering(v, req[owner[v]])'
      <4>0. PICK r : r = req[owner[v]]
        OBVIOUS
      <4>1. r.op = "PUT" => r.by \in Threads /\ r.pid \in Players
        BY <3>3, <4>0, Registering
      <4>2. r.op = "PUT" /\ Owns(r.by, r.pid) => Owns(r.by, r.pid)'
        BY <1>14, <4>1, OwnersStay
      <4>3. Answering(v, r)
        BY <3>3, <4>0
      <4>4. Silent(v)'
        BY <3>2, <4>3 DEF Answering
      <4>5. r = req[owner[v]]'
        BY <2>1, <4>0
      <4>6. Answering(v, r)'
        <5>1. CASE r.op = "HTTP"
          BY <3>1, <4>3, <4>4, <5>1 DEF Answering
        <5>2. CASE r.op # "HTTP"
          <6>1. PICK code \in {"OK", "NOT_FOUND", "ERR"}, val \in Int :
                    /\ fromAgent[v] = <<Answer(r, code, val)>>
                    /\ r.op = "PUT" /\ code = "OK" => Owns(r.by, r.pid)
            BY <4>3, <5>2 DEF Answering
          <6>2. fromAgent'[v] = <<Answer(r, code, val)>>
                /\ (r.op = "PUT" /\ code = "OK" => Owns(r.by, r.pid)')
            BY <3>1, <4>2, <6>1
          <6> QED
            BY <4>4, <5>2, <6>2 DEF Answering
        <5> QED
          BY <5>1, <5>2
      <4> QED
        BY <4>5, <4>6
    <3>4. \A r : (Sent(v, r) => Sent(v, r)') /\ (Following(v, r) => Following(v, r)')
      BY <2>1, <3>1, <3>2 DEF Sent, Following
    <3>5. Quiet(v) => Quiet(v)'
      BY <2>1, <3>1 DEF Quiet, Silent
    <3> QED
      BY <1>2, <2>1, <3>2, <3>3, <3>4, <3>5 DEF Traffic
  <2>3. CASE v = w
    <3>1. work[v] # NoRequest
      BY <2>1, <2>3 DEF Works
    <3>2. PICK u \in Users : u = owner[v] /\ HomeOf(u) = v /\ pc[u] = "reading" /\ Sent(v, req[u])
      BY <1>2, <3>1 DEF Traffic, Quiet, Silent, Answering, Following
    <3>0. PICK r : r = req[u]
      OBVIOUS
    <3>3. toAgent[v] = <<>> /\ work[v] = r /\ fromAgent[v] = <<>>
      BY <3>0, <3>1, <3>2 DEF Sent
    <3>4. sock[v] = "open" /\ r \in Requests
      BY <1>1, <1>2, <3>0, <3>1 DEF Silent, DbInv, TypeOK
    <3>5. Silent(v)'
      BY <1>1, <2>1, <2>3, <3>3 DEF Silent
    <3>7. r.op = "PUT" => r.pid \in Players
      BY <3>0, <3>2, Registering
    <3>8. \A code, val : Answered(v, code, val) /\ (r.op # "HTTP" \/ code = "OK") =>
             \/ fromAgent'[v] = <<Answer(r, code, val)>>
             \/ r.op = "HTTP" /\ fromAgent'[v] = <<Answer(r, "OK", val), Body(r, val)>>
      <4>1. TAKE code, val
      <4>2. HAVE Answered(v, code, val) /\ (r.op # "HTTP" \/ code = "OK")
      <4>3. Answer(r, code, val).op = r.op
        BY AnswerIs
      <4>4. code = "OK" => [Answer(r, code, val) EXCEPT !.op = "BODY"] = Body(r, val)
        BY DEF Body
      <4> DEFINE a == Answer(r, code, val)
                 b == [a EXCEPT !.op = "BODY"]
      <4>5. a.op = r.op /\ (code = "OK" => a = Answer(r, "OK", val) /\ b = Body(r, val))
        BY <4>3, <4>4
      <4>6. fromAgent' = [fromAgent EXCEPT ![v] =
                          IF sock[v] = "closed" THEN @
                          ELSE @ \o (IF a.op = "HTTP" /\ val > 0 THEN <<a, b>> ELSE <<a>>)]
        BY <3>3, <4>2 DEF Answered
      <4> HIDE DEF a, b
      <4>7. fromAgent'[v] = <<>> \o (IF a.op = "HTTP" /\ val > 0 THEN <<a, b>> ELSE <<a>>)
        BY <1>1, <3>3, <3>4, <4>6
      <4>8. fromAgent'[v] = IF a.op = "HTTP" /\ val > 0 THEN <<a, b>> ELSE <<a>>
        BY <4>7, ShortSequences
      <4>9. CASE r.op = "HTTP" /\ val > 0
        BY <4>2, <4>5, <4>8, <4>9
      <4>10. CASE ~(r.op = "HTTP" /\ val > 0)
        BY <4>5, <4>8, <4>10 DEF a
      <4> QED
        BY <4>9, <4>10
    <3>9. \E code \in {"OK", "NOT_FOUND", "ERR"}, val \in Int :
             /\ Answered(v, code, val)
             /\ r.op = "HTTP" => code = "OK"
             /\ r.op = "PUT" /\ code = "OK" => Owns(r.by, r.pid)'
      <4>1. CASE Busy(v) /\ Answered(v, "ERR", 0)
        BY <3>3, <4>1 DEF Busy, DbOps
      <4>2. ASSUME NEW val \in {0, work[v].score} \cup FileSizes \cup Scores,
                   NEW code \in {"OK", "NOT_FOUND", "ERR"},
                   HandleRequest(work[v], code, val), Answered(v, code, val)
            PROVE  /\ val \in Int
                   /\ r.op = "HTTP" => code = "OK"
                   /\ r.op = "PUT" /\ code = "OK" => Owns(r.by, r.pid)'
        <5>2. val \in Int
          BY <3>3, <3>4, <4>2, ScoresAre, FilesAssumption DEF Requests
        <5>3. r.op = "HTTP" => code = "OK"
          BY <3>3, <4>2 DEF HandleRequest, HandleGet, HandlePut, HandleSet, HandleHttpGet, HandleLog
        <5>4. ASSUME r.op = "PUT", code = "OK" PROVE Owns(r.by, r.pid)'
          <6>1. HandlePut(r, code, val)
            BY <3>3, <4>2, <5>4
               DEF HandleRequest, HandleGet, HandleSet, HandleHttpGet, HandleLog
          <6>2. rows' = Inserted(r)
            BY <5>4, <6>1 DEF HandlePut
          <6> QED
            BY <1>14, <2>3, <3>3, <5>4, <6>2, PutOwns
        <5> QED
          BY <5>2, <5>3, <5>4
      <4> QED
        BY <1>14, <2>3, <4>1, <4>2 DEF AgentAnswers
    <3>10. PICK code \in {"OK", "NOT_FOUND", "ERR"}, val \in Int :
             /\ Answered(v, code, val)
             /\ r.op = "HTTP" => code = "OK"
             /\ r.op = "PUT" /\ code = "OK" => Owns(r.by, r.pid)'
      BY <3>9
    <3>11. Answering(v, r)'
      <4>1. CASE r.op = "HTTP"
        <5>1. fromAgent'[v] \in {<<Answer(r, "OK", val)>>, <<Answer(r, "OK", val), Body(r, val)>>}
          BY <3>8, <3>10, <4>1
        <5> QED
          BY <3>5, <4>1, <5>1 DEF Answering
      <4>2. CASE r.op # "HTTP"
        <5>1. fromAgent'[v] = <<Answer(r, code, val)>>
          BY <3>8, <3>10, <4>2
        <5> QED
          BY <3>5, <3>10, <4>2, <5>1 DEF Answering
      <4> QED
        BY <4>1, <4>2
    <3>12. Answering(v, req[u])'
      BY <2>1, <3>0, <3>11
    <3> QED
      BY <2>1, <3>2, <3>5, <3>12 DEF Traffic
  <2> QED
    BY <2>2, <2>3
<1> QED
  BY <1>4, <1>5, <1>6, <1>7, <1>8, <1>9, <1>10, <1>11, <1>12, <1>13, <1>14 DEF SocketStep, UserStep

-----------------------------------------------------------------------------
(* Who asks.                                                               *)

(* A step of u changes nothing of the others.                              *)
OnlyOf(u) ==
    /\ \A w \in Users : w # u => pc'[w] = pc[w] /\ req'[w] = req[w]
    /\ \A t \in Threads : t # u => task'[t] = task[t]

LEMMA ThreadStepAsks ==
    ASSUME DbInv, NEW t \in Threads, OnlyOf(t), ThreadAsks(t)'
    PROVE  ThreadsAsk' /\ WritersAsk'
<1>1. \A u \in Threads : u # t => ThreadAsks(u)'
  BY DEF DbInv, ThreadsAsk, ThreadAsks, OnlyOf, Users
<1>2. \A v \in Vps : WriterAsks(v)'
  BY HomeType DEF DbInv, WritersAsk, WriterAsks, OnlyOf, Users
<1> QED
  BY <1>1, <1>2 DEF ThreadsAsk, WritersAsk

LEMMA WriterStepAsks ==
    ASSUME DbInv, NEW v \in Vps, OnlyOf(v), WriterAsks(v)'
    PROVE  ThreadsAsk' /\ WritersAsk'
<1>1. \A t \in Threads : ThreadAsks(t)'
  BY HomeType DEF DbInv, ThreadsAsk, ThreadAsks, OnlyOf, Users
<1>2. \A w \in Vps : w # v => WriterAsks(w)'
  BY DEF DbInv, WritersAsk, WriterAsks, OnlyOf, Users
<1> QED
  BY <1>1, <1>2 DEF ThreadsAsk, WritersAsk

LEMMA BeginAsksWell ==
    ASSUME DbInv, NEW t \in Threads, NEW job, NEW p, NEW r, Begin(t, job, p, r), r.by = t,
           <<job, r.op>> \in Jobs, job \in {"login", "register"} => r.pid \in Players
    PROVE  ThreadsAsk' /\ WritersAsk'
<1>1. OnlyOf(t)
  BY DEF Begin, Ask, OnlyOf, DbInv, TypeOK, Users
<1>2. pc'[t] \in {"locking", "reading"} /\ req'[t] = r /\ task'[t] = job
  BY DEF Begin, Ask, DbInv, TypeOK, Users
<1>3. ThreadAsks(t)'
  BY <1>2 DEF ThreadAsks
<1> QED
  BY <1>1, <1>3, ThreadStepAsks

LEMMA AsksNext == DbInv /\ [Next]_vars => ThreadsAsk' /\ WritersAsk'
<1> SUFFICES ASSUME DbInv, [Next]_vars PROVE ThreadsAsk' /\ WritersAsk'
  OBVIOUS
<1> USE HomeType
<1>0. /\ pc \in [Users -> {"idle", "locking", "reading", "body", "admitted", "waiting", "gone"}]
      /\ req \in [Users -> Requests] /\ Threads \subseteq Users /\ Vps \subseteq Users
      /\ task \in [Threads -> {"none", "login", "register", "file", "flush", "term"}]
  BY DEF DbInv, TypeOK, Users
<1>1. ASSUME NEW t \in Threads, StartFile(t) \/ StartFlush(t) \/ StartTerm(t)
      PROVE  ThreadsAsk' /\ WritersAsk'
  BY <1>1, RequestBy, BeginAsksWell DEF StartFile, StartFlush, StartTerm, Jobs
<1>2. ASSUME NEW t \in Threads, NEW p \in Players, StartLogin(t, p) \/ StartRegister(t, p)
      PROVE  ThreadsAsk' /\ WritersAsk'
  <2> DEFINE r == Request("GET", t, p, 0, "D")
  <2>1. r.by = t /\ r.op = "GET" /\ r.pid = p
    BY DEF Request
  <2> QED
    BY <1>2, <2>1, BeginAsksWell DEF StartLogin, StartRegister, Jobs
<1>3. ASSUME NEW t \in Threads, Locked(t) PROVE ThreadsAsk' /\ WritersAsk'
  <2>1. OnlyOf(t) /\ ThreadAsks(t)'
    BY <1>0, <1>3 DEF Locked, OnlyOf, ThreadAsks, Asking, DbInv, ThreadsAsk
  <2> QED
    BY <2>1, ThreadStepAsks
<1>4. ASSUME NEW v \in Vps, Locked(v) PROVE ThreadsAsk' /\ WritersAsk'
  <2>1. OnlyOf(v) /\ WriterAsks(v)'
    BY <1>0, <1>4 DEF Locked, OnlyOf, WriterAsks, DbInv, WritersAsk
  <2> QED
    BY <2>1, WriterStepAsks
<1>5. ASSUME NEW t \in Threads, LoginAnswered(t) \/ Admit(t) \/ FlushAnswered(t)
                                \/ RegisterAnswered(t) \/ BodyRead(t)
      PROVE  ThreadsAsk' /\ WritersAsk'
  <2>1. OnlyOf(t)
    BY <1>0, <1>5 DEF LoginAnswered, Admit, FlushAnswered, RegisterAnswered, BodyRead, Done, Release,
                      OnlyOf
  <2>2. ThreadAsks(t)'
    BY <1>0, <1>5 DEF LoginAnswered, Admit, FlushAnswered, RegisterAnswered, BodyRead, Done, Release,
                      ThreadAsks, Asking, Returns, DbInv, ThreadsAsk
  <2> QED
    BY <2>1, <2>2, ThreadStepAsks
<1>6. ASSUME NEW t \in Threads, NameAnswered(t) PROVE ThreadsAsk' /\ WritersAsk'
  <2> DEFINE r == Request("PUT", t, req[t].pid, NewScore, "D")
  <2>1. r.by = t /\ r.op = "PUT" /\ r.pid = req[t].pid
    BY DEF Request
  <2>2. pc[t] = "reading" /\ req[t].pid \in Players /\ task[t] = "register"
    BY <1>6 DEF NameAnswered, Returns, DbInv, ThreadsAsk, ThreadAsks, Asking
  <2> HIDE DEF r
  <2>3. \/ Release(t, "idle") /\ Done(t, "register")
        \/ ReleaseAndAsk(t, r) /\ UNCHANGED task
    BY <1>6 DEF NameAnswered, r
  <2>4. OnlyOf(t)
    BY <1>0, <2>3 DEF Done, Release, ReleaseAndAsk, OnlyOf
  <2>5. ThreadAsks(t)'
    BY <1>0, <2>1, <2>2, <2>3 DEF Done, Release, ReleaseAndAsk, ThreadAsks, Asking, Jobs
  <2> QED
    BY <2>4, <2>5, ThreadStepAsks
<1>7. ASSUME NEW t \in Threads, FileAnswered(t) PROVE ThreadsAsk' /\ WritersAsk'
  <2>1. OnlyOf(t)
    BY <1>0, <1>7 DEF FileAnswered, Done, Release, OnlyOf
  <2>2. ThreadAsks(t)'
    BY <1>0, <1>7 DEF FileAnswered, Done, Release, Returns, ThreadAsks, Asking, DbInv, ThreadsAsk
  <2> QED
    BY <2>1, <2>2, ThreadStepAsks
<1>8. ASSUME NEW t \in Threads, Exit(t) PROVE ThreadsAsk' /\ WritersAsk'
  <2>1. \A u \in Users : pc'[u] = "gone" \/ (pc'[u] = pc[u] /\ req'[u] = req[u])
    BY <1>0, <1>8 DEF Exit
  <2>2. \A u \in Threads : pc'[u] = "gone" \/ task'[u] = task[u]
    BY <1>0, <1>8 DEF Exit
  <2>3. \A u \in Threads : ThreadAsks(u)'
    BY <1>0, <2>1, <2>2 DEF ThreadAsks, Asking, DbInv, ThreadsAsk
  <2>4. \A v \in Vps : WriterAsks(v)'
    BY <1>0, <2>1 DEF WriterAsks, DbInv, WritersAsk
  <2> QED
    BY <2>3, <2>4 DEF ThreadsAsk, WritersAsk
<1>9. ASSUME NEW v \in Vps, WriterTakes(v) PROVE ThreadsAsk' /\ WritersAsk'
  <2>1. Head(queue[v]) \in Saves
    BY <1>9, QueueHead DEF WriterTakes, DbInv
  <2>2. OnlyOf(v) /\ req'[v] = SetRequest(v, Head(queue[v])) /\ pc'[v] # "body"
    BY <1>0, <1>9 DEF WriterTakes, Ask, OnlyOf
  <2>3. WriterAsks(v)'
    BY <2>1, <2>2 DEF WriterAsks
  <2> QED
    BY <2>2, <2>3, WriterStepAsks
<1>10. ASSUME NEW v \in Vps, WriterWaits(v) PROVE ThreadsAsk' /\ WritersAsk'
  <2>1. OnlyOf(v) /\ WriterAsks(v)'
    BY <1>0, <1>10 DEF WriterWaits, OnlyOf, WriterAsks
  <2> QED
    BY <2>1, WriterStepAsks
<1>11. ASSUME NEW v \in Vps, WriterAnswered(v) PROVE ThreadsAsk' /\ WritersAsk'
  <2>1. CASE Result(v) # "OK" /\ queue[v] # <<>> /\ ReleaseAndAsk(v, SetRequest(v, Head(queue[v])))
    <3>1. Head(queue[v]) \in Saves
      BY <2>1, QueueHead DEF DbInv
    <3>2. OnlyOf(v) /\ req'[v] = SetRequest(v, Head(queue[v])) /\ pc'[v] \in {pc[v], "locking"}
      BY <1>0, <1>11, <2>1 DEF WriterAnswered, ReleaseAndAsk, OnlyOf
    <3>3. WriterAsks(v)'
      BY <1>0, <3>1, <3>2 DEF WriterAsks, DbInv, WritersAsk
    <3> QED
      BY <3>2, <3>3, WriterStepAsks
  <2>2. CASE Release(v, IF Result(v) = "OK" THEN "idle" ELSE "waiting")
    <3>1. OnlyOf(v) /\ WriterAsks(v)'
      BY <1>0, <1>11, <2>2 DEF WriterAnswered, Release, OnlyOf, WriterAsks
    <3> QED
      BY <3>1, WriterStepAsks
  <2> QED
    BY <1>11, <2>1, <2>2 DEF WriterAnswered
<1>12. ASSUME NEW v \in Vps, NEW p \in Players, NEW q \in Players, NEW l \in {"W", "D"},
              EndGame(v, p, q, l)
       PROVE  ThreadsAsk' /\ WritersAsk'
  <2>1. OnlyOf(v) /\ WriterAsks(v)'
    BY <1>0, <1>12 DEF EndGame, Signal, OnlyOf, WriterAsks, DbInv, WritersAsk
  <2> QED
    BY <2>1, WriterStepAsks
<1>13. CASE UNCHANGED <<pc, req, task>>
  BY <1>13 DEF DbInv, ThreadsAsk, ThreadAsks, WritersAsk, WriterAsks
<1> QED
  BY <1>1, <1>2, <1>3, <1>4, <1>5, <1>6, <1>7, <1>8, <1>9, <1>10, <1>11, <1>12, <1>13
     DEF Next, ThreadStep, WriterStep, AgentStep, AgentReads, AgentAnswers, AgentCloses, vars

-----------------------------------------------------------------------------
(* Types.                                                                  *)

Places == {"idle", "locking", "reading", "body", "admitted", "waiting", "gone"}
LockType ==
    /\ pc \in [Users -> Places]
    /\ req \in [Users -> Requests]
    /\ owner \in [Vps -> Users \cup {None}]
    /\ lockq \in [Vps -> Seq(Users)]
    /\ toAgent \in [Vps -> Seq(Requests)]

LEMMA WrittenType ==
    ASSUME LockType, NEW v \in Vps, NEW r \in Requests
    PROVE  Written(v, r) \in [Vps -> Seq(Requests)]
  BY DEF Written, LockType

LEMMA NextOwnerType ==
    ASSUME LockType, NEW v \in Vps
    PROVE  /\ NextOwner(v) \in Users \cup {None}
           /\ lockq[v] # <<>> => Tail(lockq[v]) \in Seq(Users)
<1>1. lockq[v] \in Seq(Users)
  BY DEF LockType
<1> QED
  BY <1>1, HeadTailProperties DEF NextOwner

LEMMA AskType ==
    ASSUME LockType, NEW u \in Users, NEW r \in Requests, Ask(u, r)
    PROVE  LockType'
<1>1. HomeOf(u) \in Vps
  BY HomeType
<1>2. Written(HomeOf(u), r) \in [Vps -> Seq(Requests)]
  BY <1>1, WrittenType
<1>3. Append(lockq[HomeOf(u)], u) \in Seq(Users)
  BY <1>1 DEF LockType
<1>4. req' \in [Users -> Requests] /\ pc' \in [Users -> Places]
  BY DEF Ask, LockType, Places
<1>5. owner' \in [Vps -> Users \cup {None}]
  BY DEF Ask, LockType
<1>6. lockq' \in [Vps -> Seq(Users)]
  BY <1>3 DEF Ask, LockType
<1>7. toAgent' \in [Vps -> Seq(Requests)]
  BY <1>2 DEF Ask, LockType
<1> QED
  BY <1>4, <1>5, <1>6, <1>7 DEF LockType

LEMMA ReleaseType ==
    ASSUME LockType, NEW u \in Users, NEW l \in {"idle", "waiting", "admitted"}, Release(u, l),
           UNCHANGED toAgent
    PROVE  LockType'
<1> DEFINE v == HomeOf(u)
<1>1. v \in Vps /\ NoRequest \in Requests
  BY HomeType, RequestType
<1>2. NextOwner(v) \in Users \cup {None} /\ (lockq[v] # <<>> => Tail(lockq[v]) \in Seq(Users))
  BY <1>1, NextOwnerType
<1>3. pc' \in [Users -> Places] /\ req' \in [Users -> Requests]
  BY <1>1 DEF LockType, Release, Places
<1>4. owner' \in [Vps -> Users \cup {None}] /\ lockq' \in [Vps -> Seq(Users)]
  <2>1. CASE UNCHANGED lockVars
    BY <2>1 DEF LockType, lockVars
  <2>2. CASE owner' = [owner EXCEPT ![v] = NextOwner(v)]
             /\ lockq' = [lockq EXCEPT ![v] = IF lockq[v] = <<>> THEN <<>> ELSE Tail(lockq[v])]
    <3>1. (IF lockq[v] = <<>> THEN <<>> ELSE Tail(lockq[v])) \in Seq(Users)
      BY <1>2
    <3> QED
      BY <1>2, <2>2, <3>1 DEF LockType
  <2> QED
    BY <2>1, <2>2 DEF Release
<1> QED
  BY <1>3, <1>4 DEF LockType

LEMMA ReleaseAndAskType ==
    ASSUME LockType, NEW u \in Users, NEW r \in Requests, ReleaseAndAsk(u, r)
    PROVE  LockType'
<1> DEFINE v == HomeOf(u)
<1>1. v \in Vps
  BY HomeType
<1>2. req' \in [Users -> Requests] /\ pc' \in [Users -> Places]
  BY DEF ReleaseAndAsk, LockType, Places, lockVars
<1>3. CASE toAgent' = Written(v, r) /\ UNCHANGED lockVars
  BY <1>1, <1>2, <1>3, WrittenType DEF LockType, lockVars
<1>4. CASE /\ lockq[v] # <<>> /\ owner' = [owner EXCEPT ![v] = NextOwner(v)]
           /\ lockq' = [lockq EXCEPT ![v] = Append(Tail(lockq[v]), u)] /\ UNCHANGED toAgent
  <2>1. NextOwner(v) \in Users \cup {None} /\ Tail(lockq[v]) \in Seq(Users)
    BY <1>1, <1>4, NextOwnerType
  <2>2. Append(Tail(lockq[v]), u) \in Seq(Users)
    BY <2>1
  <2> QED
    BY <1>2, <1>4, <2>1, <2>2 DEF LockType
<1>5. CASE lockq' = [lockq EXCEPT ![v] = Append(lockq[v], u)] /\ UNCHANGED <<owner, toAgent>>
  <2>1. Append(lockq[v], u) \in Seq(Users)
    BY <1>1 DEF LockType
  <2> QED
    BY <1>2, <1>5, <2>1 DEF LockType
<1> QED
  BY <1>3, <1>4, <1>5 DEF ReleaseAndAsk

LEMMA ReceiveType ==
    ASSUME TypeOK, NEW v \in Vps,
           fromAgent' = [fromAgent EXCEPT ![v] = IF @ = <<>> THEN @ ELSE Tail(@)]
    PROVE  fromAgent' \in [Vps -> Seq(Answers)]
<1>1. fromAgent[v] \in Seq(Answers) /\ fromAgent \in [Vps -> Seq(Answers)]
  BY DEF TypeOK
<1>2. (IF fromAgent[v] = <<>> THEN fromAgent[v] ELSE Tail(fromAgent[v])) \in Seq(Answers)
  BY <1>1, HeadTailProperties
<1> QED
  BY <1>1, <1>2

LEMMA ResultType ==
    ASSUME TypeOK, NEW u \in Users
    PROVE  Reply(u).val \in Int /\ Result(u) \in {"OK", "NOT_FOUND", "ERR"}
<1>1. HomeOf(u) \in Vps
  BY HomeType
<1>2. fromAgent[HomeOf(u)] # <<>> => Reply(u) \in Answers
  <2>1. fromAgent[HomeOf(u)] \in Seq(Answers)
    BY <1>1 DEF TypeOK
  <2> QED
    BY <2>1, HeadTailProperties DEF Reply
<1>3. Reply(u).val \in Int /\ Reply(u).code \in {"OK", "NOT_FOUND", "ERR"}
  BY <1>2 DEF Answers, Reply, Failed
<1> QED
  BY <1>3 DEF Result

RestType ==
    /\ task \in [Threads -> {"none", "login", "register", "file", "flush", "term"}]
    /\ got \in [Threads -> Int]
    /\ queue \in [Vps -> Seq(Saves)]
    /\ sock \in [Vps -> {"open", "closed"}]
    /\ work \in [Vps -> Requests]
    /\ fromAgent \in [Vps -> Seq(Answers)]
    /\ rows \in [Players -> Seq(Rows)]
    /\ unique \in BOOLEAN
    /\ mem \in [Vps -> [Players -> Int \cup {None}]]
    /\ tasks \in 0..MaxTasks
    /\ games \in 0..MaxGames
    /\ registered \subseteq Threads \X Players

LEMMA TypeParts ==
    /\ TypeOK <=> LockType /\ RestType
    /\ TypeOK' <=> LockType' /\ RestType'
  BY DEF TypeOK, LockType, RestType, Places, Saves

LEMMA BeginType ==
    ASSUME DbInv, NEW t \in Threads, NEW job \in {"login", "register", "file", "flush", "term"},
           NEW p, NEW r \in Requests, Begin(t, job, p, r)
    PROVE  TypeOK'
<1>1. LockType /\ RestType
  BY TypeParts DEF DbInv
<1>2. LockType'
  BY <1>1, AskType DEF Begin, Users
<1>3. RestType'
  BY <1>1, BoundAssumption DEF Begin, RestType, agentVars, playVars
<1> QED
  BY <1>2, <1>3, TypeParts

LEMMA AnswerType ==
    ASSUME NEW r \in Requests, NEW code \in {"OK", "NOT_FOUND", "ERR"}, NEW val \in Int
    PROVE  /\ Answer(r, code, val) \in Answers
           /\ [Answer(r, code, val) EXCEPT !.op = "BODY"] \in Answers
  BY DEF Answer, Answers, Requests

LEMMA AgentType == ASSUME DbInv, NEW v \in Vps, AgentAnswers(v) PROVE TypeOK'
<1>1. LockType /\ RestType
  BY TypeParts DEF DbInv
<1>2. LockType'
  BY <1>1 DEF AgentAnswers, LockType, lockVars
<1>3. PICK u \in Users : /\ pc[u] = "reading" /\ work[v] = req[u] /\ sock[v] = "open"
  BY WorkOf DEF AgentAnswers
<1>4. work[v] \in Requests
  BY <1>1 DEF RestType
<1>5. \E code \in {"OK", "NOT_FOUND", "ERR"}, val \in Int : Answered(v, code, val)
  <2>1. {0, work[v].score} \cup FileSizes \cup Scores \subseteq Int
    <3>1. Scores \subseteq Int /\ FileSizes \subseteq Int
      BY ScoresAre, FilesAssumption
    <3>2. {0, work[v].score} \subseteq Int
      BY <1>4 DEF Requests
    <3> QED
      BY <3>1, <3>2, Zenon
  <2>2. 0 \in Int
    OBVIOUS
  <2> QED
    BY <2>1, <2>2 DEF AgentAnswers
<1>6. PICK code \in {"OK", "NOT_FOUND", "ERR"}, val \in Int : Answered(v, code, val)
  BY <1>5
<1>7. fromAgent' \in [Vps -> Seq(Answers)]
  <2> DEFINE a == Answer(work[v], code, val)
             b == [a EXCEPT !.op = "BODY"]
  <2>1. a \in Answers /\ b \in Answers
    BY <1>4, AnswerType
  <2>2. fromAgent' = [fromAgent EXCEPT ![v] =
                        IF sock[v] = "closed" THEN @
                        ELSE @ \o (IF a.op = "HTTP" /\ val > 0 THEN <<a, b>> ELSE <<a>>)]
    BY <1>6 DEF Answered
  <2> HIDE DEF a, b
  <2>3. (IF a.op = "HTTP" /\ val > 0 THEN <<a, b>> ELSE <<a>>) \in Seq(Answers)
    BY <2>1
  <2> DEFINE x == IF a.op = "HTTP" /\ val > 0 THEN <<a, b>> ELSE <<a>>
  <2>4. fromAgent[v] \in Seq(Answers) /\ x \in Seq(Answers)
    BY <1>1, <2>3 DEF RestType
  <2>5. fromAgent' = [fromAgent EXCEPT ![v] =
                        IF sock[v] = "closed" THEN fromAgent[v] ELSE fromAgent[v] \o x]
    BY <1>1, <2>2 DEF RestType
  <2> HIDE DEF x
  <2>6. (IF sock[v] = "closed" THEN fromAgent[v] ELSE fromAgent[v] \o x) \in Seq(Answers)
    BY <2>4
  <2> QED
    BY <1>1, <2>5, <2>6 DEF RestType
<1>8. rows' \in [Players -> Seq(Rows)]
  <2>1. \A p \in Players : rows'[p] \in Seq(Rows)
    BY RowsNext
  <2>2. rows \in [Players -> Seq(Rows)]
    BY <1>1 DEF RestType
  <2>3. rows' = [p \in Players |-> rows'[p]]
    BY <2>2 DEF AgentAnswers, HandleRequest, HandleGet, HandlePut, HandleSet, HandleHttpGet,
                HandleLog, Inserted, Updated
  <2> QED
    BY <2>1, <2>3
<1>9. work' \in [Vps -> Requests]
  BY <1>1, RequestType DEF AgentAnswers, RestType
<1>10. RestType'
  BY <1>1, <1>7, <1>8, <1>9 DEF AgentAnswers, RestType, playVars
<1> QED
  BY <1>2, <1>10, TypeParts

LEMMA ThreadType ==
    ASSUME DbInv, NEW t \in Threads, ThreadStep(t) \/ StartFile(t) \/ StartFlush(t) \/ StartTerm(t)
    PROVE  TypeOK'
<1> USE HomeType
<1>0. LockType /\ RestType /\ t \in Users /\ NoRequest \in Requests /\ Home[t] \in Vps
  BY TypeParts, RequestType, HomeAssumption DEF DbInv, Users
<1>1. CASE Locked(t)
  <2>1. Written(HomeOf(t), req[t]) \in [Vps -> Seq(Requests)]
    BY <1>0, WrittenType DEF LockType
  <2> QED
    BY <1>0, <1>1, <2>1, TypeParts DEF Locked, LockType, RestType, Places, lockVars, agentVars, playVars
<1>2. ASSUME Returns(t) \/ BodyRead(t)
      PROVE  fromAgent' \in [Vps -> Seq(Answers)]
  <2>1. HomeOf(t) = Home[t] /\ HomeOf(t) \in Vps
    BY <1>0
  <2>2. fromAgent' = [fromAgent EXCEPT ![Home[t]] = IF @ = <<>> THEN @ ELSE Tail(@)]
    BY <1>2, <2>1 DEF Returns, BodyRead
  <2> QED
    BY <1>0, <2>2, ReceiveType DEF DbInv
<1>3. CASE LoginAnswered(t)
  <2>1. LockType'
    BY <1>0, <1>3, ReleaseType DEF LoginAnswered
  <2>2. got' \in [Threads -> Int]
    BY <1>0, <1>3, ResultType DEF LoginAnswered, RestType, DbInv
  <2>3. RestType'
    BY <1>0, <1>2, <1>3, <2>2 DEF LoginAnswered, Done, RestType, agentVars, playVars
  <2> QED
    BY <2>1, <2>3, TypeParts
<1>4. CASE Admit(t)
  <2>1. LockType'
    BY <1>0, <1>4 DEF Admit, LockType, Places, lockVars, chanVars
  <2>2. mem' \in [Vps -> [Players -> Int \cup {None}]]
    <3> DEFINE f == [mem[Home[t]] EXCEPT ![req[t].pid] = got[t]]
    <3>1. f \in [Players -> Int \cup {None}]
      BY <1>0 DEF RestType
    <3>2. mem' = mem \/ mem' = [mem EXCEPT ![Home[t]] = f]
      BY <1>4 DEF Admit
    <3> HIDE DEF f
    <3>3. [mem EXCEPT ![Home[t]] = f] \in [Vps -> [Players -> Int \cup {None}]]
      BY <1>0, <3>1 DEF RestType
    <3> QED
      BY <1>0, <3>2, <3>3 DEF RestType
  <2>3. RestType'
    BY <1>0, <1>4, <2>2 DEF Admit, Done, RestType, agentVars, chanVars
  <2> QED
    BY <2>1, <2>3, TypeParts
<1>5. CASE NameAnswered(t)
  <2> DEFINE r == Request("PUT", t, req[t].pid, NewScore, "D")
  <2>1. r \in Requests
    BY <1>0, RequestType DEF LockType, Requests
  <2> HIDE DEF r
  <2>2. (Release(t, "idle") /\ UNCHANGED toAgent) \/ ReleaseAndAsk(t, r)
    BY <1>5 DEF NameAnswered, r
  <2>3. LockType'
    BY <1>0, <2>1, <2>2, ReleaseType, ReleaseAndAskType
  <2>4. RestType'
    BY <1>0, <1>2, <1>5 DEF NameAnswered, Done, RestType, agentVars, playVars
  <2> QED
    BY <2>3, <2>4, TypeParts
<1>6. CASE RegisterAnswered(t)
  <2>1. LockType'
    BY <1>0, <1>6, ReleaseType DEF RegisterAnswered
  <2>2. req[t].pid \in Players
    BY <1>6 DEF RegisterAnswered, Returns, Done, DbInv, ThreadsAsk, ThreadAsks, Asking
  <2>3. RestType'
    BY <1>0, <1>2, <1>6, <2>2 DEF RegisterAnswered, Done, RestType, agentVars, playVars
  <2> QED
    BY <2>1, <2>3, TypeParts
<1>7. CASE FileAnswered(t)
  <2>1. CASE pc' = [pc EXCEPT ![t] = "body"] /\ UNCHANGED <<req, lockVars>>
    <3>1. LockType'
      BY <1>0, <1>7, <2>1 DEF FileAnswered, LockType, Places, lockVars
    <3>2. RestType'
      BY <1>0, <1>2, <1>7 DEF FileAnswered, Done, RestType, agentVars, playVars
    <3> QED
      BY <3>1, <3>2, TypeParts
  <2>2. CASE Release(t, "idle")
    <3>1. LockType'
      BY <1>0, <1>7, <2>2, ReleaseType DEF FileAnswered
    <3>2. RestType'
      BY <1>0, <1>2, <1>7 DEF FileAnswered, Done, RestType, agentVars, playVars
    <3> QED
      BY <3>1, <3>2, TypeParts
  <2> QED
    BY <1>7, <2>1, <2>2 DEF FileAnswered
<1>8. CASE BodyRead(t)
  <2>1. LockType'
    BY <1>0, <1>8, ReleaseType DEF BodyRead
  <2>2. RestType'
    BY <1>0, <1>2, <1>8 DEF BodyRead, Done, RestType, agentVars, playVars
  <2> QED
    BY <2>1, <2>2, TypeParts
<1>9. CASE FlushAnswered(t)
  <2>1. LockType'
    BY <1>0, <1>9, ReleaseType DEF FlushAnswered
  <2>2. RestType'
    BY <1>0, <1>2, <1>9 DEF FlushAnswered, Done, RestType, agentVars, playVars
  <2> QED
    BY <2>1, <2>2, TypeParts
<1>10. CASE Exit(t)
  <2>1. LockType'
    BY <1>0, <1>10 DEF Exit, LockType, Places
  <2>2. RestType'
    BY <1>0, <1>10 DEF Exit, RestType, agentVars
  <2> QED
    BY <2>1, <2>2, TypeParts
<1>11. CASE StartFile(t) \/ StartFlush(t) \/ StartTerm(t)
  BY <1>0, <1>11, RequestType, BeginType DEF StartFile, StartFlush, StartTerm
<1> QED
  BY <1>1, <1>3, <1>4, <1>5, <1>6, <1>7, <1>8, <1>9, <1>10, <1>11 DEF ThreadStep

LEMMA TypeNext == DbInv /\ [Next]_vars => TypeOK'
<1> SUFFICES ASSUME DbInv, [Next]_vars PROVE TypeOK'
  OBVIOUS
<1> USE HomeType
<1>0. LockType /\ RestType /\ Threads \subseteq Users /\ Vps \subseteq Users
      /\ NoRequest \in Requests
  BY TypeParts, RequestType DEF DbInv, Users
<1>1. ASSUME NEW t \in Threads, NEW p \in Players, StartLogin(t, p) \/ StartRegister(t, p)
      PROVE  TypeOK'
  BY <1>0, <1>1, RequestType, BeginType DEF StartLogin, StartRegister
<1>2. ASSUME NEW v \in Vps, Locked(v) PROVE TypeOK'
  <2>1. Written(HomeOf(v), req[v]) \in [Vps -> Seq(Requests)]
    BY <1>0, WrittenType DEF LockType
  <2> QED
    BY <1>0, <1>2, <2>1, TypeParts DEF Locked, LockType, RestType, Places, lockVars, agentVars, playVars
<1>3. ASSUME NEW v \in Vps, queue[v] # <<>>
      PROVE  /\ SetRequest(v, Head(queue[v])) \in Requests
             /\ Tail(queue[v]) \in Seq(Saves)
  BY <1>3, QueueHead, RequestType DEF DbInv
<1>4. ASSUME NEW v \in Vps, WriterTakes(v) PROVE TypeOK'
  <2>1. LockType'
    BY <1>0, <1>3, <1>4, AskType DEF WriterTakes
  <2>2. RestType'
    BY <1>0, <1>3, <1>4 DEF WriterTakes, RestType, agentVars, playVars
  <2> QED
    BY <2>1, <2>2, TypeParts
<1>5. ASSUME NEW v \in Vps, WriterWaits(v) PROVE TypeOK'
  BY <1>0, <1>5, TypeParts
     DEF WriterWaits, LockType, RestType, Places, lockVars, chanVars, agentVars, playVars
<1>6. ASSUME NEW v \in Vps, WriterAnswered(v) PROVE TypeOK'
  <2>1. fromAgent' \in [Vps -> Seq(Answers)]
    BY <1>6, ReceiveType DEF DbInv, WriterAnswered, Returns
  <2>2. CASE /\ queue[v] # <<>> /\ ReleaseAndAsk(v, SetRequest(v, Head(queue[v])))
             /\ queue' = [queue EXCEPT ![v] = Tail(queue[v])]
    <3>1. LockType'
      BY <1>0, <1>3, <2>2, ReleaseAndAskType
    <3>2. RestType'
      BY <1>0, <1>3, <1>6, <2>1, <2>2 DEF WriterAnswered, RestType, agentVars, playVars
    <3> QED
      BY <3>1, <3>2, TypeParts
  <2>3. CASE /\ Release(v, IF Result(v) = "OK" THEN "idle" ELSE "waiting")
             /\ UNCHANGED <<toAgent, queue>>
    <3>1. LockType'
      BY <1>0, <2>3, ReleaseType
    <3>2. RestType'
      BY <1>0, <1>6, <2>1, <2>3 DEF WriterAnswered, RestType, agentVars, playVars
    <3> QED
      BY <3>1, <3>2, TypeParts
  <2> QED
    BY <1>6, <2>2, <2>3 DEF WriterAnswered
<1>7. ASSUME NEW v \in Vps, NEW p \in Players, NEW q \in Players, NEW l \in {"W", "D"},
             EndGame(v, p, q, l)
      PROVE  TypeOK'
  <2>1. pc' \in [Users -> Places]
    BY <1>0, <1>7 DEF EndGame, Signal, LockType, Places
  <2>2. /\ Change(l) \in Int /\ Change(Counterpart(l)) \in Int
        /\ mem[v][p] \in Int /\ mem[v][q] \in Int /\ {l, Counterpart(l)} \subseteq Letters
    BY <1>0, <1>7 DEF EndGame, RestType, Change, Counterpart, Letters
  <2>3. mem' \in [Vps -> [Players -> Int \cup {None}]]
    <3> DEFINE f == [mem[v] EXCEPT ![p] = @ + Change(l), ![q] = @ + Change(Counterpart(l))]
    <3>1. f \in [Players -> Int \cup {None}]
      <4>1. PICK m \in [Players -> Int \cup {None}] : m = mem[v]
        BY <1>0 DEF RestType
      <4>2. p # q /\ m[p] + Change(l) \in Int /\ m[q] + Change(Counterpart(l)) \in Int
        BY <1>7, <2>2, <4>1 DEF EndGame
      <4>3. [m EXCEPT ![p] = @ + Change(l), ![q] = @ + Change(Counterpart(l))]
              = [m EXCEPT ![p] = m[p] + Change(l), ![q] = m[q] + Change(Counterpart(l))]
        BY <4>2
      <4> QED
        BY <4>1, <4>2, <4>3
    <3>2. mem' = [mem EXCEPT ![v] = f]
      BY <1>7 DEF EndGame
    <3> HIDE DEF f
    <3> QED
      BY <1>0, <3>1, <3>2 DEF RestType
  <2>4. Save(v, p, l) \in Saves /\ Save(v, q, Counterpart(l)) \in Saves
    BY <2>2 DEF Save, Saves
  <2>5. queue' \in [Vps -> Seq(Saves)]
    BY <1>0, <1>7, <2>4 DEF EndGame, Queued, RestType
  <2>6. games' \in 0..MaxGames
    BY <1>0, <1>7, BoundAssumption DEF EndGame, RestType
  <2> QED
    BY <1>0, <1>7, <2>1, <2>3, <2>5, <2>6, TypeParts
       DEF EndGame, LockType, RestType, lockVars, chanVars, agentVars
<1>8. ASSUME NEW v \in Vps, AgentReads(v) PROVE TypeOK'
  <2>1. toAgent[v] \in Seq(Requests) /\ toAgent[v] # <<>>
    BY <1>0, <1>8 DEF AgentReads, LockType
  <2>2. Head(toAgent[v]) \in Requests /\ Tail(toAgent[v]) \in Seq(Requests)
    BY <2>1, HeadTailProperties
  <2> QED
    BY <1>0, <1>8, <2>2, TypeParts DEF AgentReads, LockType, RestType, lockVars, playVars
<1>9. ASSUME NEW v \in Vps, AgentCloses(v) PROVE TypeOK'
  <2>1. LockType'
    BY <1>0, <1>9 DEF AgentCloses, LockType, lockVars
  <2>2. NoRequest \in Requests
    BY RequestType
  <2>3. RestType'
    BY <1>0, <1>9, <2>2 DEF AgentCloses, RestType, playVars
  <2> QED
    BY <2>1, <2>3, TypeParts
<1>10. CASE UNCHANGED vars
  BY <1>0, <1>10, TypeParts
     DEF vars, LockType, RestType, lockVars, chanVars, agentVars, playVars
<1> QED
  BY <1>1, <1>2, <1>4, <1>5, <1>6, <1>7, <1>8, <1>9, <1>10, ThreadType, AgentType
     DEF Next, WriterStep, AgentStep

-----------------------------------------------------------------------------
(* Names.                                                                  *)

LEMMA OwnAnswers ==
    ASSUME DbInv, NEW u \in Users, pc[u] = "reading", fromAgent[HomeOf(u)] # <<>>
    PROVE  Answering(HomeOf(u), req[u])
<1>1. HomeOf(u) \in Vps /\ owner[HomeOf(u)] = u
  BY HomeType DEF DbInv, LockHeld
<1>2. Traffic(HomeOf(u))
  BY <1>1 DEF DbInv, TrafficInv
<1> QED
  BY <1>1, <1>2 DEF Traffic, Quiet, Sent

LEMMA NamesNext == DbInv /\ [Next]_vars => NamesOwned' /\ OneRow'
<1> SUFFICES ASSUME DbInv, [Next]_vars PROVE NamesOwned' /\ OneRow'
  OBVIOUS
<1>1. NamesOwned /\ OneRow /\ registered \subseteq Threads \X Players
  BY DEF DbInv, TypeOK
<1>2. CASE UNCHANGED <<rows, registered, unique>>
  BY <1>1, <1>2 DEF NamesOwned, OneRow, Owns
<1>3. ASSUME NEW v \in Vps, AgentAnswers(v) PROVE NamesOwned' /\ OneRow'
  <2>1. registered' = registered /\ unique' = unique
    BY <1>3 DEF AgentAnswers
  <2>2. ASSUME NEW r \in registered PROVE Owns(r[1], r[2])'
    <3>1. r[2] \in Players /\ Owns(r[1], r[2])
      BY <1>1, <2>2 DEF NamesOwned
    <3> QED
      BY <1>3, <3>1, OwnersStay
  <2>3. ASSUME unique, NEW p \in Players PROVE Len(rows'[p]) \in 0..1
    BY <1>1, <1>3, <2>3, RowsNext DEF OneRow
  <2> QED
    BY <2>1, <2>2, <2>3 DEF NamesOwned, OneRow
<1>4. ASSUME NEW t \in Threads, RegisterAnswered(t) PROVE NamesOwned' /\ OneRow'
  <2>1. /\ rows' = rows /\ unique' = unique
        /\ pc[t] = "reading" /\ req[t].op = "PUT" /\ t \in Users
        /\ registered' \in {registered, registered \cup {<<t, req[t].pid>>}}
        /\ Result(t) # "OK" => registered' = registered
    BY <1>4 DEF RegisterAnswered, Returns, agentVars, Users
  <2>2. ASSUME Result(t) = "OK" PROVE Owns(t, req[t].pid)
    <3> DEFINE v == HomeOf(t)
    <3>1. Reply(t).code = "OK"
      BY <2>2 DEF Result
    <3>2. fromAgent[v] # <<>> /\ Reply(t) = Head(fromAgent[v])
      BY <3>1 DEF Reply, Failed
    <3>3. Answering(v, req[t])
      BY <2>1, <3>2, OwnAnswers
    <3>4. PICK code, val : /\ fromAgent[v] = <<Answer(req[t], code, val)>>
                           /\ code = "OK" => Owns(req[t].by, req[t].pid)
      BY <2>1, <3>3 DEF Answering
    <3>5. Reply(t) = Answer(req[t], code, val)
      BY <3>2, <3>4, ShortSequences
    <3>6. code = "OK"
      BY <3>1, <3>5, AnswerIs
    <3> QED
      BY <2>1, <3>4, <3>6, Registering
  <2>3. \A t1, p : Owns(t1, p)' <=> Owns(t1, p)
    BY <2>1 DEF Owns
  <2>4. ASSUME NEW r \in registered' PROVE Owns(r[1], r[2])
    <3>1. r \in registered \/ (r = <<t, req[t].pid>> /\ Result(t) = "OK")
      BY <2>1, <2>4
    <3> QED
      BY <1>1, <2>2, <3>1 DEF NamesOwned
  <2> QED
    BY <1>1, <2>1, <2>3, <2>4 DEF NamesOwned, OneRow
<1>5. ASSUME NEW u, Locked(u) PROVE UNCHANGED <<rows, registered, unique>>
  BY <1>5 DEF Locked, agentVars
<1>6. ASSUME NEW t \in Threads,
             \/ LoginAnswered(t) \/ Admit(t) \/ NameAnswered(t)
             \/ FileAnswered(t) \/ BodyRead(t) \/ FlushAnswered(t) \/ Exit(t)
      PROVE  UNCHANGED <<rows, registered, unique>>
  BY <1>6 DEF LoginAnswered, Admit, NameAnswered, FileAnswered, BodyRead, FlushAnswered, Exit, agentVars
<1>7. ASSUME NEW t \in Threads,
             \/ StartFile(t) \/ StartFlush(t) \/ StartTerm(t)
             \/ \E p \in Players : StartLogin(t, p) \/ StartRegister(t, p)
      PROVE  UNCHANGED <<rows, registered, unique>>
  BY <1>7 DEF StartLogin, StartRegister, StartFile, StartFlush, StartTerm, Begin, agentVars
<1>8. ASSUME NEW v \in Vps,
             \/ WriterTakes(v) \/ WriterWaits(v) \/ WriterAnswered(v) \/ AgentReads(v) \/ AgentCloses(v)
             \/ \E p, q \in Players, l \in {"W", "D"} : EndGame(v, p, q, l)
      PROVE  UNCHANGED <<rows, registered, unique>>
  BY <1>8 DEF WriterTakes, WriterWaits, WriterAnswered, AgentReads, AgentCloses, EndGame, agentVars
<1>9. CASE UNCHANGED vars
  BY <1>2, <1>9 DEF vars, agentVars
<1> QED
  BY <1>2, <1>3, <1>4, <1>5, <1>6, <1>7, <1>8, <1>9 DEF Next, ThreadStep, WriterStep, AgentStep

-----------------------------------------------------------------------------
(* Invariance.                                                             *)

LEMMA DbInit == Init => DbInv
<1> SUFFICES ASSUME Init PROVE DbInv
  OBVIOUS
<1> USE HomeType
<1>1. TypeOK
  <2>1. NoRequest \in Requests
    BY RequestType
  <2>2. <<NewRow(None)>> \in Seq(Rows) /\ <<>> \in Seq(Rows)
    <3>1. NewRow(None) \in Rows
      BY ScoreAssumption DEF NewRow, Row, Rows
    <3> QED
      BY <3>1
  <2>3. LockType
    BY <2>1 DEF Init, LockType, Places
  <2>4. RestType
    BY <2>1, <2>2, ScoreAssumption, BoundAssumption DEF Init, RestType
  <2> QED
    BY <2>3, <2>4, TypeParts
<1>2. ThreadsAsk /\ WritersAsk
  BY DEF Init, ThreadsAsk, ThreadAsks, WritersAsk, WriterAsks, Asking, Users
<1>3. LockHeld
  BY DEF Init, LockHeld
<1>4. TrafficInv
  BY DEF Init, TrafficInv, Traffic, Quiet, Silent
<1>5. NamesOwned
  BY DEF Init, NamesOwned
<1>6. OneRow
  <2>1. Len(<<>>) = 0 /\ Len(<<NewRow(None)>>) = 1
    BY ShortSequences
  <2> QED
    BY <2>1 DEF Init, OneRow
<1> QED
  BY <1>1, <1>2, <1>3, <1>4, <1>5, <1>6 DEF DbInv

LEMMA DbInvariant == Spec => []DbInv
<1>1. DbInv /\ [Next]_vars => DbInv'
  BY TypeNext, AsksNext, LockHeldNext, TrafficNext, NamesNext DEF DbInv
<1> QED
  BY <1>1, DbInit, PTL DEF Spec

(* Every variable of the clients, the agent and the database keeps its     *)
(* type: in particular only threads that register own a row, and what is   *)
(* written to the socket is a request (server/hoxDbClient.cpp,             *)
(* dbagent/main.cpp).                                                      *)
THEOREM TypeCorrect == Spec => []TypeOK
  BY DbInvariant, PTL DEF DbInv

(* Who reads an answer from the socket reads the one to his own request    *)
(* (hoxDbClient.cpp:74), for any number of processes, threads and files.   *)
THEOREM OwnAnswerCorrect == Spec => []OwnAnswer
<1>1. ASSUME DbInv, NEW u \in Users, pc[u] \in {"reading", "body"}, fromAgent[HomeOf(u)] # <<>>
      PROVE  Head(fromAgent[HomeOf(u)]).by = u
  <2> DEFINE v == HomeOf(u)
  <2>1. v \in Vps /\ owner[v] = u /\ req[u].by = u
    BY <1>1, HomeType, OwnRequest DEF DbInv, LockHeld
  <2>2. Traffic(v)
    BY <1>1, <2>1 DEF DbInv, TrafficInv
  <2>3. Answering(v, req[u]) \/ Following(v, req[u])
    BY <1>1, <2>1, <2>2 DEF Traffic, Quiet, Sent
  <2>4. CASE Answering(v, req[u])
    <3>1. PICK a, b : a.by = req[u].by /\ fromAgent[v] \in {<<a>>, <<a, b>>}
      <4>1. CASE req[u].op = "HTTP"
        <5>1. PICK val : fromAgent[v] \in {<<Answer(req[u], "OK", val)>>,
                                            <<Answer(req[u], "OK", val), Body(req[u], val)>>}
          BY <2>4, <4>1 DEF Answering
        <5> QED
          BY <5>1, AnswerIs
      <4>2. CASE req[u].op # "HTTP"
        <5>1. PICK code, val : fromAgent[v] = <<Answer(req[u], code, val)>>
          BY <2>4, <4>2 DEF Answering
        <5> QED
          BY <5>1, AnswerIs
      <4> QED
        BY <4>1, <4>2
    <3> QED
      BY <2>1, <3>1, ShortSequences
  <2>5. CASE Following(v, req[u])
    <3>1. PICK a : a.by = req[u].by /\ fromAgent[v] = <<a>>
      BY <2>5, AnswerIs DEF Following
    <3> QED
      BY <2>1, <3>1, ShortSequences
  <2> QED
    BY <2>3, <2>4, <2>5
<1>2. DbInv => OwnAnswer
  BY <1>1 DEF OwnAnswer
<1> QED
  BY <1>2, DbInvariant, PTL

(* Whoever REGISTER told that a name is his has a row of that name, which  *)
(* nothing takes from him; and if the schema declares pid unique it is the *)
(* only one, whatever was asked between the two requests of REGISTER or    *)
(* left unanswered (session.cpp:101, dbagent/hoxDBAPI.cpp:80).             *)
THEOREM NameIsHisCorrect == Spec => []NameIsHis
<1>1. ASSUME DbInv PROVE NameIsHis
  <2>1. ASSUME NEW r \in registered PROVE Owns(r[1], r[2]) /\ (unique => Len(rows[r[2]]) = 1)
    <3>1. r[2] \in Players /\ Owns(r[1], r[2])
      BY <1>1, <2>1 DEF DbInv, TypeOK, NamesOwned
    <3>2. rows[r[2]] \in Seq(Rows)
      BY <1>1, <3>1 DEF DbInv, TypeOK
    <3>3. Len(rows[r[2]]) \in Nat /\ DOMAIN rows[r[2]] = 1..Len(rows[r[2]])
      BY <3>2, LenProperties
    <3>4. Len(rows[r[2]]) # 0
      BY <3>1, <3>3 DEF Owns
    <3>5. unique => Len(rows[r[2]]) \in 0..1
      BY <1>1, <3>1 DEF DbInv, OneRow
    <3> QED
      BY <3>1, <3>3, <3>4, <3>5
  <2> QED
    BY <2>1 DEF NameIsHis
<1> QED
  BY <1>1, DbInvariant, PTL

-----------------------------------------------------------------------------
(* Nobody is forgotten: what makes AllServed true, but for the fairness of *)
(* the threads.  Who waits for the lock stands in the queue of whoever     *)
(* holds it, once, and who holds it is on his way to release it.           *)
Among(u, q) == \E k \in DOMAIN q : q[k] = u
Once(q) == \A i, j \in DOMAIN q : q[i] = q[j] => i = j
Holding == {"locking", "reading", "body"}

QueueAt(v) ==
    /\ Once(lockq[v])
    /\ \A u \in Users : Among(u, lockq[v]) <=> HomeOf(u) = v /\ pc[u] = "locking" /\ owner[v] # u
    /\ owner[v] = None => lockq[v] = <<>>
    /\ owner[v] # None => HomeOf(owner[v]) = v /\ pc[owner[v]] \in Holding
QueueInv == \A v \in Vps : QueueAt(v)

LEMMA Appended ==
    ASSUME NEW q \in Seq(Users), NEW u \in Users, Once(q), ~Among(u, q)
    PROVE  /\ Once(Append(q, u))
           /\ \A w : Among(w, Append(q, u)) <=> Among(w, q) \/ w = u
<1>1. /\ DOMAIN q = 1..Len(q) /\ Len(q) \in Nat
      /\ DOMAIN Append(q, u) = 1..(Len(q) + 1)
      /\ \A k \in 1..Len(q) : Append(q, u)[k] = q[k]
      /\ Append(q, u)[Len(q) + 1] = u
  OBVIOUS
<1> DEFINE n == Len(q)
           e == Append(q, u)
<1>2. /\ n \in Nat /\ DOMAIN q = 1..n /\ DOMAIN e = 1..(n + 1)
      /\ \A k \in 1..n : e[k] = q[k]
      /\ e[n + 1] = u
  BY <1>1
<1> HIDE DEF n, e
<1>3. \A i, j \in 1..(n + 1) : e[i] = e[j] => i = j
  BY <1>2 DEF Once, Among
<1>4. \A w : Among(w, e) <=> Among(w, q) \/ w = u
  BY <1>2 DEF Among
<1> QED
  BY <1>2, <1>3, <1>4 DEF Once, e

LEMMA Passed ==
    ASSUME NEW q \in Seq(Users), q # <<>>, Once(q)
    PROVE  /\ Head(q) \in Users /\ Among(Head(q), q) /\ Tail(q) \in Seq(Users)
           /\ Once(Tail(q))
           /\ \A w : Among(w, Tail(q)) <=> Among(w, q) /\ w # Head(q)
<1>1. /\ Len(q) \in Nat /\ Len(q) >= 1 /\ DOMAIN q = 1..Len(q)
      /\ Head(q) = q[1] /\ Tail(q) \in Seq(Users)
      /\ DOMAIN Tail(q) = 1..(Len(q) - 1)
      /\ \A k \in 1..(Len(q) - 1) : Tail(q)[k] = q[k + 1]
      /\ q[1] \in Users
  OBVIOUS
<1> DEFINE n == Len(q)
           e == Tail(q)
           h == Head(q)
<1>2. /\ n \in Nat /\ n >= 1 /\ DOMAIN q = 1..n /\ DOMAIN e = 1..(n - 1) /\ h = q[1]
      /\ \A k \in 1..(n - 1) : e[k] = q[k + 1]
  BY <1>1
<1> HIDE DEF n, e, h
<1>3. \A i, j \in 1..(n - 1) : e[i] = e[j] => i = j
  <2>1. ASSUME NEW i \in 1..(n - 1), NEW j \in 1..(n - 1), e[i] = e[j] PROVE i = j
    <3>1. i + 1 \in 1..n /\ j + 1 \in 1..n /\ q[i + 1] = q[j + 1]
      BY <1>2, <2>1
    <3>2. i + 1 = j + 1
      BY <1>2, <3>1 DEF Once
    <3> QED
      BY <3>2
  <2> QED
    BY <2>1
<1>4. Among(h, q)
  BY <1>2 DEF Among
<1>5. \A w : Among(w, e) <=> Among(w, q) /\ w # h
  <2>1. \A k \in 1..(n - 1) : k + 1 \in 1..n /\ k + 1 # 1
    BY <1>2
  <2>2. \A k \in 1..n : k # 1 => k - 1 \in 1..(n - 1) /\ (k - 1) + 1 = k
    BY <1>2
  <2>3. ASSUME NEW w, Among(w, e) PROVE Among(w, q) /\ w # h
    BY <1>2, <2>1, <2>3 DEF Among, Once
  <2>4. ASSUME NEW w, Among(w, q), w # h PROVE Among(w, e)
    <3>1. PICK k \in 1..n : q[k] = w
      BY <1>2, <2>4 DEF Among
    <3>2. k # 1
      BY <1>2, <2>4, <3>1
    <3>3. k - 1 \in 1..(n - 1) /\ e[k - 1] = q[k]
      BY <1>2, <2>2, <3>2
    <3> QED
      BY <1>2, <3>1, <3>3 DEF Among
  <2> QED
    BY <2>3, <2>4
<1> QED
  BY <1>1, <1>2, <1>3, <1>4, <1>5 DEF Once, e, h

LEMMA LocksType ==
    ASSUME DbInv
    PROVE  /\ pc \in [Users -> Places] /\ owner \in [Vps -> Users \cup {None}]
           /\ lockq \in [Vps -> Seq(Users)]
  BY DEF DbInv, TypeOK, Places

(* The queue stays as long as nobody begins or ceases to wait.             *)
LEMMA QueueStays ==
    ASSUME NEW v \in Vps, QueueAt(v), lockq'[v] = lockq[v], owner'[v] = owner[v],
           \A u \in Users : HomeOf(u) = v => (pc'[u] = "locking" \/ owner[v] = u
                                                <=> pc[u] = "locking" \/ owner[v] = u),
           owner[v] # None => pc'[owner[v]] \in Holding
    PROVE  QueueAt(v)'
  BY DEF QueueAt

LEMMA QueueNext == DbInv /\ QueueInv /\ [Next]_vars => QueueInv'
<1> SUFFICES ASSUME DbInv, QueueInv, SocketStep, NEW v \in Vps PROVE QueueAt(v)'
  BY StepKind DEF QueueInv
<1> USE HomeType
<1>1. /\ pc \in [Users -> Places] /\ owner \in [Vps -> Users \cup {None}]
      /\ lockq \in [Vps -> Seq(Users)]
  BY LocksType
<1>2. QueueAt(v)
  BY DEF QueueInv
<1>3. LockHeld /\ None \notin Users
  BY NamesAssumption DEF DbInv, Users
<1>4. ASSUME NEW u \in Users, HomeOf(u) # v, owner'[v] = owner[v], lockq'[v] = lockq[v],
             \A w \in Users \ {u} : pc'[w] = pc[w]
      PROVE  QueueAt(v)'
  <2>1. \A w \in Users : HomeOf(w) = v => pc'[w] = pc[w]
    BY <1>4
  <2>2. owner[v] # None => owner[v] \in Users /\ HomeOf(owner[v]) = v /\ pc[owner[v]] \in Holding
    BY <1>1, <1>2 DEF QueueAt
  <2> QED
    BY <1>2, <1>4, <2>1, <2>2, QueueStays
<1>5. ASSUME NEW u \in Users, NEW r \in Requests, Asks(u, r) PROVE QueueAt(v)'
  <2>1. CASE v # HomeOf(u)
    BY <1>1, <1>4, <1>5, <2>1 DEF Asks, Ask, lockVars
  <2>2. CASE v = HomeOf(u) /\ owner[v] = None
    <3>1. /\ owner'[v] = u /\ lockq'[v] = <<>> /\ lockq[v] = <<>>
          /\ pc' = [pc EXCEPT ![u] = "reading"]
      BY <1>1, <1>2, <1>5, <2>2 DEF Asks, Ask, QueueAt
    <3>2. \A w \in Users : HomeOf(w) = v => pc[w] # "locking"
      BY <1>2, <1>3, <2>2, <3>1 DEF QueueAt, Among
    <3>3. \A w \in Users : HomeOf(w) = v => pc'[w] # "locking"
      BY <1>1, <3>1, <3>2
    <3>4. \A w : ~Among(w, lockq'[v])
      BY <3>1 DEF Among
    <3>5. Once(lockq'[v])
      BY <3>1 DEF Once
    <3> QED
      BY <1>1, <1>3, <2>2, <3>1, <3>3, <3>4, <3>5 DEF QueueAt, Holding
  <2>3. CASE v = HomeOf(u) /\ owner[v] # None
    <3>1. /\ pc[u] = "idle" /\ pc' = [pc EXCEPT ![u] = "locking"] /\ owner' = owner
          /\ lockq'[v] = Append(lockq[v], u)
      BY <1>1, <1>5, <2>3 DEF Asks, Ask
    <3>2. owner[v] # u /\ ~Among(u, lockq[v]) /\ Once(lockq[v])
      BY <1>2, <2>3, <3>1 DEF QueueAt, Holding
    <3>3. /\ Once(lockq'[v])
          /\ \A w : Among(w, lockq'[v]) <=> Among(w, lockq[v]) \/ w = u
      BY <1>1, <3>1, <3>2, Appended
    <3>4. \A w \in Users : pc'[w] = "locking" <=> pc[w] = "locking" \/ w = u
      BY <1>1, <3>1
    <3>5. pc'[owner[v]] = pc[owner[v]]
      BY <1>1, <3>1, <3>2
    <3> QED
      BY <1>2, <2>3, <3>1, <3>2, <3>3, <3>4, <3>5 DEF QueueAt
  <2> QED
    BY <2>1, <2>2, <2>3
<1>6. ASSUME NEW u \in Users, owner[v] = u, HomeOf(u) = v, pc[u] \in {"reading", "body"},
             NEW l \in Places \ {"locking"}, pc' = [pc EXCEPT ![u] = l],
             owner'[v] = NextOwner(v),
             lockq'[v] = IF lockq[v] = <<>> THEN <<>> ELSE Tail(lockq[v])
      PROVE  QueueAt(v)'
  <2>1. CASE lockq[v] = <<>>
    <3>1. owner'[v] = None /\ lockq'[v] = <<>>
      BY <1>6, <2>1 DEF NextOwner
    <3>2. \A w \in Users : HomeOf(w) = v /\ owner[v] # w => pc[w] # "locking"
      BY <1>2, <2>1 DEF QueueAt, Among
    <3>3. \A w \in Users : HomeOf(w) = v => pc'[w] # "locking"
      BY <1>1, <1>6, <3>2
    <3> QED
      BY <1>3, <3>1, <3>3 DEF QueueAt, Among, Once
  <2>2. CASE lockq[v] # <<>>
    <3> DEFINE h == Head(lockq[v])
    <3>1. owner'[v] = h /\ lockq'[v] = Tail(lockq[v])
      BY <1>6, <2>2 DEF NextOwner
    <3>2. /\ h \in Users /\ Among(h, lockq[v]) /\ Once(Tail(lockq[v]))
          /\ \A w : Among(w, Tail(lockq[v])) <=> Among(w, lockq[v]) /\ w # h
      BY <1>1, <1>2, <2>2, Passed DEF QueueAt
    <3> HIDE DEF h
    <3>3. HomeOf(h) = v /\ pc[h] = "locking" /\ h # u
      BY <1>2, <1>6, <3>2 DEF QueueAt
    <3>4. \A w \in Users : pc'[w] = "locking" <=> pc[w] = "locking"
      BY <1>1, <1>6
    <3>5. \A w \in Users : Among(w, lockq'[v]) <=> HomeOf(w) = v /\ pc'[w] = "locking" /\ h # w
      BY <1>2, <1>6, <3>1, <3>2, <3>4 DEF QueueAt
    <3>6. pc'[h] = "locking" /\ h # None
      BY <1>3, <3>2, <3>3, <3>4
    <3> QED
      BY <3>1, <3>2, <3>3, <3>5, <3>6 DEF QueueAt, Holding
  <2> QED
    BY <2>1, <2>2
<1>7. ASSUME NEW u \in Users, NEW l \in {"idle", "waiting", "admitted"}, Releases(u, l)
      PROVE  QueueAt(v)'
  <2>1. CASE v # HomeOf(u)
    BY <1>1, <1>4, <1>7, <2>1 DEF Releases, Release, lockVars
  <2>2. CASE v = HomeOf(u)
    <3>1. owner[v] = u /\ pc[u] \in {"reading", "body"}
      BY <1>3, <1>7, <2>2 DEF Releases, AllRead, LockHeld
    <3>2. /\ pc' = [pc EXCEPT ![u] = l] /\ owner'[v] = NextOwner(v)
          /\ lockq'[v] = IF lockq[v] = <<>> THEN <<>> ELSE Tail(lockq[v])
      BY <1>1, <1>7, <2>2, <3>1 DEF Releases, Release
    <3> QED
      BY <1>6, <2>2, <3>1, <3>2 DEF Places
  <2> QED
    BY <2>1, <2>2
<1>8. ASSUME NEW u \in Users, NEW r \in Requests, AsksAgain(u, r) PROVE QueueAt(v)'
  <2>1. CASE v # HomeOf(u)
    BY <1>1, <1>4, <1>8, <2>1 DEF AsksAgain, ReleaseAndAsk, lockVars
  <2>2. CASE v = HomeOf(u)
    <3>1. owner[v] = u /\ pc[u] = "reading"
      BY <1>3, <1>8, <2>2 DEF AsksAgain, LockHeld
    <3>2. CASE UNCHANGED <<lockVars, pc>>
      BY <1>2, <3>2 DEF QueueAt, lockVars
    <3>3. CASE /\ lockq[v] # <<>> /\ owner'[v] = NextOwner(v)
               /\ lockq'[v] = Append(Tail(lockq[v]), u) /\ pc' = [pc EXCEPT ![u] = "locking"]
      <4> DEFINE h == Head(lockq[v])
                 t == Tail(lockq[v])
      <4>1. owner'[v] = h /\ lockq'[v] = Append(t, u)
        BY <3>3 DEF NextOwner
      <4>2. /\ h \in Users /\ Among(h, lockq[v]) /\ t \in Seq(Users) /\ Once(t)
            /\ \A w : Among(w, t) <=> Among(w, lockq[v]) /\ w # h
        BY <1>1, <1>2, <3>3, Passed DEF QueueAt
      <4> HIDE DEF h, t
      <4>3. HomeOf(h) = v /\ pc[h] = "locking" /\ h # u /\ ~Among(u, t)
        BY <1>2, <3>1, <4>2 DEF QueueAt
      <4>4. /\ Once(lockq'[v])
            /\ \A w : Among(w, lockq'[v]) <=> Among(w, t) \/ w = u
        BY <4>1, <4>2, <4>3, Appended
      <4>5. \A w \in Users : pc'[w] = "locking" <=> pc[w] = "locking" \/ w = u
        BY <1>1, <3>3
      <4>6. \A w \in Users : Among(w, lockq'[v]) <=> HomeOf(w) = v /\ pc'[w] = "locking" /\ h # w
        BY <1>2, <2>2, <3>1, <4>2, <4>3, <4>4, <4>5 DEF QueueAt
      <4>7. pc'[h] = "locking" /\ h # None
        BY <1>3, <4>2, <4>3, <4>5
      <4> QED
        BY <4>1, <4>3, <4>4, <4>6, <4>7 DEF QueueAt, Holding
    <3> QED
      BY <1>1, <1>8, <2>2, <3>1, <3>2, <3>3 DEF AsksAgain, ReleaseAndAsk
  <2> QED
    BY <2>1, <2>2
<1>9. ASSUME NEW u \in Users, Obtains(u) \/ FileFollows(u) PROVE QueueAt(v)'
  <2>1. /\ owner' = owner /\ lockq' = lockq
        /\ \A w \in Users \ {u} : pc'[w] = pc[w]
        /\ pc'[u] \in {"reading", "body"} /\ owner[HomeOf(u)] = u
    BY <1>1, <1>3, <1>9 DEF Obtains, FileFollows, LockHeld, lockVars
  <2>2. CASE v # HomeOf(u)
    BY <1>4, <2>1, <2>2
  <2>3. CASE v = HomeOf(u)
    <3>1. \A w \in Users : (pc'[w] = "locking" \/ owner[v] = w <=> pc[w] = "locking" \/ owner[v] = w)
      BY <2>1, <2>3
    <3> QED
      BY <1>2, <2>1, <2>3, <3>1, QueueStays DEF Holding
  <2> QED
    BY <2>2, <2>3
<1>10. ASSUME NEW u \in Users, NEW l \in {"idle", "waiting", "admitted"}, Pauses(u, l)
      PROVE  QueueAt(v)'
  <2>1. /\ owner' = owner /\ lockq' = lockq /\ pc[u] \notin Holding
        /\ pc' = [pc EXCEPT ![u] = l] /\ l # "locking"
    BY <1>10 DEF Pauses, Holding, lockVars
  <2>2. \A w \in Users : (pc'[w] = "locking" \/ owner[v] = w <=> pc[w] = "locking" \/ owner[v] = w)
    BY <1>1, <2>1 DEF Holding
  <2>3. owner[v] # None => owner[v] \in Users \ {u} /\ pc[owner[v]] \in Holding
    BY <1>1, <1>2, <2>1 DEF QueueAt
  <2> QED
    BY <1>1, <1>2, <2>1, <2>2, <2>3, QueueStays
<1>11. ASSUME NEW t \in Threads, Exit(t) PROVE QueueAt(v)'
  <2>1. pc' = [u \in Users |-> IF HomeOf(u) = Home[t] THEN "gone" ELSE pc[u]]
    BY <1>11 DEF Exit
  <2>2. CASE v # Home[t]
    <3>1. owner'[v] = owner[v] /\ lockq'[v] = lockq[v]
      BY <1>1, <1>11, <2>2 DEF Exit
    <3>2. \A w \in Users : HomeOf(w) = v => pc'[w] = pc[w]
      BY <2>1, <2>2
    <3>3. owner[v] # None => owner[v] \in Users /\ HomeOf(owner[v]) = v /\ pc[owner[v]] \in Holding
      BY <1>1, <1>2 DEF QueueAt
    <3> QED
      BY <1>2, <3>1, <3>2, <3>3, QueueStays
  <2>3. CASE v = Home[t]
    <3>1. owner'[v] = None /\ lockq'[v] = <<>>
      BY <1>1, <1>11, <2>3 DEF Exit
    <3>2. \A w \in Users : HomeOf(w) = v => pc'[w] # "locking"
      BY <2>1, <2>3
    <3> QED
      BY <3>1, <3>2 DEF QueueAt, Once, Among
  <2> QED
    BY <2>2, <2>3
<1>12. CASE UNCHANGED <<pc, lockVars>>
  BY <1>2, <1>12 DEF QueueAt, lockVars
<1> QED
  BY <1>5, <1>7, <1>8, <1>9, <1>10, <1>11, <1>12
     DEF SocketStep, UserStep, AgentReads, AgentAnswers, AgentCloses

(* Who reads has something to read, or to come: his request is on its way, *)
(* or with the agent, or answered, unless the connection is closed.  The   *)
(* content of a file comes with its size.                                  *)
ServedAt(u) ==
    LET v == HomeOf(u)
    IN  /\ pc[u] = "reading" => sock[v] = "closed" \/ ~Quiet(v)
        /\ pc[u] = "reading" /\ sock[v] = "open" /\ req[u].op = "HTTP" /\ fromAgent[v] # <<>>
                => Tail(fromAgent[v]) # <<>>
        /\ pc[u] = "body" => sock[v] = "closed" \/ fromAgent[v] # <<>>
ServedInv == \A u \in Users : ServedAt(u)

(* The request that is written will be answered.                           *)
LEMMA WrittenServed ==
    ASSUME DbInv, NEW u \in Users, NEW r, pc'[u] = "reading", sock' = sock,
           fromAgent'[HomeOf(u)] = <<>>, toAgent' = Written(HomeOf(u), r)
    PROVE  ServedAt(u)'
<1> DEFINE v == HomeOf(u)
<1>1. v \in Vps
  BY HomeType
<1>2. toAgent \in [Vps -> Seq(Requests)] /\ sock \in [Vps -> {"open", "closed"}]
  BY DEF DbInv, TypeOK
<1>3. sock[v] = "open" => toAgent'[v] = Append(toAgent[v], r)
  BY <1>1, <1>2 DEF Written
<1>4. sock[v] = "open" => toAgent'[v] # <<>>
  BY <1>1, <1>2, <1>3
<1> QED
  BY <1>1, <1>2, <1>4 DEF ServedAt, Quiet, Silent

(* The answer the agent writes is there to read, and so is the content of  *)
(* a file, when no file is empty.                                          *)
LEMMA AnswerServes ==
    ASSUME 0 \notin FileSizes, DbInv, NEW v \in Vps, AgentAnswers(v)
    PROVE  /\ sock[v] = "open" => fromAgent'[v] # <<>>
           /\ sock[v] = "open" /\ work[v].op = "HTTP" => Tail(fromAgent'[v]) # <<>>
<1>1. fromAgent[v] = <<>> /\ fromAgent \in [Vps -> Seq(Answers)] /\ work \in [Vps -> Requests]
  BY WorkOf DEF AgentAnswers, DbInv, TypeOK
<1>2. ASSUME NEW code, NEW val, Answered(v, code, val), sock[v] = "open"
      PROVE  /\ fromAgent'[v] # <<>>
             /\ work[v].op = "HTTP" /\ val > 0 => Tail(fromAgent'[v]) # <<>>
  <2> DEFINE a == Answer(work[v], code, val)
             b == [a EXCEPT !.op = "BODY"]
  <2>1. a.op = work[v].op
    BY AnswerIs
  <2>2. fromAgent' = [fromAgent EXCEPT ![v] =
                      IF sock[v] = "closed" THEN @
                      ELSE @ \o (IF a.op = "HTTP" /\ val > 0 THEN <<a, b>> ELSE <<a>>)]
    BY <1>2 DEF Answered
  <2> HIDE DEF a, b
  <2>3. fromAgent'[v] = <<>> \o (IF a.op = "HTTP" /\ val > 0 THEN <<a, b>> ELSE <<a>>)
    BY <1>1, <1>2, <2>2
  <2>4. fromAgent'[v] = IF a.op = "HTTP" /\ val > 0 THEN <<a, b>> ELSE <<a>>
    BY <2>3, ShortSequences
  <2>5. CASE a.op = "HTTP" /\ val > 0
    BY <2>4, <2>5, ShortSequences
  <2>6. CASE ~(a.op = "HTTP" /\ val > 0)
    BY <2>1, <2>4, <2>6, ShortSequences
  <2> QED
    BY <2>5, <2>6
<1>3. \E code, val : Answered(v, code, val) /\ (work[v].op = "HTTP" => val > 0)
  <2>1. CASE Busy(v) /\ Answered(v, "ERR", 0)
    BY <2>1 DEF Busy, DbOps
  <2>2. ASSUME NEW val, NEW code, HandleRequest(work[v], code, val), work[v].op = "HTTP"
        PROVE  val > 0
    <3>1. val \in FileSizes
      BY <2>2 DEF HandleRequest, HandleGet, HandlePut, HandleSet, HandleHttpGet, HandleLog
    <3> QED
      BY <3>1, FilesAssumption
  <2> QED
    BY <2>1, <2>2 DEF AgentAnswers
<1> QED
  BY <1>2, <1>3

LEMMA ServedNext ==
    0 \notin FileSizes => (DbInv /\ ServedInv /\ [Next]_vars => ServedInv')
<1> SUFFICES ASSUME 0 \notin FileSizes, DbInv, ServedInv, SocketStep, NEW w \in Users
             PROVE  ServedAt(w)'
  BY StepKind DEF ServedInv
<1> USE HomeType
<1> DEFINE v == HomeOf(w)
<1>1. /\ pc \in [Users -> Places] /\ owner \in [Vps -> Users \cup {None}]
      /\ req \in [Users -> Requests] /\ sock \in [Vps -> {"open", "closed"}]
      /\ toAgent \in [Vps -> Seq(Requests)] /\ fromAgent \in [Vps -> Seq(Answers)]
      /\ work \in [Vps -> Requests]
  BY DEF DbInv, TypeOK, Places
<1>2. ServedAt(w) /\ v \in Vps
  BY DEF ServedInv
<1>3. Traffic(v) /\ (pc[w] \in {"reading", "body"} => owner[v] = w) /\ None \notin Users
  BY NamesAssumption DEF DbInv, TrafficInv, LockHeld, Users
<1>4. ASSUME pc'[w] \notin {"reading", "body"} PROVE ServedAt(w)'
  BY <1>4 DEF ServedAt
<1>5. ASSUME pc'[w] = pc[w], req'[w] = req[w], sock'[v] = sock[v], work'[v] = work[v],
             pc[w] \in {"reading", "body"} =>
                    toAgent'[v] = toAgent[v] /\ fromAgent'[v] = fromAgent[v]
      PROVE  ServedAt(w)'
  BY <1>2, <1>5 DEF ServedAt, Quiet, Silent
<1>6. owner[v] = None \/ pc[owner[v]] \notin {"reading", "body"} => fromAgent[v] = <<>>
  BY <1>3 DEF Traffic, Quiet
<1>7. ASSUME NEW u \in Users, NEW r \in Requests, Asks(u, r) PROVE ServedAt(w)'
  <2>1. CASE u # w
    <3>1. pc'[w] = pc[w] /\ req'[w] = req[w] /\ UNCHANGED <<sock, work, fromAgent>>
      BY <1>1, <1>7, <2>1 DEF Asks, Ask, Elsewhere
    <3>2. owner[v] = w => toAgent'[v] = toAgent[v]
      <4>1. CASE v = HomeOf(u)
        BY <1>3, <1>7, <4>1 DEF Asks, Ask
      <4>2. CASE v # HomeOf(u)
        <5>1. HomeOf(u) \in Vps /\ v \in Vps \ {HomeOf(u)}
          BY <1>2, <4>2
        <5>2. toAgent' = toAgent \/ toAgent' = Written(HomeOf(u), r)
          BY <1>7 DEF Asks, Ask
        <5> QED
          BY <5>1, <5>2, WrittenElsewhere
      <4> QED
        BY <4>1, <4>2
    <3> QED
      BY <1>3, <1>5, <3>1, <3>2
  <2>2. CASE u = w /\ owner[v] = None
    <3>1. pc'[w] = "reading" /\ toAgent' = Written(v, r) /\ UNCHANGED <<sock, fromAgent>>
      BY <1>1, <1>7, <2>2 DEF Asks, Ask, Elsewhere
    <3>2. fromAgent'[v] = <<>>
      BY <1>6, <2>2, <3>1
    <3> QED
      BY <3>1, <3>2, WrittenServed
  <2>3. CASE u = w /\ owner[v] # None
    BY <1>1, <1>4, <1>7, <2>3 DEF Asks, Ask
  <2> QED
    BY <2>1, <2>2, <2>3
<1>8. ASSUME NEW u \in Users, NEW r \in Requests, AsksAgain(u, r) PROVE ServedAt(w)'
  <2>1. CASE u # w
    <3>1. pc'[w] = pc[w] /\ req'[w] = req[w] /\ UNCHANGED <<sock, work>>
      BY <1>1, <1>8, <2>1 DEF AsksAgain, ReleaseAndAsk, Elsewhere
    <3>2. owner[v] = w => v # HomeOf(u)
      BY <1>8, <2>1 DEF AsksAgain, DbInv, LockHeld
    <3>3. v # HomeOf(u) => toAgent'[v] = toAgent[v] /\ fromAgent'[v] = fromAgent[v]
      BY <1>1, <1>2, <1>8, WrittenElsewhere DEF AsksAgain, ReleaseAndAsk, Receives
    <3> QED
      BY <1>3, <1>5, <3>1, <3>2, <3>3
  <2>2. CASE u = w
    <3>1. fromAgent'[v] = <<>> /\ sock' = sock /\ pc[w] = "reading"
      BY <1>8, <2>2, ReadAll DEF AsksAgain, Elsewhere
    <3>2. CASE toAgent' = Written(v, r) /\ pc' = pc
      BY <3>1, <3>2, WrittenServed
    <3>3. CASE pc'[w] = "locking"
      BY <1>4, <3>3
    <3> QED
      BY <1>1, <1>8, <2>2, <3>2, <3>3 DEF AsksAgain, ReleaseAndAsk
  <2> QED
    BY <2>1, <2>2
<1>9. ASSUME NEW u \in Users, Obtains(u) PROVE ServedAt(w)'
  <2>1. CASE u # w
    <3>1. pc'[w] = pc[w] /\ req'[w] = req[w] /\ UNCHANGED <<sock, work, fromAgent>>
      BY <1>1, <1>9, <2>1 DEF Obtains, Elsewhere
    <3>2. owner[v] = w => toAgent'[v] = toAgent[v]
      BY <1>2, <1>9, <2>1, WrittenElsewhere DEF Obtains
    <3> QED
      BY <1>3, <1>5, <3>1, <3>2
  <2>2. CASE u = w
    <3>1. pc'[w] = "reading" /\ toAgent' = Written(v, req[w]) /\ UNCHANGED <<sock, fromAgent>>
          /\ owner[v] = w /\ pc[w] = "locking"
      BY <1>1, <1>9, <2>2 DEF Obtains, Elsewhere
    <3>2. fromAgent'[v] = <<>>
      BY <1>6, <3>1
    <3> QED
      BY <3>1, <3>2, WrittenServed
  <2> QED
    BY <2>1, <2>2
<1>10. ASSUME NEW u \in Users, FileFollows(u) PROVE ServedAt(w)'
  <2>1. CASE u # w
    <3>1. pc'[w] = pc[w] /\ req'[w] = req[w] /\ UNCHANGED <<sock, work, toAgent>>
      BY <1>1, <1>10, <2>1 DEF FileFollows, Elsewhere
    <3>2. owner[v] = w => v # HomeOf(u)
      BY <1>10, <2>1 DEF FileFollows, DbInv, LockHeld
    <3>3. v # HomeOf(u) => fromAgent'[v] = fromAgent[v]
      BY <1>1, <1>2, <1>10 DEF FileFollows, Receives
    <3> QED
      BY <1>3, <1>5, <3>1, <3>2, <3>3
  <2>2. CASE u = w
    <3>1. /\ pc[w] = "reading" /\ req[w].op = "HTTP" /\ sock' = sock /\ pc'[w] = "body"
          /\ fromAgent[v] # <<>> \/ sock[v] = "closed"
          /\ fromAgent'[v] = IF fromAgent[v] = <<>> THEN <<>> ELSE Tail(fromAgent[v])
      BY <1>1, <1>2, <1>10, <2>2 DEF FileFollows, Receives, Elsewhere
    <3>2. sock[v] = "closed" \/ fromAgent'[v] # <<>>
      BY <1>1, <1>2, <3>1 DEF ServedAt
    <3> QED
      BY <3>1, <3>2 DEF ServedAt
  <2> QED
    BY <2>1, <2>2
<1>11. ASSUME NEW u \in Users, NEW l \in {"idle", "waiting", "admitted"},
              Releases(u, l) \/ Pauses(u, l)
       PROVE  ServedAt(w)'
  <2>1. CASE u # w
    <3>1. pc'[w] = pc[w] /\ req'[w] = req[w] /\ UNCHANGED <<sock, work, toAgent>>
      BY <1>1, <1>11, <2>1 DEF Releases, Release, Pauses, Elsewhere, chanVars
    <3>2. Releases(u, l) /\ owner[v] = w => v # HomeOf(u)
      BY <2>1 DEF Releases, AllRead, DbInv, LockHeld
    <3>3. v # HomeOf(u) \/ Pauses(u, l) => fromAgent'[v] = fromAgent[v]
      BY <1>1, <1>2, <1>11 DEF Releases, Pauses, Receives, chanVars
    <3> QED
      BY <1>3, <1>5, <1>11, <3>1, <3>2, <3>3
  <2>2. CASE u = w
    BY <1>1, <1>4, <1>11, <2>2 DEF Releases, Release, Pauses
  <2> QED
    BY <2>1, <2>2
<1>12. ASSUME NEW t \in Threads, Exit(t) PROVE ServedAt(w)'
  <2>1. CASE v = Home[t]
    BY <1>4, <1>12, <2>1 DEF Exit
  <2>2. CASE v # Home[t]
    <3>1. pc'[w] = pc[w] /\ req'[w] = req[w] /\ sock'[v] = sock[v] /\ work'[v] = work[v]
          /\ toAgent'[v] = toAgent[v] /\ fromAgent'[v] = fromAgent[v]
      BY <1>1, <1>2, <1>12, <2>2 DEF Exit, agentVars
    <3> QED
      BY <1>5, <3>1
  <2> QED
    BY <2>1, <2>2
<1>13. ASSUME NEW x \in Vps, AgentReads(x) PROVE ServedAt(w)'
  <2>1. /\ UNCHANGED <<pc, req, sock, fromAgent>>
        /\ work' = [work EXCEPT ![x] = Head(toAgent[x])]
        /\ toAgent' = [toAgent EXCEPT ![x] = Tail(toAgent[x])] /\ toAgent[x] # <<>>
    BY <1>13 DEF AgentReads
  <2>2. CASE x # v
    BY <1>1, <1>2, <1>5, <2>1, <2>2
  <2>3. CASE x = v /\ pc[w] \in {"reading", "body"}
    <3>1. Sent(v, req[w]) /\ pc[w] = "reading"
      BY <1>3, <2>1, <2>3 DEF Traffic, Quiet, Silent, Answering, Following
    <3>2. toAgent[v] = <<req[w]>> /\ fromAgent[v] = <<>>
      BY <2>1, <2>3, <3>1 DEF Sent
    <3>3. work'[v] = req[w]
      BY <1>1, <1>2, <2>1, <2>3, <3>2, ShortSequences
    <3>4. req[w] # NoRequest
      BY <3>1, OwnRequest
    <3> QED
      BY <2>1, <3>1, <3>2, <3>3, <3>4 DEF ServedAt, Quiet, Silent
  <2>4. CASE pc[w] \notin {"reading", "body"}
    BY <1>4, <2>1, <2>4
  <2> QED
    BY <2>2, <2>3, <2>4
<1>14. ASSUME NEW x \in Vps, AgentCloses(x) PROVE ServedAt(w)'
  <2>1. CASE x # v
    BY <1>1, <1>2, <1>5, <1>14, <2>1 DEF AgentCloses
  <2>2. CASE x = v
    <3>1. sock'[v] = "closed"
      BY <1>1, <1>2, <1>14, <2>2 DEF AgentCloses
    <3> QED
      BY <3>1 DEF ServedAt
  <2> QED
    BY <2>1, <2>2
<1>15. ASSUME NEW x \in Vps, AgentAnswers(x) PROVE ServedAt(w)'
  <2>1. UNCHANGED <<pc, req, sock, toAgent>> /\ work' = [work EXCEPT ![x] = NoRequest]
    BY <1>15 DEF AgentAnswers
  <2>2. CASE x # v
    <3>0. \A code, val : Answered(x, code, val) => fromAgent'[v] = fromAgent[v]
      BY <1>1, <1>2, <2>2 DEF Answered
    <3>1. fromAgent'[v] = fromAgent[v]
      BY <1>15, <3>0 DEF AgentAnswers
    <3> QED
      BY <1>1, <1>2, <1>5, <2>1, <2>2, <3>1
  <2>3. CASE x = v /\ pc[w] \in {"reading", "body"}
    <3>1. work[v] = req[w]
      <4>1. Works(v)
        BY <1>15, <2>3 DEF AgentAnswers
      <4> QED
        BY <1>3, <2>3, <4>1, WorkOf
    <3>2. /\ sock[v] = "open" => fromAgent'[v] # <<>>
          /\ sock[v] = "open" /\ req[w].op = "HTTP" => Tail(fromAgent'[v]) # <<>>
      BY <1>2, <1>15, <2>3, <3>1, AnswerServes
    <3> QED
      BY <1>1, <1>2, <2>1, <3>2 DEF ServedAt, Quiet
  <2>4. CASE pc[w] \notin {"reading", "body"}
    BY <1>4, <2>1, <2>4
  <2> QED
    BY <2>2, <2>3, <2>4
<1>16. CASE UNCHANGED <<Elsewhere, pc, req, lockVars, chanVars>>
  BY <1>5, <1>16 DEF Elsewhere, chanVars
<1> QED
  BY <1>7, <1>8, <1>9, <1>10, <1>11, <1>12, <1>13, <1>14, <1>15, <1>16 DEF SocketStep, UserStep

(* Who waits for the lock has it or stands in the queue of whoever has it, *)
(* and who has it is about to use it, or waits for an answer that is there *)
(* or with the agent, or whose connection is closed: he will release it.   *)
NobodyForgotten ==
    \A v \in Vps :
        /\ \A u \in Users : HomeOf(u) = v /\ pc[u] = "locking" =>
                /\ owner[v] # None
                /\ owner[v] = u \/ Among(u, lockq[v])
        /\ owner[v] # None =>
                LET u == owner[v]
                IN  /\ HomeOf(u) = v
                    /\ \/ pc[u] = "locking"
                       \/ pc[u] = "reading" /\ (sock[v] = "closed" \/ ~Quiet(v))
                       \/ pc[u] = "body" /\ (sock[v] = "closed" \/ fromAgent[v] # <<>>)

LEMMA ServedInit == Init => QueueInv /\ ServedInv
<1> SUFFICES ASSUME Init PROVE QueueInv /\ ServedInv
  OBVIOUS
<1>1. \A u \in Users : pc[u] \in {"idle", "waiting"}
  BY DEF Init
<1>2. \A v \in Vps : owner[v] = None /\ lockq[v] = <<>>
  BY DEF Init
<1>3. QueueInv
  BY <1>1, <1>2 DEF QueueInv, QueueAt, Once, Among
<1>4. ServedInv
  BY <1>1 DEF ServedInv, ServedAt
<1> QED
  BY <1>3, <1>4

(* The lock is passed on to everyone who waits for it, and everyone who    *)
(* waits for an answer has one coming (hoxDbClient.cpp:80-95, :772): the   *)
(* part of AllServed that is no matter of fairness.  It holds when no file *)
(* that is asked for is empty: after the size of an empty one no content   *)
(* comes, and the lock stays with the thread that waits for it.            *)
THEOREM NobodyForgottenCorrect ==
    ASSUME 0 \notin FileSizes
    PROVE  Spec => []NobodyForgotten
<1>1. DbInv /\ QueueInv /\ [Next]_vars => QueueInv'
  BY QueueNext
<1>2. DbInv /\ ServedInv /\ [Next]_vars => ServedInv'
  BY ServedNext
<1>3. DbInv /\ QueueInv /\ ServedInv => NobodyForgotten
  <2> SUFFICES ASSUME DbInv, QueueInv, ServedInv PROVE NobodyForgotten
    OBVIOUS
  <2>1. ASSUME NEW v \in Vps PROVE QueueAt(v) /\ owner[v] \in Users \cup {None}
    BY LocksType DEF QueueInv
  <2>2. ASSUME NEW v \in Vps, NEW u \in Users, HomeOf(u) = v, pc[u] = "locking"
        PROVE  owner[v] # None /\ (owner[v] = u \/ Among(u, lockq[v]))
    <3>1. owner[v] = u \/ Among(u, lockq[v])
      BY <2>1, <2>2 DEF QueueAt
    <3>2. u # None
      BY NamesAssumption DEF Users
    <3>3. Among(u, lockq[v]) => lockq[v] # <<>>
      BY DEF Among
    <3> QED
      BY <2>1, <3>1, <3>2, <3>3 DEF QueueAt
  <2>3. ASSUME NEW v \in Vps, owner[v] # None
        PROVE  LET u == owner[v]
               IN  /\ HomeOf(u) = v
                   /\ \/ pc[u] = "locking"
                      \/ pc[u] = "reading" /\ (sock[v] = "closed" \/ ~Quiet(v))
                      \/ pc[u] = "body" /\ (sock[v] = "closed" \/ fromAgent[v] # <<>>)
    <3>1. owner[v] \in Users /\ HomeOf(owner[v]) = v /\ pc[owner[v]] \in Holding
      BY <2>1, <2>3 DEF QueueAt
    <3>2. ServedAt(owner[v])
      BY <3>1 DEF ServedInv
    <3> QED
      BY <3>1, <3>2 DEF ServedAt, Holding
  <2> QED
    BY <2>2, <2>3 DEF NobodyForgotten
<1> QED
  BY <1>1, <1>2, <1>3, ServedInit, DbInvariant, PTL DEF Spec

(* A write thread that waits to be told of results has none left to write: *)
(* a game that ends while it writes is found in the queue by the loop      *)
(* (hoxDbClient.cpp:308), one that ends while it waits wakes it (:588).    *)
NoSaveForgotten == \A v \in Vps : pc[v] = "waiting" => queue[v] = <<>>

LEMMA SavesNext == DbInv /\ NoSaveForgotten /\ [Next]_vars => NoSaveForgotten'
<1> SUFFICES ASSUME DbInv, NoSaveForgotten, [Next]_vars, NEW v \in Vps, pc'[v] = "waiting"
             PROVE  queue'[v] = <<>>
  BY DEF NoSaveForgotten
<1> USE HomeType
<1>1. /\ pc \in [Users -> Places] /\ queue \in [Vps -> Seq(Saves)]
      /\ pc[v] = "waiting" => queue[v] = <<>>
  BY DEF DbInv, TypeOK, Places, Saves, NoSaveForgotten
<1>2. ASSUME pc'[v] = pc[v], queue'[v] = queue[v] PROVE queue'[v] = <<>>
  BY <1>1, <1>2
<1>3. ASSUME NEW u \in Users, u # v, UserStep(u), queue' = queue PROVE queue'[v] = <<>>
  <2>1. pc'[v] = pc[v]
    BY <1>1, <1>3 DEF UserStep, Asks, Ask, AsksAgain, ReleaseAndAsk, Obtains, FileFollows,
                      Releases, Release, Pauses, Users
  <2> QED
    BY <1>2, <1>3, <2>1
<1>4. ASSUME NEW t \in Threads,
             \/ ThreadStep(t) \/ StartFile(t) \/ StartFlush(t) \/ StartTerm(t)
             \/ \E p \in Players : StartLogin(t, p) \/ StartRegister(t, p)
      PROVE  queue'[v] = <<>>
  <2>1. CASE Exit(t)
    BY <1>1, <2>1 DEF Exit, Users
  <2>2. CASE ~Exit(t)
    <3>1. UserStep(t) /\ t # v /\ t \in Users
      BY <1>4, <2>2, ThreadKind DEF Users
    <3>2. queue' = queue
      BY <1>4, <2>2
         DEF ThreadStep, StartLogin, StartRegister, StartFile, StartFlush, StartTerm, Begin, Locked,
             LoginAnswered, Admit, NameAnswered, RegisterAnswered, FileAnswered, BodyRead,
             FlushAnswered
    <3> QED
      BY <1>3, <3>1, <3>2
  <2> QED
    BY <2>1, <2>2
<1>5. ASSUME NEW w \in Vps, WriterStep(w), w # v PROVE queue'[v] = <<>>
  <2>1. UserStep(w) /\ w \in Users
    BY <1>5, WriterKind DEF Users
  <2>2. pc'[v] = pc[v]
    BY <1>1, <1>5, <2>1 DEF UserStep, Asks, Ask, AsksAgain, ReleaseAndAsk, Obtains, FileFollows,
                            Releases, Release, Pauses, Users
  <2>3. queue'[v] = queue[v]
    BY <1>1, <1>5 DEF WriterStep, Locked, WriterTakes, WriterWaits, WriterAnswered
  <2> QED
    BY <1>2, <2>2, <2>3
<1>6. ASSUME WriterStep(v) PROVE queue'[v] = <<>>
  <2>1. CASE Locked(v) \/ WriterTakes(v)
    BY <1>1, <2>1 DEF Locked, WriterTakes, Ask, Users
  <2>2. CASE WriterWaits(v)
    BY <1>1, <2>2 DEF WriterWaits
  <2>3. CASE WriterAnswered(v)
    <3>1. pc[v] = "reading"
      BY <2>3 DEF WriterAnswered, Returns
    <3>2. \A r : ReleaseAndAsk(v, r) => pc'[v] # "waiting"
      BY <1>1, <3>1 DEF ReleaseAndAsk, Users
    <3>3. CASE /\ Result(v) = "OK" \/ queue[v] = <<>>
               /\ Release(v, IF Result(v) = "OK" THEN "idle" ELSE "waiting")
               /\ queue' = queue
      BY <1>1, <3>3 DEF Release, Users
    <3> QED
      BY <2>3, <3>2, <3>3 DEF WriterAnswered
  <2> QED
    BY <1>6, <2>1, <2>2, <2>3 DEF WriterStep
<1>7. ASSUME NEW w \in Vps, NEW p \in Players, NEW q \in Players, NEW l \in {"W", "D"},
             EndGame(w, p, q, l)
      PROVE  queue'[v] = <<>>
  <2>1. CASE w = v
    BY <1>1, <1>7, <2>1 DEF EndGame, Signal, Users
  <2>2. CASE w # v
    <3>1. pc'[v] = pc[v] /\ queue'[v] = queue[v]
      BY <1>1, <1>7, <2>2 DEF EndGame, Signal, Queued, Users
    <3> QED
      BY <1>2, <3>1
  <2> QED
    BY <2>1, <2>2
<1>8. ASSUME NEW w \in Vps, AgentStep(w) \/ AgentCloses(w) PROVE queue'[v] = <<>>
  BY <1>2, <1>8 DEF AgentStep, AgentReads, AgentAnswers, AgentCloses
<1>9. CASE UNCHANGED vars
  BY <1>2, <1>9 DEF vars
<1> QED
  BY <1>4, <1>5, <1>6, <1>7, <1>8, <1>9 DEF Next

(* No result is left in the queue by a write thread that sleeps: the signal*)
(* is never lost, since the thread only waits when it has found the queue  *)
(* empty in the same run (hoxDbClient.cpp:308-350).                        *)
THEOREM NoSaveForgottenCorrect == Spec => []NoSaveForgotten
<1>1. Init => NoSaveForgotten
  BY DEF Init, NoSaveForgotten
<1>2. DbInv /\ NoSaveForgotten /\ [Next]_vars => NoSaveForgotten'
  BY SavesNext
<1> QED
  BY <1>1, <1>2, DbInvariant, PTL DEF Spec

-----------------------------------------------------------------------------
(* The refinement of HoxLedger.  The result in the hands of a write thread *)
(* is the request it waits with for the lock, or has sent; it is settled   *)
(* when the agent executes it, and refused when the connection is closed.  *)
Carried(v) == pc[v] = "locking" \/ (pc[v] = "reading" /\ Sent(v, req[v]))
Hand(v) == IF Carried(v) THEN <<SaveOf(req[v])>> ELSE <<>>
Hands == \A v \in Vps : InHand(v) = Hand(v)

LEMMA WriterRequest ==
    ASSUME DbInv, NEW v \in Vps, pc[v] \in {"locking", "reading"}
    PROVE  req[v].op = "SET" /\ req[v] # NoRequest
<1>1. req[v].op = "SET"
  BY RequestBy DEF DbInv, WritersAsk, WriterAsks
<1>2. NoRequest.op = "LOG"
  BY RequestBy DEF NoRequest
<1> QED
  BY <1>1, <1>2

LEMMA ThreadRequest ==
    ASSUME DbInv, NEW t \in Threads, pc[t] \in Asking
    PROVE  req[t].op # "SET"
  BY DEF DbInv, ThreadsAsk, ThreadAsks, Jobs

LEMMA HandsNow == DbInv => Hands
<1> SUFFICES ASSUME DbInv, NEW v \in Vps PROVE InHand(v) = Hand(v)
  BY DEF Hands
<1>1. CASE pc[v] = "locking"
  BY <1>1 DEF InHand, Hand, Carried
<1>2. CASE pc[v] = "reading" /\ Sent(v, req[v])
  <2>1. req[v].op = "SET" /\ NoRequest.op = "LOG"
    BY <1>2, WriterRequest, RequestBy DEF NoRequest
  <2>2. CASE toAgent[v] = <<req[v]>> /\ work[v] = NoRequest
    BY <1>2, <2>1, <2>2, ShortSequences DEF InHand, Hand, Carried
  <2>3. CASE work[v] = req[v]
    BY <1>2, <2>1, <2>3 DEF InHand, Hand, Carried
  <2> QED
    BY <1>2, <2>2, <2>3 DEF Sent
<1>3. CASE ~Carried(v)
  <2>1. pc[v] # "locking" /\ Hand(v) = <<>> /\ Traffic(v)
    BY <1>3 DEF Hand, Carried, DbInv, TrafficInv
  <2>2. NoRequest.op = "LOG"
    BY RequestBy DEF NoRequest
  <2>3. CASE Silent(v)
    BY <2>1, <2>2, <2>3 DEF InHand, Silent
  <2>4. CASE ~Silent(v)
    <3>1. PICK u \in Users : /\ u = owner[v] /\ HomeOf(u) = v /\ pc[u] = "reading"
                            /\ Sent(v, req[u])
      BY <2>1, <2>4 DEF Traffic, Quiet, Answering, Following
    <3>2. u # v
      BY <1>3, <3>1 DEF Carried
    <3>3. u \in Threads
      BY <3>1, <3>2, HomeType DEF Users
    <3>4. req[u].op # "SET"
      BY <3>1, <3>3, ThreadRequest DEF Asking
    <3>5. CASE toAgent[v] = <<req[u]>> /\ work[v] = NoRequest
      <4>1. Head(toAgent[v]) = req[u]
        BY <3>5, ShortSequences
      <4> QED
        BY <2>1, <2>2, <3>4, <3>5, <4>1 DEF InHand
    <3>6. CASE toAgent[v] = <<>> /\ work[v] = req[u]
      BY <2>1, <3>4, <3>6 DEF InHand
    <3> QED
      BY <3>1, <3>5, <3>6 DEF Sent
  <2> QED
    BY <2>3, <2>4
<1> QED
  BY <1>1, <1>2, <1>3 DEF Carried

LEMMA HandsThen == DbInv' => Hands'
  BY HandsNow, PTL

(* What is due at v, now and after a step.                                 *)
LEMMA DueIs ==
    ASSUME DbInv, DbInv'
    PROVE  /\ \A v \in Vps : due[v] = Hand(v) \o queue[v] /\ due'[v] = Hand(v)' \o queue'[v]
           /\ due = [v \in Vps |-> due[v]] /\ due' = [v \in Vps |-> due'[v]]
           /\ \A v \in Vps : queue[v] \in Seq(Saves) /\ queue'[v] \in Seq(Saves)
<1>1. Hands /\ Hands'
  BY HandsNow, HandsThen
<1>2. /\ queue \in [Vps -> Seq(Saves)] /\ queue' \in [Vps -> Seq(Saves)]
  BY TypeParts DEF DbInv, RestType
<1>3. due = [v \in Vps |-> InHand(v) \o queue[v]]
      /\ due' = [v \in Vps |-> InHand(v)' \o queue'[v]]
  BY DEF due
<1> QED
  BY <1>1, <1>2, <1>3 DEF Hands

LEMMA SavedRequest == \A v, s : s \in Saves => SaveOf(SetRequest(v, s)) = s
  BY DEF SaveOf, SetRequest, Request, Saves

(* The steps of others leave what the write thread of v carries.           *)
LEMMA HandSame ==
    ASSUME NEW v, pc'[v] = pc[v], req'[v] = req[v],
           pc[v] = "reading" => /\ toAgent'[v] = toAgent[v] /\ work'[v] = work[v]
                                /\ fromAgent'[v] = fromAgent[v]
    PROVE  Hand(v)' = Hand(v)
  BY DEF Hand, Carried, Sent

LEMMA OthersLeave ==
    ASSUME DbInv, NEW u \in Users, UserStep(u), NEW v \in Vps, v # u
    PROVE  Hand(v)' = Hand(v) /\ rows' = rows
<1> USE HomeType
<1>1. /\ pc \in [Users -> Places] /\ owner \in [Vps -> Users \cup {None}]
      /\ req \in [Users -> Requests] /\ toAgent \in [Vps -> Seq(Requests)]
      /\ fromAgent \in [Vps -> Seq(Answers)] /\ v \in Users
  BY DEF DbInv, TypeOK, Places, Users
<1>2. pc[v] = "reading" => owner[v] = v
  BY DEF DbInv, LockHeld, Users
<1>3. pc[u] \in {"reading", "body"} => owner[HomeOf(u)] = u
  BY DEF DbInv, LockHeld
<1>4. ASSUME pc'[v] = pc[v], req'[v] = req[v], UNCHANGED Elsewhere,
             pc[v] = "reading" => toAgent'[v] = toAgent[v] /\ fromAgent'[v] = fromAgent[v]
      PROVE  Hand(v)' = Hand(v) /\ rows' = rows
  BY <1>4, HandSame DEF Elsewhere
<1>5. ASSUME NEW r \in Requests, Asks(u, r) PROVE Hand(v)' = Hand(v) /\ rows' = rows
  <2>1. pc'[v] = pc[v] /\ req'[v] = req[v] /\ UNCHANGED <<Elsewhere, fromAgent>>
    BY <1>1, <1>5 DEF Asks, Ask
  <2>2. pc[v] = "reading" => toAgent'[v] = toAgent[v]
    BY <1>2, <1>5, WrittenElsewhere, NamesAssumption DEF Asks, Ask
  <2> QED
    BY <1>4, <2>1, <2>2
<1>6. ASSUME NEW r \in Requests, AsksAgain(u, r) PROVE Hand(v)' = Hand(v) /\ rows' = rows
  <2>1. pc'[v] = pc[v] /\ req'[v] = req[v] /\ UNCHANGED Elsewhere
    BY <1>1, <1>6 DEF AsksAgain, ReleaseAndAsk
  <2>2. pc[v] = "reading" => v # HomeOf(u)
    BY <1>2, <1>3, <1>6 DEF AsksAgain
  <2>3. pc[v] = "reading" => toAgent'[v] = toAgent[v] /\ fromAgent'[v] = fromAgent[v]
    BY <1>1, <1>6, <2>2, WrittenElsewhere DEF AsksAgain, ReleaseAndAsk, Receives
  <2> QED
    BY <1>4, <2>1, <2>3
<1>7. ASSUME Obtains(u) PROVE Hand(v)' = Hand(v) /\ rows' = rows
  <2>1. pc'[v] = pc[v] /\ req'[v] = req[v] /\ UNCHANGED <<Elsewhere, fromAgent>>
    BY <1>1, <1>7 DEF Obtains
  <2>2. pc[v] = "reading" => toAgent'[v] = toAgent[v]
    BY <1>2, <1>7, WrittenElsewhere DEF Obtains
  <2> QED
    BY <1>4, <2>1, <2>2
<1>8. ASSUME NEW l \in {"idle", "waiting", "admitted"}, FileFollows(u) \/ Releases(u, l)
      PROVE  Hand(v)' = Hand(v) /\ rows' = rows
  <2>1. pc'[v] = pc[v] /\ req'[v] = req[v] /\ UNCHANGED <<Elsewhere, toAgent>>
    BY <1>1, <1>8 DEF FileFollows, Releases, Release
  <2>2. pc[v] = "reading" => v # HomeOf(u)
    BY <1>2, <1>3, <1>8 DEF FileFollows, Releases, AllRead
  <2>3. pc[v] = "reading" => fromAgent'[v] = fromAgent[v]
    BY <1>1, <1>8, <2>2 DEF FileFollows, Releases, Receives
  <2> QED
    BY <1>4, <2>1, <2>3
<1>9. ASSUME NEW l \in {"idle", "waiting", "admitted"}, Pauses(u, l)
      PROVE  Hand(v)' = Hand(v) /\ rows' = rows
  <2>1. pc'[v] = pc[v] /\ req'[v] = req[v] /\ UNCHANGED <<Elsewhere, toAgent, fromAgent>>
    BY <1>1, <1>9 DEF Pauses, chanVars
  <2> QED
    BY <1>4, <2>1
<1> QED
  BY <1>5, <1>6, <1>7, <1>8, <1>9 DEF UserStep

(* What a write thread carries once its request is written.                *)
LEMMA HandWritten ==
    ASSUME DbInv, NEW v \in Vps, NEW r \in Requests, r # NoRequest, Silent(v),
           work' = work, fromAgent'[v] = <<>>,
           pc'[v] = "reading", req'[v] = r, toAgent' = Written(v, r)
    PROVE  Hand(v)' = IF sock[v] = "open" THEN <<SaveOf(r)>> ELSE <<>>
<1>1. toAgent \in [Vps -> Seq(Requests)]
  BY DEF DbInv, TypeOK
<1>2. CASE sock[v] = "open"
  <2>1. toAgent'[v] = <<r>>
    BY <1>1, <1>2, ShortSequences DEF Written, Silent
  <2>2. Sent(v, r)'
    BY <2>1 DEF Sent, Silent
  <2> QED
    BY <1>2, <2>2 DEF Hand, Carried
<1>3. CASE sock[v] # "open"
  <2>1. toAgent'[v] = <<>> /\ work'[v] = NoRequest
    BY <1>3 DEF Written, Silent
  <2>2. ~Sent(v, r)'
    BY <2>1, ShortSequences DEF Sent
  <2> QED
    BY <1>3, <2>2 DEF Hand, Carried
<1> QED
  BY <1>2, <1>3

LEMMA Front ==
    ASSUME NEW S, NEW q \in Seq(S), NEW x \in S
    PROVE  /\ <<>> \o q = q
           /\ <<x>> \o q # <<>> /\ Head(<<x>> \o q) = x /\ Tail(<<x>> \o q) = q
           /\ q # <<>> => <<Head(q)>> \o Tail(q) = q
  OBVIOUS

LEMMA Regrouped ==
    ASSUME NEW S, NEW a \in Seq(S), NEW b \in Seq(S), NEW c \in Seq(S)
    PROVE  a \o (b \o c) = (a \o b) \o c
  BY ConcatAssociative

LEMMA HandType ==
    ASSUME DbInv, NEW v \in Vps
    PROVE  /\ pc[v] \in {"locking", "reading"} => SaveOf(req[v]) \in Saves
           /\ Hand(v) \in Seq(Saves)
<1>1. pc[v] \in {"locking", "reading"} => SaveOf(req[v]) \in Saves
  BY SavedRequest DEF DbInv, WritersAsk, WriterAsks
<1> QED
  BY <1>1 DEF Hand, Carried

(* The steps of the ledger.                                                *)
LedgerStep == [Ledger!Step]_<<due, rows>>

LEMMA DueElsewhere ==
    ASSUME DbInv, DbInv', NEW v,
           \A w \in Vps : w # v => Hand(w)' = Hand(w) /\ queue'[w] = queue[w]
    PROVE  /\ v \in Vps => due' = [due EXCEPT ![v] = due'[v]]
           /\ (v \in Vps => due'[v] = due[v]) => due' = due
<1>1. \A w \in Vps : w # v => due'[w] = due[w]
  BY DueIs
<1>2. due = [w \in Vps |-> due[w]] /\ due' = [w \in Vps |-> due'[w]]
  BY DueIs
<1> DEFINE d == due
           e == due'
<1>3. /\ \A w \in Vps : w # v => e[w] = d[w]
      /\ d = [w \in Vps |-> d[w]] /\ e = [w \in Vps |-> e[w]]
  BY <1>1, <1>2
<1> HIDE DEF d, e
<1>4. v \in Vps => e = [d EXCEPT ![v] = e[v]]
  BY <1>3
<1>5. (v \in Vps => e[v] = d[v]) => e = d
  BY <1>3
<1> QED
  BY <1>4, <1>5 DEF d, e

LEMMA Stutters ==
    ASSUME due' = due, rows' = rows
    PROVE  LedgerStep
  BY DEF LedgerStep

(* The next result is taken out of the queue, to be sent; or in vain.      *)
LEMMA ResultTaken ==
    ASSUME DbInv, DbInv', NEW v \in Vps, queue[v] # <<>>, Hand(v) = <<>>, rows' = rows,
           Hand(v)' = <<Head(queue[v])>> \/ Hand(v)' = <<>>,
           queue' = [queue EXCEPT ![v] = Tail(queue[v])],
           \A w \in Vps : w # v => Hand(w)' = Hand(w)
    PROVE  LedgerStep
<1>1. /\ queue[v] \in Seq(Saves) /\ Head(queue[v]) \in Saves /\ Tail(queue[v]) \in Seq(Saves)
  BY DueIs, HeadTailProperties
<1>2. queue'[v] = Tail(queue[v]) /\ \A w \in Vps : w # v => queue'[w] = queue[w]
  BY DEF DbInv, TypeOK
<1>3. due[v] = queue[v] /\ due'[v] = Hand(v)' \o Tail(queue[v])
  <2>1. due[v] = <<>> \o queue[v] /\ due'[v] = Hand(v)' \o queue'[v]
    BY DueIs
  <2>2. <<>> \o queue[v] = queue[v]
    BY <1>1, Front
  <2> QED
    BY <1>2, <2>1, <2>2, Zenon
<1>4. CASE Hand(v)' = <<Head(queue[v])>>
  <2>1. due'[v] = due[v]
    BY <1>1, <1>3, <1>4, Front
  <2>2. due' = due
    BY <1>2, <2>1, DueElsewhere
  <2> QED
    BY <2>2, Stutters
<1>5. CASE Hand(v)' = <<>>
  <2>1. due'[v] = Tail(due[v]) /\ due[v] # <<>>
    BY <1>1, <1>3, <1>5, Front
  <2>2. due' = [due EXCEPT ![v] = due'[v]]
    BY <1>2, DueElsewhere
  <2>3. Ledger!Settle(v)
    BY <2>1, <2>2 DEF Ledger!Settle
  <2> QED
    BY <2>3 DEF LedgerStep, Ledger!Step
<1> QED
  BY <1>4, <1>5

(* What the write thread carries is settled, refused, or still carried.    *)
LEMMA ResultLeaves ==
    ASSUME DbInv, DbInv', NEW v \in Vps, queue' = queue,
           \A w \in Vps : w # v => Hand(w)' = Hand(w),
           \/ Hand(v)' = Hand(v) /\ rows' = rows
           \/ /\ Hand(v) = <<SaveOf(req[v])>> /\ Hand(v)' = <<>>
              /\ rows' = rows \/ rows' = Ledger!Applied(SaveOf(req[v]))
    PROVE  LedgerStep
<1>1. due[v] = Hand(v) \o queue[v] /\ due'[v] = Hand(v)' \o queue[v] /\ queue[v] \in Seq(Saves)
  BY DueIs
<1>2. CASE Hand(v)' = Hand(v) /\ rows' = rows
  <2>1. due' = due
    BY <1>1, <1>2, DueElsewhere
  <2> QED
    BY <1>2, <2>1, Stutters
<1>3. CASE /\ Hand(v) = <<SaveOf(req[v])>> /\ Hand(v)' = <<>>
           /\ rows' = rows \/ rows' = Ledger!Applied(SaveOf(req[v]))
  <2>1. SaveOf(req[v]) \in Saves
    <3>1. Carried(v)
      BY <1>3 DEF Hand
    <3> QED
      BY <3>1, HandType DEF Carried
  <2>2. due'[v] = Tail(due[v]) /\ due[v] # <<>> /\ Head(due[v]) = SaveOf(req[v])
    BY <1>1, <1>3, <2>1, Front
  <2>3. due' = [due EXCEPT ![v] = due'[v]]
    BY DueElsewhere
  <2>4. Ledger!Settle(v)
    BY <1>3, <2>2, <2>3 DEF Ledger!Settle
  <2> QED
    BY <2>4 DEF LedgerStep, Ledger!Step
<1> QED
  BY <1>2, <1>3

LEMMA ThreadLedger ==
    ASSUME DbInv, DbInv', NEW t \in Threads, UserStep(t), queue' = queue
    PROVE  LedgerStep
<1>1. \A w \in Vps : Hand(w)' = Hand(w) /\ rows' = rows
  BY OthersLeave, NamesAssumption DEF Users
<1>2. rows' = rows
  BY <1>1, HomeAssumption
<1>3. due' = due
  BY <1>1, DueElsewhere, NamesAssumption
<1> QED
  BY <1>2, <1>3, Stutters

(* A process that exits loses what it had not yet settled.                 *)
LEMMA ExitLedger ==
    ASSUME DbInv, DbInv', NEW t \in Threads, Exit(t)
    PROVE  LedgerStep
<1> DEFINE v == Home[t]
<1>1. v \in Vps /\ HomeOf(v) = v /\ v \in Users /\ t \in Users
  BY HomeType, HomeAssumption DEF Users
<1>2. /\ pc \in [Users -> Places] /\ req \in [Users -> Requests] /\ queue \in [Vps -> Seq(Saves)]
      /\ fromAgent \in [Vps -> Seq(Answers)]
  BY DEF DbInv, TypeOK, Places, Saves
<1>3. ASSUME NEW w \in Vps, w # v PROVE Hand(w)' = Hand(w) /\ queue'[w] = queue[w]
  <2>1. HomeOf(w) # v /\ w \in Users
    BY <1>3, HomeType DEF Users
  <2>2. pc'[w] = pc[w] /\ req'[w] = req[w] /\ queue'[w] = queue[w]
        /\ toAgent' = toAgent /\ work' = work /\ fromAgent'[w] = fromAgent[w]
    BY <1>2, <1>3, <2>1 DEF Exit, agentVars
  <2> QED
    BY <2>2, HandSame
<1>4. pc'[v] = "gone" /\ queue'[v] = <<>> /\ rows' = rows
  BY <1>1, <1>2 DEF Exit, agentVars
<1>5. Hand(v)' = <<>>
  BY <1>4 DEF Hand, Carried
<1>6. due'[v] = <<>>
  BY <1>1, <1>4, <1>5, DueIs
<1>7. due' = [due EXCEPT ![v] = due'[v]] /\ (due'[v] = due[v] => due' = due)
  BY <1>1, <1>3, DueElsewhere
<1>8. CASE due[v] = <<>>
  BY <1>4, <1>6, <1>7, <1>8, Stutters
<1>9. CASE due[v] # <<>>
  <2>1. Ledger!Lose(v)
    BY <1>4, <1>6, <1>7, <1>9 DEF Ledger!Lose
  <2> QED
    BY <1>1, <2>1 DEF LedgerStep, Ledger!Step
<1> QED
  BY <1>8, <1>9

LEMMA WriterLedger ==
    ASSUME DbInv, DbInv', NEW v \in Vps, WriterStep(v)
    PROVE  LedgerStep
<1>1. v \in Users /\ HomeOf(v) = v /\ UserStep(v)
  BY HomeType, WriterKind DEF Users
<1>2. /\ pc \in [Users -> Places] /\ req \in [Users -> Requests] /\ queue \in [Vps -> Seq(Saves)]
      /\ owner \in [Vps -> Users \cup {None}] /\ sock \in [Vps -> {"open", "closed"}]
  BY DEF DbInv, TypeOK, Places, Saves
<1>3. \A w \in Vps : w # v => Hand(w)' = Hand(w)
  BY <1>1, OthersLeave
<1>4. Traffic(v) /\ (sock[v] = "closed" => Silent(v))
  BY DEF DbInv, TrafficInv
<1>5. ASSUME queue[v] # <<>>
      PROVE  LET r == SetRequest(v, Head(queue[v]))
             IN  /\ r \in Requests /\ r # NoRequest /\ SaveOf(r) = Head(queue[v])
  <2>1. Head(queue[v]) \in Saves
    BY <1>5, QueueHead DEF DbInv
  <2>2. NoRequest.op = "LOG" /\ SetRequest(v, Head(queue[v])).op = "SET"
    BY RequestBy DEF NoRequest
  <2> QED
    BY <2>1, <2>2, RequestType, SavedRequest
<1>6. CASE Locked(v)
  <2>1. pc[v] = "locking" /\ owner[v] = v /\ pc'[v] = "reading" /\ req' = req /\ queue' = queue
        /\ work' = work /\ rows' = rows /\ fromAgent' = fromAgent /\ toAgent' = Written(v, req[v])
    BY <1>1, <1>2, <1>6 DEF Locked, agentVars
  <2>2. Quiet(v)
    BY <1>4, <2>1 DEF Traffic
  <2>3. req[v] \in Requests /\ req[v] # NoRequest
    BY <1>1, <1>2, <2>1, WriterRequest
  <2>4. Hand(v)' = IF sock[v] = "open" THEN <<SaveOf(req[v])>> ELSE <<>>
    BY <2>1, <2>2, <2>3, HandWritten DEF Quiet
  <2>5. Hand(v) = <<SaveOf(req[v])>>
    BY <2>1 DEF Hand, Carried
  <2> QED
    BY <1>3, <2>1, <2>4, <2>5, ResultLeaves
<1>7. CASE WriterTakes(v)
  <2> DEFINE r == SetRequest(v, Head(queue[v]))
  <2>1. /\ pc[v] = "idle" /\ queue[v] # <<>> /\ rows' = rows /\ work' = work
        /\ fromAgent' = fromAgent /\ queue' = [queue EXCEPT ![v] = Tail(queue[v])]
    BY <1>7 DEF WriterTakes, agentVars
  <2>2. Hand(v) = <<>>
    BY <2>1 DEF Hand, Carried
  <2>3. Hand(v)' = <<SaveOf(r)>> \/ Hand(v)' = <<>>
    <3>1. CASE owner[v] = None
      <4>1. pc'[v] = "reading" /\ req'[v] = r /\ toAgent' = Written(v, r)
        BY <1>1, <1>2, <1>7, <3>1 DEF WriterTakes, Ask
      <4>2. Quiet(v)
        BY <1>4, <3>1, NamesAssumption DEF Traffic, Users
      <4>3. r \in Requests /\ r # NoRequest
        BY <1>5, <2>1
      <4> HIDE DEF r
      <4>4. Hand(v)' = IF sock[v] = "open" THEN <<SaveOf(r)>> ELSE <<>>
        BY <2>1, <4>1, <4>2, <4>3, HandWritten DEF Quiet
      <4> QED
        BY <4>4
    <3>2. CASE owner[v] # None
      <4>1. pc'[v] = "locking" /\ req'[v] = r
        BY <1>1, <1>2, <1>7, <3>2 DEF WriterTakes, Ask
      <4> HIDE DEF r
      <4> QED
        BY <4>1 DEF Hand, Carried
    <3> QED
      BY <3>1, <3>2
  <2> QED
    BY <1>3, <1>5, <2>1, <2>2, <2>3, ResultTaken
<1>8. CASE WriterWaits(v)
  <2>1. /\ pc[v] = "idle" /\ pc'[v] = "waiting" /\ queue' = queue /\ rows' = rows
    BY <1>1, <1>2, <1>8 DEF WriterWaits, agentVars
  <2>2. Hand(v)' = Hand(v)
    BY <2>1 DEF Hand, Carried
  <2> QED
    BY <1>3, <2>1, <2>2, ResultLeaves
<1>9. CASE WriterAnswered(v)
  <2> DEFINE r == SetRequest(v, Head(queue[v]))
  <2>1. /\ pc[v] = "reading" /\ rows' = rows /\ work' = work
        /\ fromAgent[v] # <<>> \/ sock[v] = "closed"
    BY <1>1, <1>9 DEF WriterAnswered, Returns, agentVars
  <2>2. req[v].op = "SET" /\ req[v] # NoRequest /\ owner[v] = v
    BY <1>1, <2>1, WriterRequest DEF DbInv, LockHeld
  <2>3. ~Sent(v, req[v])
    BY <1>4, <2>1, <2>2, ShortSequences DEF Sent, Silent
  <2>4. Hand(v) = <<>>
    BY <2>1, <2>3 DEF Hand, Carried
  <2>5. Silent(v) /\ fromAgent'[v] = <<>>
    <3>1. AllRead(v) /\ Receives(v)
      BY <1>1, <1>9, <2>1, <2>2 DEF AllRead, Receives, WriterAnswered, Returns
    <3> QED
      BY <1>1, <3>1, ReadAll
  <2>6. CASE /\ queue[v] # <<>> /\ ReleaseAndAsk(v, r)
             /\ queue' = [queue EXCEPT ![v] = Tail(queue[v])]
    <3>1. r \in Requests /\ r # NoRequest /\ SaveOf(r) = Head(queue[v])
      BY <1>5, <2>6
    <3>2. Hand(v)' = <<SaveOf(r)>> \/ Hand(v)' = <<>>
      <4>1. req'[v] = r
        BY <1>1, <1>2, <2>6 DEF ReleaseAndAsk
      <4>2. CASE toAgent' = Written(v, r) /\ pc' = pc
        <5> HIDE DEF r
        <5>1. Hand(v)' = IF sock[v] = "open" THEN <<SaveOf(r)>> ELSE <<>>
          BY <2>1, <2>5, <3>1, <4>1, <4>2, HandWritten
        <5> QED
          BY <5>1
      <4>3. CASE pc'[v] = "locking"
        <5> HIDE DEF r
        <5> QED
          BY <4>1, <4>3 DEF Hand, Carried
      <4> QED
        BY <1>1, <1>2, <2>6, <4>2, <4>3 DEF ReleaseAndAsk
    <3> QED
      BY <1>3, <2>1, <2>4, <2>6, <3>1, <3>2, ResultTaken
  <2>7. CASE Release(v, IF Result(v) = "OK" THEN "idle" ELSE "waiting") /\ queue' = queue
    <3>1. pc'[v] \in {"idle", "waiting"}
      BY <1>1, <1>2, <2>7 DEF Release
    <3>2. Hand(v)' = Hand(v)
      BY <2>4, <3>1 DEF Hand, Carried
    <3> QED
      BY <1>3, <2>1, <2>7, <3>2, ResultLeaves
  <2> QED
    BY <1>9, <2>6, <2>7 DEF WriterAnswered
<1> QED
  BY <1>6, <1>7, <1>8, <1>9 DEF WriterStep

(* A game that ends records two results.                                   *)
LEMMA GameLedger ==
    ASSUME DbInv, DbInv', NEW v \in Vps, NEW p \in Players, NEW q \in Players, NEW l \in {"W", "D"},
           EndGame(v, p, q, l)
    PROVE  LedgerStep
<1> DEFINE x == Save(v, p, l)
           y == Save(v, q, Counterpart(l))
           h == Hand(v)
<1>1. /\ p # q
      /\ pc' = IF pc[v] = "waiting" THEN [pc EXCEPT ![v] = "idle"] ELSE pc
      /\ rows' = rows /\ queue' = [queue EXCEPT ![v] = queue[v] \o <<x, y>>]
      /\ UNCHANGED <<req, toAgent, fromAgent, work>>
  BY DEF EndGame, Signal, Queued, chanVars, agentVars
<1>2. /\ pc \in [Users -> Places] /\ queue \in [Vps -> Seq(Saves)] /\ v \in Users
      /\ mem \in [Vps -> [Players -> Int \cup {None}]]
  BY DEF DbInv, TypeOK, Places, Saves, Users
<1>3. \A w \in Vps : Hand(w)' = Hand(w) /\ (w # v => queue'[w] = queue[w])
  <2>1. TAKE w \in Vps
  <2>2. w # v => pc'[w] = pc[w]
    BY <1>1, <1>2 DEF Users
  <2>3. pc'[w] = pc[w] => Hand(w)' = Hand(w)
    BY <1>1, HandSame
  <2>4. pc'[v] # pc[v] => pc[v] = "waiting" /\ pc'[v] = "idle"
    BY <1>1, <1>2
  <2>5. pc'[v] # pc[v] => Hand(v)' = Hand(v)
    BY <2>4 DEF Hand, Carried
  <2> QED
    BY <1>1, <1>2, <2>2, <2>3, <2>5
<1>4. x \in Saves /\ y \in Saves /\ Ledger!OneGame(x, y)
  <2>1. mem[v][p] \in Int /\ mem[v][q] \in Int /\ Change(l) \in Int /\ Change(Counterpart(l)) \in Int
    BY <1>2 DEF EndGame, Change, Counterpart
  <2>2. l \in Letters /\ Counterpart(l) = IF l = "W" THEN "L" ELSE "D"
    BY DEF Letters, Counterpart
  <2>3. x \in Saves /\ y \in Saves
    BY <2>1, <2>2 DEF Save, Saves, Letters
  <2>4. /\ x.pid = p /\ y.pid = q
        /\ <<x.result, y.result>> = IF l = "W" THEN <<"W", "L">> ELSE <<"D", "D">>
    BY <2>2 DEF Save
  <2> QED
    BY <1>1, <2>3, <2>4 DEF Ledger!OneGame
<1>5. h \in Seq(Saves) /\ queue[v] \in Seq(Saves) /\ queue'[v] = queue[v] \o <<x, y>>
  BY <1>1, <1>2, HandType
<1>6. due[v] = h \o queue[v] /\ due'[v] = h \o (queue[v] \o <<x, y>>)
  BY <1>3, <1>5, DueIs
<1> HIDE DEF x, y, h
<1>7. /\ due'[v] = due[v] \o <<x, y>> /\ Len(due'[v]) = Len(due[v]) + 2
      /\ due'[v][Len(due[v]) + 1] = x /\ due'[v][Len(due[v]) + 2] = y
  <2>1. PICK two : two = <<x, y>>
    OBVIOUS
  <2>2. two \in Seq(Saves) /\ Len(two) = 2 /\ two[1] = x /\ two[2] = y
    BY <1>4, <2>1
  <2>3. PICK d, e : d = due[v] /\ e = due'[v]
    OBVIOUS
  <2>4. d \in Seq(Saves) /\ e = d \o two
    <3>1. d = h \o queue[v] /\ e = h \o (queue[v] \o two)
      BY <1>6, <2>1, <2>3
    <3>2. d \in Seq(Saves)
      BY <1>5, <3>1, ConcatProperties
    <3>3. h \o (queue[v] \o two) = (h \o queue[v]) \o two
      <4>1. h \in Seq(Saves) /\ queue[v] \in Seq(Saves) /\ two \in Seq(Saves)
        BY <1>5, <2>2
      <4>2. PICK a, b, c : a = h /\ b = queue[v] /\ c = two
        OBVIOUS
      <4>3. a \in Seq(Saves) /\ b \in Seq(Saves) /\ c \in Seq(Saves)
        BY <4>1, <4>2
      <4>4. a \o (b \o c) = (a \o b) \o c
        BY <4>3, Regrouped
      <4> QED
        BY <4>2, <4>4
    <3> QED
      BY <3>1, <3>2, <3>3
  <2>5. Len(d) \in Nat
    BY <2>4, LenProperties
  <2>6. /\ Len(e) = Len(d) + 2
        /\ \A i \in 1 .. Len(d) + 2 : e[i] = IF i <= Len(d) THEN d[i] ELSE two[i - Len(d)]
    <3>1. /\ Len(d \o two) = Len(d) + Len(two)
          /\ \A i \in 1 .. Len(d) + Len(two) :
                (d \o two)[i] = IF i <= Len(d) THEN d[i] ELSE two[i - Len(d)]
      BY <2>2, <2>4, ConcatProperties
    <3> QED
      BY <2>2, <2>4, <3>1
  <2>7. (Len(d) + 1) - Len(d) = 1 /\ (Len(d) + 2) - Len(d) = 2
    BY <2>5
  <2>8. e[Len(d) + 1] = x /\ e[Len(d) + 2] = y
    BY <2>2, <2>5, <2>6, <2>7
  <2> QED
    BY <2>1, <2>3, <2>4, <2>6, <2>8
<1>8. due' = [due EXCEPT ![v] = due'[v]]
  BY <1>3, DueElsewhere
<1>9. Ledger!Record(v)
  BY <1>1, <1>4, <1>7, <1>8 DEF Ledger!Record
<1> QED
  BY <1>9 DEF LedgerStep, Ledger!Step

(* The agent's steps at v leave what the other write threads carry.        *)
LEMMA AgentLeaves ==
    ASSUME DbInv, NEW v \in Vps, AgentStep(v) \/ AgentCloses(v), NEW w \in Vps, w # v
    PROVE  Hand(w)' = Hand(w)
<1>1. toAgent \in [Vps -> Seq(Requests)] /\ work \in [Vps -> Requests]
      /\ fromAgent \in [Vps -> Seq(Answers)]
  BY DEF DbInv, TypeOK
<1>2. pc' = pc /\ req' = req
  BY DEF AgentStep, AgentReads, AgentAnswers, AgentCloses
<1>3. toAgent'[w] = toAgent[w] /\ work'[w] = work[w] /\ fromAgent'[w] = fromAgent[w]
  BY <1>1 DEF AgentStep, AgentReads, AgentAnswers, AgentCloses, Answered
<1> QED
  BY <1>2, <1>3, HandSame

(* The request the agent reads, or executes, is of who holds the lock.     *)
LEMMA AgentReadsLedger ==
    ASSUME DbInv, DbInv', NEW v \in Vps, AgentReads(v)
    PROVE  LedgerStep
<1>1. /\ toAgent \in [Vps -> Seq(Requests)] /\ work \in [Vps -> Requests]
      /\ pc' = pc /\ req' = req /\ rows' = rows /\ queue' = queue /\ fromAgent' = fromAgent
      /\ toAgent[v] # <<>>
  BY DEF DbInv, TypeOK, AgentReads
<1>2. work'[v] = Head(toAgent[v]) /\ toAgent'[v] = Tail(toAgent[v])
  BY <1>1 DEF AgentReads
<1>3. Traffic(v)
  BY DEF DbInv, TrafficInv
<1>4. PICK u \in Users : u = owner[v] /\ pc[u] = "reading" /\ Sent(v, req[u])
  BY <1>1, <1>3 DEF Traffic, Quiet, Silent, Answering, Following
<1>5. toAgent[v] = <<req[u]>> /\ fromAgent[v] = <<>>
  BY <1>1, <1>4 DEF Sent
<1>6. work'[v] = req[u] /\ toAgent'[v] = <<>> /\ fromAgent'[v] = <<>>
  BY <1>1, <1>2, <1>5, ShortSequences
<1>7. CASE pc[v] = "reading"
  <2>1. u = v
    BY <1>4, <1>7, HomeType DEF DbInv, LockHeld, Users
  <2>2. Sent(v, req[v])'
    BY <1>1, <1>6, <2>1 DEF Sent
  <2>3. Hand(v)' = Hand(v)
    BY <1>1, <1>4, <2>1, <2>2 DEF Hand, Carried
  <2> QED
    BY <1>1, <2>3, AgentLeaves, ResultLeaves DEF AgentStep
<1>8. CASE pc[v] # "reading"
  <2>1. Hand(v)' = Hand(v)
    BY <1>1, <1>8 DEF Hand, Carried
  <2> QED
    BY <1>1, <2>1, AgentLeaves, ResultLeaves DEF AgentStep
<1> QED
  BY <1>7, <1>8

LEMMA AgentClosesLedger ==
    ASSUME DbInv, DbInv', NEW v \in Vps, AgentCloses(v)
    PROVE  LedgerStep
<1>1. /\ toAgent \in [Vps -> Seq(Requests)] /\ work \in [Vps -> Requests]
      /\ pc' = pc /\ req' = req /\ rows' = rows /\ queue' = queue
  BY DEF DbInv, TypeOK, AgentCloses, agentVars
<1>2. toAgent'[v] = <<>> /\ work'[v] = NoRequest
  BY <1>1 DEF AgentCloses
<1>3. CASE pc[v] = "reading"
  <2>1. req[v] # NoRequest
    BY <1>3, WriterRequest
  <2>2. ~Sent(v, req[v])'
    BY <1>1, <1>2, <2>1, ShortSequences DEF Sent
  <2>3. Hand(v)' = <<>>
    BY <1>1, <1>3, <2>2 DEF Hand, Carried
  <2>4. Hand(v) = <<>> \/ Hand(v) = <<SaveOf(req[v])>>
    BY DEF Hand
  <2> QED
    BY <1>1, <2>3, <2>4, AgentLeaves, ResultLeaves
<1>4. CASE pc[v] # "reading"
  <2>1. Hand(v)' = Hand(v)
    BY <1>1, <1>4 DEF Hand, Carried
  <2> QED
    BY <1>1, <2>1, AgentLeaves, ResultLeaves
<1> QED
  BY <1>3, <1>4

LEMMA AppliedIs ==
    ASSUME NEW r
    PROVE  Ledger!Applied(SaveOf(r)) = Updated(r)
<1>1. SaveOf(r).pid = r.pid /\ SaveOf(r).score = r.score /\ SaveOf(r).result = r.result
  BY DEF SaveOf
<1>2. \A old : Ledger!UpdatedRow(old, SaveOf(r)) = UpdatedRow(old, r)
  BY <1>1 DEF Ledger!UpdatedRow, UpdatedRow, Ledger!Row, Row
<1> QED
  BY <1>1, <1>2 DEF Ledger!Applied, Updated

LEMMA AgentAnswersLedger ==
    ASSUME DbInv, DbInv', NEW v \in Vps, AgentAnswers(v)
    PROVE  LedgerStep
<1>1. pc' = pc /\ req' = req /\ queue' = queue /\ toAgent' = toAgent
      /\ work' = [work EXCEPT ![v] = NoRequest] /\ work \in [Vps -> Requests]
      /\ rows \in [Players -> Seq(Rows)]
  BY DEF DbInv, TypeOK, AgentAnswers
<1>2. PICK u \in Users : /\ u = owner[v] /\ HomeOf(u) = v /\ pc[u] = "reading"
                        /\ work[v] = req[u] /\ toAgent[v] = <<>> /\ fromAgent[v] = <<>>
  BY WorkOf DEF AgentAnswers
<1>3. work'[v] = NoRequest /\ toAgent'[v] = <<>>
  BY <1>1, <1>2
<1>4. CASE u = v
  <2>1. req[v].op = "SET" /\ req[v] # NoRequest
    BY <1>2, <1>4, WriterRequest
  <2>2. Hand(v) = <<SaveOf(req[v])>>
    BY <1>2, <1>4 DEF Hand, Carried, Sent
  <2>3. ~Sent(v, req[v])'
    BY <1>1, <1>3, <2>1, ShortSequences DEF Sent
  <2>4. Hand(v)' = <<>>
    BY <1>1, <1>2, <1>4, <2>3 DEF Hand, Carried
  <2>5. rows' = rows \/ rows' = Updated(req[v])
    BY <1>2, <1>4, <2>1 DEF AgentAnswers, HandleRequest, HandleGet, HandlePut, HandleSet,
                            HandleHttpGet, HandleLog
  <2>6. rows' = rows \/ rows' = Ledger!Applied(SaveOf(req[v]))
    BY <2>5, AppliedIs
  <2> QED
    BY <1>1, <2>2, <2>4, <2>6, AgentLeaves, ResultLeaves DEF AgentStep
<1>5. CASE u # v
  <2>1. u \in Threads
    BY <1>2, <1>5, HomeType DEF Users
  <2>2. req[u].op # "SET"
    BY <1>2, <2>1, ThreadRequest DEF Asking
  <2>3. pc[v] # "reading"
    BY <1>2, <1>5, HomeType DEF DbInv, LockHeld, Users
  <2>4. Hand(v)' = Hand(v)
    BY <1>1, <2>3 DEF Hand, Carried
  <2>5. \A w \in Vps : Hand(w)' = Hand(w)
    BY <2>4, AgentLeaves DEF AgentStep
  <2>6. due' = due
    BY <1>1, <2>5, DueElsewhere, NamesAssumption
  <2>7. rows' = rows \/ (req[u].op = "PUT" /\ ~Refused(req[u]) /\ rows' = Inserted(req[u]))
    BY <1>2, <2>2 DEF AgentAnswers, HandleRequest, HandleGet, HandlePut, HandleSet,
                      HandleHttpGet, HandleLog
  <2>8. CASE rows' = rows
    BY <2>6, <2>8, Stutters
  <2>9. CASE req[u].op = "PUT" /\ ~Refused(req[u]) /\ rows' = Inserted(req[u])
    <3>1. req[u].by = u /\ req[u].pid \in Players
      BY <1>2, <2>9, Registering
    <3>2. /\ unique => rows[req[u].pid] = <<>>
          /\ rows' = [rows EXCEPT ![req[u].pid] = Append(@, NewRow(u))]
      BY <2>9, <3>1 DEF Inserted, Refused
    <3>3. NewRow(u) = Ledger!NewRow(u)
      BY DEF NewRow, Row, Letters, Ledger!NewRow, Ledger!Row, Ledger!Letters
    <3>4. Ledger!Open(req[u].pid, u)
      BY <2>6, <3>2, <3>3 DEF Ledger!Open
    <3> QED
      BY <2>1, <3>1, <3>4 DEF LedgerStep, Ledger!Step
  <2> QED
    BY <2>7, <2>8, <2>9
<1> QED
  BY <1>4, <1>5

LEMMA LedgerInit == Init => Ledger!Init
<1> SUFFICES ASSUME Init PROVE Ledger!Init
  OBVIOUS
<1>1. \A v \in Vps : InHand(v) \o queue[v] = <<>>
  <2>1. NoRequest.op = "LOG"
    BY RequestBy DEF NoRequest
  <2>2. \A v \in Vps : InHand(v) = <<>> /\ queue[v] = <<>>
    BY <2>1 DEF Init, InHand, Users
  <2>3. <<>> \o <<>> = <<>>
    OBVIOUS
  <2> QED
    BY <2>2, <2>3
<1>2. due = [v \in Vps |-> <<>>]
  BY <1>1 DEF due
<1>3. rows = [p \in Players |-> IF p \in Registered THEN <<Ledger!NewRow(None)>> ELSE <<>>]
      /\ unique \in BOOLEAN
  BY DEF Init, NewRow, Row, Letters, Ledger!NewRow, Ledger!Row, Ledger!Letters
<1> QED
  BY <1>2, <1>3 DEF Ledger!Init

LEMMA LedgerNext == DbInv /\ DbInv' /\ [Next]_vars => LedgerStep
<1> SUFFICES ASSUME DbInv, DbInv', [Next]_vars PROVE LedgerStep
  OBVIOUS
<1>1. ASSUME NEW t \in Threads,
             \/ ThreadStep(t) \/ StartFile(t) \/ StartFlush(t) \/ StartTerm(t)
             \/ \E p \in Players : StartLogin(t, p) \/ StartRegister(t, p)
      PROVE  LedgerStep
  <2>1. CASE Exit(t)
    BY <2>1, ExitLedger
  <2>2. CASE ~Exit(t)
    <3>1. UserStep(t)
      BY <1>1, <2>2, ThreadKind
    <3>2. queue' = queue
      BY <1>1, <2>2
         DEF ThreadStep, StartLogin, StartRegister, StartFile, StartFlush, StartTerm, Begin, Locked,
             LoginAnswered, Admit, NameAnswered, RegisterAnswered, FileAnswered, BodyRead,
             FlushAnswered
    <3> QED
      BY <3>1, <3>2, ThreadLedger
  <2> QED
    BY <2>1, <2>2
<1>2. CASE UNCHANGED vars
  <2>1. pc' = pc /\ req' = req /\ queue' = queue /\ rows' = rows
        /\ toAgent' = toAgent /\ work' = work /\ fromAgent' = fromAgent
    BY <1>2 DEF vars, chanVars, agentVars
  <2>2. \A w \in Vps : Hand(w)' = Hand(w)
    BY <2>1, HandSame
  <2>3. due' = due
    BY <2>1, <2>2, DueElsewhere, NamesAssumption
  <2> QED
    BY <2>1, <2>3, Stutters
<1> QED
  BY <1>1, <1>2, WriterLedger, GameLedger, AgentReadsLedger, AgentAnswersLedger, AgentClosesLedger
     DEF Next, AgentStep

LEMMA SchemaStays == [Next]_vars => unique' = unique
<1> SUFFICES ASSUME [Next]_vars PROVE unique' = unique
  OBVIOUS
<1>1. ASSUME NEW t \in Threads,
             \/ LoginAnswered(t) \/ Admit(t) \/ NameAnswered(t) \/ RegisterAnswered(t)
             \/ FileAnswered(t) \/ BodyRead(t) \/ FlushAnswered(t) \/ Exit(t)
      PROVE  unique' = unique
  BY <1>1 DEF LoginAnswered, Admit, NameAnswered, RegisterAnswered, FileAnswered, BodyRead,
              FlushAnswered, Exit, agentVars
<1>2. ASSUME NEW t \in Threads,
             \/ StartFile(t) \/ StartFlush(t) \/ StartTerm(t)
             \/ \E p \in Players : StartLogin(t, p) \/ StartRegister(t, p)
      PROVE  unique' = unique
  BY <1>2 DEF StartLogin, StartRegister, StartFile, StartFlush, StartTerm, Begin, agentVars
<1>3. ASSUME NEW v \in Vps, WriterTakes(v) \/ WriterWaits(v) \/ WriterAnswered(v)
      PROVE  unique' = unique
  BY <1>3 DEF WriterTakes, WriterWaits, WriterAnswered, agentVars
<1>4. ASSUME NEW v \in Vps,
             \/ AgentReads(v) \/ AgentAnswers(v) \/ AgentCloses(v)
             \/ \E p, q \in Players, l \in {"W", "D"} : EndGame(v, p, q, l)
      PROVE  unique' = unique
  BY <1>4 DEF AgentReads, AgentAnswers, AgentCloses, EndGame, agentVars
<1>5. ASSUME NEW u, Locked(u) PROVE unique' = unique
  BY <1>5 DEF Locked, agentVars
<1>6. CASE UNCHANGED vars
  BY <1>6 DEF vars, agentVars
<1> QED
  BY <1>1, <1>2, <1>3, <1>4, <1>5, <1>6 DEF Next, ThreadStep, WriterStep, AgentStep

(* The clients, the agent and SQLite implement the ledger: each result a   *)
(* process records is settled or refused once, in order, and no other step *)
(* of any thread, process or connection changes a score or a count         *)
(* (hoxTable.cpp:871, hoxDbClient.cpp, dbagent/hoxDBAPI.cpp).              *)
THEOREM LedgerCorrect == Spec => LedgerSpec
<1>1. [Next]_vars => unique' = unique
  BY SchemaStays
<1>2. DbInv /\ DbInv' /\ [Next]_vars => [Ledger!Next]_<<due, rows, unique>>
  BY <1>1, LedgerNext DEF LedgerStep, Ledger!Next
<1> QED
  BY <1>2, LedgerInit, DbInvariant, PTL DEF Spec, LedgerSpec, Ledger!Spec
=============================================================================
