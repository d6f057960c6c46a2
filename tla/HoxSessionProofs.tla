-------------------------- MODULE HoxSessionProofs --------------------------
(***************************************************************************)
(* Theorems about HoxSession, for any number of connections of the player  *)
(* and any kinds of clients.                                               *)
(***************************************************************************)
EXTENDS HoxSession, TLAPS

-----------------------------------------------------------------------------
(* Type correctness.  It needs to know when a thread has a session, for    *)
(* the connection and the threads it reads from it.                        *)

Working == {"waitReader", "resumed", "replaced", "reading", "looping", "left",
            "closeIO", "join", "deleted"}

(* Until its login is done a connection has made no write thread.          *)
LoggingIn(t) ==
    \/ pc[t] \in {"start", "db", "authenticated", "waitReader", "resumed", "replaced"}
    \/ pc[t] \in {"closeIO", "join"} /\ then[t] \in {"resumed", "replaced"}

SessKnown ==
    /\ \A x \in Threads : pc[x] \in Working => sess[x] \in Sessions
    /\ \A w \in Conns : wpc[w] # "none" => sess[w] \in Sessions
    /\ \A t \in Conns : LoggingIn(t) => wpc[t] = "none"

TypeInv == TypeOK /\ SessKnown

(* A server that has started has no session and no thread that works.       *)
LEMMA TypeInvInit == Init => TypeInv
<1> SUFFICES ASSUME Init PROVE TypeInv
  OBVIOUS
<1>1. /\ pc \in [Threads -> Labels]
      /\ sess \in [Threads -> Sessions \cup {None}]
      /\ then \in [Threads -> {"resumed", "replaced", "left", "deleted", "closed", "scan"}]
      /\ joining \in [Threads -> Conns \cup {None}]
  BY DEF Init, Labels
<1>2. /\ state \in [Sessions -> States]
      /\ nfd \in [Sessions -> Conns \cup {None}]
      /\ readThread \in [Sessions -> Conns \cup {None}]
      /\ writeThread \in [Sessions -> Conns \cup {None}]
  BY DEF Init, States
<1>3. /\ pending \in [Sessions -> BOOLEAN]
      /\ idle \in [Sessions -> BOOLEAN]
      /\ waiters \in [Sessions -> Seq(Conns)]
      /\ writing \in [Conns -> Conns \cup {None}]
      /\ wpc \in [Conns -> {"none", "loop", "writing", "nap", "ended"}]
      /\ client \in [Conns -> ClientTypes \cup {None}]
  BY DEF Init
<1>4. TypeOK
  BY <1>1, <1>2, <1>3, ModesAssumption DEF Init, TypeOK
<1>5. SessKnown
  <2>1. \A x \in Threads : pc[x] \notin Working
    BY DEF Init, Working
  <2>2. \A w \in Conns : wpc[w] = "none"
    BY DEF Init
  <2> QED
    BY <2>1, <2>2 DEF SessKnown
<1> QED
  BY <1>4, <1>5 DEF TypeInv

(* st_cond_signal takes at most the first waiter off each queue.            *)
LEMMA SignalledType ==
    ASSUME TypeOK, NEW S
    PROVE  Signalled(S) \in [Sessions -> Seq(Conns)]
<1> SUFFICES ASSUME NEW s \in Sessions, waiters[s] # <<>>
             PROVE  Tail(waiters[s]) \in Seq(Conns)
  BY DEF Signalled, TypeOK
<1> QED
  BY DEF TypeOK

(* addResponse keeps the types of the queues.                               *)
LEMMA AddResponseType ==
    ASSUME TypeOK, NEW S, AddResponse(S)
    PROVE  pending' \in [Sessions -> BOOLEAN] /\ waiters' \in [Sessions -> Seq(Conns)]
<1>1. waiters' \in [Sessions -> Seq(Conns)]
  BY SignalledType DEF AddResponse
<1>2. pending' \in [Sessions -> BOOLEAN]
  BY Zenon DEF AddResponse
<1> QED
  BY <1>1, <1>2

(* handleShutdown by thread x of its session.                              *)
LEMMA HandleShutdownType ==
    ASSUME TypeOK, NEW x \in Threads, NEW s \in Sessions,
           NEW l \in {"replaced", "deleted", "scan"}, HandleShutdown(x, s, l)
    PROVE  /\ turn' = x
           /\ pc' \in [Threads -> Labels]
           /\ woken' \subseteq Threads
           /\ then' \in [Threads -> {"resumed", "replaced", "left", "deleted", "closed", "scan"}]
           /\ state' \in [Sessions -> States]
           /\ playing' \subseteq Sessions
           /\ pending' \in [Sessions -> BOOLEAN]
           /\ waiters' \in [Sessions -> Seq(Conns)]
<1>1. pending' \in [Sessions -> BOOLEAN] /\ waiters' \in [Sessions -> Seq(Conns)]
  BY AddResponseType DEF HandleShutdown
<1>2. /\ turn' = x
      /\ pc' \in [Threads -> Labels]
      /\ woken' \subseteq Threads
  BY DEF HandleShutdown, RunTo, TypeOK, Labels
<1>3. /\ then' \in [Threads -> {"resumed", "replaced", "left", "deleted", "closed", "scan"}]
      /\ state' \in [Sessions -> States]
      /\ playing' \subseteq Sessions
  BY DEF HandleShutdown, LeaveAllTables, TypeOK, States
<1> QED
  BY <1>1, <1>2, <1>3

(* A step of thread x, whether it goes on or gives up the processor.        *)
LEMMA StepType ==
    ASSUME TypeOK, NEW x \in Threads, NEW m \in Labels, RunTo(x, m) \/ YieldTo(x, m)
    PROVE  /\ turn' \in Threads \cup {None}
           /\ pc' \in [Threads -> Labels]
           /\ woken' \subseteq Threads
<1>1. /\ turn' = x \/ turn' = None
      /\ woken' = woken \ {x}
      /\ pc' = [pc EXCEPT ![x] = m]
  BY DEF RunTo, YieldTo
<1>2. pc \in [Threads -> Labels] /\ woken \subseteq Threads
  BY DEF TypeOK
<1> QED
  BY <1>1, <1>2

(* Every step of a thread keeps the types.                                  *)
LEMMA TypeNext == TypeInv /\ [Next]_vars => TypeOK'
<1> SUFFICES ASSUME TypeInv, [Next]_vars PROVE TypeOK'
  OBVIOUS
<1>0. TypeOK /\ SessKnown
  BY DEF TypeInv
<1> USE NamesAssumption
<1> DEFINE Kept == <<sess, client, then, joining, interrupted>>
<1>1. ASSUME NEW t \in Conns, NEW type \in ClientTypes, ReadLogin(t, type) PROVE TypeOK'
  <2>1. sess' \in [Threads -> Sessions \cup {None}]
    BY <1>0, <1>1 DEF ReadLogin, FindSession, Found, TypeOK, Threads
  <2>2. client' \in [Conns -> ClientTypes \cup {None}]
    BY <1>0, <1>1 DEF ReadLogin, TypeOK
  <2>3. /\ turn' \in Threads \cup {None}
        /\ pc' \in [Threads -> Labels]
        /\ woken' \subseteq Threads
    <3>1. t \in Threads /\ "authenticated" \in Labels /\ "db" \in Labels
      BY DEF Threads, Labels
    <3>2. RunTo(t, "authenticated") \/ YieldTo(t, "db")
      BY <1>1 DEF ReadLogin
    <3> QED
      BY <1>0, <3>1, <3>2, StepType
  <2> QED
    BY <1>0, <1>1, <2>1, <2>2, <2>3
    DEF ReadLogin, TypeOK, sessionVars, writerVars, queueVars, mgrVars
<1>2. ASSUME NEW t \in Conns, DbAnswer(t) PROVE TypeOK'
  <2>3. /\ turn' \in Threads \cup {None}
        /\ pc' \in [Threads -> Labels]
        /\ woken' \subseteq Threads
    <3>1. t \in Threads /\ "authenticated" \in Labels /\ "closed" \in Labels
      BY DEF Threads, Labels
    <3>2. RunTo(t, "authenticated") \/ YieldTo(t, "closed")
      BY <1>2 DEF DbAnswer
    <3> QED
      BY <1>0, <3>1, <3>2, StepType
  <2> QED
    BY <1>0, <1>2, <2>3
    DEF DbAnswer, TypeOK, sessionVars, writerVars, queueVars, mgrVars
<1>3. ASSUME NEW t \in Conns, Create(t) PROVE TypeOK'
  <2>1. t \in Threads /\ t \in Sessions
    BY DEF Threads, Sessions
  <2>2. /\ turn' \in Threads \cup {None}
        /\ pc' \in [Threads -> Labels]
        /\ woken' \subseteq Threads
        /\ sess' \in [Threads -> Sessions \cup {None}]
    BY <1>0, <1>3, <2>1 DEF Create, YieldTo, TypeOK, Labels
  <2>3. /\ state' \in [Sessions -> States]
        /\ nfd' \in [Sessions -> Conns \cup {None}]
        /\ readThread' \in [Sessions -> Conns \cup {None}]
        /\ writeThread' \in [Sessions -> Conns \cup {None}]
        /\ wpc' \in [Conns -> {"none", "loop", "writing", "nap", "ended"}]
        /\ listed' \subseteq Sessions
    BY <1>0, <1>3, <2>1 DEF Create, StartWriter, TypeOK, States
  <2>4. pending' \in [Sessions -> BOOLEAN]
    BY <1>3, Zenon DEF Create
  <2>5. waiters' \in [Sessions -> Seq(Conns)]
    BY <1>0, <1>3, SignalledType DEF Create
  <2> QED
    BY <1>0, <1>3, <2>2, <2>3, <2>4, <2>5 DEF Create, TypeOK
<1>4. ASSUME NEW t \in Conns, Resume(t) PROVE TypeOK'
  <2>1. t \in Threads /\ sess[t] \in Sessions
    BY <1>0, <1>4 DEF Resume, TypeOK, Threads
  <2>2. /\ turn' \in Threads \cup {None}
        /\ pc' \in [Threads -> Labels]
        /\ woken' \subseteq Threads
        /\ then' \in [Threads -> {"resumed", "replaced", "left", "deleted", "closed", "scan"}]
    <3>1. {"resumed", "closeIO", "waitReader"} \subseteq Labels
      BY DEF Labels
    <3>2. RunTo(t, "resumed") \/ RunTo(t, "closeIO") \/ YieldTo(t, "waitReader")
      BY <1>4 DEF Resume
    <3>3. /\ turn' \in Threads \cup {None}
          /\ pc' \in [Threads -> Labels]
          /\ woken' \subseteq Threads
      BY <1>0, <2>1, <3>1, <3>2, StepType
    <3>4. then' = then \/ then' = [then EXCEPT ![t] = "resumed"]
      BY <1>4 DEF Resume
    <3> QED
      BY <1>0, <3>3, <3>4 DEF TypeOK
  <2>3. interrupted' \subseteq Conns
    <3>1. interrupted \subseteq Conns /\ readThread[sess[t]] \in Conns \cup {None}
      BY <1>0, <2>1 DEF TypeOK
    <3> QED
      BY <1>4, <3>1 DEF Resume
  <2>4. state' \in [Sessions -> States]
    BY <1>0, <1>4, <2>1 DEF Resume, Disconnected, TypeOK, States
  <2> QED
    BY <1>0, <1>4, <2>2, <2>3, <2>4 DEF Resume, TypeOK, writerVars, queueVars, mgrVars
<1>5. ASSUME NEW t \in Conns, WaitReader(t) PROVE TypeOK'
  <2>1. /\ turn' \in Threads \cup {None}
        /\ pc' \in [Threads -> Labels]
        /\ woken' \subseteq Threads
    BY <1>0, <1>5 DEF WaitReader, RunTo, TypeOK, Threads, Labels
  <2> QED
    BY <1>0, <1>5, <2>1
    DEF WaitReader, TypeOK, sessionVars, writerVars, queueVars, mgrVars
<1>6. ASSUME NEW t \in Conns, Resumed(t) PROVE TypeOK'
  <2>1. t \in Threads /\ sess[t] \in Sessions
    BY <1>0, <1>6 DEF Resumed, At, SessKnown, Working, Threads
  <2>2. /\ turn' \in Threads \cup {None}
        /\ pc' \in [Threads -> Labels]
        /\ woken' \subseteq Threads
    BY <1>0, <1>6, <2>1 DEF Resumed, YieldTo, TypeOK, Labels
  <2>3. /\ state' \in [Sessions -> States]
        /\ nfd' \in [Sessions -> Conns \cup {None}]
        /\ readThread' \in [Sessions -> Conns \cup {None}]
        /\ writeThread' \in [Sessions -> Conns \cup {None}]
        /\ wpc' \in [Conns -> {"none", "loop", "writing", "nap", "ended"}]
        /\ idle' \in [Sessions -> BOOLEAN]
    BY <1>0, <1>6, <2>1 DEF Resumed, NewConnection, StartWriter, TypeOK, States
  <2>4. pending' \in [Sessions -> BOOLEAN]
    BY <1>6, Zenon DEF Resumed
  <2>5. waiters' \in [Sessions -> Seq(Conns)]
    BY <1>0, <1>6, SignalledType DEF Resumed
  <2> QED
    BY <1>0, <1>6, <2>2, <2>3, <2>4, <2>5 DEF Resumed, TypeOK, mgrVars
<1>7. ASSUME NEW t \in Conns, Replace(t) PROVE TypeOK'
  <2>1. t \in Threads /\ sess[t] \in Sessions
    BY <1>0, <1>7 DEF Replace, TypeOK, Threads
  <2>2. HandleShutdown(t, sess[t], "replaced")
    BY <1>7 DEF Replace
  <2> QED
    BY <1>0, <1>7, <2>1, <2>2, HandleShutdownType DEF Replace, TypeOK, writerVars, mgrVars
<1>8. ASSUME NEW t \in Conns, Replaced(t) PROVE TypeOK'
  <2>1. /\ turn' \in Threads \cup {None}
        /\ pc' \in [Threads -> Labels]
        /\ woken' \subseteq Threads
        /\ sess' \in [Threads -> Sessions \cup {None}]
    BY <1>0, <1>8 DEF Replaced, RunTo, TypeOK, Threads, Labels
  <2> QED
    BY <1>0, <1>8, <2>1 DEF Replaced, TypeOK, sessionVars, writerVars, queueVars
<1>9. ASSUME NEW t \in Conns, LoopTest(t) PROVE TypeOK'
  <2>1. /\ turn' \in Threads \cup {None}
        /\ pc' \in [Threads -> Labels]
        /\ woken' \subseteq Threads
        /\ fault' \in {"none", "nullIO", "iterator"}
    BY <1>0, <1>9 DEF LoopTest, RunTo, YieldTo, TypeOK, Threads, Labels
  <2> QED
    BY <1>0, <1>9, <2>1
    DEF LoopTest, TypeOK, sessionVars, writerVars, queueVars, mgrVars
<1>10. ASSUME NEW t \in Conns, NEW kind \in Requests, HandleRequest(t, kind) PROVE TypeOK'
  <2>1. t \in Threads /\ sess[t] \in Sessions
    BY <1>0, <1>10 DEF HandleRequest, At, SessKnown, Working, Threads
  <2>2. /\ turn' \in Threads \cup {None}
        /\ pc' \in [Threads -> Labels]
        /\ woken' \subseteq Threads
    BY <1>0, <1>10, <2>1 DEF HandleRequest, YieldTo, TypeOK, Labels
  <2>3. /\ state' \in [Sessions -> States]
        /\ idle' \in [Sessions -> BOOLEAN]
        /\ playing' \subseteq Sessions
    BY <1>0, <1>10, <2>1 DEF HandleRequest, TypeOK, States
  <2>4. pending' \in [Sessions -> BOOLEAN] /\ waiters' \in [Sessions -> Seq(Conns)]
    <3>1. CASE UNCHANGED queueVars
      BY <1>0, <3>1 DEF queueVars, TypeOK
    <3>2. ASSUME NEW S, AddResponse(S)
          PROVE  pending' \in [Sessions -> BOOLEAN] /\ waiters' \in [Sessions -> Seq(Conns)]
      BY <1>0, <3>2, AddResponseType
    <3> QED
      BY <1>10, <3>1, <3>2 DEF HandleRequest
  <2> QED
    BY <1>0, <1>10, <2>2, <2>3, <2>4 DEF HandleRequest, TypeOK, writerVars, mgrVars
<1>11. ASSUME NEW t \in Conns, Disconnect(t) PROVE TypeOK'
  <2>1. t \in Threads /\ sess[t] \in Sessions
    BY <1>0, <1>11 DEF Disconnect, At, SessKnown, Working, Threads
  <2>2. /\ turn' \in Threads \cup {None}
        /\ pc' \in [Threads -> Labels]
        /\ woken' \subseteq Threads
        /\ then' \in [Threads -> {"resumed", "replaced", "left", "deleted", "closed", "scan"}]
        /\ state' \in [Sessions -> States]
    BY <1>0, <1>11, <2>1 DEF Disconnect, Disconnected, RunTo, TypeOK, Labels, States
  <2> QED
    BY <1>0, <1>11, <2>2 DEF Disconnect, TypeOK, writerVars, queueVars, mgrVars
<1>12. ASSUME NEW t \in Conns, LeaveAndDelete(t) PROVE TypeOK'
  <2>1. t \in Threads /\ sess[t] \in Sessions
    BY <1>0, <1>12 DEF LeaveAndDelete, At, SessKnown, Working, Threads
  <2>2. HandleShutdown(t, sess[t], "deleted")
    BY <1>12 DEF LeaveAndDelete
  <2> QED
    BY <1>0, <1>12, <2>1, <2>2, HandleShutdownType
    DEF LeaveAndDelete, TypeOK, writerVars, mgrVars
<1>13. ASSUME NEW t \in Conns, Leave(t) PROVE TypeOK'
  <2>1. /\ turn' \in Threads \cup {None}
        /\ pc' \in [Threads -> Labels]
        /\ woken' \subseteq Threads
    BY <1>0, <1>13 DEF Leave, YieldTo, TypeOK, Threads, Labels
  <2> QED
    BY <1>0, <1>13, <2>1 DEF Leave, TypeOK, sessionVars, writerVars, queueVars, mgrVars
<1>14. ASSUME NEW t \in Conns, Deleted(t) PROVE TypeOK'
  <2>1. /\ turn' \in Threads \cup {None}
        /\ pc' \in [Threads -> Labels]
        /\ woken' \subseteq Threads
    BY <1>0, <1>14 DEF Deleted, YieldTo, TypeOK, Threads, Labels
  <2> QED
    BY <1>0, <1>14, <2>1 DEF Deleted, TypeOK, sessionVars, writerVars, queueVars
<1>15. ASSUME NEW x \in Threads, CloseIO(x) PROVE TypeOK'
  <2>1. sess[x] \in Sessions
    BY <1>0, <1>15 DEF CloseIO, At, SessKnown, Working
  <2>2. writeThread[sess[x]] \in Conns \cup {None}
    BY <1>0, <2>1 DEF TypeOK
  <2>3. then[x] \in Labels
    BY <1>0 DEF TypeOK, Labels
  <2>4. /\ turn' \in Threads \cup {None}
        /\ pc' \in [Threads -> Labels]
        /\ woken' \subseteq Threads
        /\ joining' \in [Threads -> Conns \cup {None}]
    <3>1. RunTo(x, then[x]) \/ YieldTo(x, "join")
      BY <1>15 DEF CloseIO
    <3>2. /\ turn' \in Threads \cup {None}
          /\ pc' \in [Threads -> Labels]
          /\ woken' \subseteq Threads
      <4>1. "join" \in Labels
        BY DEF Labels
      <4> QED
        BY <1>0, <2>3, <3>1, <4>1, StepType
    <3>3. joining' = joining \/ joining' = [joining EXCEPT ![x] = writeThread[sess[x]]]
      BY <1>15 DEF CloseIO
    <3> QED
      BY <1>0, <2>2, <3>2, <3>3 DEF TypeOK
  <2>5. /\ nfd' \in [Sessions -> Conns \cup {None}]
        /\ readThread' \in [Sessions -> Conns \cup {None}]
    BY <1>0, <1>15 DEF CloseIO, TypeOK
  <2>6. waiters' \in [Sessions -> Seq(Conns)]
    BY <1>0, <1>15, SignalledType DEF CloseIO
  <2> QED
    BY <1>0, <1>15, <2>4, <2>5, <2>6 DEF CloseIO, TypeOK, writerVars, mgrVars
<1>16. ASSUME NEW x \in Threads, Joined(x) PROVE TypeOK'
  <2>1. then[x] \in Labels
    BY <1>0 DEF TypeOK, Labels
  <2>2. /\ turn' \in Threads \cup {None}
        /\ pc' \in [Threads -> Labels]
        /\ woken' \subseteq Threads
        /\ joining' \in [Threads -> Conns \cup {None}]
        /\ nfd' \in [Sessions -> Conns \cup {None}]
    BY <1>0, <1>16, <2>1 DEF Joined, RunTo, TypeOK
  <2> QED
    BY <1>0, <1>16, <2>2 DEF Joined, TypeOK, writerVars, queueVars, mgrVars
<1>17. ASSUME NEW w \in Conns, WriterStep(w) PROVE TypeOK'
  <2>1. sess[w] \in Sessions
    <3>1. wpc[w] # "none"
      BY <1>17 DEF WriterStep, WriterEnds, WriterWaits, WriterTakes, Written, WriterRuns, CanWrite
    <3> QED
      BY <1>0, <3>1 DEF SessKnown
  <2>2. CASE WriterEnds(w)
    BY <1>0, <2>1, <2>2 DEF WriterEnds, TypeOK, threadVars, queueVars, mgrVars
  <2>3. Append(waiters[sess[w]], w) \in Seq(Conns)
    BY <1>0, <2>1 DEF TypeOK
  <2>4. CASE WriterWaits(w)
    BY <1>0, <2>1, <2>3, <2>4 DEF WriterWaits, TypeOK, threadVars, sessionVars, mgrVars
  <2>5. CASE WriterTakes(w)
    <3>1. nfd[sess[w]] \in Conns \cup {None}
      BY <1>0, <2>1 DEF TypeOK
    <3>2. \E more \in BOOLEAN : pending' = [pending EXCEPT ![sess[w]] = more]
      BY <2>5, Zenon DEF WriterTakes
    <3>3. pending' \in [Sessions -> BOOLEAN]
      BY <1>0, <2>1, <3>2 DEF TypeOK
    <3>4. wpc' \in [Conns -> {"none", "loop", "writing", "nap", "ended"}]
      BY <1>0, <2>5 DEF WriterTakes, TypeOK
    <3>5. fault' \in {"none", "nullIO", "iterator"}
      BY <2>5 DEF WriterTakes
    <3>6. idle' \in [Sessions -> BOOLEAN]
      BY <1>0, <2>1, <2>5 DEF WriterTakes, TypeOK
    <3>7. writing' \in [Conns -> Conns \cup {None}]
      BY <1>0, <2>5, <3>1 DEF WriterTakes, TypeOK
    <3>8. waiters' \in [Sessions -> Seq(Conns)]
      <4>1. waiters' = waiters \/ waiters' = [waiters EXCEPT ![sess[w]] = Append(@, w)]
        BY <2>5, Zenon DEF WriterTakes
      <4> QED
        BY <1>0, <2>1, <2>3, <4>1 DEF TypeOK
    <3> QED
      BY <1>0, <2>5, <3>3, <3>4, <3>5, <3>6, <3>7, <3>8
      DEF WriterTakes, TypeOK, threadVars, mgrVars
  <2>6. CASE Written(w)
    BY <1>0, <2>1, <2>6 DEF Written, TypeOK, threadVars, queueVars, mgrVars
  <2> QED
    BY <1>17, <2>2, <2>4, <2>5, <2>6 DEF WriterStep
<1>18. CASE Purge
  <2>1. /\ turn' \in Threads \cup {None}
        /\ pc' \in [Threads -> Labels]
        /\ woken' \subseteq Threads
    BY <1>0, <1>18 DEF Purge, RunTo, TypeOK, Threads, Labels
  <2>2. listed' \subseteq Sessions /\ todo' \subseteq Sessions
    BY <1>0, <1>18 DEF Purge, Found, TypeOK
  <2> QED
    BY <1>0, <1>18, <2>1, <2>2 DEF Purge, TypeOK, sessionVars, writerVars, queueVars
<1>19. ASSUME NEW s \in Sessions, Expire(s) PROVE TypeOK'
  <2>1. Manager \in Threads
    BY DEF Threads
  <2>2. HandleShutdown(Manager, s, "scan")
    BY <1>19 DEF Expire
  <2>3. /\ dangling' \in BOOLEAN
        /\ fault' \in {"none", "nullIO", "iterator"}
    BY <1>19 DEF Expire, Advanced
  <2>4. sess' \in [Threads -> Sessions \cup {None}] /\ todo' \subseteq Sessions
    BY <1>0, <1>19 DEF Expire, TypeOK
  <2> QED
    BY <1>0, <1>19, <2>1, <2>2, <2>3, <2>4, HandleShutdownType DEF Expire, TypeOK, writerVars
<1>20. CASE ScanDone
  <2>1. /\ turn' \in Threads \cup {None}
        /\ pc' \in [Threads -> Labels]
        /\ woken' \subseteq Threads
        /\ sess' \in [Threads -> Sessions \cup {None}]
    BY <1>0, <1>20 DEF ScanDone, YieldTo, TypeOK, Threads, Labels
  <2>2. /\ dangling' \in BOOLEAN
        /\ fault' \in {"none", "nullIO", "iterator"}
    BY <1>20 DEF ScanDone, Advanced
  <2> QED
    BY <1>0, <1>20, <2>1, <2>2 DEF ScanDone, TypeOK, sessionVars, writerVars, queueVars
<1>21. CASE Poll
  BY <1>0, <1>21 DEF Poll, TypeOK, sessionVars, writerVars, queueVars, mgrVars
<1>22. ASSUME NEW s \in Sessions, PostEvent(s) PROVE TypeOK'
  <2>1. pending' \in [Sessions -> BOOLEAN] /\ waiters' \in [Sessions -> Seq(Conns)]
    BY <1>0, <1>22, AddResponseType DEF PostEvent
  <2> QED
    BY <1>0, <1>22, <2>1 DEF PostEvent, TypeOK, threadVars, sessionVars, writerVars, mgrVars
<1>23. ASSUME NEW s \in Sessions, GetIdle(s) PROVE TypeOK'
  BY <1>0, <1>23 DEF GetIdle, TypeOK, threadVars, writerVars, queueVars, mgrVars
<1>24. CASE UNCHANGED vars
  BY <1>0, <1>24
  DEF vars, threadVars, sessionVars, writerVars, queueVars, mgrVars, TypeOK
<1> HIDE NamesAssumption
<1> QED
  <2>1. Manager \in Threads /\ \A t \in Conns : t \in Threads
    BY DEF Threads
  <2> QED
    BY <2>1, <1>1, <1>2, <1>3, <1>4, <1>5, <1>6, <1>7, <1>8, <1>9, <1>10, <1>11, <1>12,
       <1>13, <1>14, <1>15, <1>16, <1>17, <1>18, <1>19, <1>20, <1>21, <1>22, <1>23, <1>24
    DEF Next, Serve, ManagerStep

(* A thread gets its session before it works on it and a write thread after *)
(* that.                                                                    *)
LEMMA SessKnownNext == TypeInv /\ [Next]_vars => SessKnown'
<1> SUFFICES ASSUME TypeInv, [Next]_vars PROVE SessKnown'
  OBVIOUS
<1> USE NamesAssumption DEF SessKnown, LoggingIn, Working, Threads, Sessions, Found,
        At, RunTo, YieldTo, threadVars, sessionVars, writerVars
<1>0. /\ SessKnown
      /\ pc \in [Threads -> Labels]
      /\ sess \in [Threads -> Sessions \cup {None}]
      /\ then \in [Threads -> {"resumed", "replaced", "left", "deleted", "closed", "scan"}]
      /\ wpc \in [Conns -> {"none", "loop", "writing", "nap", "ended"}]
  BY DEF TypeInv, TypeOK
<1>1. ASSUME NEW t \in Conns, NEW type \in ClientTypes, ReadLogin(t, type) PROVE SessKnown'
  BY <1>0, <1>1 DEF ReadLogin, FindSession
<1>2. ASSUME NEW t \in Conns, DbAnswer(t) PROVE SessKnown'
  BY <1>0, <1>2 DEF DbAnswer
<1>3. ASSUME NEW t \in Conns, Create(t) PROVE SessKnown'
  BY <1>0, <1>3 DEF Create, StartWriter
<1>4. ASSUME NEW t \in Conns, Resume(t) PROVE SessKnown'
  BY <1>0, <1>4 DEF Resume
<1>5. ASSUME NEW t \in Conns, WaitReader(t) PROVE SessKnown'
  BY <1>0, <1>5 DEF WaitReader
<1>6. ASSUME NEW t \in Conns, Resumed(t) PROVE SessKnown'
  BY <1>0, <1>6 DEF Resumed, StartWriter
<1>7. ASSUME NEW t \in Conns, Replace(t) PROVE SessKnown'
  BY <1>0, <1>7 DEF Replace, HandleShutdown
<1>8. ASSUME NEW t \in Conns, Replaced(t) PROVE SessKnown'
  BY <1>0, <1>8 DEF Replaced
<1>9. ASSUME NEW t \in Conns, LoopTest(t) PROVE SessKnown'
  BY <1>0, <1>9 DEF LoopTest
<1>10. ASSUME NEW t \in Conns, NEW kind \in Requests, HandleRequest(t, kind) PROVE SessKnown'
  BY <1>0, <1>10 DEF HandleRequest
<1>11. ASSUME NEW t \in Conns, Disconnect(t) PROVE SessKnown'
  BY <1>0, <1>11 DEF Disconnect
<1>12. ASSUME NEW t \in Conns, LeaveAndDelete(t) PROVE SessKnown'
  BY <1>0, <1>12 DEF LeaveAndDelete, HandleShutdown
<1>13. ASSUME NEW t \in Conns, Leave(t) PROVE SessKnown'
  BY <1>0, <1>13 DEF Leave
<1>14. ASSUME NEW t \in Conns, Deleted(t) PROVE SessKnown'
  BY <1>0, <1>14 DEF Deleted
<1>15. ASSUME NEW x \in Threads, CloseIO(x) PROVE SessKnown'
  BY <1>0, <1>15 DEF CloseIO
<1>16. ASSUME NEW x \in Threads, Joined(x) PROVE SessKnown'
  BY <1>0, <1>16 DEF Joined
<1>17. ASSUME NEW w \in Conns, WriterStep(w) PROVE SessKnown'
  BY <1>0, <1>17 DEF WriterStep, WriterEnds, WriterWaits, WriterTakes, Written, WriterRuns, CanWrite
<1>18. CASE Purge
  BY <1>0, <1>18 DEF Purge
<1>19. ASSUME NEW s \in Sessions, Expire(s) PROVE SessKnown'
  BY <1>0, <1>19 DEF Expire, HandleShutdown
<1>20. CASE ScanDone
  BY <1>0, <1>20 DEF ScanDone
<1>21. CASE Poll
  BY <1>0, <1>21 DEF Poll
<1>22. ASSUME NEW s \in Sessions, PostEvent(s) PROVE SessKnown'
  BY <1>0, <1>22 DEF PostEvent
<1>23. ASSUME NEW s \in Sessions, GetIdle(s) PROVE SessKnown'
  BY <1>0, <1>23 DEF GetIdle
<1>24. CASE UNCHANGED vars
  BY <1>0, <1>24 DEF vars
<1> HIDE NamesAssumption DEF SessKnown, LoggingIn, Working, Sessions, Found,
         At, RunTo, YieldTo, threadVars, sessionVars, writerVars
<1> QED
  BY <1>1, <1>2, <1>3, <1>4, <1>5, <1>6, <1>7, <1>8, <1>9, <1>10, <1>11, <1>12,
     <1>13, <1>14, <1>15, <1>16, <1>17, <1>18, <1>19, <1>20, <1>21, <1>22, <1>23, <1>24
  DEF Next, Serve, ManagerStep

(* Types, with a session for whoever works on one.                         *)
LEMMA TypeInvariant == Spec => []TypeInv
<1>1. Init => TypeInv
  BY TypeInvInit
<1>2. TypeInv /\ [Next]_vars => TypeInv'
  BY TypeNext, SessKnownNext DEF TypeInv
<1> QED
  BY <1>1, <1>2, PTL DEF Spec

(* The variables of HoxSession have their types in every behaviour: no     *)
(* thread works without a session, whatever waits, errors of               *)
(* st_thread_join and deletions come between (hoxSession.cpp, session.cpp).*)
THEOREM TypeCorrect == Spec => []TypeOK
<1>1. TypeInv => TypeOK
  BY DEF TypeInv
<1> QED
  BY <1>1, TypeInvariant, PTL

-----------------------------------------------------------------------------
(* ActiveServed is inductive: the only threads that may take a connection  *)
(* from under an active session are those that first change its state.     *)

(* No step takes the connection from under an active session.               *)
LEMMA ActiveServedNext == TypeInv /\ ActiveServed /\ [Next]_vars => ActiveServed'
<1> SUFFICES ASSUME TypeInv, ActiveServed, [Next]_vars PROVE ActiveServed'
  OBVIOUS
<1> USE NamesAssumption DEF ActiveServed, Working, Threads, Sessions, Found,
        At, RunTo, YieldTo, threadVars, sessionVars, writerVars
<1>0. /\ ActiveServed
      /\ \A x \in Threads : pc[x] \in Working => sess[x] \in Sessions
      /\ pc \in [Threads -> Labels]
      /\ sess \in [Threads -> Sessions \cup {None}]
      /\ state \in [Sessions -> States]
      /\ nfd \in [Sessions -> Conns \cup {None}]
  BY DEF TypeInv, TypeOK, SessKnown
<1>1. ASSUME NEW t \in Conns, NEW type \in ClientTypes, ReadLogin(t, type) PROVE ActiveServed'
  BY <1>0, <1>1 DEF ReadLogin, FindSession
<1>2. ASSUME NEW t \in Conns, DbAnswer(t) PROVE ActiveServed'
  BY <1>0, <1>2 DEF DbAnswer
<1>3. ASSUME NEW t \in Conns, Create(t) PROVE ActiveServed'
  BY <1>0, <1>3 DEF Create, StartWriter
<1>4. ASSUME NEW t \in Conns, Resume(t) PROVE ActiveServed'
  BY <1>0, <1>4 DEF Resume, Disconnected
<1>5. ASSUME NEW t \in Conns, WaitReader(t) PROVE ActiveServed'
  BY <1>0, <1>5 DEF WaitReader
<1>6. ASSUME NEW t \in Conns, Resumed(t) PROVE ActiveServed'
  BY <1>0, <1>6 DEF Resumed, NewConnection, StartWriter
<1>7. ASSUME NEW t \in Conns, Replace(t) PROVE ActiveServed'
  BY <1>0, <1>7 DEF Replace, HandleShutdown
<1>8. ASSUME NEW t \in Conns, Replaced(t) PROVE ActiveServed'
  BY <1>0, <1>8 DEF Replaced
<1>9. ASSUME NEW t \in Conns, LoopTest(t) PROVE ActiveServed'
  BY <1>0, <1>9 DEF LoopTest
<1>10. ASSUME NEW t \in Conns, NEW kind \in Requests, HandleRequest(t, kind) PROVE ActiveServed'
  BY <1>0, <1>10 DEF HandleRequest
<1>11. ASSUME NEW t \in Conns, Disconnect(t) PROVE ActiveServed'
  BY <1>0, <1>11 DEF Disconnect, Disconnected
<1>12. ASSUME NEW t \in Conns, LeaveAndDelete(t) PROVE ActiveServed'
  BY <1>0, <1>12 DEF LeaveAndDelete, HandleShutdown
<1>13. ASSUME NEW t \in Conns, Leave(t) PROVE ActiveServed'
  BY <1>0, <1>13 DEF Leave
<1>14. ASSUME NEW t \in Conns, Deleted(t) PROVE ActiveServed'
  BY <1>0, <1>14 DEF Deleted
<1>15. ASSUME NEW x \in Threads, CloseIO(x) PROVE ActiveServed'
  BY <1>0, <1>15 DEF CloseIO
<1>16. ASSUME NEW x \in Threads, Joined(x) PROVE ActiveServed'
  BY <1>0, <1>16 DEF Joined
<1>17. ASSUME NEW w \in Conns, WriterStep(w) PROVE ActiveServed'
  BY <1>0, <1>17 DEF WriterStep, WriterEnds, WriterWaits, WriterTakes, Written, WriterRuns, CanWrite
<1>18. CASE Purge
  BY <1>0, <1>18 DEF Purge
<1>19. ASSUME NEW s \in Sessions, Expire(s) PROVE ActiveServed'
  BY <1>0, <1>19 DEF Expire, HandleShutdown
<1>20. CASE ScanDone
  BY <1>0, <1>20 DEF ScanDone
<1>21. CASE Poll
  BY <1>0, <1>21 DEF Poll
<1>22. ASSUME NEW s \in Sessions, PostEvent(s) PROVE ActiveServed'
  BY <1>0, <1>22 DEF PostEvent
<1>23. ASSUME NEW s \in Sessions, GetIdle(s) PROVE ActiveServed'
  BY <1>0, <1>23 DEF GetIdle
<1>24. CASE UNCHANGED vars
  BY <1>0, <1>24 DEF vars
<1> HIDE NamesAssumption DEF ActiveServed, Working, Sessions, Found,
         At, RunTo, YieldTo, threadVars, sessionVars, writerVars
<1> QED
  BY <1>1, <1>2, <1>3, <1>4, <1>5, <1>6, <1>7, <1>8, <1>9, <1>10, <1>11, <1>12,
     <1>13, <1>14, <1>15, <1>16, <1>17, <1>18, <1>19, <1>20, <1>21, <1>22, <1>23, <1>24
  DEF Next, Serve, ManagerStep

(* An active session never has a connection that handle_connections has    *)
(* closed, or that a thread is taking from it: it is the connection of the *)
(* thread that reads for the session (hoxSession.cpp:596-718, session.cpp).*)
(* True of overlapping logins, too.                                        *)
THEOREM ActiveServedCorrect == Spec => []ActiveServed
<1>1. Init => ActiveServed
  BY DEF Init, ActiveServed
<1> QED
  BY <1>1, TypeInvariant, ActiveServedNext, PTL DEF Spec

-----------------------------------------------------------------------------
(* One session at a time.  While a connection is served its thread knows   *)
(* the only session that findSession can find.                             *)

Busy(t) == pc[t] \notin {"start", "closed"}

Serial == \A t, u \in Conns : Busy(t) /\ Busy(u) => t = u

Mine == \A t \in Conns : Busy(t) => Found \subseteq {sess[t]}

OneInv == OneSession /\ Serial /\ Mine

(* A thread creates a session only when findSession finds none.             *)
LEMMA OneInvNext ==
    ASSUME ~Overlap
    PROVE  TypeInv /\ OneInv /\ [Next]_vars => OneInv'
<1> SUFFICES ASSUME TypeInv, OneInv, [Next]_vars PROVE OneInv'
  OBVIOUS
<1> USE NamesAssumption
    DEF OneInv, OneSession, Serial, Mine, Busy, Working, Threads, Sessions, Found,
        At, RunTo, YieldTo, threadVars, sessionVars, writerVars, mgrVars
<1>0. /\ OneInv
      /\ ~Overlap
      /\ \A x \in Threads : pc[x] \in Working => sess[x] \in Sessions
      /\ pc \in [Threads -> Labels]
      /\ sess \in [Threads -> Sessions \cup {None}]
      /\ then \in [Threads -> {"resumed", "replaced", "left", "deleted", "closed", "scan"}]
      /\ state \in [Sessions -> States]
      /\ listed \subseteq Sessions
  BY DEF TypeInv, TypeOK, SessKnown
<1>1. ASSUME NEW t \in Conns, NEW type \in ClientTypes, ReadLogin(t, type) PROVE OneInv'
  BY <1>0, <1>1 DEF ReadLogin, FindSession
<1>2. ASSUME NEW t \in Conns, DbAnswer(t) PROVE OneInv'
  BY <1>0, <1>2 DEF DbAnswer
<1>3. ASSUME NEW t \in Conns, Create(t) PROVE OneInv'
  BY <1>0, <1>3 DEF Create, StartWriter
<1>4. ASSUME NEW t \in Conns, Resume(t) PROVE OneInv'
  BY <1>0, <1>4 DEF Resume, Disconnected
<1>5. ASSUME NEW t \in Conns, WaitReader(t) PROVE OneInv'
  BY <1>0, <1>5 DEF WaitReader
<1>6. ASSUME NEW t \in Conns, Resumed(t) PROVE OneInv'
  BY <1>0, <1>6 DEF Resumed, NewConnection, StartWriter
<1>7. ASSUME NEW t \in Conns, Replace(t) PROVE OneInv'
  BY <1>0, <1>7 DEF Replace, HandleShutdown
<1>8. ASSUME NEW t \in Conns, Replaced(t) PROVE OneInv'
  BY <1>0, <1>8 DEF Replaced
<1>9. ASSUME NEW t \in Conns, LoopTest(t) PROVE OneInv'
  BY <1>0, <1>9 DEF LoopTest
<1>10. ASSUME NEW t \in Conns, NEW kind \in Requests, HandleRequest(t, kind) PROVE OneInv'
  BY <1>0, <1>10 DEF HandleRequest
<1>11. ASSUME NEW t \in Conns, Disconnect(t) PROVE OneInv'
  BY <1>0, <1>11 DEF Disconnect, Disconnected
<1>12. ASSUME NEW t \in Conns, LeaveAndDelete(t) PROVE OneInv'
  BY <1>0, <1>12 DEF LeaveAndDelete, HandleShutdown
<1>13. ASSUME NEW t \in Conns, Leave(t) PROVE OneInv'
  BY <1>0, <1>13 DEF Leave
<1>14. ASSUME NEW t \in Conns, Deleted(t) PROVE OneInv'
  BY <1>0, <1>14 DEF Deleted
<1>15. ASSUME NEW x \in Threads, CloseIO(x) PROVE OneInv'
  BY <1>0, <1>15 DEF CloseIO
<1>16. ASSUME NEW x \in Threads, Joined(x) PROVE OneInv'
  BY <1>0, <1>16 DEF Joined
<1>17. ASSUME NEW w \in Conns, WriterStep(w) PROVE OneInv'
  BY <1>0, <1>17 DEF WriterStep, WriterEnds, WriterWaits, WriterTakes, Written, WriterRuns, CanWrite
<1>18. CASE Purge
  BY <1>0, <1>18 DEF Purge
<1>19. ASSUME NEW s \in Sessions, Expire(s) PROVE OneInv'
  BY <1>0, <1>19 DEF Expire, HandleShutdown
<1>20. CASE ScanDone
  BY <1>0, <1>20 DEF ScanDone
<1>21. CASE Poll
  BY <1>0, <1>21 DEF Poll
<1>22. ASSUME NEW s \in Sessions, PostEvent(s) PROVE OneInv'
  BY <1>0, <1>22 DEF PostEvent
<1>23. ASSUME NEW s \in Sessions, GetIdle(s) PROVE OneInv'
  BY <1>0, <1>23 DEF GetIdle
<1>24. CASE UNCHANGED vars
  BY <1>0, <1>24 DEF vars
<1> HIDE NamesAssumption
    DEF OneInv, OneSession, Serial, Mine, Busy, Working, Sessions, Found,
        At, RunTo, YieldTo, threadVars, sessionVars, writerVars, mgrVars
<1> QED
  BY <1>1, <1>2, <1>3, <1>4, <1>5, <1>6, <1>7, <1>8, <1>9, <1>10, <1>11, <1>12,
     <1>13, <1>14, <1>15, <1>16, <1>17, <1>18, <1>19, <1>20, <1>21, <1>22, <1>23, <1>24
  DEF Next, Serve, ManagerStep

(* A player whose connections come one after another never has two         *)
(* sessions that are not shut down (session.cpp:277-320), whatever the     *)
(* session manager does in between.                                        *)
THEOREM OneSessionCorrect ==
    ASSUME ~Overlap
    PROVE  Spec => []OneSession
<1>1. Init => OneInv
  BY NamesAssumption DEF Init, OneInv, OneSession, Serial, Mine, Busy, Found, Threads
<1>2. OneInv => OneSession
  BY DEF OneInv
<1> QED
  BY <1>1, <1>2, TypeInvariant, OneInvNext, PTL DEF Spec

-----------------------------------------------------------------------------
(* A guest's session that works is in _sessions.  Without resumption no    *)
(* session becomes active again: what is taken out of _sessions has been   *)
(* shut down by the same thread, in handleShutdown, and stays so.          *)

(* Thread x is, or is on its way, at l.                                    *)
Heading(x, l) == pc[x] = l \/ (pc[x] \in {"closeIO", "join"} /\ then[x] = l)

NoResume == \A t \in Conns : pc[t] # "waitReader" /\ ~Heading(t, "resumed")

ShutBefore ==
    \A t \in Conns : Heading(t, "replaced") \/ Heading(t, "deleted")
                        => state[sess[t]] # "ACTIVE"

(* The sessions somebody can know of have been created.                    *)
Created ==
    /\ \A x \in Threads : sess[x] # None => wpc[sess[x]] # "none"
    /\ \A s \in listed : wpc[s] # "none"

GuestInv == ActiveListed /\ NoResume /\ ShutBefore /\ Created

(* A guest stays a guest.                                                   *)
LEMMA GuestStays == [Next]_vars => guest' = guest
<1>1. ASSUME NEW t \in Conns, NEW type \in ClientTypes, ReadLogin(t, type)
      PROVE  guest' = guest
  BY <1>1 DEF ReadLogin
<1>2. ASSUME NEW t \in Conns, Serve(t) PROVE guest' = guest
  BY <1>2 DEF Serve, DbAnswer, Create, Resume, WaitReader, Resumed, Replace, Replaced,
              LoopTest, HandleRequest, Disconnect, LeaveAndDelete, Leave, Deleted,
              CloseIO, Joined
<1>3. ASSUME NEW w \in Conns, WriterStep(w) PROVE guest' = guest
  BY <1>3 DEF WriterStep, WriterEnds, WriterWaits, WriterTakes, Written
<1>4. CASE ManagerStep
  BY <1>4 DEF ManagerStep, Purge, Expire, ScanDone, CloseIO, Joined
<1>5. CASE Poll
  BY <1>5 DEF Poll
<1>6. ASSUME NEW s \in Sessions, PostEvent(s) \/ GetIdle(s) PROVE guest' = guest
  BY <1>6 DEF PostEvent, GetIdle
<1>7. CASE UNCHANGED vars
  BY <1>7 DEF vars
<1> QED
  BY <1>1, <1>2, <1>3, <1>4, <1>5, <1>6, <1>7 DEF Next

(* Nothing that is taken out of _sessions is, or becomes, active.           *)
LEMMA GuestInvNext == TypeInv /\ guest /\ GuestInv /\ [Next]_vars => GuestInv'
<1> SUFFICES ASSUME TypeInv, guest, GuestInv, [Next]_vars PROVE GuestInv'
  OBVIOUS
<1> USE NamesAssumption
    DEF GuestInv, ActiveListed, NoResume, ShutBefore, Created, Heading, Working, LoggingIn,
        Threads, Sessions, Found, At, RunTo, YieldTo, threadVars, sessionVars, writerVars, mgrVars
<1>0. /\ GuestInv
      /\ guest
      /\ \A x \in Threads : pc[x] \in Working => sess[x] \in Sessions
      /\ \A t \in Conns : LoggingIn(t) => wpc[t] = "none"
      /\ pc \in [Threads -> Labels]
      /\ sess \in [Threads -> Sessions \cup {None}]
      /\ then \in [Threads -> {"resumed", "replaced", "left", "deleted", "closed", "scan"}]
      /\ state \in [Sessions -> States]
      /\ wpc \in [Conns -> {"none", "loop", "writing", "nap", "ended"}]
      /\ listed \subseteq Sessions
  BY DEF TypeInv, TypeOK, SessKnown
<1>1. ASSUME NEW t \in Conns, NEW type \in ClientTypes, ReadLogin(t, type) PROVE GuestInv'
  BY <1>0, <1>1 DEF ReadLogin, FindSession
<1>2. ASSUME NEW t \in Conns, DbAnswer(t) PROVE GuestInv'
  BY <1>0, <1>2 DEF DbAnswer
<1>3. ASSUME NEW t \in Conns, Create(t) PROVE GuestInv'
  BY <1>0, <1>3 DEF Create, StartWriter
<1>4. ASSUME NEW t \in Conns, Resume(t) PROVE GuestInv'
  BY <1>0, <1>4 DEF Resume, Resumable, Disconnected
<1>5. ASSUME NEW t \in Conns, WaitReader(t) PROVE GuestInv'
  BY <1>0, <1>5 DEF WaitReader
<1>6. ASSUME NEW t \in Conns, Resumed(t) PROVE GuestInv'
  BY <1>0, <1>6 DEF Resumed, NewConnection, StartWriter
<1>7. ASSUME NEW t \in Conns, Replace(t) PROVE GuestInv'
  BY <1>0, <1>7 DEF Replace, HandleShutdown
<1>8. ASSUME NEW t \in Conns, Replaced(t) PROVE GuestInv'
  BY <1>0, <1>8 DEF Replaced
<1>9. ASSUME NEW t \in Conns, LoopTest(t) PROVE GuestInv'
  BY <1>0, <1>9 DEF LoopTest
<1>10. ASSUME NEW t \in Conns, NEW kind \in Requests, HandleRequest(t, kind) PROVE GuestInv'
  BY <1>0, <1>10 DEF HandleRequest
<1>11. ASSUME NEW t \in Conns, Disconnect(t) PROVE GuestInv'
  BY <1>0, <1>11 DEF Disconnect, Disconnected
<1>12. ASSUME NEW t \in Conns, LeaveAndDelete(t) PROVE GuestInv'
  BY <1>0, <1>12 DEF LeaveAndDelete, HandleShutdown
<1>13. ASSUME NEW t \in Conns, Leave(t) PROVE GuestInv'
  BY <1>0, <1>13 DEF Leave
<1>14. ASSUME NEW t \in Conns, Deleted(t) PROVE GuestInv'
  BY <1>0, <1>14 DEF Deleted
<1>15. ASSUME NEW x \in Threads, CloseIO(x) PROVE GuestInv'
  BY <1>0, <1>15 DEF CloseIO
<1>16. ASSUME NEW x \in Threads, Joined(x) PROVE GuestInv'
  BY <1>0, <1>16 DEF Joined
<1>17. ASSUME NEW w \in Conns, WriterStep(w) PROVE GuestInv'
  <2>1. CASE WriterEnds(w)
    BY <1>0, <1>17, <2>1 DEF WriterEnds, WriterRuns, CanWrite
  <2>2. CASE WriterWaits(w)
    BY <1>0, <1>17, <2>2 DEF WriterWaits, WriterRuns, CanWrite
  <2>3. CASE WriterTakes(w)
    BY <1>0, <1>17, <2>3 DEF WriterTakes, WriterRuns, CanWrite
  <2>4. CASE Written(w)
    BY <1>0, <1>17, <2>4 DEF Written
  <2> QED
    BY <1>17, <2>1, <2>2, <2>3, <2>4 DEF WriterStep
<1>18. CASE Purge
  BY <1>0, <1>18 DEF Purge
<1>19. ASSUME NEW s \in Sessions, Expire(s) PROVE GuestInv'
  BY <1>0, <1>19 DEF Expire, HandleShutdown
<1>20. CASE ScanDone
  BY <1>0, <1>20 DEF ScanDone
<1>21. CASE Poll
  BY <1>0, <1>21 DEF Poll
<1>22. ASSUME NEW s \in Sessions, PostEvent(s) PROVE GuestInv'
  BY <1>0, <1>22 DEF PostEvent
<1>23. ASSUME NEW s \in Sessions, GetIdle(s) PROVE GuestInv'
  BY <1>0, <1>23 DEF GetIdle
<1>24. CASE UNCHANGED vars
  BY <1>0, <1>24 DEF vars
<1> HIDE NamesAssumption
    DEF GuestInv, ActiveListed, NoResume, ShutBefore, Created, Heading, Working, LoggingIn,
        Sessions, Found, At, RunTo, YieldTo, threadVars, sessionVars, writerVars, mgrVars
<1> QED
  BY <1>1, <1>2, <1>3, <1>4, <1>5, <1>6, <1>7, <1>8, <1>9, <1>10, <1>11, <1>12,
     <1>13, <1>14, <1>15, <1>16, <1>17, <1>18, <1>19, <1>20, <1>21, <1>22, <1>23, <1>24
  DEF Next, Serve, ManagerStep

(* The session of a guest that is active is in _sessions: threads hold on  *)
(* to sessions across their waits, and other threads delete them, but none *)
(* is used again after that (hoxSessionMgr.cpp:134-145, session.cpp:386).  *)
THEOREM ActiveListedCorrect == Spec => []ActiveListed
<1>1. Init => (guest => GuestInv)
  BY NamesAssumption
  DEF Init, GuestInv, ActiveListed, NoResume, ShutBefore, Created, Heading, Threads, Sessions
<1>2. (guest => GuestInv) => ActiveListed
  BY DEF GuestInv, ActiveListed
<1>3. TypeInv /\ (guest => GuestInv) /\ [Next]_vars => (guest => GuestInv)'
  BY GuestInvNext, GuestStays
<1> QED
  BY <1>1, <1>2, <1>3, TypeInvariant, PTL DEF Spec

-----------------------------------------------------------------------------
(* A guest's seats.  A session whose player sits at a table is kept: it is *)
(* in _sessions, not shut down, and no thread is about to erase it; or its *)
(* own thread is on its way to handleShutdown, where he leaves the tables. *)

(* Without resumption the thread that reads for a session is the one that  *)
(* created it, and it never waits for a request of a session disconnected. *)
OwnReader ==
    \A t \in Conns :
        /\ pc[t] \in {"reading", "looping"} \/ Heading(t, "left") \/ Heading(t, "deleted")
              => sess[t] = t
        /\ pc[t] = "reading" => state[t] \in {"ACTIVE", "SHUTDOWN"}

Kept(s) ==
    /\ s \in listed /\ state[s] # "SHUTDOWN"
    /\ \A t \in Conns : Heading(t, "replaced") \/ Heading(t, "deleted") => sess[t] # s

WillLeave(s) == sess[s] = s /\ pc[s] \in {"looping", "left"} /\ state[s] = "SHUTDOWN"

SeatsInv == OwnReader /\ \A s \in playing : Kept(s) \/ WillLeave(s)

(* A seat is taken for a session that is kept or will leave, and whoever   *)
(* shuts a session down makes its player leave first.                      *)
LEMMA SeatsInvNext == TypeInv /\ guest /\ GuestInv /\ SeatsInv /\ [Next]_vars => SeatsInv'
<1> SUFFICES ASSUME TypeInv, guest, GuestInv, SeatsInv, [Next]_vars PROVE SeatsInv'
  OBVIOUS
<1> USE NamesAssumption
    DEF SeatsInv, OwnReader, Kept, WillLeave, Heading, Working,
        Threads, Sessions, Found, At, RunTo, YieldTo, threadVars, sessionVars, writerVars, mgrVars
<1>0. /\ SeatsInv
      /\ guest
      /\ \A s \in Sessions : state[s] = "ACTIVE" => s \in listed
      /\ NoResume
      /\ ShutBefore
      /\ \A x \in Threads : pc[x] \in Working => sess[x] \in Sessions
      /\ pc \in [Threads -> Labels]
      /\ sess \in [Threads -> Sessions \cup {None}]
      /\ then \in [Threads -> {"resumed", "replaced", "left", "deleted", "closed", "scan"}]
      /\ state \in [Sessions -> States]
      /\ playing \subseteq Sessions
      /\ listed \subseteq Sessions
  BY DEF TypeInv, TypeOK, SessKnown, GuestInv, ActiveListed
<1>1. ASSUME NEW t \in Conns, NEW type \in ClientTypes, ReadLogin(t, type) PROVE SeatsInv'
  BY <1>0, <1>1 DEF ReadLogin, FindSession
<1>2. ASSUME NEW t \in Conns, DbAnswer(t) PROVE SeatsInv'
  BY <1>0, <1>2 DEF DbAnswer
<1>3. ASSUME NEW t \in Conns, Create(t) PROVE SeatsInv'
  BY <1>0, <1>3 DEF Create, StartWriter
<1>4. ASSUME NEW t \in Conns, Resume(t) PROVE SeatsInv'
  BY <1>0, <1>4 DEF Resume, Resumable, Disconnected, NoResume
<1>5. ASSUME NEW t \in Conns, WaitReader(t) PROVE SeatsInv'
  BY <1>0, <1>5 DEF WaitReader, NoResume
<1>6. ASSUME NEW t \in Conns, Resumed(t) PROVE SeatsInv'
  BY <1>0, <1>6 DEF Resumed, NewConnection, StartWriter, NoResume
<1>7. ASSUME NEW t \in Conns, Replace(t) PROVE SeatsInv'
  BY <1>0, <1>7 DEF Replace, HandleShutdown, LeaveAllTables
<1>8. ASSUME NEW t \in Conns, Replaced(t) PROVE SeatsInv'
  BY <1>0, <1>8 DEF Replaced
<1>9. ASSUME NEW t \in Conns, LoopTest(t) PROVE SeatsInv'
  BY <1>0, <1>9 DEF LoopTest
<1>10. ASSUME NEW t \in Conns, NEW kind \in Requests, HandleRequest(t, kind) PROVE SeatsInv'
  BY <1>0, <1>10 DEF HandleRequest, ShutBefore
<1>11. ASSUME NEW t \in Conns, Disconnect(t) PROVE SeatsInv'
  BY <1>0, <1>11 DEF Disconnect, Disconnected
<1>12. ASSUME NEW t \in Conns, LeaveAndDelete(t) PROVE SeatsInv'
  BY <1>0, <1>12 DEF LeaveAndDelete, HandleShutdown, LeaveAllTables
<1>13. ASSUME NEW t \in Conns, Leave(t) PROVE SeatsInv'
  BY <1>0, <1>13 DEF Leave
<1>14. ASSUME NEW t \in Conns, Deleted(t) PROVE SeatsInv'
  BY <1>0, <1>14 DEF Deleted
<1>15. ASSUME NEW x \in Threads, CloseIO(x) PROVE SeatsInv'
  BY <1>0, <1>15 DEF CloseIO, NoResume
<1>16. ASSUME NEW x \in Threads, Joined(x) PROVE SeatsInv'
  BY <1>0, <1>16 DEF Joined, NoResume
<1>17. ASSUME NEW w \in Conns, WriterStep(w) PROVE SeatsInv'
  <2>1. UNCHANGED <<pc, sess, then, state, playing, listed>>
    BY <1>17 DEF WriterStep, WriterEnds, WriterWaits, WriterTakes, Written
  <2> QED
    BY <1>0, <2>1
<1>18. CASE Purge
  BY <1>0, <1>18 DEF Purge
<1>19. ASSUME NEW s \in Sessions, Expire(s) PROVE SeatsInv'
  BY <1>0, <1>19 DEF Expire, HandleShutdown, LeaveAllTables
<1>20. CASE ScanDone
  BY <1>0, <1>20 DEF ScanDone
<1>21. CASE Poll
  BY <1>0, <1>21 DEF Poll
<1>22. ASSUME NEW s \in Sessions, PostEvent(s) PROVE SeatsInv'
  BY <1>0, <1>22 DEF PostEvent
<1>23. ASSUME NEW s \in Sessions, GetIdle(s) PROVE SeatsInv'
  BY <1>0, <1>23 DEF GetIdle
<1>24. CASE UNCHANGED vars
  BY <1>0, <1>24 DEF vars
<1> HIDE NamesAssumption
    DEF SeatsInv, OwnReader, Kept, WillLeave, Heading, Working,
        Sessions, Found, At, RunTo, YieldTo, threadVars, sessionVars, writerVars, mgrVars
<1> QED
  BY <1>1, <1>2, <1>3, <1>4, <1>5, <1>6, <1>7, <1>8, <1>9, <1>10, <1>11, <1>12,
     <1>13, <1>14, <1>15, <1>16, <1>17, <1>18, <1>19, <1>20, <1>21, <1>22, <1>23, <1>24
  DEF Next, Serve, ManagerStep

(* No guest is left at a table without a session or a thread to act for    *)
(* him: handleShutdown makes him leave all tables (hoxSession.cpp:152-160) *)
(* before the session is erased (hoxSessionMgr.cpp:134-145), and what he   *)
(* joins while another thread shuts the session down he leaves at the end  *)
(* of his own handle_session (session.cpp:386-391).                        *)
THEOREM NoGhostCorrect == Spec => []NoGhost
<1>1. Init => (guest => GuestInv /\ SeatsInv)
  BY NamesAssumption
  DEF Init, GuestInv, ActiveListed, NoResume, ShutBefore, Created, SeatsInv, OwnReader,
      Heading, Threads, Sessions
<1>2. TypeInv /\ (guest => GuestInv /\ SeatsInv) => NoGhost
  <2> SUFFICES ASSUME TypeInv, SeatsInv, NEW s \in playing
               PROVE  s \in listed \/ \E t \in Conns : sess[t] = s /\ pc[t] # "closed"
    BY DEF NoGhost
  <2>1. s \in Conns
    BY DEF TypeInv, TypeOK, Sessions
  <2> QED
    BY <2>1 DEF SeatsInv, Kept, WillLeave
<1>3. TypeInv /\ (guest => GuestInv /\ SeatsInv) /\ [Next]_vars => (guest => GuestInv /\ SeatsInv)'
  BY GuestInvNext, SeatsInvNext, GuestStays
<1> QED
  BY <1>1, <1>2, <1>3, TypeInvariant, PTL DEF Spec

-----------------------------------------------------------------------------
(* One writer.  When connections do not overlap and clients read, a writer *)
(* outlives the connection it writes to only until it next runs.           *)


(* Write thread w is in the loop of handleWrite, or asleep in it.          *)
Live(w) == wpc[w] \in {"loop", "nap"}

(* Thread x is in closeIO.                                                 *)
Closes(x) == pc[x] \in {"closeIO", "join"}

NeverSlow == \A w \in Conns : wpc[w] # "writing"

(* From createSession or resumeConnection to the end of closeIO.           *)
Serving(t) == pc[t] \in {"reading", "looping", "left"} \/ (Closes(t) /\ then[t] \in {"left", "deleted"})

(* A session's connection belongs to the thread that serves the session.   *)
Connected ==
    /\ \A s \in Sessions : nfd[s] # None => sess[nfd[s]] = s /\ Serving(nfd[s])
    /\ \A t \in Conns :
        /\ pc[t] # "waitReader" /\ (Closes(t) => then[t] \in {"left", "deleted"})
        /\ pc[t] \in {"reading", "looping"} => state[sess[t]] \in {"ACTIVE", "SHUTDOWN"}
        /\ pc[t] = "left" /\ nfd[sess[t]] # None => state[sess[t]] = "SHUTDOWN"

(* _writeThread is the one writer, and only he waits on _writeCond.        *)
TheWriter ==
    /\ \A w \in Conns : Live(w) => writeThread[sess[w]] = w
    /\ \A s \in Sessions : writeThread[s] # None => Live(writeThread[s]) /\ sess[writeThread[s]] = s
    /\ \A s \in Sessions :
        waiters[s] # <<>> => /\ writeThread[s] # None /\ wpc[writeThread[s]] = "loop"
                             /\ waiters[s] = <<writeThread[s]>>

(* closeIO follows the change of state; the manager closes what is idle.   *)
Closing ==
    /\ \A x \in Threads :
        /\ pc[x] = "closeIO" => turn = x
        /\ Closes(x) => state[sess[x]] # "ACTIVE"
    /\ pc[Manager] = "closeIO" => nfd[sess[Manager]] # None
    /\ Closes(Manager) => \A w \in Conns : sess[w] = sess[Manager] => wpc[w] # "nap"

(* st_thread_join is called on the writer of the session.                 *)
Joining ==
    \A x \in Threads :
        /\ joining[x] # None => pc[x] = "join"
        /\ pc[x] = "join" =>
            /\ joining[x] \in Conns /\ sess[joining[x]] = sess[x] /\ wpc[joining[x]] # "none"
            /\ \A w \in Conns : Live(w) /\ sess[w] = sess[x] => w = joining[x]

(* A writer left behind by a join that failed ends as soon as it runs.     *)
WillEnd ==
    \A w \in Conns : Live(w) /\ nfd[sess[w]] = None
        => wpc[w] = "loop" /\ waiters[sess[w]] = <<>> /\ state[sess[w]] # "ACTIVE"

(* A session just written to is not idle.                                 *)
Awake == \A w \in Conns : wpc[w] = "nap" => ~idle[sess[w]]

(* The login of t was right and is about to use the session it found.      *)
Through(t) == ~guest /\ (pc[t] \in {"authenticated", "resumed"} \/ (pc[t] = "db" /\ t \in woken))

(* By then nobody writes for that session or closes it.                   *)
AllEnded ==
    \A t \in Conns : Through(t) /\ sess[t] # None
        => /\ \A w \in Conns : Live(w) => sess[w] # sess[t]
           /\ \A x \in Threads : pc[x] = "join" => sess[x] # sess[t]

NoGuestResumes == guest => \A t \in Conns : pc[t] # "resumed"

WriterInv ==
    /\ NeverSlow /\ Created /\ Connected /\ TheWriter /\ Closing /\ Joining
    /\ WillEnd /\ Awake /\ AllEnded /\ NoGuestResumes

(* Nothing blocks in st_write, who works on a session got it from          *)
(* createSession, and resumeConnection is not for guests.                  *)
LEMMA KnownNext ==
    ASSUME ~Overlap, ~SlowClients
    PROVE  TypeInv /\ OneInv /\ WriterInv /\ [Next]_vars => (NeverSlow /\ Created /\ NoGuestResumes)'
<1> SUFFICES ASSUME TypeInv, OneInv, WriterInv, [Next]_vars PROVE (NeverSlow /\ Created /\ NoGuestResumes)'
  OBVIOUS
<1> USE NamesAssumption
    DEF Working, LoggingIn, Threads, Sessions, At, RunTo, YieldTo, threadVars,
        sessionVars, writerVars, queueVars, mgrVars, NeverSlow, Created,
        NoGuestResumes
<1>0. /\ NeverSlow
      /\ Created
      /\ Connected
      /\ NoGuestResumes
      /\ ~SlowClients
      /\ \A t, u \in Conns : pc[t] \notin {"start", "closed"} /\ pc[u] \notin {"start", "closed"} => t = u
      /\ \A x \in Threads : pc[x] \in Working => sess[x] \in Sessions
      /\ \A t \in Conns : LoggingIn(t) => wpc[t] = "none"
      /\ \A w \in Conns : wpc[w] # "none" => sess[w] \in Sessions
      /\ pc \in [Threads -> Labels]
      /\ sess \in [Threads -> Sessions \cup {None}]
      /\ then \in [Threads -> {"resumed", "replaced", "left", "deleted", "closed", "scan"}]
      /\ wpc \in [Conns -> {"none", "loop", "writing", "nap", "ended"}]
      /\ listed \subseteq Sessions
  BY DEF TypeInv, TypeOK, SessKnown, OneInv, WriterInv, Serial, Busy
<1>1. ASSUME NEW t \in Conns, NEW type \in ClientTypes, ReadLogin(t, type) PROVE (NeverSlow /\ Created /\ NoGuestResumes)'
  BY <1>0, <1>1 DEF ReadLogin, FindSession, Found
<1>2. ASSUME NEW t \in Conns, DbAnswer(t) PROVE (NeverSlow /\ Created /\ NoGuestResumes)'
  BY <1>0, <1>2 DEF DbAnswer
<1>3. ASSUME NEW t \in Conns, Create(t) PROVE (NeverSlow /\ Created /\ NoGuestResumes)'
  BY <1>0, <1>3 DEF Create, StartWriter
<1>4. ASSUME NEW t \in Conns, Resume(t) PROVE (NeverSlow /\ Created /\ NoGuestResumes)'
  BY <1>0, <1>4 DEF Resume, Resumable
<1>5. ASSUME NEW t \in Conns, WaitReader(t) PROVE (NeverSlow /\ Created /\ NoGuestResumes)'
  BY <1>0, <1>5 DEF WaitReader, Connected
<1>6. ASSUME NEW t \in Conns, Resumed(t) PROVE (NeverSlow /\ Created /\ NoGuestResumes)'
  BY <1>0, <1>6 DEF Resumed, NewConnection, StartWriter
<1>7. ASSUME NEW t \in Conns, Replace(t) PROVE (NeverSlow /\ Created /\ NoGuestResumes)'
  BY <1>0, <1>7 DEF Replace, HandleShutdown
<1>8. ASSUME NEW t \in Conns, Replaced(t) PROVE (NeverSlow /\ Created /\ NoGuestResumes)'
  BY <1>0, <1>8 DEF Replaced
<1>9. ASSUME NEW t \in Conns, LoopTest(t) PROVE (NeverSlow /\ Created /\ NoGuestResumes)'
  BY <1>0, <1>9 DEF LoopTest
<1>10. ASSUME NEW t \in Conns, NEW kind \in Requests, HandleRequest(t, kind) PROVE (NeverSlow /\ Created /\ NoGuestResumes)'
  BY <1>0, <1>10 DEF HandleRequest
<1>11. ASSUME NEW t \in Conns, Disconnect(t) PROVE (NeverSlow /\ Created /\ NoGuestResumes)'
  BY <1>0, <1>11 DEF Disconnect, Disconnected
<1>12. ASSUME NEW t \in Conns, LeaveAndDelete(t) PROVE (NeverSlow /\ Created /\ NoGuestResumes)'
  BY <1>0, <1>12 DEF LeaveAndDelete, HandleShutdown
<1>13. ASSUME NEW t \in Conns, Leave(t) PROVE (NeverSlow /\ Created /\ NoGuestResumes)'
  BY <1>0, <1>13 DEF Leave
<1>14. ASSUME NEW t \in Conns, Deleted(t) PROVE (NeverSlow /\ Created /\ NoGuestResumes)'
  BY <1>0, <1>14 DEF Deleted
<1>15. ASSUME NEW x \in Threads, CloseIO(x) PROVE (NeverSlow /\ Created /\ NoGuestResumes)'
  BY <1>0, <1>15 DEF CloseIO, Connected, Closes
<1>16. ASSUME NEW x \in Threads, Joined(x) PROVE (NeverSlow /\ Created /\ NoGuestResumes)'
  BY <1>0, <1>16 DEF Joined, Connected, Closes
<1>17. ASSUME NEW w \in Conns, WriterStep(w) PROVE (NeverSlow /\ Created /\ NoGuestResumes)'
  BY <1>0, <1>17 DEF WriterStep, WriterEnds, WriterWaits, WriterTakes, Written, WriterRuns, CanWrite
<1>18. CASE Purge
  BY <1>0, <1>18 DEF Purge, Found
<1>19. ASSUME NEW s \in Sessions, Expire(s) PROVE (NeverSlow /\ Created /\ NoGuestResumes)'
  BY <1>0, <1>19 DEF Expire, HandleShutdown
<1>20. CASE ScanDone
  BY <1>0, <1>20 DEF ScanDone
<1>21. CASE Poll
  BY <1>0, <1>21 DEF Poll
<1>22. ASSUME NEW s \in Sessions, PostEvent(s) PROVE (NeverSlow /\ Created /\ NoGuestResumes)'
  BY <1>0, <1>22 DEF PostEvent
<1>23. ASSUME NEW s \in Sessions, GetIdle(s) PROVE (NeverSlow /\ Created /\ NoGuestResumes)'
  BY <1>0, <1>23 DEF GetIdle
<1>24. CASE UNCHANGED vars
  BY <1>0, <1>24 DEF vars
<1> HIDE NamesAssumption
    DEF Working, LoggingIn, Sessions, At, RunTo, YieldTo, threadVars, sessionVars,
        writerVars, queueVars, mgrVars, NeverSlow, Created, NoGuestResumes
<1> QED
  BY <1>1, <1>2, <1>3, <1>4, <1>5, <1>6, <1>7, <1>8, <1>9, <1>10, <1>11, <1>12,
     <1>13, <1>14, <1>15, <1>16, <1>17, <1>18, <1>19, <1>20, <1>21, <1>22, <1>23, <1>24
  DEF Next, Serve, ManagerStep

(* _nfd is set by createSession and resumeConnection and lasts until the   *)
(* thread that serves it has been through closeIO (hoxSession.cpp:700-723).*)
LEMMA ConnectedNext ==
    ASSUME ~Overlap, ~SlowClients
    PROVE  TypeInv /\ OneInv /\ WriterInv /\ [Next]_vars => Connected'
<1> SUFFICES ASSUME TypeInv, OneInv, WriterInv, [Next]_vars PROVE Connected'
  OBVIOUS
<1> USE NamesAssumption
    DEF Working, LoggingIn, Threads, Sessions, At, RunTo, YieldTo, threadVars,
        sessionVars, writerVars, queueVars, mgrVars, Connected, Serving, Closes
<1>0. /\ Connected
      /\ Created
      /\ \A t, u \in Conns : pc[t] \notin {"start", "closed"} /\ pc[u] \notin {"start", "closed"} => t = u
      /\ \A x \in Threads : pc[x] \in Working => sess[x] \in Sessions
      /\ \A t \in Conns : LoggingIn(t) => wpc[t] = "none"
      /\ \A w \in Conns : wpc[w] # "none" => sess[w] \in Sessions
      /\ pc \in [Threads -> Labels]
      /\ sess \in [Threads -> Sessions \cup {None}]
      /\ then \in [Threads -> {"resumed", "replaced", "left", "deleted", "closed", "scan"}]
      /\ state \in [Sessions -> States]
      /\ nfd \in [Sessions -> Conns \cup {None}]
      /\ wpc \in [Conns -> {"none", "loop", "writing", "nap", "ended"}]
      /\ listed \subseteq Sessions
  BY DEF TypeInv, TypeOK, SessKnown, OneInv, WriterInv, Serial, Busy
<1>1. ASSUME NEW t \in Conns, NEW type \in ClientTypes, ReadLogin(t, type) PROVE Connected'
  BY <1>0, <1>1 DEF ReadLogin, FindSession, Found
<1>2. ASSUME NEW t \in Conns, DbAnswer(t) PROVE Connected'
  BY <1>0, <1>2 DEF DbAnswer
<1>3. ASSUME NEW t \in Conns, Create(t) PROVE Connected'
  BY <1>0, <1>3 DEF Create, StartWriter, Created
<1>4. ASSUME NEW t \in Conns, Resume(t) PROVE Connected'
  BY <1>0, <1>4 DEF Resume, Resumable
<1>5. ASSUME NEW t \in Conns, WaitReader(t) PROVE Connected'
  BY <1>0, <1>5 DEF WaitReader
<1>6. ASSUME NEW t \in Conns, Resumed(t) PROVE Connected'
  BY <1>0, <1>6 DEF Resumed, NewConnection, StartWriter
<1>7. ASSUME NEW t \in Conns, Replace(t) PROVE Connected'
  BY <1>0, <1>7 DEF Replace, HandleShutdown
<1>8. ASSUME NEW t \in Conns, Replaced(t) PROVE Connected'
  BY <1>0, <1>8 DEF Replaced
<1>9. ASSUME NEW t \in Conns, LoopTest(t) PROVE Connected'
  BY <1>0, <1>9 DEF LoopTest
<1>10. ASSUME NEW t \in Conns, NEW kind \in Requests, HandleRequest(t, kind) PROVE Connected'
  BY <1>0, <1>10 DEF HandleRequest
<1>11. ASSUME NEW t \in Conns, Disconnect(t) PROVE Connected'
  BY <1>0, <1>11 DEF Disconnect, Disconnected
<1>12. ASSUME NEW t \in Conns, LeaveAndDelete(t) PROVE Connected'
  BY <1>0, <1>12 DEF LeaveAndDelete, HandleShutdown
<1>13. ASSUME NEW t \in Conns, Leave(t) PROVE Connected'
  BY <1>0, <1>13 DEF Leave
<1>14. ASSUME NEW t \in Conns, Deleted(t) PROVE Connected'
  BY <1>0, <1>14 DEF Deleted
<1>15. ASSUME NEW x \in Threads, CloseIO(x) PROVE Connected'
  BY <1>0, <1>15 DEF CloseIO
<1>16. ASSUME NEW x \in Threads, Joined(x) PROVE Connected'
  BY <1>0, <1>16 DEF Joined
<1>17. ASSUME NEW w \in Conns, WriterStep(w) PROVE Connected'
  BY <1>0, <1>17 DEF WriterStep, WriterEnds, WriterWaits, WriterTakes, Written, WriterRuns, CanWrite
<1>18. CASE Purge
  BY <1>0, <1>18 DEF Purge, Found
<1>19. ASSUME NEW s \in Sessions, Expire(s) PROVE Connected'
  BY <1>0, <1>19 DEF Expire, HandleShutdown
<1>20. CASE ScanDone
  BY <1>0, <1>20 DEF ScanDone
<1>21. CASE Poll
  BY <1>0, <1>21 DEF Poll
<1>22. ASSUME NEW s \in Sessions, PostEvent(s) PROVE Connected'
  BY <1>0, <1>22 DEF PostEvent
<1>23. ASSUME NEW s \in Sessions, GetIdle(s) PROVE Connected'
  BY <1>0, <1>23 DEF GetIdle
<1>24. CASE UNCHANGED vars
  BY <1>0, <1>24 DEF vars
<1> HIDE NamesAssumption
    DEF Working, LoggingIn, Sessions, At, RunTo, YieldTo, threadVars, sessionVars,
        writerVars, queueVars, mgrVars, Connected, Serving, Closes
<1> QED
  BY <1>1, <1>2, <1>3, <1>4, <1>5, <1>6, <1>7, <1>8, <1>9, <1>10, <1>11, <1>12,
     <1>13, <1>14, <1>15, <1>16, <1>17, <1>18, <1>19, <1>20, <1>21, <1>22, <1>23, <1>24
  DEF Next, Serve, ManagerStep

(* A signal empties a queue, which holds at most the session's writer.     *)
LEMMA SignalledQueue ==
    ASSUME TypeOK, TheWriter, NEW S
    PROVE  \A s \in Sessions : Signalled(S)[s] = IF s \in S THEN <<>> ELSE waiters[s]
<1> SUFFICES ASSUME NEW s \in S, s \in Sessions, waiters[s] # <<>> PROVE Tail(waiters[s]) = <<>>
  BY DEF Signalled
<1>1. waiters[s] = <<writeThread[s]>>
  BY DEF TheWriter
<1> QED
  BY <1>1

(* handleWrite (hoxSession.cpp:650-697) is the only one that unsets        *)
(* _writeThread, and resumeConnection sets it when nobody writes.          *)
LEMMA TheWriterNext ==
    ASSUME ~Overlap, ~SlowClients
    PROVE  TypeInv /\ OneInv /\ WriterInv /\ [Next]_vars => TheWriter'
<1> SUFFICES ASSUME TypeInv, OneInv, WriterInv, [Next]_vars PROVE TheWriter'
  OBVIOUS
<1> USE NamesAssumption
    DEF Working, LoggingIn, Threads, Sessions, At, RunTo, YieldTo, threadVars,
        sessionVars, writerVars, queueVars, mgrVars, TheWriter, Live
<1>0. /\ TypeOK
      /\ ~SlowClients
      /\ TheWriter
      /\ NeverSlow
      /\ Created
      /\ AllEnded
      /\ NoGuestResumes
      /\ \A x \in Threads : pc[x] \in Working => sess[x] \in Sessions
      /\ \A t \in Conns : LoggingIn(t) => wpc[t] = "none"
      /\ \A w \in Conns : wpc[w] # "none" => sess[w] \in Sessions
      /\ pc \in [Threads -> Labels]
      /\ sess \in [Threads -> Sessions \cup {None}]
      /\ writeThread \in [Sessions -> Conns \cup {None}]
      /\ waiters \in [Sessions -> Seq(Conns)]
      /\ wpc \in [Conns -> {"none", "loop", "writing", "nap", "ended"}]
  BY DEF TypeInv, TypeOK, SessKnown, OneInv, WriterInv, Serial, Busy
<1>1. ASSUME NEW t \in Conns, NEW type \in ClientTypes, ReadLogin(t, type) PROVE TheWriter'
  BY <1>0, <1>1 DEF ReadLogin, FindSession, Found
<1>2. ASSUME NEW t \in Conns, DbAnswer(t) PROVE TheWriter'
  BY <1>0, <1>2 DEF DbAnswer
<1>3. ASSUME NEW t \in Conns, Create(t) PROVE TheWriter'
  <2>1. \A other \in Sessions : waiters'[other] \in {<<>>, waiters[other]}
    BY <1>0, <1>3, SignalledQueue DEF Create
  <2> QED
    BY <1>0, <1>3, <2>1 DEF Create, StartWriter, Created
<1>4. ASSUME NEW t \in Conns, Resume(t) PROVE TheWriter'
  BY <1>0, <1>4 DEF Resume, Resumable
<1>5. ASSUME NEW t \in Conns, WaitReader(t) PROVE TheWriter'
  BY <1>0, <1>5 DEF WaitReader
<1>6. ASSUME NEW t \in Conns, Resumed(t) PROVE TheWriter'
  <2>1. \A other \in Sessions : waiters'[other] \in {<<>>, waiters[other]}
    BY <1>0, <1>6, SignalledQueue DEF Resumed
  <2>2. /\ sess[t] \in Sessions /\ wpc[t] = "none"
        /\ \A w \in Conns : Live(w) => sess[w] # sess[t]
    <3>1. pc[t] = "resumed" /\ sess[t] \in Sessions /\ wpc[t] = "none"
      BY <1>0, <1>6 DEF Resumed
    <3>2. Through(t) /\ sess[t] # None
      BY <1>0, <3>1 DEF Through, NoGuestResumes
    <3> QED
      BY <1>0, <3>1, <3>2 DEF AllEnded
  <2>3. /\ sess' = sess
        /\ writeThread' = [writeThread EXCEPT ![sess[t]] = t]
        /\ wpc' = [wpc EXCEPT ![t] = "loop"]
    BY <1>6 DEF Resumed, StartWriter
  <2>4. writeThread[sess[t]] = None /\ waiters[sess[t]] = <<>>
    BY <1>0, <2>2
  <2> QED
    BY <1>0, <2>1, <2>2, <2>3, <2>4
<1>7. ASSUME NEW t \in Conns, Replace(t) PROVE TheWriter'
  <2>1. \A other \in Sessions : waiters'[other] \in {<<>>, waiters[other]}
    BY <1>0, <1>7, SignalledQueue DEF Replace, HandleShutdown, AddResponse
  <2> QED
    BY <1>0, <1>7, <2>1 DEF Replace, HandleShutdown
<1>8. ASSUME NEW t \in Conns, Replaced(t) PROVE TheWriter'
  BY <1>0, <1>8 DEF Replaced
<1>9. ASSUME NEW t \in Conns, LoopTest(t) PROVE TheWriter'
  BY <1>0, <1>9 DEF LoopTest
<1>10. ASSUME NEW t \in Conns, NEW kind \in Requests, HandleRequest(t, kind) PROVE TheWriter'
  <2>1. \A other \in Sessions : waiters'[other] \in {<<>>, waiters[other]}
    BY <1>0, <1>10, SignalledQueue DEF HandleRequest, AddResponse
  <2> QED
    BY <1>0, <1>10, <2>1 DEF HandleRequest
<1>11. ASSUME NEW t \in Conns, Disconnect(t) PROVE TheWriter'
  BY <1>0, <1>11 DEF Disconnect, Disconnected
<1>12. ASSUME NEW t \in Conns, LeaveAndDelete(t) PROVE TheWriter'
  <2>1. \A other \in Sessions : waiters'[other] \in {<<>>, waiters[other]}
    BY <1>0, <1>12, SignalledQueue DEF LeaveAndDelete, HandleShutdown, AddResponse
  <2> QED
    BY <1>0, <1>12, <2>1 DEF LeaveAndDelete, HandleShutdown
<1>13. ASSUME NEW t \in Conns, Leave(t) PROVE TheWriter'
  BY <1>0, <1>13 DEF Leave
<1>14. ASSUME NEW t \in Conns, Deleted(t) PROVE TheWriter'
  BY <1>0, <1>14 DEF Deleted
<1>15. ASSUME NEW x \in Threads, CloseIO(x) PROVE TheWriter'
  <2>1. \A other \in Sessions : waiters'[other] \in {<<>>, waiters[other]}
    BY <1>0, <1>15, SignalledQueue DEF CloseIO
  <2> QED
    BY <1>0, <1>15, <2>1 DEF CloseIO
<1>16. ASSUME NEW x \in Threads, Joined(x) PROVE TheWriter'
  BY <1>0, <1>16 DEF Joined
<1>17. ASSUME NEW w \in Conns, WriterStep(w) PROVE TheWriter'
  <2>1. WriterRuns(w) => sess[w] \in Sessions /\ writeThread[sess[w]] = w /\ waiters[sess[w]] = <<>>
    <3> SUFFICES ASSUME WriterRuns(w), sess[w] \in Sessions, writeThread[sess[w]] = w,
                        waiters[sess[w]] # <<>>
                 PROVE  FALSE
      BY <1>0 DEF WriterRuns, CanWrite
    <3>1. waiters[sess[w]] = <<w>>
      BY <1>0
    <3> QED
      BY <3>1 DEF WriterRuns, CanWrite
  <2>2. CASE WriterEnds(w)
    BY <1>0, <2>1, <2>2 DEF WriterEnds, WriterRuns, CanWrite
  <2>3. ASSUME UNCHANGED <<sess, writeThread>>, WriterRuns(w),
               wpc' \in {[wpc EXCEPT ![w] = "loop"], [wpc EXCEPT ![w] = "nap"]},
               \/ UNCHANGED waiters
               \/ waiters' = [waiters EXCEPT ![sess[w]] = Append(waiters[sess[w]], w)] /\ wpc'[w] = "loop"
        PROVE  TheWriter'
    <3>1. PICK q : q = waiters[sess[w]]
      OBVIOUS
    <3>2. \A s \in Sessions : \/ waiters'[s] = waiters[s]
                              \/ s = sess[w] /\ waiters'[s] = <<w>> /\ wpc'[w] = "loop"
      <4>1. q = <<>>
        BY <2>1, <2>3, <3>1
      <4>2. Append(q, w) = <<w>>
        BY <4>1
      <4>3. CASE UNCHANGED waiters
        BY <4>3
      <4>4. CASE waiters' = [waiters EXCEPT ![sess[w]] = Append(waiters[sess[w]], w)] /\ wpc'[w] = "loop"
        <5>1. waiters' = [waiters EXCEPT ![sess[w]] = Append(q, w)]
          BY <3>1, <4>4
        <5> QED
          BY <1>0, <2>1, <2>3, <4>2, <4>4, <5>1
      <4> QED
        BY <2>3, <4>3, <4>4
    <3>3. \A v \in Conns : wpc'[v] \in {"loop", "nap"} <=> wpc[v] \in {"loop", "nap"}
      BY <1>0, <2>3 DEF WriterRuns, CanWrite
    <3>4. ASSUME NEW s \in Sessions, waiters'[s] # <<>>
          PROVE  /\ writeThread'[s] # None /\ wpc'[writeThread'[s]] = "loop"
                 /\ waiters'[s] = <<writeThread'[s]>>
      <4>1. CASE waiters'[s] = waiters[s]
        <5>1. waiters[s] = <<writeThread[s]>> /\ writeThread[s] \in Conns /\ wpc[writeThread[s]] = "loop"
          BY <1>0, <3>4, <4>1
        <5>2. CASE writeThread[s] = w
          <6>1. s = sess[w]
            BY <1>0, <5>1, <5>2
          <6> QED
            BY <2>1, <2>3, <3>4, <4>1, <6>1
        <5>3. CASE writeThread[s] # w
          BY <1>0, <2>3, <4>1, <5>1, <5>3
        <5> QED
          BY <5>2, <5>3
      <4>2. CASE s = sess[w] /\ waiters'[s] = <<w>> /\ wpc'[w] = "loop"
        BY <2>1, <2>3, <4>2
      <4> QED
        BY <3>2, <4>1, <4>2
    <3>5. /\ \A v \in Conns : wpc'[v] \in {"loop", "nap"} => writeThread'[sess'[v]] = v
          /\ \A s \in Sessions : writeThread'[s] # None
               => wpc'[writeThread'[s]] \in {"loop", "nap"} /\ sess'[writeThread'[s]] = s
      BY <1>0, <2>3, <3>3
    <3> QED
      BY <3>4, <3>5
  <2>4. CASE WriterWaits(w)
    <3>1. /\ UNCHANGED <<sess, writeThread>> /\ WriterRuns(w)
          /\ wpc' = [wpc EXCEPT ![w] = "loop"]
      BY <2>4 DEF WriterWaits
    <3>4. waiters' = [waiters EXCEPT ![sess[w]] = Append(waiters[sess[w]], w)]
      BY <2>4 DEF WriterWaits
    <3>2. wpc'[w] = "loop"
      BY <1>0, <3>1
    <3> QED
      BY <2>3, <3>1, <3>2, <3>4
  <2>5. CASE WriterTakes(w)
    <3>1. UNCHANGED <<sess, writeThread>> /\ WriterRuns(w)
      BY <2>5 DEF WriterTakes
    <3>2. \/ UNCHANGED waiters /\ wpc' = [wpc EXCEPT ![w] = "nap"]
          \/ /\ waiters' = [waiters EXCEPT ![sess[w]] = Append(waiters[sess[w]], w)]
             /\ wpc' = [wpc EXCEPT ![w] = "loop"]
      BY <1>0, <2>5 DEF WriterTakes
    <3>3. wpc' = [wpc EXCEPT ![w] = "loop"] => wpc'[w] = "loop"
      BY <1>0
    <3> QED
      BY <2>3, <3>1, <3>2, <3>3
  <2>6. CASE Written(w)
    BY <1>0, <2>6 DEF Written, NeverSlow
  <2> QED
    BY <1>17, <2>2, <2>4, <2>5, <2>6 DEF WriterStep
<1>18. CASE Purge
  BY <1>0, <1>18 DEF Purge, Found
<1>19. ASSUME NEW s \in Sessions, Expire(s) PROVE TheWriter'
  <2>1. \A other \in Sessions : waiters'[other] \in {<<>>, waiters[other]}
    BY <1>0, <1>19, SignalledQueue DEF Expire, HandleShutdown, AddResponse
  <2> QED
    BY <1>0, <1>19, <2>1 DEF Expire, HandleShutdown
<1>20. CASE ScanDone
  BY <1>0, <1>20 DEF ScanDone
<1>21. CASE Poll
  BY <1>0, <1>21 DEF Poll
<1>22. ASSUME NEW s \in Sessions, PostEvent(s) PROVE TheWriter'
  <2>1. \A other \in Sessions : waiters'[other] \in {<<>>, waiters[other]}
    BY <1>0, <1>22, SignalledQueue DEF PostEvent, AddResponse
  <2> QED
    BY <1>0, <1>22, <2>1 DEF PostEvent
<1>23. ASSUME NEW s \in Sessions, GetIdle(s) PROVE TheWriter'
  BY <1>0, <1>23 DEF GetIdle
<1>24. CASE UNCHANGED vars
  BY <1>0, <1>24 DEF vars
<1> HIDE NamesAssumption
    DEF Working, LoggingIn, Sessions, At, RunTo, YieldTo, threadVars, sessionVars,
        writerVars, queueVars, mgrVars, TheWriter, Live
<1> QED
  BY <1>1, <1>2, <1>3, <1>4, <1>5, <1>6, <1>7, <1>8, <1>9, <1>10, <1>11, <1>12,
     <1>13, <1>14, <1>15, <1>16, <1>17, <1>18, <1>19, <1>20, <1>21, <1>22, <1>23, <1>24
  DEF Next, Serve, ManagerStep

(* closeIO follows its cause at once: a state other than ACTIVE.  The      *)
(* manager closes only sessions nobody has written to for ten minutes.     *)
LEMMA ClosingNext ==
    ASSUME ~Overlap, ~SlowClients
    PROVE  TypeInv /\ OneInv /\ WriterInv /\ [Next]_vars => (Closing /\ Awake)'
<1> SUFFICES ASSUME TypeInv, OneInv, WriterInv, [Next]_vars PROVE (Closing /\ Awake)'
  OBVIOUS
<1> USE NamesAssumption
    DEF Working, LoggingIn, Threads, Sessions, At, RunTo, YieldTo, threadVars,
        sessionVars, writerVars, queueVars, mgrVars, Closing, Awake, Closes
<1>0. /\ Closing
      /\ Awake
      /\ Connected
      /\ Created
      /\ NeverSlow
      /\ AllEnded
      /\ NoGuestResumes
      /\ ~SlowClients
      /\ \A x \in Threads : pc[x] \in Working => sess[x] \in Sessions
      /\ \A t \in Conns : LoggingIn(t) => wpc[t] = "none"
      /\ \A w \in Conns : wpc[w] # "none" => sess[w] \in Sessions
      /\ pc \in [Threads -> Labels]
      /\ sess \in [Threads -> Sessions \cup {None}]
      /\ then \in [Threads -> {"resumed", "replaced", "left", "deleted", "closed", "scan"}]
      /\ state \in [Sessions -> States]
      /\ nfd \in [Sessions -> Conns \cup {None}]
      /\ idle \in [Sessions -> BOOLEAN]
      /\ wpc \in [Conns -> {"none", "loop", "writing", "nap", "ended"}]
  BY DEF TypeInv, TypeOK, SessKnown, OneInv, WriterInv, Serial, Busy
<1>1. ASSUME NEW t \in Conns, NEW type \in ClientTypes, ReadLogin(t, type) PROVE (Closing /\ Awake)'
  BY <1>0, <1>1 DEF ReadLogin, FindSession, Found
<1>2. ASSUME NEW t \in Conns, DbAnswer(t) PROVE (Closing /\ Awake)'
  BY <1>0, <1>2 DEF DbAnswer
<1>3. ASSUME NEW t \in Conns, Create(t) PROVE (Closing /\ Awake)'
  BY <1>0, <1>3 DEF Create, StartWriter, Created
<1>4. ASSUME NEW t \in Conns, Resume(t) PROVE (Closing /\ Awake)'
  BY <1>0, <1>4 DEF Resume, Resumable, Disconnected
<1>5. ASSUME NEW t \in Conns, WaitReader(t) PROVE (Closing /\ Awake)'
  BY <1>0, <1>5 DEF WaitReader, Connected
<1>6. ASSUME NEW t \in Conns, Resumed(t) PROVE (Closing /\ Awake)'
  BY <1>0, <1>6 DEF Resumed, NewConnection, StartWriter, AllEnded, Through, NoGuestResumes
<1>7. ASSUME NEW t \in Conns, Replace(t) PROVE (Closing /\ Awake)'
  BY <1>0, <1>7 DEF Replace, HandleShutdown
<1>8. ASSUME NEW t \in Conns, Replaced(t) PROVE (Closing /\ Awake)'
  BY <1>0, <1>8 DEF Replaced
<1>9. ASSUME NEW t \in Conns, LoopTest(t) PROVE (Closing /\ Awake)'
  BY <1>0, <1>9 DEF LoopTest
<1>10. ASSUME NEW t \in Conns, NEW kind \in Requests, HandleRequest(t, kind) PROVE (Closing /\ Awake)'
  BY <1>0, <1>10 DEF HandleRequest
<1>11. ASSUME NEW t \in Conns, Disconnect(t) PROVE (Closing /\ Awake)'
  BY <1>0, <1>11 DEF Disconnect, Disconnected
<1>12. ASSUME NEW t \in Conns, LeaveAndDelete(t) PROVE (Closing /\ Awake)'
  BY <1>0, <1>12 DEF LeaveAndDelete, HandleShutdown
<1>13. ASSUME NEW t \in Conns, Leave(t) PROVE (Closing /\ Awake)'
  BY <1>0, <1>13 DEF Leave
<1>14. ASSUME NEW t \in Conns, Deleted(t) PROVE (Closing /\ Awake)'
  BY <1>0, <1>14 DEF Deleted
<1>15. ASSUME NEW x \in Threads, CloseIO(x) PROVE (Closing /\ Awake)'
  BY <1>0, <1>15 DEF CloseIO
<1>16. ASSUME NEW x \in Threads, Joined(x) PROVE (Closing /\ Awake)'
  BY <1>0, <1>16 DEF Joined
<1>17. ASSUME NEW w \in Conns, WriterStep(w) PROVE (Closing /\ Awake)'
  BY <1>0, <1>17 DEF WriterStep, WriterEnds, WriterWaits, WriterTakes, Written, WriterRuns, CanWrite, NeverSlow
<1>18. CASE Purge
  BY <1>0, <1>18 DEF Purge, Found
<1>19. ASSUME NEW s \in Sessions, Expire(s) PROVE (Closing /\ Awake)'
  BY <1>0, <1>19 DEF Expire, HandleShutdown
<1>20. CASE ScanDone
  BY <1>0, <1>20 DEF ScanDone
<1>21. CASE Poll
  BY <1>0, <1>21 DEF Poll
<1>22. ASSUME NEW s \in Sessions, PostEvent(s) PROVE (Closing /\ Awake)'
  BY <1>0, <1>22 DEF PostEvent
<1>23. ASSUME NEW s \in Sessions, GetIdle(s) PROVE (Closing /\ Awake)'
  BY <1>0, <1>23 DEF GetIdle
<1>24. CASE UNCHANGED vars
  BY <1>0, <1>24 DEF vars
<1> HIDE NamesAssumption
    DEF Working, LoggingIn, Sessions, At, RunTo, YieldTo, threadVars, sessionVars,
        writerVars, queueVars, mgrVars, Closing, Awake, Closes
<1> QED
  BY <1>1, <1>2, <1>3, <1>4, <1>5, <1>6, <1>7, <1>8, <1>9, <1>10, <1>11, <1>12,
     <1>13, <1>14, <1>15, <1>16, <1>17, <1>18, <1>19, <1>20, <1>21, <1>22, <1>23, <1>24
  DEF Next, Serve, ManagerStep

(* Who waits in st_thread_join waits for the one writer of the session.    *)
LEMMA JoiningNext ==
    ASSUME ~Overlap, ~SlowClients
    PROVE  TypeInv /\ OneInv /\ WriterInv /\ [Next]_vars => Joining'
<1> SUFFICES ASSUME TypeInv, OneInv, WriterInv, [Next]_vars PROVE Joining'
  OBVIOUS
<1> USE NamesAssumption
    DEF Working, LoggingIn, Threads, Sessions, At, RunTo, YieldTo, threadVars,
        sessionVars, writerVars, queueVars, mgrVars, Joining, Live
<1>0. /\ Joining
      /\ TheWriter
      /\ Created
      /\ NeverSlow
      /\ AllEnded
      /\ NoGuestResumes
      /\ ~SlowClients
      /\ \A x \in Threads : pc[x] \in Working => sess[x] \in Sessions
      /\ \A t \in Conns : LoggingIn(t) => wpc[t] = "none"
      /\ \A w \in Conns : wpc[w] # "none" => sess[w] \in Sessions
      /\ pc \in [Threads -> Labels]
      /\ sess \in [Threads -> Sessions \cup {None}]
      /\ then \in [Threads -> {"resumed", "replaced", "left", "deleted", "closed", "scan"}]
      /\ joining \in [Threads -> Conns \cup {None}]
      /\ writeThread \in [Sessions -> Conns \cup {None}]
      /\ wpc \in [Conns -> {"none", "loop", "writing", "nap", "ended"}]
  BY DEF TypeInv, TypeOK, SessKnown, OneInv, WriterInv, Serial, Busy
<1>1. ASSUME NEW t \in Conns, NEW type \in ClientTypes, ReadLogin(t, type) PROVE Joining'
  BY <1>0, <1>1 DEF ReadLogin, FindSession, Found
<1>2. ASSUME NEW t \in Conns, DbAnswer(t) PROVE Joining'
  BY <1>0, <1>2 DEF DbAnswer
<1>3. ASSUME NEW t \in Conns, Create(t) PROVE Joining'
  BY <1>0, <1>3 DEF Create, StartWriter, Created
<1>4. ASSUME NEW t \in Conns, Resume(t) PROVE Joining'
  BY <1>0, <1>4 DEF Resume, Resumable
<1>5. ASSUME NEW t \in Conns, WaitReader(t) PROVE Joining'
  BY <1>0, <1>5 DEF WaitReader
<1>6. ASSUME NEW t \in Conns, Resumed(t) PROVE Joining'
  BY <1>0, <1>6 DEF Resumed, NewConnection, StartWriter, AllEnded, Through, NoGuestResumes
<1>7. ASSUME NEW t \in Conns, Replace(t) PROVE Joining'
  BY <1>0, <1>7 DEF Replace, HandleShutdown
<1>8. ASSUME NEW t \in Conns, Replaced(t) PROVE Joining'
  BY <1>0, <1>8 DEF Replaced
<1>9. ASSUME NEW t \in Conns, LoopTest(t) PROVE Joining'
  BY <1>0, <1>9 DEF LoopTest
<1>10. ASSUME NEW t \in Conns, NEW kind \in Requests, HandleRequest(t, kind) PROVE Joining'
  BY <1>0, <1>10 DEF HandleRequest
<1>11. ASSUME NEW t \in Conns, Disconnect(t) PROVE Joining'
  BY <1>0, <1>11 DEF Disconnect, Disconnected
<1>12. ASSUME NEW t \in Conns, LeaveAndDelete(t) PROVE Joining'
  BY <1>0, <1>12 DEF LeaveAndDelete, HandleShutdown
<1>13. ASSUME NEW t \in Conns, Leave(t) PROVE Joining'
  BY <1>0, <1>13 DEF Leave
<1>14. ASSUME NEW t \in Conns, Deleted(t) PROVE Joining'
  BY <1>0, <1>14 DEF Deleted
<1>15. ASSUME NEW x \in Threads, CloseIO(x) PROVE Joining'
  BY <1>0, <1>15 DEF CloseIO, TheWriter
<1>16. ASSUME NEW x \in Threads, Joined(x) PROVE Joining'
  BY <1>0, <1>16 DEF Joined
<1>17. ASSUME NEW w \in Conns, WriterStep(w) PROVE Joining'
  BY <1>0, <1>17 DEF WriterStep, WriterEnds, WriterWaits, WriterTakes, Written, WriterRuns, CanWrite, NeverSlow
<1>18. CASE Purge
  BY <1>0, <1>18 DEF Purge, Found
<1>19. ASSUME NEW s \in Sessions, Expire(s) PROVE Joining'
  BY <1>0, <1>19 DEF Expire, HandleShutdown
<1>20. CASE ScanDone
  BY <1>0, <1>20 DEF ScanDone
<1>21. CASE Poll
  BY <1>0, <1>21 DEF Poll
<1>22. ASSUME NEW s \in Sessions, PostEvent(s) PROVE Joining'
  BY <1>0, <1>22 DEF PostEvent
<1>23. ASSUME NEW s \in Sessions, GetIdle(s) PROVE Joining'
  BY <1>0, <1>23 DEF GetIdle
<1>24. CASE UNCHANGED vars
  BY <1>0, <1>24 DEF vars
<1> HIDE NamesAssumption
    DEF Working, LoggingIn, Sessions, At, RunTo, YieldTo, threadVars, sessionVars,
        writerVars, queueVars, mgrVars, Joining, Live
<1> QED
  BY <1>1, <1>2, <1>3, <1>4, <1>5, <1>6, <1>7, <1>8, <1>9, <1>10, <1>11, <1>12,
     <1>13, <1>14, <1>15, <1>16, <1>17, <1>18, <1>19, <1>20, <1>21, <1>22, <1>23, <1>24
  DEF Next, Serve, ManagerStep

(* Only the second to join closes the connection under a writer, and only  *)
(* with the manager as one of the two: the writer has then been signalled, *)
(* will find that the state is not ACTIVE, and end without a write.        *)
LEMMA WillEndNext ==
    ASSUME ~Overlap, ~SlowClients
    PROVE  TypeInv /\ OneInv /\ WriterInv /\ [Next]_vars => WillEnd'
<1> SUFFICES ASSUME TypeInv, OneInv, WriterInv, [Next]_vars PROVE WillEnd'
  OBVIOUS
<1> USE NamesAssumption
    DEF Working, LoggingIn, Threads, Sessions, At, RunTo, YieldTo, threadVars,
        sessionVars, writerVars, queueVars, mgrVars, WillEnd, Live
<1>0. /\ TypeOK
      /\ WillEnd
      /\ TheWriter
      /\ Closing
      /\ Joining
      /\ Connected
      /\ Created
      /\ NeverSlow
      /\ ~SlowClients
      /\ \A t, u \in Conns : pc[t] \notin {"start", "closed"} /\ pc[u] \notin {"start", "closed"} => t = u
      /\ \A x \in Threads : pc[x] \in Working => sess[x] \in Sessions
      /\ \A t \in Conns : LoggingIn(t) => wpc[t] = "none"
      /\ \A w \in Conns : wpc[w] # "none" => sess[w] \in Sessions
      /\ pc \in [Threads -> Labels]
      /\ sess \in [Threads -> Sessions \cup {None}]
      /\ joining \in [Threads -> Conns \cup {None}]
      /\ state \in [Sessions -> States]
      /\ nfd \in [Sessions -> Conns \cup {None}]
      /\ writeThread \in [Sessions -> Conns \cup {None}]
      /\ waiters \in [Sessions -> Seq(Conns)]
      /\ wpc \in [Conns -> {"none", "loop", "writing", "nap", "ended"}]
  BY DEF TypeInv, TypeOK, SessKnown, OneInv, WriterInv, Serial, Busy
<1>1. ASSUME NEW t \in Conns, NEW type \in ClientTypes, ReadLogin(t, type) PROVE WillEnd'
  BY <1>0, <1>1 DEF ReadLogin, FindSession, Found
<1>2. ASSUME NEW t \in Conns, DbAnswer(t) PROVE WillEnd'
  BY <1>0, <1>2 DEF DbAnswer
<1>3. ASSUME NEW t \in Conns, Create(t) PROVE WillEnd'
  <2>1. \A other \in Sessions : waiters'[other] \in {<<>>, waiters[other]}
    BY <1>0, <1>3, SignalledQueue DEF Create
  <2> QED
    BY <1>0, <1>3, <2>1 DEF Create, StartWriter
<1>4. ASSUME NEW t \in Conns, Resume(t) PROVE WillEnd'
  BY <1>0, <1>4 DEF Resume, Resumable, Disconnected
<1>5. ASSUME NEW t \in Conns, WaitReader(t) PROVE WillEnd'
  BY <1>0, <1>5 DEF WaitReader
<1>6. ASSUME NEW t \in Conns, Resumed(t) PROVE WillEnd'
  <2>1. \A other \in Sessions : waiters'[other] \in {<<>>, waiters[other]}
    BY <1>0, <1>6, SignalledQueue DEF Resumed
  <2> QED
    BY <1>0, <1>6, <2>1 DEF Resumed, StartWriter, NewConnection
<1>7. ASSUME NEW t \in Conns, Replace(t) PROVE WillEnd'
  <2>1. \A other \in Sessions : waiters'[other] \in {<<>>, waiters[other]}
    BY <1>0, <1>7, SignalledQueue DEF Replace, HandleShutdown, AddResponse
  <2> QED
    BY <1>0, <1>7, <2>1 DEF Replace, HandleShutdown
<1>8. ASSUME NEW t \in Conns, Replaced(t) PROVE WillEnd'
  BY <1>0, <1>8 DEF Replaced
<1>9. ASSUME NEW t \in Conns, LoopTest(t) PROVE WillEnd'
  BY <1>0, <1>9 DEF LoopTest
<1>10. ASSUME NEW t \in Conns, NEW kind \in Requests, HandleRequest(t, kind) PROVE WillEnd'
  <2>1. \A other \in Sessions : waiters'[other] \in {<<>>, waiters[other]}
    BY <1>0, <1>10, SignalledQueue DEF HandleRequest, AddResponse
  <2> QED
    BY <1>0, <1>10, <2>1 DEF HandleRequest
<1>11. ASSUME NEW t \in Conns, Disconnect(t) PROVE WillEnd'
  BY <1>0, <1>11 DEF Disconnect, Disconnected
<1>12. ASSUME NEW t \in Conns, LeaveAndDelete(t) PROVE WillEnd'
  <2>1. \A other \in Sessions : waiters'[other] \in {<<>>, waiters[other]}
    BY <1>0, <1>12, SignalledQueue DEF LeaveAndDelete, HandleShutdown, AddResponse
  <2> QED
    BY <1>0, <1>12, <2>1 DEF LeaveAndDelete, HandleShutdown
<1>13. ASSUME NEW t \in Conns, Leave(t) PROVE WillEnd'
  BY <1>0, <1>13 DEF Leave
<1>14. ASSUME NEW t \in Conns, Deleted(t) PROVE WillEnd'
  BY <1>0, <1>14 DEF Deleted
<1>15. ASSUME NEW x \in Threads, CloseIO(x) PROVE WillEnd'
  <2>1. PICK s : s = sess[x]
    OBVIOUS
  <2>2. /\ pc[x] = "closeIO" /\ s \in Sessions /\ state[s] # "ACTIVE"
        /\ waiters' = Signalled(IF writeThread[s] = None THEN {} ELSE {s})
        /\ UNCHANGED <<sess, state, wpc>>
        /\ \/ nfd' = nfd
           \/ /\ nfd' = [nfd EXCEPT ![s] = None]
              /\ writeThread[s] = None \/ JoinFails(writeThread[s])
    BY <1>0, <1>15, <2>1 DEF CloseIO, Closing, Closes
  <2>3. \A r \in Sessions : waiters'[r] \in {<<>>, waiters[r]}
    BY <1>0, <2>2, SignalledQueue
  <2>4. CASE nfd' = nfd
    BY <1>0, <2>2, <2>3, <2>4
  <2>5. CASE /\ nfd' = [nfd EXCEPT ![s] = None]
             /\ writeThread[s] = None \/ JoinFails(writeThread[s])
    <3>1. ASSUME NEW w \in Conns, Live(w), sess[w] = s
          PROVE  wpc[w] = "loop" /\ waiters'[s] = <<>>
      <4>1. w = writeThread[s] /\ w # None
        BY <1>0, <3>1 DEF TheWriter
      <4>2. PICK y \in Threads : joining[y] = w
        BY <2>5, <4>1 DEF JoinFails
      <4>3. pc[y] = "join" /\ sess[y] = s
        BY <1>0, <3>1, <4>1, <4>2 DEF Joining
      <4>4. Manager \in {x, y}
        <5> SUFFICES ASSUME x \in Conns, y \in Conns PROVE FALSE
          BY <4>2
        <5>1. pc[x] = "closeIO"
          BY <2>2
        <5>2. x = y
          BY <1>0, <4>3, <5>1
        <5> QED
          BY <4>3, <5>1, <5>2
      <4>5. wpc[w] # "nap"
        BY <1>0, <2>1, <2>2, <3>1, <4>2, <4>3, <4>4 DEF Closing, Closes
      <4>6. waiters' = Signalled({s})
        BY <2>2, <4>1
      <4>7. waiters'[s] = <<>>
        BY <1>0, <2>2, <4>6, SignalledQueue
      <4> QED
        BY <1>0, <3>1, <4>5, <4>7
    <3> SUFFICES ASSUME NEW w \in Conns, Live(w)', nfd'[sess'[w]] = None
                 PROVE  wpc'[w] = "loop" /\ waiters'[sess'[w]] = <<>> /\ state'[sess'[w]] # "ACTIVE"
      OBVIOUS
    <3>2. Live(w) /\ sess' = sess /\ state' = state /\ wpc' = wpc
      BY <2>2
    <3>3. CASE sess[w] = s
      BY <2>2, <3>1, <3>2, <3>3
    <3>4. CASE sess[w] # s
      <4>1. sess[w] \in Sessions /\ nfd[sess[w]] = None
        BY <1>0, <2>5, <3>2, <3>4
      <4> QED
        BY <1>0, <2>3, <3>2, <4>1
    <3> QED
      BY <3>3, <3>4
  <2> QED
    BY <2>2, <2>4, <2>5
<1>16. ASSUME NEW x \in Threads, Joined(x) PROVE WillEnd'
  BY <1>0, <1>16 DEF Joined, Joining
<1>17. ASSUME NEW w \in Conns, WriterStep(w) PROVE WillEnd'
  BY <1>0, <1>17 DEF WriterStep, WriterEnds, WriterWaits, WriterTakes, Written, WriterRuns, CanWrite, NeverSlow
<1>18. CASE Purge
  BY <1>0, <1>18 DEF Purge, Found
<1>19. ASSUME NEW s \in Sessions, Expire(s) PROVE WillEnd'
  <2>1. \A other \in Sessions : waiters'[other] \in {<<>>, waiters[other]}
    BY <1>0, <1>19, SignalledQueue DEF Expire, HandleShutdown, AddResponse
  <2> QED
    BY <1>0, <1>19, <2>1 DEF Expire, HandleShutdown
<1>20. CASE ScanDone
  BY <1>0, <1>20 DEF ScanDone
<1>21. CASE Poll
  BY <1>0, <1>21 DEF Poll
<1>22. ASSUME NEW s \in Sessions, PostEvent(s) PROVE WillEnd'
  <2>1. \A other \in Sessions : waiters'[other] \in {<<>>, waiters[other]}
    BY <1>0, <1>22, SignalledQueue DEF PostEvent, AddResponse
  <2> QED
    BY <1>0, <1>22, <2>1 DEF PostEvent
<1>23. ASSUME NEW s \in Sessions, GetIdle(s) PROVE WillEnd'
  BY <1>0, <1>23 DEF GetIdle
<1>24. CASE UNCHANGED vars
  BY <1>0, <1>24 DEF vars
<1> HIDE NamesAssumption
    DEF Working, LoggingIn, Sessions, At, RunTo, YieldTo, threadVars, sessionVars,
        writerVars, queueVars, mgrVars, WillEnd, Live
<1> QED
  BY <1>1, <1>2, <1>3, <1>4, <1>5, <1>6, <1>7, <1>8, <1>9, <1>10, <1>11, <1>12,
     <1>13, <1>14, <1>15, <1>16, <1>17, <1>18, <1>19, <1>20, <1>21, <1>22, <1>23, <1>24
  DEF Next, Serve, ManagerStep

(* A thread whose login is still being answered finds no connection in its *)
(* session: it would be one that is served, by another thread.             *)
LEMMA LoginUnserved ==
    ASSUME TypeOK, Serial, Connected, NEW t \in Conns, sess[t] # None,
           pc[t] \in {"db", "authenticated", "resumed"}
    PROVE  nfd[sess[t]] = None
<1> SUFFICES ASSUME NEW u \in Conns, nfd[sess[t]] = u PROVE FALSE
  BY NamesAssumption DEF TypeOK, Threads, Sessions
<1>1. sess[t] \in Sessions /\ u # None
  BY NamesAssumption DEF TypeOK, Threads, Sessions
<1>2. Serving(u)
  BY <1>1 DEF Connected
<1>3. u = t
  BY <1>2 DEF Serving, Closes, Serial, Busy
<1> QED
  BY <1>2, <1>3 DEF Serving, Closes

(* Before the answer from the database lets a login go on, all ready       *)
(* threads have run: writers that are to end have ended, joins are over.   *)
LEMMA AllEndedNext ==
    ASSUME ~Overlap, ~SlowClients
    PROVE  TypeInv /\ OneInv /\ WriterInv /\ [Next]_vars => AllEnded'
<1> SUFFICES ASSUME TypeInv, OneInv, WriterInv, [Next]_vars PROVE AllEnded'
  OBVIOUS
<1> USE NamesAssumption
    DEF Working, LoggingIn, Threads, Sessions, At, RunTo, YieldTo, threadVars,
        sessionVars, writerVars, queueVars, mgrVars, AllEnded, Through, Live
<1>0. /\ ~Overlap
      /\ TypeOK
      /\ Serial
      /\ AllEnded
      /\ WillEnd
      /\ Closing
      /\ Joining
      /\ Connected
      /\ Created
      /\ NeverSlow
      /\ ~SlowClients
      /\ \A t, u \in Conns : pc[t] \notin {"start", "closed"} /\ pc[u] \notin {"start", "closed"} => t = u
      /\ \A x \in Threads : pc[x] \in Working => sess[x] \in Sessions
      /\ \A t \in Conns : LoggingIn(t) => wpc[t] = "none"
      /\ \A w \in Conns : wpc[w] # "none" => sess[w] \in Sessions
      /\ pc \in [Threads -> Labels]
      /\ sess \in [Threads -> Sessions \cup {None}]
      /\ then \in [Threads -> {"resumed", "replaced", "left", "deleted", "closed", "scan"}]
      /\ joining \in [Threads -> Conns \cup {None}]
      /\ nfd \in [Sessions -> Conns \cup {None}]
      /\ waiters \in [Sessions -> Seq(Conns)]
      /\ wpc \in [Conns -> {"none", "loop", "writing", "nap", "ended"}]
  BY DEF TypeInv, TypeOK, SessKnown, OneInv, WriterInv, Serial, Busy
<1>1. ASSUME NEW t \in Conns, NEW type \in ClientTypes, ReadLogin(t, type) PROVE AllEnded'
  BY <1>0, <1>1 DEF ReadLogin, FindSession, Found
<1>2. ASSUME NEW t \in Conns, DbAnswer(t) PROVE AllEnded'
  <2>1. /\ UNCHANGED <<sess, wpc>>
        /\ \A u \in Conns : Through(u)' => Through(u)
        /\ \A x \in Threads : pc'[x] = "join" => pc[x] = "join"
    BY <1>0, <1>2 DEF DbAnswer
  <2> QED
    BY <1>0, <2>1
<1>3. ASSUME NEW t \in Conns, Create(t) PROVE AllEnded'
  BY <1>0, <1>3 DEF Create, StartWriter
<1>4. ASSUME NEW t \in Conns, Resume(t) PROVE AllEnded'
  <2>1. /\ UNCHANGED <<sess, wpc>>
        /\ \A u \in Conns : Through(u)' => Through(u)
        /\ \A x \in Threads : pc'[x] = "join" => pc[x] = "join"
    BY <1>0, <1>4 DEF Resume
  <2> QED
    BY <1>0, <2>1
<1>5. ASSUME NEW t \in Conns, WaitReader(t) PROVE AllEnded'
  BY <1>0, <1>5 DEF WaitReader, Connected
<1>6. ASSUME NEW t \in Conns, Resumed(t) PROVE AllEnded'
  BY <1>0, <1>6 DEF Resumed, NewConnection, StartWriter
<1>7. ASSUME NEW t \in Conns, Replace(t) PROVE AllEnded'
  BY <1>0, <1>7 DEF Replace, HandleShutdown
<1>8. ASSUME NEW t \in Conns, Replaced(t) PROVE AllEnded'
  BY <1>0, <1>8 DEF Replaced
<1>9. ASSUME NEW t \in Conns, LoopTest(t) PROVE AllEnded'
  <2>1. /\ UNCHANGED <<sess, wpc>>
        /\ \A u \in Conns : Through(u)' => Through(u)
        /\ \A x \in Threads : pc'[x] = "join" => pc[x] = "join"
    BY <1>0, <1>9 DEF LoopTest
  <2> QED
    BY <1>0, <2>1
<1>10. ASSUME NEW t \in Conns, NEW kind \in Requests, HandleRequest(t, kind) PROVE AllEnded'
  BY <1>0, <1>10 DEF HandleRequest
<1>11. ASSUME NEW t \in Conns, Disconnect(t) PROVE AllEnded'
  BY <1>0, <1>11 DEF Disconnect, Disconnected
<1>12. ASSUME NEW t \in Conns, LeaveAndDelete(t) PROVE AllEnded'
  BY <1>0, <1>12 DEF LeaveAndDelete, HandleShutdown
<1>13. ASSUME NEW t \in Conns, Leave(t) PROVE AllEnded'
  BY <1>0, <1>13 DEF Leave
<1>14. ASSUME NEW t \in Conns, Deleted(t) PROVE AllEnded'
  BY <1>0, <1>14 DEF Deleted
<1>15. ASSUME NEW x \in Threads, CloseIO(x) PROVE AllEnded'
  <2>1. /\ pc[x] = "closeIO" /\ sess[x] \in Sessions
        /\ UNCHANGED <<sess, guest, wpc>>
        /\ pc' \in {[pc EXCEPT ![x] = then[x]], [pc EXCEPT ![x] = "join"]}
        /\ woken' = woken \ {x}
    BY <1>0, <1>15 DEF CloseIO
  <2>2. CASE x = Manager
    <3>1. nfd[sess[x]] # None
      BY <1>0, <2>1, <2>2 DEF Closing
    <3>2. \A t \in Conns : Through(t) => sess[t] # sess[x]
      BY <1>0, <2>1, <3>1, LoginUnserved
    <3> QED
      BY <1>0, <2>1, <2>2, <3>2
  <2>3. CASE x \in Conns
    <3>1. then[x] \in {"left", "deleted"}
      BY <1>0, <2>1, <2>3 DEF Connected, Closes
    <3> QED
      BY <1>0, <2>1, <2>3, <3>1
  <2> QED
    BY <2>2, <2>3
<1>16. ASSUME NEW x \in Threads, Joined(x) PROVE AllEnded'
  <2>1. UNCHANGED <<sess, guest, wpc>> /\ woken' = woken \ {x}
    BY <1>16 DEF Joined
  <2>2. pc[x] = "join" /\ pc' = [pc EXCEPT ![x] = then[x]]
    BY <1>16 DEF Joined
  <2>3. x = Manager \/ then[x] \in {"left", "deleted"}
    BY <1>0, <2>2 DEF Connected, Closes
  <2>4. /\ \A u \in Conns : Through(u)' => Through(u)
        /\ \A y \in Threads : pc'[y] = "join" => pc[y] = "join"
    BY <1>0, <2>1, <2>2, <2>3
  <2>5. AllEnded
    BY <1>0
  <2> QED
    BY <2>1, <2>4, <2>5
<1>17. ASSUME NEW w \in Conns, WriterStep(w) PROVE AllEnded'
  BY <1>0, <1>17 DEF WriterStep, WriterEnds, WriterWaits, WriterTakes, Written, WriterRuns, CanWrite, NeverSlow
<1>18. CASE Purge
  BY <1>0, <1>18 DEF Purge, Found
<1>19. ASSUME NEW s \in Sessions, Expire(s) PROVE AllEnded'
  BY <1>0, <1>19 DEF Expire, HandleShutdown
<1>20. CASE ScanDone
  BY <1>0, <1>20 DEF ScanDone
<1>21. CASE Poll
  <2> SUFFICES ASSUME NEW t \in Conns, Through(t)', sess[t] # None
               PROVE  /\ \A w \in Conns : Live(w) => sess[w] # sess[t]
                      /\ \A x \in Threads : pc[x] = "join" => sess[x] # sess[t]
    BY <1>21 DEF Poll
  <2>1. ~Ready /\ UNCHANGED <<pc, sess, guest, wpc>>
    BY <1>21 DEF Poll
  <2>2. CASE Through(t)
    BY <1>0, <2>2
  <2>3. CASE ~Through(t)
    <3>1. pc[t] = "db" /\ sess[t] \in Sessions
      BY <1>0, <2>1, <2>3
    <3>2. nfd[sess[t]] = None
      BY <1>0, <3>1, LoginUnserved
    <3>3. ASSUME NEW w \in Conns, Live(w), sess[w] = sess[t] PROVE FALSE
      <4>1. wpc[w] = "loop" /\ waiters[sess[w]] = <<>>
        BY <1>0, <3>2, <3>3 DEF WillEnd
      <4>2. CanWrite(w)
        BY <4>1 DEF CanWrite
      <4> QED
        BY <2>1, <4>1, <4>2 DEF Ready
    <3>4. ASSUME NEW x \in Threads, pc[x] = "join", sess[x] = sess[t] PROVE FALSE
      <4>1. joining[x] \in Conns /\ sess[joining[x]] = sess[t] /\ wpc[joining[x]] # "none"
        BY <1>0, <3>4 DEF Joining
      <4>2. wpc[joining[x]] # "ended"
        BY <2>1, <3>4 DEF Ready
      <4>3. Live(joining[x])
        BY <1>0, <4>1, <4>2 DEF NeverSlow
      <4> QED
        BY <3>3, <4>1, <4>3
    <3> QED
      BY <3>3, <3>4
  <2> QED
    BY <2>2, <2>3
<1>22. ASSUME NEW s \in Sessions, PostEvent(s) PROVE AllEnded'
  BY <1>0, <1>22 DEF PostEvent
<1>23. ASSUME NEW s \in Sessions, GetIdle(s) PROVE AllEnded'
  BY <1>0, <1>23 DEF GetIdle
<1>24. CASE UNCHANGED vars
  BY <1>0, <1>24 DEF vars
<1> HIDE NamesAssumption
    DEF Working, LoggingIn, Sessions, At, RunTo, YieldTo, threadVars, sessionVars,
        writerVars, queueVars, mgrVars, AllEnded, Through, Live
<1> QED
  BY <1>1, <1>2, <1>3, <1>4, <1>5, <1>6, <1>7, <1>8, <1>9, <1>10, <1>11, <1>12,
     <1>13, <1>14, <1>15, <1>16, <1>17, <1>18, <1>19, <1>20, <1>21, <1>22, <1>23, <1>24
  DEF Next, Serve, ManagerStep

LEMMA InitWriter == Init => WriterInv /\ OneInv
<1>1. Init => WriterInv
  BY NamesAssumption
  DEF Init, WriterInv, NeverSlow, Created, Connected, TheWriter, Closing, Joining, WillEnd,
      Awake, AllEnded, NoGuestResumes, Live, Closes, Serving, Through, Threads, Sessions
<1>2. Init => OneInv
  BY NamesAssumption DEF Init, OneInv, OneSession, Serial, Mine, Busy, Found, Threads, Sessions
<1> QED
  BY <1>1, <1>2

LEMMA WriterInvNext ==
    ASSUME ~Overlap, ~SlowClients
    PROVE  TypeInv /\ OneInv /\ WriterInv /\ [Next]_vars => WriterInv'
  BY KnownNext, ConnectedNext, TheWriterNext, ClosingNext, JoiningNext, WillEndNext, AllEndedNext
  DEF WriterInv

(* A session has one writer (resumeConnection, hoxSession.cpp:586-648)     *)
(* although closeIO gives up waiting for the old one when the session      *)
(* manager already waits (manageSessions, hoxSessionMgr.cpp:147-190).  It  *)
(* takes overlapping logins or a client that does not read to break it.    *)
THEOREM OneWriterCorrect ==
    ASSUME ~Overlap, ~SlowClients
    PROVE  Spec => []OneWriter
<1>1. Init => WriterInv /\ OneInv
  BY InitWriter
<1>2. TypeInv /\ OneInv /\ [Next]_vars => OneInv'
  BY OneInvNext
<1>3. TypeInv /\ OneInv /\ WriterInv /\ [Next]_vars => WriterInv'
  BY WriterInvNext
<1>4. TypeInv /\ WriterInv => OneWriter
  BY DEF WriterInv, TheWriter, NeverSlow, Live, OneWriter
<1> QED
  BY <1>1, <1>2, <1>3, <1>4, TypeInvariant, PTL DEF Spec

-----------------------------------------------------------------------------
(* Nobody sleeps through his signal.  With one writer a session, _writeCond*)
(* has one waiter at most, so that each st_cond_signal wakes him.          *)

(* A writer waits for the condition only when there is nothing to write    *)
(* (handleWrite and addResponse, hoxSession.cpp:640-680).                  *)
NoLostWakeup == \A s \in Sessions : pending[s] => waiters[s] = <<>>

(* What JoinsEnd rests on: the write thread that closeIO waits for has     *)
(* ended, or has been woken and ends when it runs (hoxSession.cpp:700-719).*)
JoinsCanEnd ==
    \A x \in Threads : pc[x] = "join" =>
        \/ wpc[joining[x]] = "ended"
        \/ CanWrite(joining[x]) /\ state[sess[joining[x]]] # "ACTIVE"

JoinSignalled == \A x \in Threads : pc[x] = "join" => waiters[sess[x]] = <<>>
WakeInv == NoLostWakeup /\ JoinSignalled

(* A step that queues no writer, and no event for a writer who waits.      *)
LEMMA WakeKept ==
    ASSUME WakeInv,
           \A x \in Threads : pc'[x] = "join"
                => /\ sess'[x] \in Sessions
                   /\ \/ pc[x] = "join" /\ sess'[x] = sess[x]
                      \/ waiters'[sess'[x]] = <<>>,
           \A s \in Sessions : waiters[s] = <<>> => waiters'[s] = <<>>,
           \A s \in Sessions : pending'[s] => pending[s] \/ waiters'[s] = <<>>
    PROVE  WakeInv'
<1>1. NoLostWakeup'
  BY DEF WakeInv, NoLostWakeup
<1>2. JoinSignalled'
  BY DEF WakeInv, JoinSignalled
<1> QED
  BY <1>1, <1>2 DEF WakeInv

LEMMA WakeNext ==
    TypeInv /\ WriterInv /\ WakeInv /\ [Next]_vars => WakeInv'
<1> SUFFICES ASSUME TypeInv, WriterInv, WakeInv, [Next]_vars PROVE WakeInv'
  OBVIOUS
<1> USE NamesAssumption DEF Threads, Sessions, At, RunTo, YieldTo
<1>0. /\ TypeOK
      /\ TheWriter
      /\ NeverSlow
      /\ Closing
      /\ \A x \in Threads : pc[x] \in Working => sess[x] \in Sessions
      /\ \A w \in Conns : wpc[w] # "none" => sess[w] \in Sessions
      /\ pc \in [Threads -> Labels]
      /\ sess \in [Threads -> Sessions \cup {None}]
      /\ then \in [Threads -> {"resumed", "replaced", "left", "deleted", "closed", "scan"}]
      /\ pending \in [Sessions -> BOOLEAN]
      /\ waiters \in [Sessions -> Seq(Conns)]
  BY DEF TypeInv, TypeOK, SessKnown, WriterInv
<1>1. \A x \in Threads : pc[x] = "join" => sess[x] \in Sessions
  BY <1>0 DEF Working
(* The steps that leave the queues alone.                                  *)
<1>2. ASSUME UNCHANGED queueVars,
             \A x \in Threads : pc'[x] = "join" => pc[x] = "join" /\ sess'[x] = sess[x]
      PROVE  WakeInv'
  BY <1>1, <1>2, WakeKept DEF queueVars
<1>3. ASSUME NEW t \in Conns,
             \/ \E type \in ClientTypes : ReadLogin(t, type)
             \/ DbAnswer(t) \/ Resume(t) \/ WaitReader(t) \/ Replaced(t)
      PROVE  WakeInv'
  <2>1. UNCHANGED queueVars
    BY <1>3 DEF ReadLogin, DbAnswer, Resume, WaitReader, Replaced
  <2>2. \A x \in Threads : pc'[x] = "join" => pc[x] = "join" /\ sess'[x] = sess[x]
    BY <1>0, <1>3 DEF ReadLogin, DbAnswer, Resume, WaitReader, Replaced
  <2> QED
    BY <1>2, <2>1, <2>2
<1>4. ASSUME NEW t \in Conns, LoopTest(t) \/ Disconnect(t) \/ Leave(t) \/ Deleted(t)
      PROVE  WakeInv'
  <2>1. UNCHANGED queueVars
    BY <1>4 DEF LoopTest, Disconnect, Leave, Deleted
  <2>2. \A x \in Threads : pc'[x] = "join" => pc[x] = "join" /\ sess'[x] = sess[x]
    BY <1>0, <1>4 DEF LoopTest, Disconnect, Leave, Deleted
  <2> QED
    BY <1>2, <2>1, <2>2
<1>5. ASSUME NEW x \in Threads, Joined(x) PROVE WakeInv'
  <2>1. UNCHANGED queueVars /\ sess' = sess
    BY <1>5 DEF Joined
  <2>2. \A y \in Threads : pc'[y] = "join" => pc[y] = "join"
    BY <1>0, <1>5 DEF Joined
  <2> QED
    BY <1>2, <2>1, <2>2
<1>6. CASE Purge \/ ScanDone \/ Poll \/ UNCHANGED vars \/ \E s \in Sessions : GetIdle(s)
  <2>1. UNCHANGED queueVars
    BY <1>6 DEF Purge, ScanDone, Poll, GetIdle, vars
  <2>2. \A x \in Threads : pc'[x] = "join" => pc[x] = "join" /\ sess'[x] = sess[x]
    BY <1>0, <1>6 DEF Purge, ScanDone, Poll, GetIdle, vars, threadVars
  <2> QED
    BY <1>2, <2>1, <2>2
<1>7. ASSUME NEW w \in Conns, WriterEnds(w) \/ Written(w) PROVE WakeInv'
  <2>1. UNCHANGED <<queueVars, pc, sess>>
    BY <1>7 DEF WriterEnds, Written, threadVars
  <2> QED
    BY <1>2, <2>1
(* Events and signals.                                                     *)
<1>8. ASSUME NEW S, AddResponse(S),
             \A x \in Threads : pc'[x] = "join" => pc[x] = "join" /\ sess'[x] = sess[x]
      PROVE  WakeInv'
  <2>1. \A s \in Sessions : waiters'[s] = IF s \in S THEN <<>> ELSE waiters[s]
    BY <1>0, <1>8, SignalledQueue DEF AddResponse
  <2>2. \A s \in Sessions : pending'[s] => pending[s] \/ s \in S
    BY <1>8 DEF AddResponse
  <2> QED
    BY <1>1, <1>8, <2>1, <2>2, WakeKept
<1>9. ASSUME NEW x \in Threads, NEW s, NEW l \in {"replaced", "deleted", "scan"},
             HandleShutdown(x, s, l),
             \/ sess' = sess
             \/ pc[x] # "join" /\ \A y \in Threads \ {x} : sess'[y] = sess[y]
      PROVE  WakeInv'
  <2>1. AddResponse(listed \ {s})
    BY <1>9 DEF HandleShutdown
  <2>2. pc' \in {[pc EXCEPT ![x] = "closeIO"], [pc EXCEPT ![x] = l]}
    BY <1>9 DEF HandleShutdown
  <2>3. \A y \in Threads : pc'[y] = "join" => pc[y] = "join" /\ sess'[y] = sess[y]
    BY <1>0, <1>9, <2>2
  <2> QED
    BY <1>8, <2>1, <2>3
<1>10. ASSUME NEW t \in Conns, Replace(t) \/ LeaveAndDelete(t) PROVE WakeInv'
  BY <1>9, <1>10 DEF Replace, LeaveAndDelete
<1>11. ASSUME NEW s \in Sessions, Expire(s) PROVE WakeInv'
  <2>1. pc[Manager] # "join" /\ \A y \in Threads \ {Manager} : sess'[y] = sess[y]
    BY <1>0, <1>11 DEF Expire
  <2> QED
    BY <1>9, <1>11, <2>1 DEF Expire
<1>12. ASSUME NEW t \in Conns, NEW kind \in Requests, HandleRequest(t, kind) PROVE WakeInv'
  <2>1. \A x \in Threads : pc'[x] = "join" => pc[x] = "join" /\ sess'[x] = sess[x]
    BY <1>0, <1>12 DEF HandleRequest
  <2>2. UNCHANGED queueVars \/ AddResponse({sess[t]}) \/ AddResponse({sess[t]} \cap listed)
    BY <1>12 DEF HandleRequest
  <2> QED
    BY <1>2, <1>8, <2>1, <2>2
<1>13. ASSUME NEW s \in Sessions, PostEvent(s) PROVE WakeInv'
  <2>1. AddResponse({s}) /\ UNCHANGED <<pc, sess>>
    BY <1>13 DEF PostEvent, threadVars
  <2> QED
    BY <1>8, <2>1
<1>14. ASSUME NEW t \in Conns, Create(t) PROVE WakeInv'
  <2>1. \A s \in Sessions : waiters'[s] = IF s \in listed THEN <<>> ELSE waiters[s]
    BY <1>0, <1>14, SignalledQueue DEF Create
  <2>2. waiters[t] = <<>>
    <3>1. pc[t] = "authenticated" /\ wpc[t] = "none"
      BY <1>14 DEF Create, TypeInv, SessKnown, LoggingIn
    <3>2. \A x \in Threads : sess[x] # t
      BY <3>1 DEF WriterInv, Created
    <3> QED
      BY <1>0, <3>2 DEF TheWriter, TypeOK
  <2>3. \A s \in Sessions : pending'[s] => pending[s] \/ s = t \/ s \in listed
    BY <1>14 DEF Create
  <2>4. \A x \in Threads : pc'[x] = "join" => pc[x] = "join" /\ sess'[x] = sess[x]
    BY <1>0, <1>14 DEF Create
  <2> QED
    BY <1>1, <2>1, <2>2, <2>3, <2>4, WakeKept
<1>15. ASSUME NEW t \in Conns, Resumed(t) PROVE WakeInv'
  <2>1. \A s \in Sessions : waiters'[s] = IF s \in listed THEN <<>> ELSE waiters[s]
    BY <1>0, <1>15, SignalledQueue DEF Resumed
  <2>2. \A s \in Sessions : pending'[s] => pending[s] \/ s \in listed
    BY <1>15 DEF Resumed
  <2>3. \A x \in Threads : pc'[x] = "join" => pc[x] = "join" /\ sess'[x] = sess[x]
    BY <1>0, <1>15 DEF Resumed
  <2> QED
    BY <1>1, <2>1, <2>2, <2>3, WakeKept
<1>16. ASSUME NEW x \in Threads, CloseIO(x) PROVE WakeInv'
  <2>1. pc[x] = "closeIO" /\ sess[x] \in Sessions /\ UNCHANGED <<sess, pending>>
    BY <1>0, <1>16 DEF CloseIO, Working
  <2>2. \A s \in Sessions : waiters'[s] \in {<<>>, waiters[s]}
    BY <1>0, <1>16, SignalledQueue DEF CloseIO
  <2>3. CASE pc' = [pc EXCEPT ![x] = then[x]]
    <3>1. \A y \in Threads : pc'[y] = "join" => pc[y] = "join"
      BY <1>0, <2>3
    <3> QED
      BY <1>1, <2>1, <2>2, <3>1, WakeKept
  <2>4. CASE pc' = [pc EXCEPT ![x] = "join"] /\ writeThread[sess[x]] # None
    <3>1. waiters'[sess[x]] = <<>>
      BY <1>0, <1>16, <2>1, <2>4, SignalledQueue DEF CloseIO
    <3>2. \A y \in Threads : pc'[y] = "join" => pc[y] = "join" \/ y = x
      BY <1>0, <2>4
    <3> QED
      BY <1>1, <2>1, <2>2, <3>1, <3>2, WakeKept
  <2> QED
    BY <1>16, <2>3, <2>4 DEF CloseIO
(* Who waits for events waits for his own session, which is ACTIVE.        *)
<1>17. ASSUME NEW w \in Conns, WriterWaits(w) \/ WriterTakes(w) PROVE WakeInv'
  <2>1. /\ state[sess[w]] = "ACTIVE" /\ sess[w] \in Sessions
        /\ UNCHANGED <<pc, sess>>
    BY <1>0, <1>17 DEF WriterWaits, WriterTakes, WriterRuns, CanWrite, threadVars
  <2>2. /\ \A s \in Sessions : s # sess[w] => pending'[s] = pending[s] /\ waiters'[s] = waiters[s]
        /\ pending'[sess[w]] => pending[sess[w]] /\ waiters'[sess[w]] = waiters[sess[w]]
    <3>1. CASE WriterWaits(w)
      BY <1>0, <2>1, <3>1 DEF WriterWaits
    <3>2. CASE WriterTakes(w)
      BY <1>0, <2>1, <3>2 DEF WriterTakes
    <3> QED
      BY <1>17, <3>1, <3>2
  <2>3. \A x \in Threads : pc[x] = "join" => sess[x] # sess[w]
    BY <1>0, <2>1 DEF Closing, Closes
  <2>4. NoLostWakeup'
    BY <2>2 DEF WakeInv, NoLostWakeup
  <2>5. JoinSignalled'
    BY <1>1, <2>1, <2>2, <2>3 DEF WakeInv, JoinSignalled
  <2> QED
    BY <2>4, <2>5 DEF WakeInv
<1> HIDE NamesAssumption DEF Sessions, At, RunTo, YieldTo
<1> QED
  BY <1>3, <1>4, <1>5, <1>6, <1>7, <1>10, <1>11, <1>12, <1>13, <1>14, <1>15, <1>16, <1>17
  DEF Next, Serve, WriterStep, ManagerStep

LEMMA WakeInvariant ==
    ASSUME ~Overlap, ~SlowClients
    PROVE  Spec => [](TypeInv /\ WriterInv /\ WakeInv)
<1>1. Init => WriterInv /\ OneInv
  BY InitWriter
<1>2. Init => WakeInv
  BY NamesAssumption DEF Init, WakeInv, NoLostWakeup, JoinSignalled, Threads
<1>3. TypeInv /\ OneInv /\ [Next]_vars => OneInv'
  BY OneInvNext
<1>4. TypeInv /\ OneInv /\ WriterInv /\ [Next]_vars => WriterInv'
  BY WriterInvNext
<1> QED
  BY <1>1, <1>2, <1>3, <1>4, WakeNext, TypeInvariant, PTL DEF Spec

(* No event stays in the queue of a session whose writer sleeps.           *)
THEOREM NoLostWakeupCorrect ==
    ASSUME ~Overlap, ~SlowClients
    PROVE  Spec => []NoLostWakeup
<1>1. WakeInv => NoLostWakeup
  BY DEF WakeInv
<1> QED
  BY <1>1, WakeInvariant, PTL

(* Nobody waits in closeIO for a write thread that will not end: it was    *)
(* signalled after the state had changed, and no session becomes ACTIVE    *)
(* again while a thread waits for its writer.                              *)
THEOREM JoinsCanEndCorrect ==
    ASSUME ~Overlap, ~SlowClients
    PROVE  Spec => []JoinsCanEnd
<1>1. TypeInv /\ WriterInv /\ WakeInv => JoinsCanEnd
  <2> SUFFICES ASSUME TypeInv, WriterInv, WakeInv, NEW x \in Threads, pc[x] = "join"
               PROVE  \/ wpc[joining[x]] = "ended"
                      \/ CanWrite(joining[x]) /\ state[sess[joining[x]]] # "ACTIVE"
    BY DEF JoinsCanEnd
  <2>1. joining[x] \in Conns /\ sess[joining[x]] = sess[x] /\ wpc[joining[x]] # "none"
    BY DEF WriterInv, Joining
  <2>2. wpc[joining[x]] \in {"loop", "nap", "ended"}
    BY <2>1 DEF WriterInv, NeverSlow, TypeInv, TypeOK
  <2>3. waiters[sess[x]] = <<>> /\ state[sess[x]] # "ACTIVE"
    BY DEF WakeInv, JoinSignalled, WriterInv, Closing, Closes
  <2> QED
    BY <2>1, <2>2, <2>3 DEF CanWrite
<1> QED
  BY <1>1, WakeInvariant, PTL
=============================================================================
