---------------------------- MODULE UaiLinkProofs ----------------------------
(***************************************************************************)
(* Theorems about the link UaiClient holds, for any number of callers: no  *)
(* connection escapes the client, and the read loop reads the link the     *)
(* requests are written to.  The argument is the connect lock: a caller    *)
(* opens a connection only while it holds the lock and the link is closed, *)
(* and no connection is opened while a teardown is under way, which leaves *)
(* the link closed once the read loop has ended.                           *)
(***************************************************************************)
EXTENDS UaiClientProofs

USE CallersAssumption, BoundsAssumption DEF CallersAssumption, BoundsAssumption

Holding == LoginPcs \cup {"opening", "abandoning"}

LockHeld == \A t \in Callers : lock = t <=> pc[t] \in Holding

ClosedWhileWaiting ==
  unload = "closing" \/ (\E t \in Callers : pc[t] \in {"opening", "abandoning",
                                                       "reconnecting"})
  => Link = "closed"

LinkInv == /\ TypeOK /\ LockHeld /\ ClosedWhileWaiting
           /\ NoLeakedConnection /\ ReadLoopOwnsLink

LEMMA NoReadLoop ==
  ASSUME LinkInv, Link # "up"
  PROVE  readLoop = 0
BY DEF LinkInv, ReadLoopOwnsLink, Link

LEMMA AllClosed ==
  ASSUME LinkInv, Link = "closed", NEW c \in Conns
  PROVE  conn[c] \notin {"up", "eof", "broken"}
BY DEF LinkInv, NoLeakedConnection, Link, Conns, TypeOK, ClientType

\* One caller moves, and at most takes or releases the lock.
LEMMA LockStep ==
  ASSUME LinkInv, NEW t \in Callers, NEW next, pc' = [pc EXCEPT ![t] = next],
         lock' = lock \/ (lock \in {t, NoOne} /\ lock' \in {t, NoOne}),
         lock' = t <=> next \in Holding
  PROVE  LockHeld'
BY DEF LinkInv, LockHeld, TypeOK, ClientType, CallersType

LEMMA OpenFailsLink ==
  ASSUME LinkInv, TypeOK', NEW t \in Callers, OpenFails(t)
  PROVE  LinkInv'
<1>1. LockHeld'
  <2>1. pc' = [pc EXCEPT ![t] = "idle"] /\ lock' = NoOne
    BY DEF OpenFails, End
  <2>2. lock = t
    BY DEF OpenFails, LinkInv, LockHeld, Holding, TypeOK, ClientType
  <2> QED
    BY <2>1, <2>2, LockStep DEF Holding, LoginPcs
<1>2. ClosedWhileWaiting'
  BY DEF OpenFails, End, links, LockHeld, Holding, LoginPcs, ClosedWhileWaiting, Link, Conns, LinkInv, TypeOK, ClientType, CallersType, LinksType
<1>3. NoLeakedConnection'
  BY AllClosed DEF OpenFails, End, links, NoLeakedConnection, ClosedWhileWaiting, Link, Conns, LinkInv, TypeOK, ClientType, CallersType, LinksType
<1>4. ReadLoopOwnsLink'
  BY NoReadLoop DEF OpenFails, End, links, ReadLoopOwnsLink, ClosedWhileWaiting, LockHeld, Holding, LoginPcs, Link, Conns, LinkInv, TypeOK, ClientType, CallersType, LinksType
<1> QED
  BY <1>1, <1>2, <1>3, <1>4 DEF LinkInv

LEMMA OpenedLink ==
  ASSUME LinkInv, TypeOK', NEW t \in Callers, Opened(t)
  PROVE  LinkInv'
<1>1. LockHeld'
  BY DEF Opened, Settled, LockHeld, Holding, LoginPcs, LinkInv, TypeOK, ClientType, CallersType
<1>2. ClosedWhileWaiting'
  BY DEF Opened, Settled, LockHeld, Holding, LoginPcs, ClosedWhileWaiting, Link, Conns, LinkInv, TypeOK, ClientType, CallersType, LinksType
<1>3. NoLeakedConnection'
  BY AllClosed DEF Opened, Settled, NoLeakedConnection, ClosedWhileWaiting, Link, Conns, LinkInv, TypeOK, ClientType, CallersType, LinksType
<1>4. ReadLoopOwnsLink'
  BY NoReadLoop DEF Opened, Settled, ReadLoopOwnsLink, ClosedWhileWaiting, LockHeld, Holding, LoginPcs, Link, Conns, LinkInv, TypeOK, ClientType, CallersType, LinksType
<1> QED
  BY <1>1, <1>2, <1>3, <1>4 DEF LinkInv

LEMMA AnswerPromptLink ==
  ASSUME LinkInv, TypeOK', NEW t \in Callers, NEW prompt \in LoginPcs, NEW phases, NEW line,
         NEW next \in LoginPcs, AnswerPrompt(t, prompt, phases, line, next)
  PROVE  LinkInv'
<1>1. LockHeld'
  BY DEF client, AnswerPrompt, LockHeld, Holding, LoginPcs, LinkInv, TypeOK, ClientType, CallersType
<1>2. ClosedWhileWaiting'
  BY DEF client, AnswerPrompt, LockHeld, Holding, LoginPcs, ClosedWhileWaiting, Link, Conns, LinkInv, TypeOK, ClientType, CallersType, LinksType
<1>3. NoLeakedConnection'
  BY AllClosed DEF client, AnswerPrompt, NoLeakedConnection, ClosedWhileWaiting, Link, Conns, LinkInv, TypeOK, ClientType, CallersType, LinksType
<1>4. ReadLoopOwnsLink'
  BY NoReadLoop DEF client, AnswerPrompt, ReadLoopOwnsLink, ClosedWhileWaiting, LockHeld, Holding, LoginPcs, Link, Conns, LinkInv, TypeOK, ClientType, CallersType, LinksType
<1> QED
  BY <1>1, <1>2, <1>3, <1>4 DEF LinkInv

LEMMA LoginFailsLink ==
  ASSUME LinkInv, TypeOK', NEW t \in Callers, LoginFails(t)
  PROVE  LinkInv'
<1>1. LockHeld'
  <2>1. lock = t
    BY DEF LoginFails, LinkInv, LockHeld, Holding
  <2>2. \/ pc' = [pc EXCEPT ![t] = "idle"] /\ lock' = NoOne
        \/ pc' = [pc EXCEPT ![t] = "abandoning"] /\ lock' = lock
    BY DEF LoginFails, End
  <2> QED
    BY <2>1, <2>2, LockStep DEF Holding, LoginPcs
<1>2. ClosedWhileWaiting'
  BY DEF LoginFails, End, ClearLink, CloseLink, LockHeld, Holding, LoginPcs, ClosedWhileWaiting, Link, Conns, LinkInv, TypeOK, ClientType, CallersType, LinksType
<1>3. NoLeakedConnection'
  BY AllClosed, SMTT(30) DEF LoginFails, End, ClearLink, CloseLink, NoLeakedConnection, ClosedWhileWaiting, Link, Conns, LinkInv, TypeOK, ClientType, CallersType, LinksType
<1>4. ReadLoopOwnsLink'
  BY NoReadLoop DEF LoginFails, End, ClearLink, CloseLink, ReadLoopOwnsLink, ClosedWhileWaiting, LockHeld, Holding, LoginPcs, Link, Conns, LinkInv, TypeOK, ClientType, CallersType, LinksType
<1> QED
  BY <1>1, <1>2, <1>3, <1>4 DEF LinkInv

LEMMA AbandonedLink ==
  ASSUME LinkInv, TypeOK', NEW t \in Callers, Abandoned(t)
  PROVE  LinkInv'
<1>1. LockHeld'
  <2>1. pc' = [pc EXCEPT ![t] = "idle"] /\ lock' = NoOne
    BY DEF Abandoned, End
  <2>2. lock = t
    BY DEF Abandoned, LinkInv, LockHeld, Holding, TypeOK, ClientType
  <2> QED
    BY <2>1, <2>2, LockStep DEF Holding, LoginPcs
<1>2. ClosedWhileWaiting'
  BY DEF Abandoned, End, ClearLink, links, LockHeld, Holding, LoginPcs, ClosedWhileWaiting, Link, Conns, LinkInv, TypeOK, ClientType, CallersType, LinksType
<1>3. NoLeakedConnection'
  BY AllClosed DEF Abandoned, End, ClearLink, links, NoLeakedConnection, ClosedWhileWaiting, Link, Conns, LinkInv, TypeOK, ClientType, CallersType, LinksType
<1>4. ReadLoopOwnsLink'
  BY NoReadLoop DEF Abandoned, End, ClearLink, links, ReadLoopOwnsLink, ClosedWhileWaiting, LockHeld, Holding, LoginPcs, Link, Conns, LinkInv, TypeOK, ClientType, CallersType, LinksType
<1> QED
  BY <1>1, <1>2, <1>3, <1>4 DEF LinkInv

LEMMA ReplyLink ==
  ASSUME LinkInv, TypeOK', NEW t \in Callers, Reply(t)
  PROVE  LinkInv'
<1>1. LockHeld'
  BY DEF Reply, End, client, links, LockHeld, Holding, LoginPcs, LinkInv, TypeOK, ClientType, CallersType
<1>2. ClosedWhileWaiting'
  BY DEF Reply, End, client, links, LockHeld, Holding, LoginPcs, ClosedWhileWaiting, Link, Conns, LinkInv, TypeOK, ClientType, CallersType, LinksType
<1>3. NoLeakedConnection'
  BY AllClosed DEF Reply, End, client, links, NoLeakedConnection, ClosedWhileWaiting, Link, Conns, LinkInv, TypeOK, ClientType, CallersType, LinksType
<1>4. ReadLoopOwnsLink'
  BY NoReadLoop DEF Reply, End, client, links, ReadLoopOwnsLink, ClosedWhileWaiting, LockHeld, Holding, LoginPcs, Link, Conns, LinkInv, TypeOK, ClientType, CallersType, LinksType
<1> QED
  BY <1>1, <1>2, <1>3, <1>4 DEF LinkInv

LEMMA TimeoutLink ==
  ASSUME LinkInv, TypeOK', NEW t \in Callers, Timeout(t)
  PROVE  LinkInv'
<1>1. LockHeld'
  BY DEF Timeout, End, links, LockHeld, Holding, LoginPcs, LinkInv, TypeOK, ClientType, CallersType
<1>2. ClosedWhileWaiting'
  BY DEF Timeout, End, links, LockHeld, Holding, LoginPcs, ClosedWhileWaiting, Link, Conns, LinkInv, TypeOK, ClientType, CallersType, LinksType
<1>3. NoLeakedConnection'
  BY AllClosed DEF Timeout, End, links, NoLeakedConnection, ClosedWhileWaiting, Link, Conns, LinkInv, TypeOK, ClientType, CallersType, LinksType
<1>4. ReadLoopOwnsLink'
  BY NoReadLoop DEF Timeout, End, links, ReadLoopOwnsLink, ClosedWhileWaiting, LockHeld, Holding, LoginPcs, Link, Conns, LinkInv, TypeOK, ClientType, CallersType, LinksType
<1> QED
  BY <1>1, <1>2, <1>3, <1>4 DEF LinkInv

LEMMA LinkLostLink ==
  ASSUME LinkInv, TypeOK', NEW t \in Callers, LinkLost(t)
  PROVE  LinkInv'
<1>1. LockHeld'
  <2>1. lock # t
    BY DEF LinkLost, LinkInv, LockHeld, Holding, LoginPcs
  <2>2. \/ pc' = [pc EXCEPT ![t] = "idle"] /\ lock' = lock
        \/ pc' = [pc EXCEPT ![t] = "reconnecting"] /\ lock' = lock
        \/ pc' = [pc EXCEPT ![t] = "stopping"] /\ lock' = lock
        \/ Reconnect(t, lock)
    BY DEF LinkLost, End
  <2> QED
    BY <2>1, <2>2, LockStep DEF Holding, LoginPcs, Reconnect
<1>2. ClosedWhileWaiting'
  BY SMTT(30) DEF LinkLost, End, ClearLink, CloseLink, StopReading, Reconnect, LockHeld, Holding, LoginPcs, ClosedWhileWaiting, Link, Conns, LinkInv, TypeOK, ClientType, CallersType, LinksType
<1>3. NoLeakedConnection'
  <2>1. \/ writer' = writer /\ conn' = conn
        \/ Link = "closed" /\ conn' = conn
        \/ Link # "closed" /\ writer' = writer /\ conn' = [conn EXCEPT ![writer] = "closed"]
    BY DEF LinkLost, CloseLink, StopReading
  <2> QED
    BY <2>1, AllClosed DEF NoLeakedConnection, LinkInv, TypeOK, LinksType
<1>4. ReadLoopOwnsLink'
  BY NoReadLoop, SMTT(30) DEF LinkLost, End, ClearLink, CloseLink, StopReading, Reconnect, ReadLoopOwnsLink, ClosedWhileWaiting, LockHeld, Holding, LoginPcs, Link, Conns, LinkInv, TypeOK, ClientType, CallersType, LinksType
<1> QED
  BY <1>1, <1>2, <1>3, <1>4 DEF LinkInv

LEMMA StoppedLink ==
  ASSUME LinkInv, TypeOK', NEW t \in Callers, Stopped(t)
  PROVE  LinkInv'
<1>1. LockHeld'
  <2>1. lock # t
    BY DEF Stopped, LinkInv, LockHeld, Holding, LoginPcs
  <2> QED
    BY <2>1, LockStep DEF Stopped, Holding, LoginPcs
<1>2. /\ writer' = writer /\ readLoop' = readLoop /\ unload' = unload
      /\ \/ Link = "closed" /\ conn' = conn
         \/ readLoop = 0 /\ conn' = [conn EXCEPT ![writer] = "closed"]
  BY DEF Stopped, CloseLink
<1>3. Link' = "closed"
  BY <1>2 DEF Link, Conns, LinkInv, TypeOK, ClientType, LinksType
<1>4. ClosedWhileWaiting'
  BY <1>3 DEF ClosedWhileWaiting
<1>5. NoLeakedConnection'
  BY <1>2 DEF NoLeakedConnection, LinkInv, TypeOK, LinksType
<1>6. ReadLoopOwnsLink'
  BY <1>2, NoReadLoop DEF ReadLoopOwnsLink
<1> QED
  BY <1>1, <1>4, <1>5, <1>6 DEF LinkInv

LEMMA TornDownLink ==
  ASSUME LinkInv, TypeOK', NEW t \in Callers, TornDown(t)
  PROVE  LinkInv'
<1>1. LockHeld'
  <2>1. lock # t
    BY DEF TornDown, LinkInv, LockHeld, Holding, LoginPcs
  <2> QED
    BY <2>1, LockStep DEF TornDown, Reconnect, Holding, LoginPcs
<1>2. ClosedWhileWaiting'
  BY DEF TornDown, ClearLink, Reconnect, links, LockHeld, Holding, LoginPcs, ClosedWhileWaiting, Link, Conns, LinkInv, TypeOK, ClientType, CallersType, LinksType
<1>3. NoLeakedConnection'
  BY AllClosed DEF TornDown, ClearLink, Reconnect, links, NoLeakedConnection, ClosedWhileWaiting, Link, Conns, LinkInv, TypeOK, ClientType, CallersType, LinksType
<1>4. ReadLoopOwnsLink'
  BY NoReadLoop DEF TornDown, ClearLink, Reconnect, links, ReadLoopOwnsLink, ClosedWhileWaiting, LockHeld, Holding, LoginPcs, Link, Conns, LinkInv, TypeOK, ClientType, CallersType, LinksType
<1> QED
  BY <1>1, <1>2, <1>3, <1>4 DEF LinkInv

LEMMA CancelLink ==
  ASSUME LinkInv, TypeOK', NEW t \in Callers, Cancel(t)
  PROVE  LinkInv'
<1>1. LockHeld'
  <2>1. CASE pc[t] = "stopping"
    BY <2>1 DEF Cancel, callers, LockHeld, LinkInv
  <2>2. CASE pc[t] # "stopping"
    <3>1. pc' = [pc EXCEPT ![t] = "idle"] /\ lock' = IF lock = t THEN NoOne ELSE lock
      BY <2>2 DEF Cancel, End
    <3>2. lock \in Callers \cup {NoOne}
      BY DEF LinkInv, TypeOK, ClientType
    <3> QED
      BY <3>1, <3>2, LockStep DEF Holding, LoginPcs
  <2> QED
    BY <2>1, <2>2
<1>2. /\ pc' \in {pc, [pc EXCEPT ![t] = "idle"]}
      /\ UNCHANGED <<writer, readLoop, conn, unload>>
  BY DEF Cancel, End, links, callers
<1>3. \A u \in Callers : pc'[u] \in {pc[u], "idle"}
  BY <1>2 DEF LinkInv, TypeOK, CallersType
<1>4. ClosedWhileWaiting'
  BY <1>2, <1>3 DEF ClosedWhileWaiting, Link, LinkInv
<1>5. NoLeakedConnection'
  BY <1>2 DEF NoLeakedConnection, LinkInv
<1>6. ReadLoopOwnsLink'
  BY <1>2, <1>3 DEF ReadLoopOwnsLink, LoginPcs, LinkInv
<1> QED
  BY <1>1, <1>4, <1>5, <1>6 DEF LinkInv

LEMMA DisconnectLink ==
  ASSUME LinkInv, TypeOK', Disconnect
  PROVE  LinkInv'
<1>1. LockHeld'
  BY DEF Disconnect, ClearLink, CloseLink, StopReading, LockHeld, Holding, LoginPcs, LinkInv, TypeOK, ClientType, CallersType
<1>2. ClosedWhileWaiting'
  BY DEF Disconnect, ClearLink, CloseLink, StopReading, LockHeld, Holding, LoginPcs, ClosedWhileWaiting, Link, Conns, LinkInv, TypeOK, ClientType, CallersType, LinksType
<1>3. NoLeakedConnection'
  BY AllClosed DEF Disconnect, ClearLink, CloseLink, StopReading, NoLeakedConnection, ClosedWhileWaiting, Link, Conns, LinkInv, TypeOK, ClientType, CallersType, LinksType
<1>4. ReadLoopOwnsLink'
  BY NoReadLoop DEF Disconnect, ClearLink, CloseLink, StopReading, ReadLoopOwnsLink, ClosedWhileWaiting, LockHeld, Holding, LoginPcs, Link, Conns, LinkInv, TypeOK, ClientType, CallersType, LinksType
<1> QED
  BY <1>1, <1>2, <1>3, <1>4 DEF LinkInv

LEMMA DisconnectStoppedLink ==
  ASSUME LinkInv, TypeOK', DisconnectStopped
  PROVE  LinkInv'
<1>1. LockHeld' /\ pc' = pc
  BY DEF DisconnectStopped, callers, LockHeld, LinkInv
<1>2. /\ writer' = writer /\ readLoop' = readLoop
      /\ \/ Link = "closed" /\ conn' = conn
         \/ readLoop = 0 /\ conn' = [conn EXCEPT ![writer] = "closed"]
  BY DEF DisconnectStopped, CloseLink
<1>3. Link' = "closed"
  BY <1>2 DEF Link, Conns, LinkInv, TypeOK, ClientType, LinksType
<1>4. ClosedWhileWaiting'
  BY <1>3 DEF ClosedWhileWaiting
<1>5. NoLeakedConnection'
  BY <1>2 DEF NoLeakedConnection, LinkInv, TypeOK, LinksType
<1>6. ReadLoopOwnsLink'
  BY <1>2, NoReadLoop DEF ReadLoopOwnsLink
<1> QED
  BY <1>1, <1>4, <1>5, <1>6 DEF LinkInv

LEMMA DisconnectedLink ==
  ASSUME LinkInv, TypeOK', Disconnected
  PROVE  LinkInv'
<1>1. LockHeld'
  BY DEF Disconnected, ClearLink, links, LockHeld, Holding, LoginPcs, LinkInv, TypeOK, ClientType, CallersType
<1>2. ClosedWhileWaiting'
  BY DEF Disconnected, ClearLink, links, LockHeld, Holding, LoginPcs, ClosedWhileWaiting, Link, Conns, LinkInv, TypeOK, ClientType, CallersType, LinksType
<1>3. NoLeakedConnection'
  BY AllClosed DEF Disconnected, ClearLink, links, NoLeakedConnection, ClosedWhileWaiting, Link, Conns, LinkInv, TypeOK, ClientType, CallersType, LinksType
<1>4. ReadLoopOwnsLink'
  BY NoReadLoop DEF Disconnected, ClearLink, links, ReadLoopOwnsLink, ClosedWhileWaiting, LockHeld, Holding, LoginPcs, Link, Conns, LinkInv, TypeOK, ClientType, CallersType, LinksType
<1> QED
  BY <1>1, <1>2, <1>3, <1>4 DEF LinkInv

LEMMA DispatchLink ==
  ASSUME LinkInv, TypeOK', NEW c \in Conns, Dispatch(c)
  PROVE  LinkInv'
<1>1. LockHeld'
  BY DEF Dispatch, LockHeld, Holding, LoginPcs, LinkInv, TypeOK, ClientType, CallersType
<1>2. ClosedWhileWaiting'
  BY DEF Dispatch, LockHeld, Holding, LoginPcs, ClosedWhileWaiting, Link, Conns, LinkInv, TypeOK, ClientType, CallersType, LinksType
<1>3. NoLeakedConnection'
  BY AllClosed DEF Dispatch, NoLeakedConnection, ClosedWhileWaiting, Link, Conns, LinkInv, TypeOK, ClientType, CallersType, LinksType
<1>4. ReadLoopOwnsLink'
  BY NoReadLoop DEF Dispatch, ReadLoopOwnsLink, ClosedWhileWaiting, LockHeld, Holding, LoginPcs, Link, Conns, LinkInv, TypeOK, ClientType, CallersType, LinksType
<1> QED
  BY <1>1, <1>2, <1>3, <1>4 DEF LinkInv

LEMMA GatewayReadsUserLink ==
  ASSUME LinkInv, TypeOK', NEW c \in Conns, GatewayReadsUser(c)
  PROVE  LinkInv'
<1>1. LockHeld'
  BY DEF GatewayReadsUser, client, callers, LockHeld, Holding, LoginPcs, LinkInv, TypeOK, ClientType, CallersType
<1>2. ClosedWhileWaiting'
  BY DEF GatewayReadsUser, client, callers, LockHeld, Holding, LoginPcs, ClosedWhileWaiting, Link, Conns, LinkInv, TypeOK, ClientType, CallersType, LinksType
<1>3. NoLeakedConnection'
  BY AllClosed DEF GatewayReadsUser, client, callers, NoLeakedConnection, ClosedWhileWaiting, Link, Conns, LinkInv, TypeOK, ClientType, CallersType, LinksType
<1>4. ReadLoopOwnsLink'
  BY NoReadLoop DEF GatewayReadsUser, client, callers, ReadLoopOwnsLink, ClosedWhileWaiting, LockHeld, Holding, LoginPcs, Link, Conns, LinkInv, TypeOK, ClientType, CallersType, LinksType
<1> QED
  BY <1>1, <1>2, <1>3, <1>4 DEF LinkInv

LEMMA GatewayAcceptsLink ==
  ASSUME LinkInv, TypeOK', NEW c \in Conns, GatewayAccepts(c)
  PROVE  LinkInv'
<1>1. LockHeld'
  BY DEF GatewayAccepts, client, callers, LockHeld, Holding, LoginPcs, LinkInv, TypeOK, ClientType, CallersType
<1>2. ClosedWhileWaiting'
  BY DEF GatewayAccepts, client, callers, LockHeld, Holding, LoginPcs, ClosedWhileWaiting, Link, Conns, LinkInv, TypeOK, ClientType, CallersType, LinksType
<1>3. NoLeakedConnection'
  BY AllClosed DEF GatewayAccepts, client, callers, NoLeakedConnection, ClosedWhileWaiting, Link, Conns, LinkInv, TypeOK, ClientType, CallersType, LinksType
<1>4. ReadLoopOwnsLink'
  BY NoReadLoop DEF GatewayAccepts, client, callers, ReadLoopOwnsLink, ClosedWhileWaiting, LockHeld, Holding, LoginPcs, Link, Conns, LinkInv, TypeOK, ClientType, CallersType, LinksType
<1> QED
  BY <1>1, <1>2, <1>3, <1>4 DEF LinkInv

LEMMA GatewayRunsLink ==
  ASSUME LinkInv, TypeOK', NEW c \in Conns, GatewayRuns(c)
  PROVE  LinkInv'
<1>1. LockHeld'
  BY DEF GatewayRuns, client, callers, LockHeld, Holding, LoginPcs, LinkInv, TypeOK, ClientType, CallersType
<1>2. ClosedWhileWaiting'
  BY DEF GatewayRuns, client, callers, LockHeld, Holding, LoginPcs, ClosedWhileWaiting, Link, Conns, LinkInv, TypeOK, ClientType, CallersType, LinksType
<1>3. NoLeakedConnection'
  BY AllClosed DEF GatewayRuns, client, callers, NoLeakedConnection, ClosedWhileWaiting, Link, Conns, LinkInv, TypeOK, ClientType, CallersType, LinksType
<1>4. ReadLoopOwnsLink'
  BY NoReadLoop DEF GatewayRuns, client, callers, ReadLoopOwnsLink, ClosedWhileWaiting, LockHeld, Holding, LoginPcs, Link, Conns, LinkInv, TypeOK, ClientType, CallersType, LinksType
<1> QED
  BY <1>1, <1>2, <1>3, <1>4 DEF LinkInv

LEMMA GatewayRefusesLink ==
  ASSUME LinkInv, TypeOK', NEW c \in Conns, GatewayRefuses(c)
  PROVE  LinkInv'
<1>1. LockHeld'
  BY DEF GatewayRefuses, HangUp, ReadLoopEnds, LockHeld, Holding, LoginPcs, LinkInv, TypeOK, ClientType, CallersType
<1>2. ClosedWhileWaiting'
  BY DEF GatewayRefuses, HangUp, ReadLoopEnds, LockHeld, Holding, LoginPcs, ClosedWhileWaiting, Link, Conns, LinkInv, TypeOK, ClientType, CallersType, LinksType
<1>3. NoLeakedConnection'
  BY AllClosed DEF GatewayRefuses, HangUp, ReadLoopEnds, NoLeakedConnection, ClosedWhileWaiting, Link, Conns, LinkInv, TypeOK, ClientType, CallersType, LinksType
<1>4. ReadLoopOwnsLink'
  BY NoReadLoop DEF GatewayRefuses, HangUp, ReadLoopEnds, ReadLoopOwnsLink, ClosedWhileWaiting, LockHeld, Holding, LoginPcs, Link, Conns, LinkInv, TypeOK, ClientType, CallersType, LinksType
<1> QED
  BY <1>1, <1>2, <1>3, <1>4 DEF LinkInv

LEMMA GatewayClosesLink ==
  ASSUME LinkInv, TypeOK', NEW c \in Conns, GatewayCloses(c)
  PROVE  LinkInv'
<1>1. LockHeld'
  BY DEF GatewayCloses, HangUp, ReadLoopEnds, LockHeld, Holding, LoginPcs, LinkInv, TypeOK, ClientType, CallersType
<1>2. ClosedWhileWaiting'
  BY DEF GatewayCloses, HangUp, ReadLoopEnds, LockHeld, Holding, LoginPcs, ClosedWhileWaiting, Link, Conns, LinkInv, TypeOK, ClientType, CallersType, LinksType
<1>3. NoLeakedConnection'
  BY AllClosed DEF GatewayCloses, HangUp, ReadLoopEnds, NoLeakedConnection, ClosedWhileWaiting, Link, Conns, LinkInv, TypeOK, ClientType, CallersType, LinksType
<1>4. ReadLoopOwnsLink'
  BY NoReadLoop DEF GatewayCloses, HangUp, ReadLoopEnds, ReadLoopOwnsLink, ClosedWhileWaiting, LockHeld, Holding, LoginPcs, Link, Conns, LinkInv, TypeOK, ClientType, CallersType, LinksType
<1> QED
  BY <1>1, <1>2, <1>3, <1>4 DEF LinkInv

LEMMA ConnectionResetLink ==
  ASSUME LinkInv, TypeOK', NEW c \in Conns, ConnectionReset(c)
  PROVE  LinkInv'
<1>1. LockHeld'
  BY DEF ConnectionReset, ReadLoopEnds, LockHeld, Holding, LoginPcs, LinkInv, TypeOK, ClientType, CallersType
<1>2. ClosedWhileWaiting'
  BY DEF ConnectionReset, ReadLoopEnds, LockHeld, Holding, LoginPcs, ClosedWhileWaiting, Link, Conns, LinkInv, TypeOK, ClientType, CallersType, LinksType
<1>3. NoLeakedConnection'
  BY AllClosed DEF ConnectionReset, ReadLoopEnds, NoLeakedConnection, ClosedWhileWaiting, Link, Conns, LinkInv, TypeOK, ClientType, CallersType, LinksType
<1>4. ReadLoopOwnsLink'
  BY NoReadLoop DEF ConnectionReset, ReadLoopEnds, ReadLoopOwnsLink, ClosedWhileWaiting, LockHeld, Holding, LoginPcs, Link, Conns, LinkInv, TypeOK, ClientType, CallersType, LinksType
<1> QED
  BY <1>1, <1>2, <1>3, <1>4 DEF LinkInv

LEMMA PromptLink ==
  ASSUME LinkInv, TypeOK', NEW t \in Callers, PromptUser(t) \/ PromptPassword(t)
  PROVE  LinkInv'
BY AnswerPromptLink DEF PromptUser, PromptPassword, LoginPcs

\* Sending from outside the login: the caller does not hold the lock, and is
\* left without it or reconnecting.
LEMMA SendLink ==
  ASSUME LinkInv, TypeOK', NEW t \in Callers, NEW n \in 0..MaxCalls,
         Send(t, n, lock), lock # t,
         readLoop' = readLoop, unload' = unload
  PROVE  LinkInv'
<1>1. Link \in {"up", "eof", "broken"} /\ writer \in Conns /\ Link = conn[writer]
  BY OpenLink DEF Send, SendOnLink, SendBreaks, SendGivesUp, LinkInv, TypeOK
<1>2. /\ unload # "closing"
      /\ \A u \in Callers : pc[u] \notin {"opening", "abandoning", "reconnecting"}
  BY <1>1 DEF LinkInv, ClosedWhileWaiting
<1>3. LockHeld'
  <2>1. \/ pc' = [pc EXCEPT ![t] = "reply"] /\ lock' = lock
        \/ pc' = [pc EXCEPT ![t] = "idle"] /\ lock' = lock
        \/ Reconnect(t, lock)
    BY DEF Send, SendOnLink, SendBreaks, SendGivesUp, End
  <2> QED
    BY <2>1, LockStep DEF Reconnect, Holding, LoginPcs
<1>4. CASE SendOnLink(t, n, lock)
  <2>1. writer' = writer /\ pc' = [pc EXCEPT ![t] = "reply"]
    BY <1>4 DEF SendOnLink
  <2>2. conn' = conn \/ (Link = "eof" /\ conn' = [conn EXCEPT ![writer] = "broken"])
    BY <1>1, <1>4 DEF SendOnLink
  <2>3. ClosedWhileWaiting'
    BY <1>2, <2>1 DEF ClosedWhileWaiting, LinkInv, TypeOK, CallersType
  <2>4. NoLeakedConnection' /\ ReadLoopOwnsLink'
    BY <1>1, <2>1, <2>2, NoReadLoop
    DEF NoLeakedConnection, ReadLoopOwnsLink, LoginPcs, LinkInv, TypeOK, LinksType, CallersType
  <2> QED
    BY <1>3, <2>3, <2>4 DEF LinkInv
<1>5. CASE SendBreaks(t, n, lock)
  <2>1. /\ writer' = 0 /\ conn' = [conn EXCEPT ![writer] = "closed"]
        /\ readLoop' = 0
    BY <1>5, NoReadLoop DEF SendBreaks, ClearLink
  <2>2. ClosedWhileWaiting' /\ ReadLoopOwnsLink'
    BY <2>1 DEF ClosedWhileWaiting, ReadLoopOwnsLink, Link
  <2>3. NoLeakedConnection'
    BY <1>1, <2>1 DEF NoLeakedConnection, LinkInv, TypeOK, LinksType
  <2> QED
    BY <1>3, <2>2, <2>3 DEF LinkInv
<1>6. CASE SendGivesUp(t, lock)
  <2>1. /\ writer' = writer /\ conn' = [conn EXCEPT ![writer] = "closed"]
        /\ readLoop' = 0
    BY <1>6, NoReadLoop DEF SendGivesUp
  <2>2. ClosedWhileWaiting' /\ ReadLoopOwnsLink' /\ NoLeakedConnection'
    BY <1>1, <2>1
    DEF ClosedWhileWaiting, ReadLoopOwnsLink, NoLeakedConnection, Link, Conns, LinkInv,
        TypeOK, LinksType
  <2> QED
    BY <1>3, <2>2 DEF LinkInv
<1> QED
  BY <1>4, <1>5, <1>6 DEF Send

LEMMA StartLink ==
  ASSUME LinkInv, TypeOK', NEW t \in Callers, Start(t)
  PROVE  LinkInv'
<1>1. begun + 1 \in 0..MaxCalls /\ lock # t
  BY DEF Start, Holding, LoginPcs, LockHeld, LinkInv, TypeOK, HistoryType
<1>2. CASE Send(t, begun + 1, lock)
  BY <1>1, <1>2, SendLink DEF Start
<1>3. CASE ~Connected /\ Reconnect(t, lock)
  <2>1. LockHeld'
    BY <1>1, <1>3, LockStep DEF Reconnect, Holding, LoginPcs
  <2>2. Link = "closed" /\ readLoop = 0
    BY <1>3, NoReadLoop DEF Connected, Link
  <2>3. writer' = writer /\ conn' = conn /\ readLoop' = readLoop
    BY <1>3 DEF Start, Send, SendOnLink, SendBreaks, SendGivesUp, Connected, Link
  <2> QED
    BY <2>1, <2>2, <2>3
    DEF LinkInv, ClosedWhileWaiting, NoLeakedConnection, ReadLoopOwnsLink, Link
<1> QED
  BY <1>2, <1>3 DEF Start

LEMMA AcquireLockLink ==
  ASSUME LinkInv, TypeOK', NEW t \in Callers, AcquireLock(t)
  PROVE  LinkInv'
<1>1. call[t] \in 0..MaxCalls /\ lock = NoOne /\ lock # t
  BY DEF AcquireLock, LinkInv, TypeOK, CallersType
<1>2. CASE Send(t, call[t], NoOne)
  BY <1>1, <1>2, SendLink DEF AcquireLock
<1>3. CASE ~Connected /\ Reconnect(t, NoOne)
  <2>1. LockHeld'
    BY <1>1, <1>3, LockStep DEF Reconnect, Holding, LoginPcs
  <2>2. Link = "closed" /\ readLoop = 0
    BY <1>3, NoReadLoop DEF Connected, Link
  <2>3. writer' = writer /\ conn' = conn /\ readLoop' = readLoop
    BY <1>3 DEF AcquireLock, Send, SendOnLink, SendBreaks, SendGivesUp, Connected, Link
  <2> QED
    BY <2>1, <2>2, <2>3
    DEF LinkInv, ClosedWhileWaiting, NoLeakedConnection, ReadLoopOwnsLink, Link
<1> QED
  BY <1>2, <1>3 DEF AcquireLock

LEMMA GreetingLink ==
  ASSUME LinkInv, TypeOK', NEW t \in Callers, Greeting(t)
  PROVE  LinkInv'
<1>1. lock = t
  BY DEF Greeting, LinkInv, LockHeld, Holding, LoginPcs
<1>2. /\ pc' = [pc EXCEPT ![t] = "reply"] /\ lock' = NoOne
      /\ writer' = writer /\ conn' = conn /\ readLoop' = writer /\ Link = "up"
      /\ unload' = unload
  BY DEF Greeting, Send, SendOnLink, SendBreaks, SendGivesUp
<1>3. LockHeld'
  BY <1>1, <1>2, LockStep DEF Holding, LoginPcs
<1>4. \A u \in Callers : pc'[u] \notin LoginPcs
  BY <1>2, <1>3 DEF LockHeld, Holding
<1> QED
  BY <1>2, <1>3, <1>4
  DEF LinkInv, ClosedWhileWaiting, NoLeakedConnection, ReadLoopOwnsLink, Link, TypeOK, CallersType

LEMMA LinkInit == Init => LinkInv
BY TypeInit
DEF Init, LinkInv, LockHeld, Holding, LoginPcs, ClosedWhileWaiting, Link,
    NoLeakedConnection, ReadLoopOwnsLink

LEMMA LinkStep == LinkInv /\ [Next]_vars => LinkInv'
<1> SUFFICES ASSUME LinkInv, [Next]_vars PROVE LinkInv'
  OBVIOUS
<1>1. TypeOK'
  BY TypeStep DEF LinkInv
<1>2. ASSUME NEW t \in Callers, Start(t) \/ Cancel(t) PROVE LinkInv'
  BY <1>1, <1>2, StartLink, CancelLink
<1>3. ASSUME NEW t \in Callers, CallerStep(t) PROVE LinkInv'
  BY <1>1, <1>3, AcquireLockLink, OpenFailsLink, OpenedLink, PromptLink, GreetingLink,
     LoginFailsLink, AbandonedLink, ReplyLink, TimeoutLink, LinkLostLink,
     StoppedLink, TornDownLink
  DEF CallerStep
<1>4. CASE Disconnect \/ DisconnectStopped \/ Disconnected
  BY <1>1, <1>4, DisconnectLink, DisconnectStoppedLink, DisconnectedLink
<1>5. ASSUME NEW c \in Conns, Dispatch(c) PROVE LinkInv'
  BY <1>1, <1>5, DispatchLink
<1>6. ASSUME NEW c \in Conns, GatewayStep(c) PROVE LinkInv'
  BY <1>1, <1>6, GatewayReadsUserLink, GatewayAcceptsLink, GatewayRunsLink,
     GatewayRefusesLink, GatewayClosesLink, ConnectionResetLink
  DEF GatewayStep
<1>7. CASE UNCHANGED vars
  BY <1>1, <1>7 DEF vars, client, callers, links, LinkInv, LockHeld, ClosedWhileWaiting,
     Link, NoLeakedConnection, ReadLoopOwnsLink
<1> QED
  BY <1>2, <1>3, <1>4, <1>5, <1>6, <1>7 DEF Next

\* Every connection that is open is the one in _writer, where a teardown
\* finds it.
THEOREM NothingLeaks == Spec => []NoLeakedConnection
<1>1. LinkInv => NoLeakedConnection
  BY DEF LinkInv
<1> QED
  BY <1>1, LinkInit, LinkStep, PTL DEF Spec

\* The read loop, when it runs, reads the open link the requests are written
\* to, and never while a login reads it.
THEOREM ReadLoopReadsTheLink == Spec => []ReadLoopOwnsLink
<1>1. LinkInv => ReadLoopOwnsLink
  BY DEF LinkInv
<1> QED
  BY <1>1, LinkInit, LinkStep, PTL DEF Spec
=============================================================================
