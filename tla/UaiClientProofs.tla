--------------------------- MODULE UaiClientProofs ---------------------------
(***************************************************************************)
(* Theorems about UaiClient for any number of callers, calls, ids and      *)
(* connections.                                                            *)
(***************************************************************************)
EXTENDS UaiClient, TLAPS

USE CallersAssumption, BoundsAssumption DEF CallersAssumption, BoundsAssumption

-----------------------------------------------------------------------------
(* Types                                                                   *)

LEMMA RequestIsLine ==
  ASSUME NEW i \in 0..MaxIds, NEW n \in 0..MaxCalls
  PROVE  Request(i, n) \in Line
BY DEF Request, Line

LEMMA LoginLines == Username \in Line /\ Password \in Line
BY DEF Username, Password, Line

LEMMA FailedFuturesType ==
  ASSUME CallersType
  PROVE  FailedFutures \in [Callers -> {"none", "waiting", "answered", "lost"}]
BY DEF CallersType, FailedFutures

LEMMA OpenLink ==
  ASSUME ClientType, Link # "closed"
  PROVE  writer \in Conns /\ Link = conn[writer]
BY DEF ClientType, Link, Conns

\* Ending a call keeps the types of what End changes.
LEMMA EndType ==
  ASSUME TypeOK, NEW t \in Callers, NEW result, End(t, result),
         (fut \in [Callers -> {"none", "waiting", "answered", "lost"}])'
  PROVE  CallersType'
<1>1. /\ pc' = [pc EXCEPT ![t] = "idle"]
      /\ call' = [call EXCEPT ![t] = 0]
      /\ retrying' = [retrying EXCEPT ![t] = FALSE]
      /\ reqId' = [reqId EXCEPT ![t] = 0]
      /\ got' = [got EXCEPT ![t] = 0]
  BY DEF End
<1> QED
  BY <1>1 DEF TypeOK, CallersType

\* What Send changes keeps its type.
SendTyped ==
  /\ (writer \in 0..MaxConns)'
  /\ (pending \in [Ids -> Callers \cup {NoOne}])'
  /\ (msgId \in 0..MaxIds)'
  /\ (lock \in Callers \cup {NoOne})'
  /\ CallersType'
  /\ (conn \in [Conns -> {"none", "up", "eof", "broken", "closed"}])'
  /\ (toGateway \in [Conns -> Seq(Line)])'
  /\ (outcome \in [Calls -> {"none", "answered", "timeout", "lost",
                             "unreachable", "auth", "cancelled"}])'
  /\ (sent \in [Calls -> Nat])'

LEMMA SendType ==
  ASSUME TypeOK, NEW t \in Callers, NEW n \in 0..MaxCalls,
         NEW holder \in Callers \cup {NoOne}, Send(t, n, holder)
  PROVE  SendTyped
<1>1. NextId \in 0..MaxIds /\ msgId' = NextId
  BY DEF TypeOK, ClientType, Send, NextId
<1>2. Request(NextId, n) \in Line
  BY <1>1, RequestIsLine
<1>3. FailedFutures \in [Callers -> {"none", "waiting", "answered", "lost"}]
  BY FailedFuturesType DEF TypeOK
<1>4. CASE SendOnLink(t, n, holder)
  <2>1. CallersType'
    BY <1>1, <1>4 DEF TypeOK, CallersType, SendOnLink
  <2>2. (toGateway \in [Conns -> Seq(Line)])'
    <3>1. CASE Link = "up"
      <4>1. writer \in Conns
        BY <3>1, OpenLink DEF TypeOK
      <4>2. toGateway[writer] \in Seq(Line)
        BY <4>1 DEF TypeOK, LinksType
      <4>3. Append(toGateway[writer], Request(NextId, n)) \in Seq(Line)
        BY <1>2, <4>2
      <4>4. toGateway' = [toGateway EXCEPT
                            ![writer] = Append(toGateway[writer], Request(NextId, n))]
        BY <1>4, <3>1 DEF SendOnLink
      <4> HIDE DEF Request
      <4>5. toGateway \in [Conns -> Seq(Line)]
        BY DEF TypeOK, LinksType
      <4> QED
        BY <4>3, <4>4, <4>5
    <3> QED
      BY <1>4, <3>1 DEF TypeOK, LinksType, SendOnLink
  <2>3. (pending \in [Ids -> Callers \cup {NoOne}])'
    BY <1>4 DEF TypeOK, ClientType, SendOnLink
  <2>4. (conn \in [Conns -> {"none", "up", "eof", "broken", "closed"}])'
    BY <1>4 DEF TypeOK, LinksType, SendOnLink
  <2>5. (sent \in [Calls -> Nat])'
    <3>1. sent' = [sent EXCEPT ![n] = sent[n] + 1]
      BY <1>4 DEF SendOnLink
    <3>2. sent \in [Calls -> Nat]
      BY DEF TypeOK, HistoryType
    <3>3. \A m \in Calls : sent'[m] \in Nat
      BY <3>1, <3>2
    <3> QED
      BY <3>1, <3>2, <3>3
  <2>6. writer' = writer /\ lock' = holder /\ outcome' = outcome
    BY <1>4 DEF SendOnLink
  <2> QED
    BY <1>1, <2>1, <2>2, <2>3, <2>4, <2>5, <2>6
    DEF SendTyped, TypeOK, ClientType, HistoryType
<1>5. CASE SendBreaks(t, n, holder)
  <2>1. CallersType'
    BY <1>3, <1>5 DEF TypeOK, CallersType, SendBreaks, Reconnect
  <2>2. /\ writer' = 0 /\ pending' = NothingPending
        /\ lock' \in {t, holder}
        /\ toGateway' = toGateway /\ outcome' = outcome /\ sent' = sent
    BY <1>5 DEF SendBreaks, Reconnect, ClearLink
  <2>3. (conn \in [Conns -> {"none", "up", "eof", "broken", "closed"}])'
    BY <1>5 DEF SendBreaks, TypeOK, LinksType
  <2>4. (pending \in [Ids -> Callers \cup {NoOne}])'
    BY <2>2 DEF NothingPending
  <2> QED
    BY <1>1, <2>1, <2>2, <2>3, <2>4
    DEF SendTyped, TypeOK, ClientType, LinksType, HistoryType
<1>6. CASE SendGivesUp(t, holder)
  <2>1. CallersType'
    BY <1>6 DEF TypeOK, CallersType, SendGivesUp, End
  <2> QED
    BY <1>1, <1>6, <2>1
    DEF SendTyped, SendGivesUp, End, TypeOK, ClientType, LinksType, HistoryType
<1> QED
  BY <1>4, <1>5, <1>6 DEF Send

LEMMA StartType ==
  ASSUME TypeOK, NEW t \in Callers, Start(t)
  PROVE  TypeOK'
<1>1. begun + 1 \in 0..MaxCalls /\ lock \in Callers \cup {NoOne}
  BY DEF TypeOK, ClientType, HistoryType, Start
<1>2. CASE Connected /\ Send(t, begun + 1, lock)
  <2>1. SendTyped
    BY <1>1, <1>2, SendType
  <2> QED
    BY <1>1, <2>1 DEF SendTyped, TypeOK, ClientType, LinksType, HistoryType, Start
<1>3. CASE ~Connected
  <2>1. ClientType'
    BY <1>3 DEF TypeOK, ClientType, Start, Reconnect
  <2>2. CallersType'
    BY <1>1, <1>3 DEF TypeOK, CallersType, Start, Reconnect
  <2> QED
    BY <1>1, <1>3, <2>1, <2>2 DEF TypeOK, LinksType, HistoryType, Start
<1> QED
  BY <1>2, <1>3 DEF Start

LEMMA AcquireLockType ==
  ASSUME TypeOK, NEW t \in Callers, AcquireLock(t)
  PROVE  TypeOK'
<1>1. CASE Connected /\ Send(t, call[t], NoOne)
  <2>1. SendTyped
    BY <1>1, SendType DEF TypeOK, CallersType
  <2> QED
    BY <2>1 DEF SendTyped, TypeOK, ClientType, LinksType, HistoryType, AcquireLock
<1>2. CASE ~Connected
  <2>1. ClientType'
    BY <1>2 DEF TypeOK, ClientType, AcquireLock, Reconnect
  <2>2. CallersType'
    BY <1>2 DEF TypeOK, CallersType, AcquireLock, Reconnect
  <2> QED
    BY <1>2, <2>1, <2>2 DEF TypeOK, LinksType, HistoryType, AcquireLock
<1> QED
  BY <1>1, <1>2 DEF AcquireLock

LEMMA OpenFailsType ==
  ASSUME TypeOK, NEW t \in Callers, OpenFails(t)
  PROVE  TypeOK'
<1> FailedFutures \in [Callers -> {"none", "waiting", "answered", "lost"}]
  BY FailedFuturesType DEF TypeOK
<1>1. ClientType'
  BY DEF TypeOK, ClientType, OpenFails, client, End
<1>2. CallersType'
  BY DEF TypeOK, CallersType, LoginPcs, OpenFails, callers, End
<1>3. LinksType'
  BY DEF TypeOK, LinksType, OpenFails, links, End
<1>4. HistoryType'
  BY DEF TypeOK, HistoryType, OpenFails, history, End
<1> QED
  BY <1>1, <1>2, <1>3, <1>4 DEF TypeOK, OpenFails

LEMMA OpenedType ==
  ASSUME TypeOK, NEW t \in Callers, Opened(t)
  PROVE  TypeOK'
<1>1. PICK c \in Conns : /\ conn' = [conn EXCEPT ![c] = "up"]
                         /\ gateway' = [gateway EXCEPT ![c] = "user"]
                         /\ writer' = c
  BY DEF Opened
<1>2. writer' \in 0..MaxConns
  BY <1>1 DEF Conns
<1>3. CallersType'
  BY DEF TypeOK, CallersType, LoginPcs, Opened
<1>4. LinksType'
  BY <1>1 DEF TypeOK, LinksType, Opened
<1> QED
  BY <1>2, <1>3, <1>4 DEF TypeOK, ClientType, HistoryType, history, Opened

LEMMA AnswerPromptType ==
  ASSUME TypeOK, NEW t \in Callers, NEW prompt, NEW phases, NEW line \in Line,
         NEW next \in LoginPcs, AnswerPrompt(t, prompt, phases, line, next)
  PROVE  TypeOK'
<1>1. writer \in Conns
  BY OpenLink DEF TypeOK, AnswerPrompt
<1>2. toGateway \in [Conns -> Seq(Line)]
  BY DEF TypeOK, LinksType
<1>3. Append(toGateway[writer], line) \in Seq(Line)
  BY <1>1, <1>2
<1>4. toGateway' = [toGateway EXCEPT ![writer] = Append(toGateway[writer], line)]
  BY DEF AnswerPrompt
<1>5. (toGateway \in [Conns -> Seq(Line)])'
  BY <1>2, <1>3, <1>4
<1>6. CallersType'
  BY DEF TypeOK, CallersType, AnswerPrompt
<1> QED
  BY <1>5, <1>6
  DEF TypeOK, ClientType, LinksType, HistoryType, AnswerPrompt, client, history

LEMMA PromptType ==
  ASSUME TypeOK, NEW t \in Callers, PromptUser(t) \/ PromptPassword(t)
  PROVE  TypeOK'
BY LoginLines, AnswerPromptType DEF PromptUser, PromptPassword, LoginPcs

LEMMA GreetingType ==
  ASSUME TypeOK, NEW t \in Callers, Greeting(t)
  PROVE  TypeOK'
<1>1. SendTyped
  BY SendType DEF TypeOK, CallersType, Greeting
<1>2. writer \in Conns
  BY OpenLink DEF TypeOK, Greeting
<1>3. readLoop' \in 0..MaxConns
  BY DEF TypeOK, ClientType, Greeting
<1>4. (toClient \in [Conns -> SUBSET [id : 0..MaxIds, call : 0..MaxCalls]])'
  BY <1>2 DEF TypeOK, LinksType, Greeting
<1> QED
  BY <1>1, <1>3, <1>4 DEF SendTyped, TypeOK, ClientType, LinksType, HistoryType, Greeting

LEMMA LoginFailsType ==
  ASSUME TypeOK, NEW t \in Callers, LoginFails(t)
  PROVE  TypeOK'
<1> FailedFutures \in [Callers -> {"none", "waiting", "answered", "lost"}]
  BY FailedFuturesType DEF TypeOK
<1>1. ClientType'
  BY DEF TypeOK, ClientType, LoginFails, client, End, ClearLink, CloseLink, StopReading, NothingPending
<1>2. CallersType'
  <2>1. CASE Link = "closed"
    BY <2>1, EndType DEF LoginFails
  <2>2. CASE Link # "closed"
    BY <2>2 DEF TypeOK, CallersType, LoginFails, CloseLink
  <2> QED
    BY <2>1, <2>2
<1>3. LinksType'
  BY DEF TypeOK, LinksType, LoginFails, links, End, ClearLink, CloseLink, StopReading, NothingPending
<1>4. HistoryType'
  BY DEF TypeOK, HistoryType, LoginFails, history, End, ClearLink, CloseLink, StopReading, NothingPending
<1> QED
  BY <1>1, <1>2, <1>3, <1>4 DEF TypeOK, LoginFails

LEMMA AbandonedType ==
  ASSUME TypeOK, NEW t \in Callers, Abandoned(t)
  PROVE  TypeOK'
<1> FailedFutures \in [Callers -> {"none", "waiting", "answered", "lost"}]
  BY FailedFuturesType DEF TypeOK
<1>1. ClientType'
  BY DEF TypeOK, ClientType, Abandoned, client, End, ClearLink, NothingPending
<1>2. CallersType'
  BY EndType DEF Abandoned
<1>3. LinksType'
  BY DEF TypeOK, LinksType, Abandoned, links, End, ClearLink, NothingPending
<1>4. HistoryType'
  BY DEF TypeOK, HistoryType, Abandoned, history, End, ClearLink, NothingPending
<1> QED
  BY <1>1, <1>2, <1>3, <1>4 DEF TypeOK, Abandoned

LEMMA ReplyType ==
  ASSUME TypeOK, NEW t \in Callers, Reply(t)
  PROVE  TypeOK'
<1> FailedFutures \in [Callers -> {"none", "waiting", "answered", "lost"}]
  BY FailedFuturesType DEF TypeOK
<1>1. ClientType'
  BY DEF TypeOK, ClientType, Reply, client, End
<1>2. CallersType'
  BY DEF TypeOK, CallersType, LoginPcs, Reply, callers, End
<1>3. LinksType'
  BY DEF TypeOK, LinksType, Reply, links, End
<1>4. HistoryType'
  BY DEF TypeOK, HistoryType, Reply, history, End
<1> QED
  BY <1>1, <1>2, <1>3, <1>4 DEF TypeOK, Reply

LEMMA TimeoutType ==
  ASSUME TypeOK, NEW t \in Callers, Timeout(t)
  PROVE  TypeOK'
<1> FailedFutures \in [Callers -> {"none", "waiting", "answered", "lost"}]
  BY FailedFuturesType DEF TypeOK
<1>1. ClientType'
  BY DEF TypeOK, ClientType, Timeout, client, End, Unregistered
<1>2. CallersType'
  BY DEF TypeOK, CallersType, LoginPcs, Timeout, callers, End, Unregistered
<1>3. LinksType'
  BY DEF TypeOK, LinksType, Timeout, links, End, Unregistered
<1>4. HistoryType'
  BY DEF TypeOK, HistoryType, Timeout, history, End, Unregistered
<1> QED
  BY <1>1, <1>2, <1>3, <1>4 DEF TypeOK, Timeout

LEMMA LinkLostType ==
  ASSUME TypeOK, NEW t \in Callers, LinkLost(t)
  PROVE  TypeOK'
<1> FailedFutures \in [Callers -> {"none", "waiting", "answered", "lost"}]
  BY FailedFuturesType DEF TypeOK
<1>1. ClientType'
  BY DEF TypeOK, ClientType, LinkLost, client, End, ClearLink, CloseLink, StopReading, NothingPending, Reconnect
<1>2. CallersType'
  <2>1. CASE ~MayRetry(t)
    <3>1. (fut \in [Callers -> {"none", "waiting", "answered", "lost"}])'
      BY <2>1 DEF TypeOK, CallersType, LinkLost
    <3> QED
      BY <2>1, <3>1, EndType DEF LinkLost
  <2>2. CASE MayRetry(t) /\ Link = "closed"
    <3>1. pc' \in {[pc EXCEPT ![t] = "opening"], [pc EXCEPT ![t] = "lock"]}
      BY <2>2 DEF LinkLost, Reconnect
    <3>2. fut' = [FailedFutures EXCEPT ![t] = "none"]
      BY <2>2 DEF LinkLost
    <3> QED
      BY <2>2, <3>1, <3>2 DEF TypeOK, CallersType, LinkLost
  <2>3. CASE MayRetry(t) /\ Link # "closed"
    <3>1. /\ pc' \in {[pc EXCEPT ![t] = "reconnecting"], [pc EXCEPT ![t] = "stopping"]}
          /\ fut' \in {[fut EXCEPT ![t] = "none"], [FailedFutures EXCEPT ![t] = "none"]}
      BY <2>3 DEF LinkLost
    <3> QED
      BY <2>3, <3>1 DEF TypeOK, CallersType, LinkLost
  <2> QED
    BY <2>1, <2>2, <2>3
<1>3. LinksType'
  BY DEF TypeOK, LinksType, LinkLost, links, End, ClearLink, CloseLink, StopReading, NothingPending, Reconnect
<1>4. HistoryType'
  BY DEF TypeOK, HistoryType, LinkLost, history, End, ClearLink, CloseLink, StopReading, NothingPending, Reconnect
<1> QED
  BY <1>1, <1>2, <1>3, <1>4 DEF TypeOK, LinkLost

LEMMA StoppedType ==
  ASSUME TypeOK, NEW t \in Callers, Stopped(t)
  PROVE  TypeOK'
<1>1. ClientType'
  BY DEF TypeOK, ClientType, Stopped, CloseLink
<1>2. CallersType'
  BY DEF TypeOK, CallersType, Stopped
<1>3. LinksType'
  BY DEF TypeOK, LinksType, Stopped, CloseLink
<1>4. HistoryType'
  BY DEF TypeOK, HistoryType, Stopped, history
<1> QED
  BY <1>1, <1>2, <1>3, <1>4 DEF TypeOK, Stopped

LEMMA TornDownType ==
  ASSUME TypeOK, NEW t \in Callers, TornDown(t)
  PROVE  TypeOK'
<1> FailedFutures \in [Callers -> {"none", "waiting", "answered", "lost"}]
  BY FailedFuturesType DEF TypeOK
<1>1. ClientType'
  BY DEF TypeOK, ClientType, TornDown, client, ClearLink, NothingPending, Reconnect
<1>2. CallersType'
  BY DEF TypeOK, CallersType, LoginPcs, TornDown, callers, ClearLink, NothingPending, Reconnect
<1>3. LinksType'
  BY DEF TypeOK, LinksType, TornDown, links, ClearLink, NothingPending, Reconnect
<1>4. HistoryType'
  BY DEF TypeOK, HistoryType, TornDown, history, ClearLink, NothingPending, Reconnect
<1> QED
  BY <1>1, <1>2, <1>3, <1>4 DEF TypeOK, TornDown

LEMMA CancelType ==
  ASSUME TypeOK, NEW t \in Callers, Cancel(t)
  PROVE  TypeOK'
<1> FailedFutures \in [Callers -> {"none", "waiting", "answered", "lost"}]
  BY FailedFuturesType DEF TypeOK
<1>1. ClientType'
  BY DEF TypeOK, ClientType, Cancel, client, End
<1>2. CallersType'
  <2>1. CASE pc[t] = "stopping"
    BY <2>1 DEF TypeOK, CallersType, Cancel, callers
  <2>2. CASE pc[t] # "stopping"
    <3>1. End(t, "cancelled") /\ fut' = [fut EXCEPT ![t] = "none"]
      BY <2>2 DEF Cancel
    <3> QED BY <3>1 DEF TypeOK, CallersType, End
  <2> QED BY <2>1, <2>2
<1>3. LinksType'
  BY DEF TypeOK, LinksType, Cancel, links, End
<1>4. HistoryType'
  BY DEF TypeOK, HistoryType, Cancel, history, End
<1> QED
  BY <1>1, <1>2, <1>3, <1>4 DEF TypeOK, Cancel

LEMMA DisconnectType ==
  ASSUME TypeOK, Disconnect
  PROVE  TypeOK'
<1> FailedFutures \in [Callers -> {"none", "waiting", "answered", "lost"}]
  BY FailedFuturesType DEF TypeOK
<1>1. ClientType'
  BY DEF TypeOK, ClientType, Disconnect, client, ClearLink, CloseLink, StopReading, NothingPending
<1>2. CallersType'
  BY DEF TypeOK, CallersType, LoginPcs, Disconnect, callers, ClearLink, CloseLink, StopReading, NothingPending
<1>3. LinksType'
  BY DEF TypeOK, LinksType, Disconnect, links, ClearLink, CloseLink, StopReading, NothingPending
<1>4. HistoryType'
  BY DEF TypeOK, HistoryType, Disconnect, history, ClearLink, CloseLink, StopReading, NothingPending
<1> QED
  BY <1>1, <1>2, <1>3, <1>4 DEF TypeOK, Disconnect

LEMMA DisconnectStoppedType ==
  ASSUME TypeOK, DisconnectStopped
  PROVE  TypeOK'
<1>1. ClientType'
  BY DEF TypeOK, ClientType, DisconnectStopped, CloseLink
<1>2. CallersType'
  BY DEF TypeOK, CallersType, DisconnectStopped, callers
<1>3. LinksType'
  BY DEF TypeOK, LinksType, DisconnectStopped, CloseLink
<1>4. HistoryType'
  BY DEF TypeOK, HistoryType, DisconnectStopped, history
<1> QED
  BY <1>1, <1>2, <1>3, <1>4 DEF TypeOK, DisconnectStopped

LEMMA DisconnectedType ==
  ASSUME TypeOK, Disconnected
  PROVE  TypeOK'
<1> FailedFutures \in [Callers -> {"none", "waiting", "answered", "lost"}]
  BY FailedFuturesType DEF TypeOK
<1>1. ClientType'
  BY DEF TypeOK, ClientType, Disconnected, client, ClearLink, NothingPending
<1>2. CallersType'
  BY DEF TypeOK, CallersType, LoginPcs, Disconnected, callers, ClearLink, NothingPending
<1>3. LinksType'
  BY DEF TypeOK, LinksType, Disconnected, links, ClearLink, NothingPending
<1>4. HistoryType'
  BY DEF TypeOK, HistoryType, Disconnected, history, ClearLink, NothingPending
<1> QED
  BY <1>1, <1>2, <1>3, <1>4 DEF TypeOK, Disconnected

LEMMA DispatchType ==
  ASSUME TypeOK, NEW c \in Conns, Dispatch(c)
  PROVE  TypeOK'
<1> FailedFutures \in [Callers -> {"none", "waiting", "answered", "lost"}]
  BY FailedFuturesType DEF TypeOK
<1>1. ClientType'
  BY DEF TypeOK, ClientType, Dispatch, client, Unregistered
<1>2. CallersType'
  <2>1. PICK r \in toClient[c] :
          \/ UNCHANGED <<fut, got>>
          \/ /\ fut' = [fut EXCEPT ![pending[r.id]] = "answered"]
             /\ got' = [got EXCEPT ![pending[r.id]] = r.call]
    BY DEF Dispatch
  <2>2. r.call \in 0..MaxCalls
    BY DEF TypeOK, LinksType
  <2> QED
    BY <2>1, <2>2 DEF TypeOK, CallersType, Dispatch
<1>3. LinksType'
  BY DEF TypeOK, LinksType, Dispatch, links, Unregistered
<1>4. HistoryType'
  BY DEF TypeOK, HistoryType, Dispatch, history, Unregistered
<1> QED
  BY <1>1, <1>2, <1>3, <1>4 DEF TypeOK, Dispatch

LEMMA GatewayReadsUserType ==
  ASSUME TypeOK, NEW c \in Conns, GatewayReadsUser(c)
  PROVE  TypeOK'
<1> FailedFutures \in [Callers -> {"none", "waiting", "answered", "lost"}]
  BY FailedFuturesType DEF TypeOK
<1>1. ClientType'
  BY DEF TypeOK, ClientType, GatewayReadsUser, client
<1>2. CallersType'
  BY DEF TypeOK, CallersType, LoginPcs, GatewayReadsUser, callers
<1>3. LinksType'
  BY DEF TypeOK, LinksType, GatewayReadsUser, links
<1>4. HistoryType'
  BY DEF TypeOK, HistoryType, GatewayReadsUser, history
<1> QED
  BY <1>1, <1>2, <1>3, <1>4 DEF TypeOK, GatewayReadsUser

LEMMA GatewayAcceptsType ==
  ASSUME TypeOK, NEW c \in Conns, GatewayAccepts(c)
  PROVE  TypeOK'
<1> FailedFutures \in [Callers -> {"none", "waiting", "answered", "lost"}]
  BY FailedFuturesType DEF TypeOK
<1>1. ClientType'
  BY DEF TypeOK, ClientType, GatewayAccepts, client
<1>2. CallersType'
  BY DEF TypeOK, CallersType, LoginPcs, GatewayAccepts, callers
<1>3. LinksType'
  BY DEF TypeOK, LinksType, GatewayAccepts, links
<1>4. HistoryType'
  BY DEF TypeOK, HistoryType, GatewayAccepts, history
<1> QED
  BY <1>1, <1>2, <1>3, <1>4 DEF TypeOK, GatewayAccepts

LEMMA GatewayRunsType ==
  ASSUME TypeOK, NEW c \in Conns, GatewayRuns(c)
  PROVE  TypeOK'
<1> DEFINE line == Head(toGateway[c])
           reply == [id |-> line.id, call |-> line.call]
<1>1. line \in Line /\ Tail(toGateway[c]) \in Seq(Line)
  BY DEF TypeOK, LinksType, GatewayRuns
<1>2. reply \in [id : 0..MaxIds, call : 0..MaxCalls]
  BY <1>1 DEF Line
<1>3. (toGateway \in [Conns -> Seq(Line)])'
  BY <1>1 DEF TypeOK, LinksType, GatewayRuns
<1>4. (toClient \in [Conns -> SUBSET [id : 0..MaxIds, call : 0..MaxCalls]])'
  <2>1. toClient' \in {toClient, [toClient EXCEPT ![c] = @ \cup {reply}]}
    BY DEF GatewayRuns
  <2>2. toClient \in [Conns -> SUBSET [id : 0..MaxIds, call : 0..MaxCalls]]
    BY DEF TypeOK, LinksType
  <2> HIDE DEF reply
  <2>3. toClient[c] \cup {reply} \in SUBSET [id : 0..MaxIds, call : 0..MaxCalls]
    BY <1>2, <2>2
  <2> QED
    BY <2>1, <2>2, <2>3
<1>5. (executed \in [Calls -> Nat])'
  <2>1. executed' = [executed EXCEPT ![line.call] = executed[line.call] + 1]
    BY DEF GatewayRuns
  <2>2. executed \in [Calls -> Nat]
    BY DEF TypeOK, HistoryType
  <2> HIDE DEF line
  <2>3. \A m \in Calls : executed'[m] \in Nat
    BY <2>1, <2>2
  <2> QED
    BY <2>1, <2>2, <2>3
<1> QED
  BY <1>3, <1>4, <1>5
  DEF TypeOK, ClientType, CallersType, LinksType, HistoryType, client, callers, GatewayRuns

LEMMA GatewayRefusesType ==
  ASSUME TypeOK, NEW c \in Conns, GatewayRefuses(c)
  PROVE  TypeOK'
<1> FailedFutures \in [Callers -> {"none", "waiting", "answered", "lost"}]
  BY FailedFuturesType DEF TypeOK
<1>1. ClientType'
  BY DEF TypeOK, ClientType, GatewayRefuses, client, HangUp, ReadLoopEnds, NothingPending
<1>2. CallersType'
  BY DEF TypeOK, CallersType, LoginPcs, GatewayRefuses, callers, HangUp, ReadLoopEnds, NothingPending
<1>3. LinksType'
  BY DEF TypeOK, LinksType, GatewayRefuses, links, HangUp, ReadLoopEnds, NothingPending
<1>4. HistoryType'
  BY DEF TypeOK, HistoryType, GatewayRefuses, history, HangUp, ReadLoopEnds, NothingPending
<1> QED
  BY <1>1, <1>2, <1>3, <1>4 DEF TypeOK, GatewayRefuses, HangUp

LEMMA GatewayClosesType ==
  ASSUME TypeOK, NEW c \in Conns, GatewayCloses(c)
  PROVE  TypeOK'
<1> FailedFutures \in [Callers -> {"none", "waiting", "answered", "lost"}]
  BY FailedFuturesType DEF TypeOK
<1>1. ClientType'
  BY DEF TypeOK, ClientType, GatewayCloses, client, HangUp, ReadLoopEnds, NothingPending
<1>2. CallersType'
  BY DEF TypeOK, CallersType, LoginPcs, GatewayCloses, callers, HangUp, ReadLoopEnds, NothingPending
<1>3. LinksType'
  BY DEF TypeOK, LinksType, GatewayCloses, links, HangUp, ReadLoopEnds, NothingPending
<1>4. HistoryType'
  BY DEF TypeOK, HistoryType, GatewayCloses, history, HangUp, ReadLoopEnds, NothingPending
<1> QED
  BY <1>1, <1>2, <1>3, <1>4 DEF TypeOK, GatewayCloses, HangUp

LEMMA ConnectionResetType ==
  ASSUME TypeOK, NEW c \in Conns, ConnectionReset(c)
  PROVE  TypeOK'
<1> FailedFutures \in [Callers -> {"none", "waiting", "answered", "lost"}]
  BY FailedFuturesType DEF TypeOK
<1>1. ClientType'
  BY DEF TypeOK, ClientType, ConnectionReset, client, ReadLoopEnds, NothingPending
<1>2. CallersType'
  BY DEF TypeOK, CallersType, LoginPcs, ConnectionReset, callers, ReadLoopEnds, NothingPending
<1>3. LinksType'
  BY DEF TypeOK, LinksType, ConnectionReset, links, ReadLoopEnds, NothingPending
<1>4. HistoryType'
  BY DEF TypeOK, HistoryType, ConnectionReset, history, ReadLoopEnds, NothingPending
<1> QED
  BY <1>1, <1>2, <1>3, <1>4 DEF TypeOK, ConnectionReset

LEMMA TypeInit == Init => TypeOK
<1> SUFFICES ASSUME Init PROVE TypeOK
  OBVIOUS
<1>1. ClientType /\ CallersType
  BY DEF Init, ClientType, CallersType, NothingPending
<1>2. LinksType /\ HistoryType
  BY DEF Init, LinksType, HistoryType
<1> QED
  BY <1>1, <1>2 DEF Init, TypeOK

LEMMA TypeStep == TypeOK /\ [Next]_vars => TypeOK'
<1> SUFFICES ASSUME TypeOK, [Next]_vars PROVE TypeOK'
  OBVIOUS
<1>1. ASSUME NEW t \in Callers, Start(t) PROVE TypeOK'
  BY <1>1, StartType
<1>2. ASSUME NEW t \in Callers, CallerStep(t) PROVE TypeOK'
  BY <1>2, AcquireLockType, OpenFailsType, OpenedType, PromptType, GreetingType,
     LoginFailsType, AbandonedType, ReplyType, TimeoutType, LinkLostType, StoppedType,
     TornDownType
  DEF CallerStep
<1>3. ASSUME NEW t \in Callers, Cancel(t) PROVE TypeOK'
  BY <1>3, CancelType
<1>4. ASSUME NEW c \in Conns, Dispatch(c) PROVE TypeOK'
  BY <1>4, DispatchType
<1>5. ASSUME NEW c \in Conns, GatewayStep(c) PROVE TypeOK'
  BY <1>5, GatewayReadsUserType, GatewayAcceptsType, GatewayRunsType,
     GatewayRefusesType, GatewayClosesType, ConnectionResetType
  DEF GatewayStep
<1>6. CASE UNCHANGED vars
  BY <1>6 DEF vars, client, callers, links, history, TypeOK, ClientType, CallersType,
              LinksType, HistoryType
<1> QED
  BY <1>1, <1>2, <1>3, <1>4, <1>5, <1>6, DisconnectType, DisconnectStoppedType,
     DisconnectedType DEF Next

\* Every variable of the client keeps its type; in particular an id, a call
\* or a connection beyond the bounds is never used.
THEOREM Typing == Spec => []TypeOK
BY TypeInit, TypeStep, PTL DEF Spec

-----------------------------------------------------------------------------
(* Replies reach the call they answer.  The ids on the wire were drawn     *)
(* before the next one (FreshIds), a caller that waits waits for one of    *)
(* them (Registered), and whatever is on the wire under that id is about   *)
(* its call (Correlated): a reply to an earlier call, however late, cannot *)
(* carry the id of a later one.                                            *)

\* The requests and replies of connection c that are still on the wire.
InFlight(c) ==
  toClient[c] \cup
  {[id |-> toGateway[c][k].id, call |-> toGateway[c][k].call] :
     k \in {j \in 1..Len(toGateway[c]) : toGateway[c][j].what = "request"}}

FreshIds == \A c \in Conns : \A f \in InFlight(c) : f.id \in 1..msgId

Registered == \A t \in Callers : pc[t] = "reply" => reqId[t] \in 1..msgId

Correlated ==
  \A t \in Callers, c \in Conns : \A f \in InFlight(c) :
    pc[t] = "reply" /\ f.id = reqId[t] => f.call = call[t]

ReplyInv == /\ TypeOK /\ FreshIds /\ Registered /\ Correlated
            /\ OwnReply /\ NoForgottenWaiter

\* What most steps do: put nothing on the wire, and let a caller wait only
\* if it did, with its future unchanged unless it failed.
StillWaits(t) ==
  pc'[t] = "reply" =>
    /\ pc[t] = "reply" /\ reqId'[t] = reqId[t] /\ call'[t] = call[t]
    /\ \/ fut'[t] \in {"none", "lost"}
       \/ /\ fut'[t] = fut[t] /\ got'[t] = got[t]
          /\ fut[t] = "waiting" => pending'[reqId[t]] = pending[reqId[t]]

Quiet == /\ msgId <= msgId'
         /\ \A c \in Conns : InFlight(c)' \subseteq InFlight(c)
         /\ \A t \in Callers : StillWaits(t)

LEMMA QuietStep ==
  ASSUME ReplyInv, TypeOK', Quiet
  PROVE  ReplyInv'
<1>1. msgId \in Nat /\ msgId' \in Nat
  BY DEF ReplyInv, TypeOK, ClientType
<1>2. FreshIds'
  BY <1>1 DEF ReplyInv, FreshIds, Quiet
<1>3. Registered'
  BY <1>1 DEF ReplyInv, Registered, Quiet, StillWaits
<1>4. Correlated'
  BY DEF ReplyInv, Correlated, Quiet, StillWaits
<1>5. OwnReply'
  BY DEF ReplyInv, OwnReply, Quiet, StillWaits
<1>6. NoForgottenWaiter'
  BY DEF ReplyInv, NoForgottenWaiter, Quiet, StillWaits
<1> QED
  BY <1>2, <1>3, <1>4, <1>5, <1>6 DEF ReplyInv

LEMMA AllFail ==
  ASSUME ReplyInv, NEW t \in Callers, pc[t] = "reply"
  PROVE  FailedFutures[t] = IF fut[t] = "waiting" THEN "lost" ELSE fut[t]
BY DEF ReplyInv, NoForgottenWaiter, FailedFutures

LEMMA WireKept ==
  ASSUME NEW c \in Conns, toGateway'[c] = toGateway[c], toClient'[c] \subseteq toClient[c]
  PROVE  InFlight(c)' \subseteq InFlight(c)
BY DEF InFlight

LEMMA WireEmptied ==
  ASSUME NEW c \in Conns, toGateway'[c] = <<>>, toClient'[c] = {}
  PROVE  InFlight(c)' \subseteq InFlight(c)
BY DEF InFlight

\* A line written adds at most itself to the wire; only a request counts.
LEMMA WireAppend ==
  ASSUME TypeOK, NEW c \in Conns, NEW line \in Line,
         toGateway'[c] = Append(toGateway[c], line), toClient'[c] \subseteq toClient[c],
         NEW f \in InFlight(c)', f \notin InFlight(c)
  PROVE  line.what = "request" /\ f = [id |-> line.id, call |-> line.call]
<1>1. toGateway[c] \in Seq(Line)
  BY DEF TypeOK, LinksType
<1>2. f \notin toClient'[c]
  BY DEF InFlight
<1>3. PICK k \in 1..Len(toGateway'[c]) :
        /\ toGateway'[c][k].what = "request"
        /\ f = [id |-> toGateway'[c][k].id, call |-> toGateway'[c][k].call]
  BY <1>2 DEF InFlight
<1>4. k \notin 1..Len(toGateway[c])
  BY <1>1, <1>3 DEF InFlight
<1>5. toGateway'[c][k] = line
  BY <1>1, <1>3, <1>4
<1> QED
  BY <1>3, <1>5

LEMMA WireTail ==
  ASSUME TypeOK, NEW c \in Conns, toGateway[c] # <<>>,
         toGateway'[c] = Tail(toGateway[c]),
         NEW f \in InFlight(c)', f \notin toClient'[c]
  PROVE  f \in InFlight(c)
<1>1. toGateway[c] \in Seq(Line)
  BY DEF TypeOK, LinksType
<1>2. PICK k \in 1..Len(toGateway'[c]) :
        /\ toGateway'[c][k].what = "request"
        /\ f = [id |-> toGateway'[c][k].id, call |-> toGateway'[c][k].call]
  BY DEF InFlight
<1>3. k + 1 \in 1..Len(toGateway[c]) /\ toGateway'[c][k] = toGateway[c][k + 1]
  BY <1>1, <1>2
<1> QED
  BY <1>2, <1>3 DEF InFlight

LEMMA SendReplyInv ==
  ASSUME ReplyInv, TypeOK', NEW t \in Callers, NEW n \in 0..MaxCalls,
         NEW holder \in Callers \cup {NoOne}, Send(t, n, holder),
         \A c \in Conns : toClient'[c] \subseteq toClient[c]
  PROVE  ReplyInv'
<1>1. /\ msgId \in Nat /\ NextId \in Ids /\ NextId \in 0..MaxIds /\ NextId = msgId + 1
      /\ msgId' = NextId
  BY DEF ReplyInv, TypeOK, ClientType, Send, NextId, Ids
<1>2. CASE SendOnLink(t, n, holder)
  <2> DEFINE new == [id |-> NextId, call |-> n]
  <2>1. ASSUME NEW c \in Conns, NEW f \in InFlight(c)', f \notin InFlight(c)
        PROVE  f = new
    <3>1. CASE toGateway'[c] = toGateway[c]
      BY <2>1, <3>1, WireKept
    <3>2. CASE toGateway'[c] # toGateway[c]
      <4>1. toGateway'[c] = Append(toGateway[c], Request(NextId, n))
        BY <1>2, <3>2 DEF SendOnLink, ReplyInv, TypeOK, LinksType
      <4>2. Request(NextId, n) \in Line
        BY <1>1, RequestIsLine
      <4> QED
        BY <2>1, <4>1, <4>2, WireAppend DEF ReplyInv, Request
    <3> QED
      BY <3>1, <3>2
  <2>2. /\ pc' = [pc EXCEPT ![t] = "reply"] /\ call' = [call EXCEPT ![t] = n]
        /\ reqId' = [reqId EXCEPT ![t] = NextId] /\ fut' = [fut EXCEPT ![t] = "waiting"]
        /\ pending' = [pending EXCEPT ![NextId] = t] /\ got' = got
    BY <1>2 DEF SendOnLink
  <2>3. /\ pc \in [Callers -> LoginPcs \cup {"idle", "lock", "opening", "abandoning",
                                             "reply", "stopping", "reconnecting"}]
        /\ call \in [Callers -> 0..MaxCalls] /\ reqId \in [Callers -> 0..MaxIds]
        /\ fut \in [Callers -> {"none", "waiting", "answered", "lost"}]
        /\ pending \in [Ids -> Callers \cup {NoOne}]
    BY DEF ReplyInv, TypeOK, ClientType, CallersType
  <2>4. FreshIds'
    BY <1>1, <2>1 DEF ReplyInv, FreshIds
  <2>5. Registered'
    BY <1>1, <2>2, <2>3 DEF ReplyInv, Registered
  <2>6. Correlated'
    <3> SUFFICES ASSUME NEW u \in Callers, NEW c \in Conns, NEW f \in InFlight(c)',
                        pc'[u] = "reply", f.id = reqId'[u]
                 PROVE  f.call = call'[u]
      BY DEF Correlated
    <3>1. CASE u = t
      <4>1. f.id = NextId
        BY <2>2, <2>3, <3>1
      <4>2. f \notin InFlight(c)
        BY <1>1, <4>1 DEF ReplyInv, FreshIds
      <4> QED
        BY <2>1, <2>2, <2>3, <3>1, <4>2
    <3>2. CASE u # t
      <4>1. pc[u] = "reply" /\ reqId'[u] = reqId[u] /\ call'[u] = call[u]
        BY <2>2, <2>3, <3>2
      <4>2. f.id # NextId
        BY <1>1, <4>1 DEF ReplyInv, Registered
      <4>3. f \in InFlight(c)
        BY <2>1, <4>2
      <4> QED
        BY <4>1, <4>3 DEF ReplyInv, Correlated
    <3> QED
      BY <3>1, <3>2
  <2>7. OwnReply'
    BY <2>2, <2>3 DEF ReplyInv, OwnReply
  <2>8. NoForgottenWaiter'
    BY <1>1, <2>2, <2>3 DEF ReplyInv, NoForgottenWaiter, Registered
  <2> QED
    BY <2>4, <2>5, <2>6, <2>7, <2>8 DEF ReplyInv
<1>3. CASE SendBreaks(t, n, holder)
  <2>1. /\ pc' \in {[pc EXCEPT ![t] = "opening"], [pc EXCEPT ![t] = "lock"]}
        /\ call' = [call EXCEPT ![t] = n] /\ fut' = FailedFutures
        /\ reqId' = reqId /\ got' = got /\ toGateway' = toGateway
    BY <1>3 DEF SendBreaks, Reconnect
  <2>2. ASSUME NEW u \in Callers PROVE StillWaits(u)
    BY <2>1, AllFail DEF StillWaits, ReplyInv, TypeOK, CallersType
  <2> QED
    BY <1>1, <2>1, <2>2, WireKept, QuietStep DEF Quiet
<1>4. CASE SendGivesUp(t, holder)
  <2>1. ASSUME NEW u \in Callers PROVE StillWaits(u)
    BY <1>4 DEF SendGivesUp, End, StillWaits, ReplyInv, TypeOK, CallersType
  <2>2. toGateway' = toGateway
    BY <1>4 DEF SendGivesUp
  <2> QED
    BY <1>1, <2>1, <2>2, WireKept, QuietStep DEF Quiet
<1> QED
  BY <1>2, <1>3, <1>4 DEF Send

\* The steps that write no request and deliver no reply.

LEMMA OpenFailsQuiet ==
  ASSUME ReplyInv, NEW t \in Callers, OpenFails(t)
  PROVE  Quiet
<1>1. msgId' = msgId /\ msgId \in Nat
  BY DEF OpenFails, End, links, ReplyInv, TypeOK, ClientType
<1>2. ASSUME NEW u \in Callers PROVE StillWaits(u)
  BY DEF OpenFails, End, links, StillWaits, ReplyInv, TypeOK, CallersType
<1>3. ASSUME NEW d \in Conns PROVE InFlight(d)' \subseteq InFlight(d)
  BY WireKept DEF OpenFails, End, links, ReplyInv, TypeOK, LinksType
<1> QED
  BY <1>1, <1>2, <1>3 DEF Quiet

LEMMA OpenedQuiet ==
  ASSUME ReplyInv, NEW t \in Callers, Opened(t)
  PROVE  Quiet
<1>1. msgId' = msgId /\ msgId \in Nat
  BY DEF Opened, ReplyInv, TypeOK, ClientType
<1>2. ASSUME NEW u \in Callers PROVE StillWaits(u)
  BY DEF Opened, StillWaits, ReplyInv, TypeOK, CallersType
<1>3. ASSUME NEW d \in Conns PROVE InFlight(d)' \subseteq InFlight(d)
  BY WireKept DEF Opened, ReplyInv, TypeOK, LinksType
<1> QED
  BY <1>1, <1>2, <1>3 DEF Quiet

LEMMA LoginFailsQuiet ==
  ASSUME ReplyInv, NEW t \in Callers, LoginFails(t)
  PROVE  Quiet
<1>1. msgId' = msgId /\ msgId \in Nat
  BY DEF LoginFails, End, CloseLink, StopReading, ReplyInv, TypeOK, ClientType
<1>2. ASSUME NEW u \in Callers PROVE StillWaits(u)
  BY AllFail DEF LoginFails, End, CloseLink, StopReading, StillWaits, ReplyInv, TypeOK, CallersType
<1>3. ASSUME NEW d \in Conns PROVE InFlight(d)' \subseteq InFlight(d)
  BY WireKept DEF LoginFails, End, CloseLink, StopReading, ReplyInv, TypeOK, LinksType
<1> QED
  BY <1>1, <1>2, <1>3 DEF Quiet

LEMMA AbandonedQuiet ==
  ASSUME ReplyInv, NEW t \in Callers, Abandoned(t)
  PROVE  Quiet
<1>1. msgId' = msgId /\ msgId \in Nat
  BY DEF Abandoned, End, links, ReplyInv, TypeOK, ClientType
<1>2. ASSUME NEW u \in Callers PROVE StillWaits(u)
  BY AllFail DEF Abandoned, End, links, StillWaits, ReplyInv, TypeOK, CallersType
<1>3. ASSUME NEW d \in Conns PROVE InFlight(d)' \subseteq InFlight(d)
  BY WireKept DEF Abandoned, End, links, ReplyInv, TypeOK, LinksType
<1> QED
  BY <1>1, <1>2, <1>3 DEF Quiet

LEMMA ReplyQuiet ==
  ASSUME ReplyInv, NEW t \in Callers, Reply(t)
  PROVE  Quiet
<1>1. msgId' = msgId /\ msgId \in Nat
  BY DEF Reply, End, client, links, ReplyInv, TypeOK, ClientType
<1>2. ASSUME NEW u \in Callers PROVE StillWaits(u)
  BY DEF Reply, End, client, links, StillWaits, ReplyInv, TypeOK, CallersType
<1>3. ASSUME NEW d \in Conns PROVE InFlight(d)' \subseteq InFlight(d)
  BY WireKept DEF Reply, End, client, links, ReplyInv, TypeOK, LinksType
<1> QED
  BY <1>1, <1>2, <1>3 DEF Quiet

LEMMA LinkLostQuiet ==
  ASSUME ReplyInv, NEW t \in Callers, LinkLost(t)
  PROVE  Quiet
<1>1. msgId' = msgId /\ msgId \in Nat
  BY DEF LinkLost, End, CloseLink, StopReading, Reconnect, ReplyInv, TypeOK, ClientType
<1>2. ASSUME NEW u \in Callers PROVE StillWaits(u)
  <2>1. CASE ~MayRetry(t)
    BY <2>1 DEF LinkLost, End, StillWaits, ReplyInv, TypeOK, CallersType
  <2>2. CASE MayRetry(t) /\ Link = "closed"
    <3>1. /\ pc' \in {[pc EXCEPT ![t] = "opening"], [pc EXCEPT ![t] = "lock"]}
          /\ fut' = [FailedFutures EXCEPT ![t] = "none"]
          /\ reqId' = reqId /\ call' = call /\ got' = got
      BY <2>2 DEF LinkLost, Reconnect
    <3>2. CASE u = t
      BY <3>1, <3>2 DEF StillWaits, ReplyInv, TypeOK, CallersType
    <3>3. CASE u # t
      <4>1. pc'[u] = pc[u] /\ fut'[u] = FailedFutures[u]
        BY <3>1, <3>3 DEF ReplyInv, TypeOK, CallersType, FailedFutures
      <4> QED
        BY <3>1, <4>1, AllFail DEF StillWaits, ReplyInv, TypeOK, CallersType
    <3> QED
      BY <3>2, <3>3
  <2>3. CASE MayRetry(t) /\ Link # "closed"
    <3>1. /\ pc' \in {[pc EXCEPT ![t] = "reconnecting"], [pc EXCEPT ![t] = "stopping"]}
          /\ \/ fut' = [fut EXCEPT ![t] = "none"] /\ pending' = pending
             \/ fut' = [FailedFutures EXCEPT ![t] = "none"]
          /\ reqId' = reqId /\ call' = call /\ got' = got
      BY <2>3 DEF LinkLost, CloseLink
    <3>2. CASE u = t
      BY <3>1, <3>2 DEF StillWaits, ReplyInv, TypeOK, CallersType
    <3>3. CASE u # t
      <4>1. /\ pc'[u] = pc[u]
            /\ \/ fut'[u] = fut[u] /\ pending' = pending
               \/ fut'[u] = FailedFutures[u]
        BY <3>1, <3>3 DEF ReplyInv, TypeOK, CallersType, FailedFutures
      <4> QED
        BY <3>1, <4>1, AllFail DEF StillWaits, ReplyInv, TypeOK, CallersType
    <3> QED
      BY <3>2, <3>3
  <2> QED
    BY <2>1, <2>2, <2>3
<1>3. ASSUME NEW d \in Conns PROVE InFlight(d)' \subseteq InFlight(d)
  BY WireKept DEF LinkLost, End, CloseLink, StopReading, Reconnect, ReplyInv, TypeOK, LinksType
<1> QED
  BY <1>1, <1>2, <1>3 DEF Quiet

LEMMA StoppedQuiet ==
  ASSUME ReplyInv, NEW t \in Callers, Stopped(t)
  PROVE  Quiet
<1>1. msgId' = msgId /\ msgId \in Nat
  BY DEF Stopped, ReplyInv, TypeOK, ClientType
<1>2. ASSUME NEW u \in Callers PROVE StillWaits(u)
  BY DEF Stopped, CloseLink, StillWaits, ReplyInv, TypeOK, CallersType
<1>3. ASSUME NEW d \in Conns PROVE InFlight(d)' \subseteq InFlight(d)
  BY WireKept DEF Stopped, CloseLink, ReplyInv, TypeOK, LinksType
<1> QED
  BY <1>1, <1>2, <1>3 DEF Quiet

LEMMA TornDownQuiet ==
  ASSUME ReplyInv, NEW t \in Callers, TornDown(t)
  PROVE  Quiet
<1>1. msgId' = msgId /\ msgId \in Nat
  BY DEF TornDown, Reconnect, links, ReplyInv, TypeOK, ClientType
<1>2. ASSUME NEW u \in Callers PROVE StillWaits(u)
  BY AllFail DEF TornDown, Reconnect, links, StillWaits, ReplyInv, TypeOK, CallersType
<1>3. ASSUME NEW d \in Conns PROVE InFlight(d)' \subseteq InFlight(d)
  BY WireKept DEF TornDown, Reconnect, links, ReplyInv, TypeOK, LinksType
<1> QED
  BY <1>1, <1>2, <1>3 DEF Quiet

LEMMA CancelQuiet ==
  ASSUME ReplyInv, NEW t \in Callers, Cancel(t)
  PROVE  Quiet
<1>1. msgId' = msgId /\ msgId \in Nat
  BY DEF Cancel, End, links, ReplyInv, TypeOK, ClientType
<1>2. ASSUME NEW u \in Callers PROVE StillWaits(u)
  BY DEF Cancel, End, links, callers, StillWaits, ReplyInv, TypeOK, CallersType
<1>3. ASSUME NEW d \in Conns PROVE InFlight(d)' \subseteq InFlight(d)
  BY WireKept DEF Cancel, End, links, ReplyInv, TypeOK, LinksType
<1> QED
  BY <1>1, <1>2, <1>3 DEF Quiet

LEMMA TimeoutQuiet ==
  ASSUME ReplyInv, NEW t \in Callers, Timeout(t)
  PROVE  Quiet
<1>1. msgId' = msgId /\ msgId \in Nat
  BY DEF Timeout, ReplyInv, TypeOK, ClientType
<1>2. ASSUME NEW u \in Callers PROVE StillWaits(u)
  BY DEF Timeout, End, Unregistered, NoForgottenWaiter, StillWaits, ReplyInv, TypeOK, CallersType
<1>3. ASSUME NEW d \in Conns PROVE InFlight(d)' \subseteq InFlight(d)
  BY WireKept DEF Timeout, End, links, ReplyInv, TypeOK, LinksType
<1> QED
  BY <1>1, <1>2, <1>3 DEF Quiet

LEMMA DisconnectQuiet ==
  ASSUME ReplyInv, Disconnect
  PROVE  Quiet
<1>1. msgId' = msgId /\ msgId \in Nat
  BY DEF Disconnect, CloseLink, StopReading, ReplyInv, TypeOK, ClientType
<1>2. ASSUME NEW u \in Callers PROVE StillWaits(u)
  BY AllFail DEF Disconnect, CloseLink, StopReading, StillWaits, ReplyInv, TypeOK, CallersType
<1>3. ASSUME NEW d \in Conns PROVE InFlight(d)' \subseteq InFlight(d)
  BY WireKept DEF Disconnect, CloseLink, StopReading, ReplyInv, TypeOK, LinksType
<1> QED
  BY <1>1, <1>2, <1>3 DEF Quiet

LEMMA DisconnectStoppedQuiet ==
  ASSUME ReplyInv, DisconnectStopped
  PROVE  Quiet
<1>1. msgId' = msgId /\ msgId \in Nat
  BY DEF DisconnectStopped, ReplyInv, TypeOK, ClientType
<1>2. ASSUME NEW u \in Callers PROVE StillWaits(u)
  BY DEF DisconnectStopped, CloseLink, callers, StillWaits, ReplyInv, TypeOK, CallersType
<1>3. ASSUME NEW d \in Conns PROVE InFlight(d)' \subseteq InFlight(d)
  BY WireKept DEF DisconnectStopped, CloseLink, ReplyInv, TypeOK, LinksType
<1> QED
  BY <1>1, <1>2, <1>3 DEF Quiet

LEMMA DisconnectedQuiet ==
  ASSUME ReplyInv, Disconnected
  PROVE  Quiet
<1>1. msgId' = msgId /\ msgId \in Nat
  BY DEF Disconnected, links, ReplyInv, TypeOK, ClientType
<1>2. ASSUME NEW u \in Callers PROVE StillWaits(u)
  BY AllFail DEF Disconnected, links, StillWaits, ReplyInv, TypeOK, CallersType
<1>3. ASSUME NEW d \in Conns PROVE InFlight(d)' \subseteq InFlight(d)
  BY WireKept DEF Disconnected, links, ReplyInv, TypeOK, LinksType
<1> QED
  BY <1>1, <1>2, <1>3 DEF Quiet

LEMMA GatewayReadsUserQuiet ==
  ASSUME ReplyInv, NEW c \in Conns, GatewayReadsUser(c)
  PROVE  Quiet
<1>1. msgId' = msgId /\ msgId \in Nat
  BY DEF GatewayReadsUser, client, callers, ReplyInv, TypeOK, ClientType
<1>2. ASSUME NEW u \in Callers PROVE StillWaits(u)
  BY DEF GatewayReadsUser, client, callers, StillWaits, ReplyInv, TypeOK, CallersType
<1>3. ASSUME NEW d \in Conns PROVE InFlight(d)' \subseteq InFlight(d)
  BY WireKept, WireTail DEF GatewayReadsUser, ReplyInv, TypeOK, LinksType, InFlight
<1> QED
  BY <1>1, <1>2, <1>3 DEF Quiet

LEMMA GatewayAcceptsQuiet ==
  ASSUME ReplyInv, NEW c \in Conns, GatewayAccepts(c)
  PROVE  Quiet
<1>1. msgId' = msgId /\ msgId \in Nat
  BY DEF GatewayAccepts, client, callers, ReplyInv, TypeOK, ClientType
<1>2. ASSUME NEW u \in Callers PROVE StillWaits(u)
  BY DEF GatewayAccepts, client, callers, StillWaits, ReplyInv, TypeOK, CallersType
<1>3. ASSUME NEW d \in Conns PROVE InFlight(d)' \subseteq InFlight(d)
  BY WireKept, WireTail DEF GatewayAccepts, ReplyInv, TypeOK, LinksType, InFlight
<1> QED
  BY <1>1, <1>2, <1>3 DEF Quiet

LEMMA GatewayRefusesQuiet ==
  ASSUME ReplyInv, NEW c \in Conns, GatewayRefuses(c)
  PROVE  Quiet
<1>1. msgId' = msgId /\ msgId \in Nat
  BY DEF GatewayRefuses, HangUp, ReplyInv, TypeOK, ClientType
<1>2. ASSUME NEW u \in Callers PROVE StillWaits(u)
  BY AllFail DEF GatewayRefuses, HangUp, ReadLoopEnds, StillWaits, ReplyInv, TypeOK, CallersType
<1>3. ASSUME NEW d \in Conns PROVE InFlight(d)' \subseteq InFlight(d)
  BY WireKept, WireEmptied DEF GatewayRefuses, HangUp, ReplyInv, TypeOK, LinksType
<1> QED
  BY <1>1, <1>2, <1>3 DEF Quiet

LEMMA GatewayClosesQuiet ==
  ASSUME ReplyInv, NEW c \in Conns, GatewayCloses(c)
  PROVE  Quiet
<1>1. msgId' = msgId /\ msgId \in Nat
  BY DEF GatewayCloses, HangUp, ReplyInv, TypeOK, ClientType
<1>2. ASSUME NEW u \in Callers PROVE StillWaits(u)
  BY AllFail DEF GatewayCloses, HangUp, ReadLoopEnds, StillWaits, ReplyInv, TypeOK, CallersType
<1>3. ASSUME NEW d \in Conns PROVE InFlight(d)' \subseteq InFlight(d)
  BY WireKept, WireEmptied DEF GatewayCloses, HangUp, ReplyInv, TypeOK, LinksType
<1> QED
  BY <1>1, <1>2, <1>3 DEF Quiet

LEMMA ConnectionResetQuiet ==
  ASSUME ReplyInv, NEW c \in Conns, ConnectionReset(c)
  PROVE  Quiet
<1>1. msgId' = msgId /\ msgId \in Nat
  BY DEF ConnectionReset, ReplyInv, TypeOK, ClientType
<1>2. ASSUME NEW u \in Callers PROVE StillWaits(u)
  BY AllFail DEF ConnectionReset, ReadLoopEnds, StillWaits, ReplyInv, TypeOK, CallersType
<1>3. ASSUME NEW d \in Conns PROVE InFlight(d)' \subseteq InFlight(d)
  BY WireKept, WireEmptied DEF ConnectionReset, ReplyInv, TypeOK, LinksType
<1> QED
  BY <1>1, <1>2, <1>3 DEF Quiet

LEMMA AnswerPromptQuiet ==
  ASSUME ReplyInv, NEW t \in Callers, NEW prompt, NEW phases,
         NEW line \in {Username, Password}, NEW next \in LoginPcs,
         AnswerPrompt(t, prompt, phases, line, next)
  PROVE  Quiet
<1>1. msgId' = msgId /\ msgId \in Nat
  BY DEF AnswerPrompt, client, ReplyInv, TypeOK, ClientType
<1>2. ASSUME NEW u \in Callers PROVE StillWaits(u)
  BY DEF AnswerPrompt, client, LoginPcs, StillWaits, ReplyInv, TypeOK, CallersType
<1>3. ASSUME NEW c \in Conns PROVE InFlight(c)' \subseteq InFlight(c)
  <2>1. line \in Line /\ line.what # "request"
    BY LoginLines DEF Username, Password
  <2>2. toClient' = toClient
    BY DEF AnswerPrompt
  <2>3. CASE toGateway'[c] = toGateway[c]
    BY <2>2, <2>3, WireKept
  <2>4. CASE toGateway'[c] # toGateway[c]
    <3>1. toGateway'[c] = Append(toGateway[c], line)
      BY <2>4 DEF AnswerPrompt, ReplyInv, TypeOK, LinksType
    <3> QED
      BY <2>1, <2>2, <3>1, WireAppend DEF ReplyInv
  <2> QED
    BY <2>3, <2>4
<1> QED
  BY <1>1, <1>2, <1>3 DEF Quiet

LEMMA PromptQuiet ==
  ASSUME ReplyInv, NEW t \in Callers, PromptUser(t) \/ PromptPassword(t)
  PROVE  Quiet
BY AnswerPromptQuiet DEF PromptUser, PromptPassword, LoginPcs

LEMMA GatewayRunsQuiet ==
  ASSUME ReplyInv, NEW c \in Conns, GatewayRuns(c)
  PROVE  Quiet
<1>1. msgId' = msgId /\ msgId \in Nat
  BY DEF GatewayRuns, client, ReplyInv, TypeOK, ClientType
<1>2. ASSUME NEW u \in Callers PROVE StillWaits(u)
  BY DEF GatewayRuns, client, callers, StillWaits, ReplyInv, TypeOK, CallersType
<1>3. ASSUME NEW d \in Conns PROVE InFlight(d)' \subseteq InFlight(d)
  <2> DEFINE line == Head(toGateway[c])
             reply == [id |-> line.id, call |-> line.call]
  <2>1. toGateway \in [Conns -> Seq(Line)] /\ toClient \in [Conns -> SUBSET [id : 0..MaxIds, call : 0..MaxCalls]]
    BY DEF ReplyInv, TypeOK, LinksType
  <2>2. /\ toGateway[c] # <<>> /\ line.what = "request"
        /\ toGateway' = [toGateway EXCEPT ![c] = Tail(toGateway[c])]
        /\ toClient' \in {toClient, [toClient EXCEPT ![c] = toClient[c] \cup {reply}]}
    BY DEF GatewayRuns
  <2>3. CASE d # c
    BY <2>1, <2>2, <2>3, WireKept
  <2>4. CASE d = c
    <3>1. toGateway[c] \in Seq(Line) /\ 1 \in 1..Len(toGateway[c]) /\ line = toGateway[c][1]
      BY <2>1, <2>2
    <3>2. reply \in InFlight(c)
      BY <2>2, <3>1 DEF InFlight
    <3>3. toClient'[c] \subseteq InFlight(c)
      BY <2>1, <2>2, <3>2 DEF InFlight
    <3>4. toGateway'[c] = Tail(toGateway[c])
      BY <2>1, <2>2
    <3> QED
      BY <2>2, <2>4, <3>3, <3>4, WireTail DEF ReplyInv
  <2> QED
    BY <2>3, <2>4
<1> QED
  BY <1>1, <1>2, <1>3 DEF Quiet

\* Dispatch resolves the future registered under the reply's id: by
\* Correlated the reply is about that caller's call.
LEMMA DispatchReplyInv ==
  ASSUME ReplyInv, TypeOK', NEW c \in Conns, Dispatch(c)
  PROVE  ReplyInv'
<1>1. PICK r \in toClient[c] :
        /\ toClient' = [toClient EXCEPT ![c] = toClient[c] \ {r}]
        /\ pending' = [pending EXCEPT ![r.id] = NoOne]
        /\ IF /\ pending[r.id] # NoOne /\ pc[pending[r.id]] = "reply"
              /\ reqId[pending[r.id]] = r.id /\ fut[pending[r.id]] = "waiting"
           THEN /\ fut' = [fut EXCEPT ![pending[r.id]] = "answered"]
                /\ got' = [got EXCEPT ![pending[r.id]] = r.call]
           ELSE UNCHANGED <<fut, got>>
  BY DEF Dispatch, Unregistered
<1>2. /\ msgId' = msgId /\ pc' = pc /\ reqId' = reqId /\ call' = call
      /\ toGateway' = toGateway
  BY DEF Dispatch
<1>3. \A d \in Conns : InFlight(d)' \subseteq InFlight(d)
  BY <1>1, <1>2, WireKept DEF ReplyInv, TypeOK, LinksType
<1>4. r \in InFlight(c)
  BY DEF InFlight
<1>5. r.id \in 1..msgId /\ r.id \in Ids
  BY <1>4 DEF ReplyInv, FreshIds, TypeOK, ClientType, Ids
<1>6. FreshIds' /\ Registered' /\ Correlated'
  BY <1>2, <1>3 DEF ReplyInv, FreshIds, Registered, Correlated
<1>7. OwnReply'
  <2> SUFFICES ASSUME NEW u \in Callers, pc[u] = "reply", fut'[u] = "answered"
               PROVE  got'[u] = call[u]
    BY <1>2 DEF OwnReply
  <2>1. CASE fut'[u] = fut[u] /\ got'[u] = got[u]
    BY <2>1 DEF ReplyInv, OwnReply
  <2>2. CASE ~(fut'[u] = fut[u] /\ got'[u] = got[u])
    <3>1. u = pending[r.id] /\ reqId[u] = r.id /\ got'[u] = r.call
      BY <1>1, <2>2 DEF ReplyInv, TypeOK, CallersType
    <3> QED
      BY <1>4, <3>1 DEF ReplyInv, Correlated
  <2> QED
    BY <2>1, <2>2
<1>8. NoForgottenWaiter'
  <2> SUFFICES ASSUME NEW u \in Callers, pc[u] = "reply", fut'[u] = "waiting"
               PROVE  pending'[reqId[u]] = u
    BY <1>2 DEF NoForgottenWaiter
  <2>1. fut[u] = "waiting"
    BY <1>1 DEF ReplyInv, TypeOK, CallersType
  <2>2. pending[reqId[u]] = u
    BY <2>1 DEF ReplyInv, NoForgottenWaiter
  <2>3. reqId[u] # r.id
    BY <1>1, <2>1, <2>2 DEF ReplyInv, TypeOK, CallersType
  <2> QED
    BY <1>1, <2>2, <2>3
<1> QED
  BY <1>6, <1>7, <1>8 DEF ReplyInv

LEMMA StartReplyInv ==
  ASSUME ReplyInv, TypeOK', NEW t \in Callers, Start(t)
  PROVE  ReplyInv'
<1>1. begun + 1 \in 0..MaxCalls /\ lock \in Callers \cup {NoOne} /\ msgId \in Nat
  BY DEF ReplyInv, TypeOK, ClientType, HistoryType, Start
<1>2. CASE Connected /\ Send(t, begun + 1, lock)
  BY <1>1, <1>2, SendReplyInv DEF Start
<1>3. CASE ~Connected
  <2>1. ASSUME NEW u \in Callers PROVE StillWaits(u)
    BY <1>3 DEF Start, Reconnect, StillWaits, ReplyInv, TypeOK, CallersType
  <2>2. ASSUME NEW d \in Conns PROVE InFlight(d)' \subseteq InFlight(d)
    BY <1>3, WireKept DEF Start
  <2>3. msgId' = msgId
    BY <1>3 DEF Start
  <2> QED
    BY <1>1, <2>1, <2>2, <2>3, QuietStep DEF Quiet
<1> QED
  BY <1>2, <1>3 DEF Start

LEMMA AcquireLockReplyInv ==
  ASSUME ReplyInv, TypeOK', NEW t \in Callers, AcquireLock(t)
  PROVE  ReplyInv'
<1>1. call[t] \in 0..MaxCalls /\ msgId \in Nat
  BY DEF ReplyInv, TypeOK, ClientType, CallersType
<1>2. CASE Connected /\ Send(t, call[t], NoOne)
  BY <1>1, <1>2, SendReplyInv DEF AcquireLock
<1>3. CASE ~Connected
  <2>1. ASSUME NEW u \in Callers PROVE StillWaits(u)
    BY <1>3 DEF AcquireLock, Reconnect, StillWaits, ReplyInv, TypeOK, CallersType
  <2>2. ASSUME NEW d \in Conns PROVE InFlight(d)' \subseteq InFlight(d)
    BY <1>3, WireKept DEF AcquireLock
  <2>3. msgId' = msgId
    BY <1>3 DEF AcquireLock
  <2> QED
    BY <1>1, <2>1, <2>2, <2>3, QuietStep DEF Quiet
<1> QED
  BY <1>2, <1>3 DEF AcquireLock

LEMMA GreetingReplyInv ==
  ASSUME ReplyInv, TypeOK', NEW t \in Callers, Greeting(t)
  PROVE  ReplyInv'
<1>1. call[t] \in 0..MaxCalls
  BY DEF ReplyInv, TypeOK, CallersType
<1>2. \A c \in Conns : toClient'[c] \subseteq toClient[c]
  BY DEF Greeting, ReplyInv, TypeOK, LinksType
<1> QED
  BY <1>1, <1>2, SendReplyInv DEF Greeting

LEMMA ReplyInit == Init => ReplyInv
<1> SUFFICES ASSUME Init PROVE ReplyInv
  OBVIOUS
<1>1. \A c \in Conns : InFlight(c) = {}
  BY DEF Init, InFlight
<1> QED
  BY <1>1, TypeInit
  DEF Init, ReplyInv, FreshIds, Registered, Correlated, OwnReply, NoForgottenWaiter

LEMMA ReplyStep == ReplyInv /\ [Next]_vars => ReplyInv'
<1> SUFFICES ASSUME ReplyInv, [Next]_vars PROVE ReplyInv'
  OBVIOUS
<1>1. TypeOK'
  BY TypeStep DEF ReplyInv
<1>2. CASE Quiet
  BY <1>1, <1>2, QuietStep
<1>3. ASSUME NEW t \in Callers, Start(t) PROVE ReplyInv'
  BY <1>1, <1>3, StartReplyInv
<1>4. ASSUME NEW t \in Callers, CallerStep(t) PROVE ReplyInv'
  BY <1>1, <1>2, <1>4, AcquireLockReplyInv, GreetingReplyInv, OpenFailsQuiet, OpenedQuiet,
     PromptQuiet, LoginFailsQuiet, AbandonedQuiet, ReplyQuiet, TimeoutQuiet,
     LinkLostQuiet, StoppedQuiet, TornDownQuiet
  DEF CallerStep
<1>5. ASSUME NEW t \in Callers, Cancel(t) PROVE ReplyInv'
  BY <1>2, <1>5, CancelQuiet
<1>6. CASE Disconnect \/ DisconnectStopped \/ Disconnected
  BY <1>2, <1>6, DisconnectQuiet, DisconnectStoppedQuiet, DisconnectedQuiet
<1>7. ASSUME NEW c \in Conns, Dispatch(c) PROVE ReplyInv'
  BY <1>1, <1>7, DispatchReplyInv
<1>8. ASSUME NEW c \in Conns, GatewayStep(c) PROVE ReplyInv'
  BY <1>2, <1>8, GatewayReadsUserQuiet, GatewayAcceptsQuiet, GatewayRunsQuiet,
     GatewayRefusesQuiet, GatewayClosesQuiet, ConnectionResetQuiet
  DEF GatewayStep
<1>9. CASE UNCHANGED vars
  <2>1. /\ pc' = pc /\ call' = call /\ reqId' = reqId /\ fut' = fut /\ got' = got
        /\ pending' = pending /\ msgId' = msgId /\ toGateway' = toGateway
        /\ toClient' = toClient
    BY <1>9 DEF vars, client, callers, links
  <2>2. Quiet
    BY <2>1, WireKept DEF Quiet, StillWaits, ReplyInv, TypeOK, ClientType, CallersType
  <2> QED
    BY <1>2, <2>2
<1> QED
  BY <1>3, <1>4, <1>5, <1>6, <1>7, <1>8, <1>9 DEF Next

\* A reply resolves the call it answers and no other, whatever times out, is
\* retried, cancelled or answered late.
THEOREM RepliesAreOwn == Spec => []OwnReply
<1>1. ReplyInv => OwnReply
  BY DEF ReplyInv
<1> QED
  BY <1>1, ReplyInit, ReplyStep, PTL DEF Spec

\* No caller waits for a future the read loop cannot find.
THEOREM WaitersAreRegistered == Spec => []NoForgottenWaiter
<1>1. ReplyInv => NoForgottenWaiter
  BY DEF ReplyInv
<1> QED
  BY <1>1, ReplyInit, ReplyStep, PTL DEF Spec

-----------------------------------------------------------------------------
(* What _pending keeps.  Without a cancellation a registered caller waits, *)
(* so a caller that moves on was not registered, or clears its own entry;  *)
(* and whatever fails the futures clears _pending with them.               *)

LEMMA EmptiedKeepsNothing ==
  ASSUME pending' = NothingPending
  PROVE  NoStaleFuture'
BY DEF NoStaleFuture, NothingPending

\* A caller that was not registered moves, and _pending stays as it is.
LEMMA OneMovesOn ==
  ASSUME TypeOK, NoStaleFuture, NEW t \in Callers, cancels' = cancels,
         pending' = pending, pc[t] # "reply" \/ fut[t] # "waiting",
         \A u \in Callers \ {t} :
           pc'[u] = pc[u] /\ reqId'[u] = reqId[u] /\ fut'[u] = fut[u]
  PROVE  NoStaleFuture'
BY DEF NoStaleFuture, TypeOK, ClientType

\* A caller that was not registered is, under an id that nobody waits for.
LEMMA SendKeepsWaiters ==
  ASSUME TypeOK, NoStaleFuture, NEW t \in Callers, pc[t] # "reply",
         NEW n, NEW holder, Send(t, n, holder), cancels' = cancels
  PROVE  NoStaleFuture'
<1>1. CASE SendOnLink(t, n, holder)
  <2>1. /\ pending' = [pending EXCEPT ![NextId] = t]
        /\ fut' = [fut EXCEPT ![t] = "waiting"] /\ pc' = [pc EXCEPT ![t] = "reply"]
        /\ reqId' = [reqId EXCEPT ![t] = NextId]
    BY <1>1 DEF SendOnLink
  <2> QED BY <2>1 DEF NoStaleFuture, TypeOK, ClientType, CallersType
<1>2. CASE SendBreaks(t, n, holder)
  BY <1>2, EmptiedKeepsNothing DEF SendBreaks, ClearLink
<1>3. CASE SendGivesUp(t, holder)
  <2>1. /\ pending' = pending /\ fut' = fut /\ pc' = [pc EXCEPT ![t] = "idle"]
        /\ reqId' = [reqId EXCEPT ![t] = 0]
    BY <1>3 DEF SendGivesUp, End
  <2> QED BY <2>1, OneMovesOn DEF TypeOK, CallersType
<1> QED BY <1>1, <1>2, <1>3 DEF Send

LEMMA CallerKeepsWaiters ==
  ASSUME TypeOK, NoStaleFuture, NEW t \in Callers, CallerStep(t)
  PROVE  NoStaleFuture'
<1>1. CASE AcquireLock(t)
  <2>1. CASE Send(t, call[t], NoOne)
    BY <1>1, <2>1, SendKeepsWaiters DEF AcquireLock
  <2>2. CASE Reconnect(t, NoOne) /\ UNCHANGED <<pending, reqId, fut>>
    BY <1>1, <2>2, OneMovesOn DEF AcquireLock, Reconnect, TypeOK, CallersType
  <2> QED BY <1>1, <2>1, <2>2 DEF AcquireLock
<1>2. CASE OpenFails(t)
  BY <1>2, OneMovesOn DEF OpenFails, End, TypeOK, CallersType
<1>3. CASE Opened(t)
  BY <1>3, OneMovesOn DEF Opened, TypeOK, CallersType
<1>4. CASE PromptUser(t) \/ PromptPassword(t)
  BY <1>4, OneMovesOn DEF PromptUser, PromptPassword, AnswerPrompt, client, TypeOK, CallersType
<1>5. CASE Greeting(t)
  BY <1>5, SendKeepsWaiters DEF Greeting
<1>6. CASE LoginFails(t)
  <2>1. CASE ClearLink
    BY <2>1, EmptiedKeepsNothing DEF ClearLink
  <2>2. CASE CloseLink /\ pc' = [pc EXCEPT ![t] = "abandoning"] /\ UNCHANGED <<reqId, fut>>
    <3>1. pc[t] # "reply" /\ cancels' = cancels
      BY <1>6 DEF LoginFails, LoginPcs
    <3> QED BY <2>2, <3>1, OneMovesOn DEF CloseLink, TypeOK, CallersType
  <2> QED BY <1>6, <2>1, <2>2 DEF LoginFails
<1>7. CASE Abandoned(t) \/ TornDown(t)
  BY <1>7, EmptiedKeepsNothing DEF Abandoned, TornDown, ClearLink
<1>8. CASE Reply(t)
  BY <1>8, OneMovesOn DEF Reply, End, client, TypeOK, CallersType
<1>9. CASE Timeout(t)
  <2>1. /\ pending' = [pending EXCEPT ![reqId[t]] = NoOne]
        /\ fut' = [fut EXCEPT ![t] = "none"] /\ pc' = [pc EXCEPT ![t] = "idle"]
        /\ reqId' = [reqId EXCEPT ![t] = 0] /\ cancels' = cancels
    BY <1>9 DEF Timeout, Unregistered, End
  <2> QED BY <2>1 DEF NoStaleFuture, TypeOK, ClientType, CallersType
<1>10. CASE LinkLost(t)
  <2>1. pc[t] = "reply" /\ fut[t] = "lost" /\ cancels' = cancels
    BY <1>10 DEF LinkLost
  <2>2. CASE End(t, "lost") /\ fut' = [fut EXCEPT ![t] = "none"] /\ UNCHANGED pending
    BY <2>1, <2>2, OneMovesOn DEF End, TypeOK, CallersType
  <2>3. CASE ClearLink
    BY <2>3, EmptiedKeepsNothing DEF ClearLink
  <2>4. CASE CloseLink /\ fut' = [fut EXCEPT ![t] = "none"]
             /\ pc' = [pc EXCEPT ![t] = "reconnecting"] /\ UNCHANGED reqId
    BY <2>1, <2>4, OneMovesOn DEF CloseLink, TypeOK, CallersType
  <2>5. CASE StopReading
    BY <2>5, EmptiedKeepsNothing DEF StopReading
  <2> QED BY <1>10, <2>2, <2>3, <2>4, <2>5 DEF LinkLost
<1>11. CASE Stopped(t)
  <2>1. pc[t] # "reply" /\ pc' = [pc EXCEPT ![t] = "reconnecting"]
        /\ UNCHANGED <<pending, reqId, fut, cancels>>
    BY <1>11 DEF Stopped, CloseLink
  <2> QED BY <2>1, OneMovesOn DEF TypeOK, CallersType
<1> QED
  BY <1>1, <1>2, <1>3, <1>4, <1>5, <1>6, <1>7, <1>8, <1>9, <1>10, <1>11
  DEF CallerStep

LEMMA DispatchKeepsWaiters ==
  ASSUME TypeOK, NoStaleFuture, NEW c \in Conns, Dispatch(c)
  PROVE  NoStaleFuture'
<1> PICK r \in toClient[c] :
      /\ pending' = Unregistered(r.id)
      /\ IF pending[r.id] # NoOne /\ pc[pending[r.id]] = "reply"
            /\ reqId[pending[r.id]] = r.id /\ fut[pending[r.id]] = "waiting"
         THEN fut' = [fut EXCEPT ![pending[r.id]] = "answered"]
         ELSE UNCHANGED fut
  BY DEF Dispatch
<1>1. UNCHANGED <<pc, reqId, cancels>>
  BY DEF Dispatch
<1>2. ASSUME cancels = 0, NEW i \in Ids, pending'[i] # NoOne
      PROVE  /\ pc[pending'[i]] = "reply" /\ reqId[pending'[i]] = i
             /\ fut'[pending'[i]] = "waiting"
  <2>1. i # r.id /\ pending'[i] = pending[i] /\ pending[i] \in Callers
    BY <1>2 DEF Unregistered, TypeOK, ClientType
  <2>2. /\ pc[pending[i]] = "reply" /\ reqId[pending[i]] = i
        /\ fut[pending[i]] = "waiting"
    BY <1>2, <2>1 DEF NoStaleFuture
  <2>3. fut'[pending[i]] = "waiting"
    BY <2>1, <2>2 DEF TypeOK, CallersType
  <2> QED BY <2>1, <2>2, <2>3
<1> QED BY <1>1, <1>2 DEF NoStaleFuture

LEMMA GatewayKeepsWaiters ==
  ASSUME TypeOK, NoStaleFuture, NEW c \in Conns, GatewayStep(c)
  PROVE  NoStaleFuture'
<1>1. UNCHANGED <<pc, reqId, cancels>> /\ (UNCHANGED <<pending, fut>> \/ ReadLoopEnds(c))
  BY DEF GatewayStep, GatewayReadsUser, GatewayAccepts, GatewayRuns, GatewayRefuses,
         GatewayCloses, ConnectionReset, HangUp, client, callers
<1>2. CASE UNCHANGED <<pending, fut>>
  BY <1>1, <1>2 DEF NoStaleFuture
<1>3. CASE pending' = NothingPending
  BY <1>3, EmptiedKeepsNothing
<1> QED BY <1>1, <1>2, <1>3 DEF ReadLoopEnds

LEMMA StaleStep == TypeOK /\ NoStaleFuture /\ [Next]_vars => NoStaleFuture'
<1> SUFFICES ASSUME TypeOK, NoStaleFuture, [Next]_vars PROVE NoStaleFuture'
  OBVIOUS
<1>1. ASSUME NEW t \in Callers, Start(t) PROVE NoStaleFuture'
  <2>1. pc[t] = "idle" /\ cancels' = cancels
    BY <1>1 DEF Start
  <2>2. CASE Send(t, begun + 1, lock)
    BY <2>1, <2>2, SendKeepsWaiters
  <2>3. CASE Reconnect(t, lock) /\ UNCHANGED <<pending, reqId, fut>>
    BY <2>1, <2>3, OneMovesOn DEF Reconnect, TypeOK, CallersType
  <2> QED BY <1>1, <2>2, <2>3 DEF Start
<1>2. ASSUME NEW t \in Callers, Cancel(t) PROVE NoStaleFuture'
  BY <1>2 DEF Cancel, NoStaleFuture, TypeOK
<1>3. CASE Disconnect
  <2>1. CASE ClearLink
    BY <2>1, EmptiedKeepsNothing DEF ClearLink
  <2>2. CASE CloseLink /\ UNCHANGED fut
    BY <1>3, <2>2 DEF Disconnect, CloseLink, NoStaleFuture
  <2>3. CASE StopReading
    BY <2>3, EmptiedKeepsNothing DEF StopReading
  <2> QED BY <1>3, <2>1, <2>2, <2>3 DEF Disconnect
<1>4. CASE Disconnected
  BY <1>4, EmptiedKeepsNothing DEF Disconnected, ClearLink
<1>5. CASE UNCHANGED vars
  BY <1>5 DEF vars, client, callers, NoStaleFuture
<1>6. CASE DisconnectStopped
  BY <1>6 DEF DisconnectStopped, CloseLink, callers, NoStaleFuture
<1> QED
  BY <1>1, <1>2, <1>3, <1>4, <1>5, <1>6, CallerKeepsWaiters, DispatchKeepsWaiters,
     GatewayKeepsWaiters DEF Next

\* As long as nobody is cancelled, no future stays in _pending that nobody awaits,
\* whichever way calls end (uai/client.py, async_request and _read_loop).
THEOREM NoFutureIsStale == Spec => []NoStaleFuture
<1>1. Init => NoStaleFuture
  BY DEF Init, NoStaleFuture, NothingPending
<1> QED BY <1>1, StaleStep, Typing, PTL DEF Spec
=============================================================================
