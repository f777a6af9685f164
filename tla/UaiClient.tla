------------------------------ MODULE UaiClient ------------------------------
(***************************************************************************)
(* The telnet client of uai/client.py: one link to the gateway shared by   *)
(* every caller, a login handshake, one background read loop that hands    *)
(* replies to per-request futures by message id, and a single transparent  *)
(* retry after a dropped link.                                             *)
(*                                                                         *)
(* The client is single-threaded asyncio code: what lies between two       *)
(* awaits that can suspend is one action.  pc[t] names the await at which  *)
(* caller t is suspended:                                                  *)
(*   "lock"          async_connect waits for _connect_lock                 *)
(*   "opening"       _open waits for open_connection                       *)
(*   "user", "password", "greeting"   _authenticate waits for that prompt  *)
(*   "abandoning"    _open waits in _teardown after a failed login         *)
(*   "reply"         async_request waits for its future                    *)
(*   "stopping"      _teardown, before a retry, waits for the read loop     *)
(*   "reconnecting"  it waits for the transport to close                   *)
(* A request line fits the transport's buffer, so write and drain do not   *)
(* suspend, and closing a transport takes effect before the event loop     *)
(* handles the next network event.                                         *)
(***************************************************************************)
EXTENDS Naturals, Sequences

CONSTANTS
  Callers,     \* tasks that share the client
  NoOne,       \* no caller
  MaxCalls,    \* bound: calls of async_request made by all callers together
  MaxIds,      \* bound: message ids drawn (two per call suffice)
  MaxConns,    \* bound: connections opened (two per call suffice)
  MaxCancels,  \* bound: callers cancelled by Home Assistant
  MayUnload    \* whether async_disconnect may be called

ASSUME CallersAssumption == NoOne \notin Callers
ASSUME BoundsAssumption ==
  /\ MaxCalls \in Nat /\ MaxIds \in Nat /\ MaxConns \in Nat
  /\ MaxCancels \in Nat /\ MayUnload \in BOOLEAN

VARIABLES
  writer,      \* the connection held in _reader/_writer, 0 for None
  readLoop,    \* the connection whose read loop is running, 0 for none
  pending,     \* _pending: message id -> the caller whose future it holds
  msgId,       \* _msg_id, counted from its random start
  lock,        \* the holder of _connect_lock
  pc, call, retrying, reqId,  \* of each caller: its await, call, attempt, id
  fut,         \* the state of the future a caller awaits
  got,         \* the call whose reply resolved that future
  conn,        \* the client's end of each connection
  gateway,     \* the gateway's end: its login dialogue
  toGateway,   \* lines written and not yet read by the gateway
  toClient,    \* replies sent and not yet read by the client
  begun,       \* calls started so far
  outcome, sent, executed,  \* of each call: result, copies written and run
  cancels, unload

client == <<writer, readLoop, pending, msgId, lock>>
callers == <<pc, call, retrying, reqId, fut, got>>
links == <<conn, gateway, toGateway, toClient>>
history == <<begun, outcome, sent, executed>>
vars == <<client, callers, links, history, cancels, unload>>

Calls == 1..MaxCalls
Ids == 1..MaxIds
Conns == 1..MaxConns
LoginPcs == {"user", "password", "greeting"}

Line == [what : {"username", "password", "request"},
         id : 0..MaxIds, call : 0..MaxCalls]
Request(id, n) == [what |-> "request", id |-> id, call |-> n]
Username == [what |-> "username", id |-> 0, call |-> 0]
Password == [what |-> "password", id |-> 0, call |-> 0]

NothingPending == [i \in Ids |-> NoOne]

Init ==
  /\ writer = 0 /\ readLoop = 0 /\ msgId = 0 /\ lock = NoOne
  /\ pending = NothingPending
  /\ pc = [t \in Callers |-> "idle"]
  /\ call = [t \in Callers |-> 0]
  /\ retrying = [t \in Callers |-> FALSE]
  /\ reqId = [t \in Callers |-> 0]
  /\ fut = [t \in Callers |-> "none"]
  /\ got = [t \in Callers |-> 0]
  /\ conn = [c \in Conns |-> "none"]
  /\ gateway = [c \in Conns |-> "none"]
  /\ toGateway = [c \in Conns |-> <<>>]
  /\ toClient = [c \in Conns |-> {}]
  /\ begun = 0 /\ outcome = [n \in Calls |-> "none"]
  /\ sent = [n \in Calls |-> 0]
  /\ executed = [n \in Calls |-> 0]
  /\ cancels = 0 /\ unload = "no"

-----------------------------------------------------------------------------
(* The client's state, as its code tests and changes it.                   *)

\* A link the gateway has closed is still "connected": asyncio keeps the
\* transport of a half-closed connection open until a write on it fails.
Connected == writer # 0 /\ conn[writer] # "closed"

Link == IF writer = 0 THEN "closed" ELSE conn[writer]

\* Faulty variants of the definitions below are named ...Bug.
NextIdSkipsBug == msgId + 2
NextIdStuckBug == IF msgId = 0 THEN 1 ELSE msgId
NextId == msgId + 1

\* _fail_pending clears _pending without failing the futures.
FailedFuturesBug == fut

\* The futures after _fail_pending: whoever is registered and still waits
\* gets UaiConnectionError.
FailedFutures ==
  [t \in Callers |->
     IF pc[t] = "reply" /\ fut[t] = "waiting" /\ pending[reqId[t]] = t
     THEN "lost" ELSE fut[t]]

UnregisteredBug(id) == pending
Unregistered(id) == [pending EXCEPT ![id] = NoOne]

MayRetryBug(t) == TRUE
MayRetry(t) == ~retrying[t]

\* Caller t returns from async_request, or raises.
End(t, result) ==
  /\ pc' = [pc EXCEPT ![t] = "idle"]
  /\ outcome' = [outcome EXCEPT ![call[t]] = result]
  /\ call' = [call EXCEPT ![t] = 0]
  /\ retrying' = [retrying EXCEPT ![t] = FALSE]
  /\ reqId' = [reqId EXCEPT ![t] = 0]
  /\ got' = [got EXCEPT ![t] = 0]

\* async_connect without the lock.
ReconnectBug(t, holder) == lock' = t /\ pc' = [pc EXCEPT ![t] = "opening"]

\* async_connect when the link is not usable: take the lock or queue for it.
Reconnect(t, holder) ==
  IF holder = NoOne
  THEN lock' = t /\ pc' = [pc EXCEPT ![t] = "opening"]
  ELSE lock' = holder /\ pc' = [pc EXCEPT ![t] = "lock"]

\* _teardown closes the transport under a running read loop.
CloseLinkBug ==
  /\ conn' = [conn EXCEPT ![writer] = "closed"]
  /\ toClient' = [toClient EXCEPT ![writer] = {}]
  /\ UNCHANGED <<writer, readLoop, pending>>

\* _teardown up to wait_closed, without a read loop: close the transport.
CloseLink ==
  /\ readLoop = 0
  /\ conn' = [conn EXCEPT ![writer] = "closed"]
  /\ toClient' = [toClient EXCEPT ![writer] = {}]
  /\ UNCHANGED <<writer, readLoop, pending>>

\* _teardown cancels the read loop and waits for it: its finally clause fails
\* the futures.  Until the transport is closed, requests may still be written.
StopReading ==
  /\ readLoop # 0 /\ readLoop' = 0
  /\ pending' = NothingPending
  /\ UNCHANGED <<writer, conn, toClient>>

\* _teardown after wait_closed, or all of it when nothing has to be awaited.
ClearLink ==
  /\ writer' = 0
  /\ pending' = NothingPending

\* Lines 234-253 of async_request up to its next await: register a future
\* under a fresh id and write the request.  holder is whoever is left with
\* _connect_lock.  A write on a half-closed link is lost; once the peer has
\* answered it with a reset, the next one raises.
SendOnLink(t, n, holder) ==
  /\ Link \in {"up", "eof"}
  /\ pending' = [pending EXCEPT ![NextId] = t]
  /\ fut' = [fut EXCEPT ![t] = "waiting"]
  /\ pc' = [pc EXCEPT ![t] = "reply"]
  /\ call' = [call EXCEPT ![t] = n]
  /\ reqId' = [reqId EXCEPT ![t] = NextId]
  /\ sent' = [sent EXCEPT ![n] = @ + 1]
  /\ lock' = holder
  /\ IF Link = "up"
     THEN /\ toGateway' = [toGateway EXCEPT ![writer] = Append(@, Request(NextId, n))]
          /\ UNCHANGED conn
     ELSE /\ conn' \in {conn, [conn EXCEPT ![writer] = "broken"]}
          /\ UNCHANGED toGateway
  /\ UNCHANGED <<writer, retrying, got, outcome>>

SendBreaks(t, n, holder) ==
  /\ Link = "broken" /\ MayRetry(t)
  /\ conn' = [conn EXCEPT ![writer] = "closed"]
  /\ ClearLink
  /\ fut' = FailedFutures
  /\ call' = [call EXCEPT ![t] = n]
  /\ retrying' = [retrying EXCEPT ![t] = TRUE]
  /\ Reconnect(t, holder)
  /\ UNCHANGED <<reqId, got, toGateway, outcome, sent>>

SendGivesUp(t, holder) ==
  /\ Link = "broken" /\ ~MayRetry(t)
  /\ conn' = [conn EXCEPT ![writer] = "closed"]
  /\ End(t, "lost")
  /\ lock' = holder
  /\ UNCHANGED <<writer, pending, fut, toGateway, sent>>

Send(t, n, holder) ==
  /\ msgId < MaxIds
  /\ msgId' = NextId
  /\ SendOnLink(t, n, holder) \/ SendBreaks(t, n, holder) \/ SendGivesUp(t, holder)

-----------------------------------------------------------------------------
(* async_request and async_connect                                         *)

Start(t) ==
  /\ pc[t] = "idle" /\ unload # "done" /\ begun < MaxCalls
  /\ begun' = begun + 1
  /\ \/ /\ Connected
        /\ Send(t, begun + 1, lock)
     \/ /\ ~Connected
        /\ call' = [call EXCEPT ![t] = begun + 1]
        /\ Reconnect(t, lock)
        /\ UNCHANGED <<writer, pending, msgId, retrying, reqId, fut, got, conn,
                       toGateway, outcome, sent>>
  /\ UNCHANGED <<readLoop, gateway, toClient, executed, cancels, unload>>

AcquireLock(t) ==
  /\ pc[t] = "lock" /\ lock = NoOne
  /\ \/ /\ Connected
        /\ Send(t, call[t], NoOne)
     \/ /\ ~Connected
        /\ Reconnect(t, NoOne)
        /\ UNCHANGED <<writer, pending, msgId, call, retrying, reqId, fut, got,
                       conn, toGateway, outcome, sent>>
  /\ UNCHANGED <<readLoop, gateway, toClient, begun, executed, cancels, unload>>

\* A failed connect leaves the lock held.
OpenFailsBug(t) ==
  /\ pc[t] = "opening"
  /\ End(t, "unreachable")
  /\ UNCHANGED <<client, fut, links, begun, sent, executed, cancels, unload>>

OpenFails(t) ==
  /\ pc[t] = "opening"
  /\ End(t, "unreachable")
  /\ lock' = NoOne
  /\ UNCHANGED <<writer, readLoop, pending, msgId, fut, links, begun, sent,
                 executed, cancels, unload>>

\* No task is left inside _teardown when a connect event is handled.
Settled ==
  /\ unload \notin {"stopping", "closing"}
  /\ \A u \in Callers : pc[u] \notin {"abandoning", "stopping", "reconnecting"}

Opened(t) ==
  /\ pc[t] = "opening" /\ Settled
  /\ \E c \in Conns :
       /\ conn[c] = "none" /\ \A d \in 1..(c - 1) : conn[d] # "none"
       /\ conn' = [conn EXCEPT ![c] = "up"]
       /\ gateway' = [gateway EXCEPT ![c] = "user"]
       /\ writer' = c
  /\ pc' = [pc EXCEPT ![t] = "user"]
  /\ UNCHANGED <<readLoop, pending, msgId, lock, call, retrying, reqId, fut, got,
                 toGateway, toClient, history, cancels, unload>>

\* _authenticate answers a prompt the gateway has sent.
AnswerPrompt(t, prompt, phases, line, next) ==
  /\ pc[t] = prompt /\ Link = "up" /\ gateway[writer] \in phases
  /\ toGateway' = [toGateway EXCEPT ![writer] = Append(@, line)]
  /\ pc' = [pc EXCEPT ![t] = next]
  /\ UNCHANGED <<client, call, retrying, reqId, fut, got, conn, gateway, toClient,
                 history, cancels, unload>>

PromptUser(t) ==
  AnswerPrompt(t, "user", {"user", "password", "doomed"}, Username, "password")
PromptPassword(t) ==
  AnswerPrompt(t, "password", {"password", "doomed"}, Password, "greeting")

\* The login is complete: start the read loop, release the lock and send the
\* request.  What arrived behind the greeting may have been read with it.
Greeting(t) ==
  /\ pc[t] = "greeting" /\ Link = "up" /\ gateway[writer] = "in"
  /\ readLoop' = writer
  /\ \E kept \in SUBSET toClient[writer] :
       toClient' = [toClient EXCEPT ![writer] = kept]
  /\ Send(t, call[t], NoOne)
  /\ UNCHANGED <<gateway, begun, executed, cancels, unload>>

\* A prompt does not come in time, or the link drops during the login.
LoginFails(t) ==
  /\ pc[t] \in LoginPcs
  /\ \/ /\ Link = "closed"
        /\ ClearLink
        /\ End(t, "auth")
        /\ lock' = NoOne
        /\ fut' = FailedFutures
        /\ UNCHANGED <<readLoop, conn, toClient>>
     \/ /\ Link # "closed"
        /\ CloseLink
        /\ pc' = [pc EXCEPT ![t] = "abandoning"]
        /\ UNCHANGED <<lock, call, retrying, reqId, fut, got, outcome>>
  /\ UNCHANGED <<msgId, gateway, toGateway, begun, sent, executed, cancels, unload>>

Abandoned(t) ==
  /\ pc[t] = "abandoning"
  /\ ClearLink
  /\ fut' = FailedFutures
  /\ End(t, "auth")
  /\ lock' = NoOne
  /\ UNCHANGED <<readLoop, msgId, links, begun, sent, executed, cancels, unload>>

Reply(t) ==
  /\ pc[t] = "reply" /\ fut[t] = "answered"
  /\ fut' = [fut EXCEPT ![t] = "none"]
  /\ End(t, "answered")
  /\ UNCHANGED <<client, links, begun, sent, executed, cancels, unload>>

Timeout(t) ==
  /\ pc[t] = "reply" /\ fut[t] = "waiting"
  /\ pending' = Unregistered(reqId[t])
  /\ fut' = [fut EXCEPT ![t] = "none"]
  /\ End(t, "timeout")
  /\ UNCHANGED <<writer, readLoop, msgId, lock, links, begun, sent, executed,
                 cancels, unload>>

\* UaiConnectionError while waiting: give up after a retry, else tear the
\* link down and reconnect.
LinkLost(t) ==
  /\ pc[t] = "reply" /\ fut[t] = "lost"
  /\ \/ /\ ~MayRetry(t)
        /\ End(t, "lost")
        /\ fut' = [fut EXCEPT ![t] = "none"]
        /\ UNCHANGED <<writer, readLoop, pending, lock, conn, toClient>>
     \/ /\ MayRetry(t) /\ Link = "closed"
        /\ ClearLink
        /\ retrying' = [retrying EXCEPT ![t] = TRUE]
        /\ fut' = [FailedFutures EXCEPT ![t] = "none"]
        /\ Reconnect(t, lock)
        /\ UNCHANGED <<readLoop, call, reqId, got, conn, toClient, outcome>>
     \/ /\ MayRetry(t) /\ Link # "closed"
        /\ \/ CloseLink /\ pc' = [pc EXCEPT ![t] = "reconnecting"]
                         /\ fut' = [fut EXCEPT ![t] = "none"]
           \/ StopReading /\ pc' = [pc EXCEPT ![t] = "stopping"]
                           /\ fut' = [FailedFutures EXCEPT ![t] = "none"]
        /\ UNCHANGED <<lock, call, retrying, reqId, got, outcome>>
  /\ UNCHANGED <<msgId, gateway, toGateway, begun, sent, executed, cancels, unload>>

\* The read loop has ended: close the transport, if none has done so.
Stopped(t) ==
  /\ pc[t] = "stopping" /\ pc' = [pc EXCEPT ![t] = "reconnecting"]
  /\ IF Link = "closed" THEN UNCHANGED <<writer, readLoop, pending, conn, toClient>>
                        ELSE CloseLink
  /\ UNCHANGED <<msgId, lock, call, retrying, reqId, fut, got, gateway, toGateway,
                 history, cancels, unload>>

TornDown(t) ==
  /\ pc[t] = "reconnecting"
  /\ ClearLink
  /\ fut' = FailedFutures
  /\ retrying' = [retrying EXCEPT ![t] = TRUE]
  /\ Reconnect(t, lock)
  /\ UNCHANGED <<readLoop, msgId, call, reqId, got, links, history, cancels, unload>>

\* Home Assistant cancels the caller's task at whichever await it is.  A
\* future it awaited stays in _pending, a connection it was logging in on
\* stays in _writer.  While it waits for the read loop, _teardown suppresses
\* the cancellation, and it goes on.
Cancel(t) ==
  /\ pc[t] # "idle" /\ cancels < MaxCancels
  /\ cancels' = cancels + 1
  /\ IF pc[t] = "stopping" THEN UNCHANGED <<lock, callers, outcome>>
     ELSE /\ End(t, "cancelled")
          /\ fut' = [fut EXCEPT ![t] = "none"]
          /\ lock' = IF lock = t THEN NoOne ELSE lock
  /\ UNCHANGED <<writer, readLoop, pending, msgId, links, begun, sent, executed,
                 unload>>

-----------------------------------------------------------------------------
(* async_disconnect, as async_unload_entry calls it: the platforms are     *)
(* unloaded, but calls may be in progress, and until it has returned the   *)
(* refresh and the follow task may begin more.                             *)

Disconnect ==
  /\ MayUnload /\ unload = "no"
  /\ \/ /\ Link = "closed"
        /\ ClearLink
        /\ fut' = FailedFutures
        /\ unload' = "done"
        /\ UNCHANGED <<readLoop, conn, toClient>>
     \/ /\ Link # "closed"
        /\ \/ CloseLink /\ unload' = "closing" /\ UNCHANGED fut
           \/ StopReading /\ unload' = "stopping" /\ fut' = FailedFutures
  /\ UNCHANGED <<msgId, lock, pc, call, retrying, reqId, got, gateway, toGateway,
                 history, cancels>>

DisconnectStopped ==
  /\ unload = "stopping" /\ unload' = "closing"
  /\ IF Link = "closed" THEN UNCHANGED <<writer, readLoop, pending, conn, toClient>>
                        ELSE CloseLink
  /\ UNCHANGED <<msgId, lock, callers, gateway, toGateway, history, cancels>>

Disconnected ==
  /\ unload = "closing"
  /\ ClearLink
  /\ fut' = FailedFutures
  /\ unload' = "done"
  /\ UNCHANGED <<readLoop, msgId, lock, pc, call, retrying, reqId, got, links,
                 history, cancels>>

-----------------------------------------------------------------------------
(* The read loop                                                           *)

\* A reply is handed to the caller registered under its id, if it still
\* waits.
Dispatch(c) ==
  /\ readLoop = c
  /\ \E r \in toClient[c] :
       LET t == pending[r.id] IN
       /\ toClient' = [toClient EXCEPT ![c] = @ \ {r}]
       /\ pending' = Unregistered(r.id)
       /\ IF t # NoOne /\ pc[t] = "reply" /\ reqId[t] = r.id /\ fut[t] = "waiting"
          THEN /\ fut' = [fut EXCEPT ![t] = "answered"]
               /\ got' = [got EXCEPT ![t] = r.call]
          ELSE UNCHANGED <<fut, got>>
  /\ UNCHANGED <<writer, readLoop, msgId, lock, pc, call, retrying, reqId, conn,
                 gateway, toGateway, history, cancels, unload>>

\* The read loop of connection c, if that is the one running, ends.
ReadLoopEnds(c) ==
  IF readLoop = c
  THEN readLoop' = 0 /\ pending' = NothingPending /\ fut' = FailedFutures
  ELSE UNCHANGED <<readLoop, pending, fut>>

-----------------------------------------------------------------------------
(* The gateway and the network.  Its login dialogue: "user", "password",   *)
(* "doomed" (a wrong user was given, the password is still prompted for),  *)
(* "in", "refused" and "gone".  The credentials configured are right.      *)

GatewayReadsUser(c) ==
  /\ gateway[c] = "user" /\ toGateway[c] # <<>>
  /\ gateway' = [gateway EXCEPT
                   ![c] = IF Head(toGateway[c]) = Username THEN "password" ELSE "doomed"]
  /\ toGateway' = [toGateway EXCEPT ![c] = Tail(@)]
  /\ UNCHANGED <<client, callers, conn, toClient, history, cancels, unload>>

GatewayAccepts(c) ==
  /\ gateway[c] = "password" /\ toGateway[c] # <<>>
  /\ Head(toGateway[c]) = Password
  /\ gateway' = [gateway EXCEPT ![c] = "in"]
  /\ toGateway' = [toGateway EXCEPT ![c] = Tail(@)]
  /\ UNCHANGED <<client, callers, conn, toClient, history, cancels, unload>>

\* The gateway runs a request and answers it, or runs it and stays silent.
\* Replies come in any order.
GatewayRuns(c) ==
  /\ gateway[c] = "in" /\ toGateway[c] # <<>>
  /\ LET line == Head(toGateway[c])
         reply == [id |-> line.id, call |-> line.call]
     IN /\ line.what = "request"
        /\ executed' = [executed EXCEPT ![line.call] = @ + 1]
        /\ toClient' \in
             {toClient} \cup IF conn[c] = "up"
                             THEN {[toClient EXCEPT ![c] = @ \cup {reply}]}
                             ELSE {}
  /\ toGateway' = [toGateway EXCEPT ![c] = Tail(@)]
  /\ UNCHANGED <<client, callers, conn, gateway, begun, outcome, sent, cancels, unload>>

HangUp(c, how) ==
  /\ gateway' = [gateway EXCEPT ![c] = how]
  /\ toGateway' = [toGateway EXCEPT ![c] = <<>>]
  /\ toClient' = [toClient EXCEPT ![c] = {}]
  /\ conn' = [conn EXCEPT ![c] = IF @ = "up" THEN "eof" ELSE @]
  /\ ReadLoopEnds(c)
  /\ UNCHANGED <<writer, msgId, lock, pc, call, retrying, reqId, got, history,
                 cancels, unload>>

GatewayRefuses(c) ==
  /\ toGateway[c] # <<>>
  /\ \/ gateway[c] = "doomed"
     \/ gateway[c] = "password" /\ Head(toGateway[c]) # Password
  /\ HangUp(c, "refused")

\* The gateway closes the connection (an idle one, or it restarts); what it
\* had answered is read first.  Its end of a connection that the client has
\* closed matters only while there are lines on it.
GatewayCloses(c) ==
  /\ gateway[c] \in {"user", "password", "doomed", "in"}
  /\ conn[c] = "up" \/ toGateway[c] # <<>>
  /\ readLoop = c => toClient[c] = {}
  /\ HangUp(c, "gone")

\* The connection is reset: both ends lose it and what was in flight.
ConnectionReset(c) ==
  /\ conn[c] = "up"
  /\ conn' = [conn EXCEPT ![c] = "closed"]
  /\ gateway' = [gateway EXCEPT ![c] = "gone"]
  /\ toGateway' = [toGateway EXCEPT ![c] = <<>>]
  /\ toClient' = [toClient EXCEPT ![c] = {}]
  /\ ReadLoopEnds(c)
  /\ UNCHANGED <<writer, msgId, lock, pc, call, retrying, reqId, got, history,
                 cancels, unload>>

-----------------------------------------------------------------------------
CallerStep(t) ==
  \/ AcquireLock(t) \/ OpenFails(t) \/ Opened(t)
  \/ PromptUser(t) \/ PromptPassword(t) \/ Greeting(t)
  \/ LoginFails(t) \/ Abandoned(t)
  \/ Reply(t) \/ Timeout(t) \/ LinkLost(t) \/ Stopped(t) \/ TornDown(t)

GatewayStep(c) ==
  \/ GatewayReadsUser(c) \/ GatewayAccepts(c) \/ GatewayRuns(c)
  \/ GatewayRefuses(c) \/ GatewayCloses(c) \/ ConnectionReset(c)

Next ==
  \/ \E t \in Callers : Start(t) \/ CallerStep(t) \/ Cancel(t)
  \/ Disconnect \/ DisconnectStopped \/ Disconnected
  \/ \E c \in Conns : Dispatch(c) \/ GatewayStep(c)

Spec == Init /\ [][Next]_vars

\* Every await of a caller is bounded by a timer or waits for a local step,
\* and asyncio runs every ready task; nothing is assumed of the gateway.
Fairness == /\ \A t \in Callers : WF_vars(CallerStep(t))
            /\ WF_vars(DisconnectStopped \/ Disconnected)

FairSpec == Spec /\ Fairness
-----------------------------------------------------------------------------
(* Properties                                                              *)

ClientType ==
  /\ writer \in 0..MaxConns /\ readLoop \in 0..MaxConns
  /\ pending \in [Ids -> Callers \cup {NoOne}]
  /\ msgId \in 0..MaxIds
  /\ lock \in Callers \cup {NoOne}

CallersType ==
  /\ pc \in [Callers -> LoginPcs \cup {"idle", "lock", "opening", "abandoning",
                                       "reply", "stopping", "reconnecting"}]
  /\ call \in [Callers -> 0..MaxCalls]
  /\ retrying \in [Callers -> BOOLEAN]
  /\ reqId \in [Callers -> 0..MaxIds]
  /\ fut \in [Callers -> {"none", "waiting", "answered", "lost"}]
  /\ got \in [Callers -> 0..MaxCalls]

LinksType ==
  /\ conn \in [Conns -> {"none", "up", "eof", "broken", "closed"}]
  /\ gateway \in [Conns -> {"none", "user", "password", "doomed", "in",
                            "refused", "gone"}]
  /\ toGateway \in [Conns -> Seq(Line)]
  /\ toClient \in [Conns -> SUBSET [id : 0..MaxIds, call : 0..MaxCalls]]

HistoryType ==
  /\ begun \in 0..MaxCalls
  /\ outcome \in [Calls -> {"none", "answered", "timeout", "lost", "unreachable",
                            "auth", "cancelled"}]
  /\ sent \in [Calls -> Nat] /\ executed \in [Calls -> Nat]

TypeOK ==
  /\ ClientType /\ CallersType /\ LinksType /\ HistoryType
  /\ cancels \in 0..MaxCancels
  /\ unload \in {"no", "stopping", "closing", "done"}

\* A reply resolves the call it answers and no other: late replies to calls
\* that timed out or were retried never complete a later call.
OwnReply ==
  \A t \in Callers : pc[t] = "reply" /\ fut[t] = "answered" => got[t] = call[t]

\* Whoever waits for a reply is registered under its id, so that either a
\* reply or the end of the read loop reaches it.
NoForgottenWaiter ==
  \A t \in Callers : pc[t] = "reply" /\ fut[t] = "waiting" => pending[reqId[t]] = t

\* Unless a caller was cancelled, _pending holds only futures someone awaits.
NoStaleFuture ==
  cancels = 0 =>
    \A i \in Ids : pending[i] # NoOne =>
      /\ pc[pending[i]] = "reply" /\ reqId[pending[i]] = i
      /\ fut[pending[i]] = "waiting"

\* Every connection the client has not closed is the one it holds, so that
\* a teardown can close it.
NoLeakedConnection ==
  \A c \in Conns : conn[c] \in {"up", "eof", "broken"} => c = writer

\* The read loop reads the connection the requests are written to, and only
\* after its login.
ReadLoopOwnsLink ==
  readLoop # 0 => /\ readLoop = writer /\ conn[writer] = "up"
                  /\ \A t \in Callers : pc[t] \notin LoginPcs

\* The client keeps the contract of RemoteCalls: a request is written at most
\* twice and only while its call runs, and a call answered was run.
Contract == INSTANCE RemoteCalls
              WITH Failures <- {"timeout", "lost", "unreachable", "auth", "cancelled"}
CallContract == Contract!Spec

\* Quoting client.py:11: "Requests transparently reconnect once if the link
\* has dropped."  So no call times out because it was written to a link the
\* gateway had closed.
DroppedLinkIsRetried ==
  [][\A n \in Calls : outcome[n] = "none" /\ outcome'[n] = "timeout"
       => Link \notin {"eof", "broken"}]_vars

\* Quoting client.py:70 and 150: UaiAuthError says "The gateway rejected the
\* credentials", and "The gateway hangs up on bad credentials".  The
\* credentials are right here, so it never rejects a login.
RightCredentialsAccepted == \A c \in Conns : gateway[c] # "refused"

\* Quoting __init__.py:204: unloading will "close the gateway connection".
\* Once the entry is unloaded and no call is in progress, none is open.
UnloadCloses ==
  unload = "done" /\ (\A t \in Callers : pc[t] = "idle") => ~Connected

\* Every call ends, whatever the gateway does.
EveryCallEnds == \A t \in Callers : pc[t] # "idle" ~> pc[t] = "idle"

=============================================================================
