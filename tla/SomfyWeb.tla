------------------------------ MODULE SomfyWeb ------------------------------
(***************************************************************************)
(* The web client of web.py: state of motors the telnet interface cannot   *)
(* report, read one node at a time from an HTTP endpoint that holds one    *)
(* "current device" buffer, lags behind, and answers a dead session with   *)
(* 403 or with somebody else's device.                                     *)
(*                                                                         *)
(* pc[t] names the await at which reader t is suspended: "lock" (the read  *)
(* lock), "login" (password.cgi), "fetch" (somfy_device.json), "pause"     *)
(* (the sleep before a retry).  Only the holder of the read lock logs in,  *)
(* so the login lock is never contended and is left out.                   *)
(***************************************************************************)
EXTENDS Naturals

CONSTANTS
  Readers,       \* tasks that read through the client: poll and follow
  NoOne,         \* no reader
  Nodes,         \* motors read over HTTP
  Nothing,       \* None: no device was read
  MaxAttempts,   \* WEB_MAX_ATTEMPTS
  ReloginAfter,  \* WEB_RELOGIN_AFTER
  WarnAfter,     \* WEB_FAILURES_BEFORE_WARNING
  MaxReads       \* bound: reads counted before no new one is started

ASSUME WebReadersAssumption == NoOne \notin Readers /\ Nothing \notin Nodes
ASSUME WebBoundsAssumption ==
  /\ MaxAttempts \in Nat \ {0} /\ ReloginAfter \in Nat \ {0}
  /\ WarnAfter \in Nat \ {0} /\ ReloginAfter <= MaxAttempts /\ MaxReads \in Nat

VARIABLES
  password,    \* "none" when none was supplied, else "right" or "wrong"
  loggedIn,    \* _logged_in: the client believes it has a session
  readLock,    \* the holder of _read_lock
  reads, failures, succeeded, warned,  \* the health counters
  pc, node, attempt, device,  \* of each reader: await, node asked, try, answer
  session,     \* the gateway has a session for this client
  target,      \* the node the gateway's device buffer is aimed at
  disturbed    \* of each reader: what went wrong besides a dead session

health == <<reads, failures, succeeded, warned>>
readers == <<pc, node, attempt, device>>
webVars == <<password, loggedIn, readLock, health, readers, session, target,
             disturbed>>

WebInit ==
  /\ password \in {"none", "right", "wrong"}
  /\ loggedIn = FALSE /\ readLock = NoOne
  /\ reads = 0 /\ failures = 0 /\ succeeded = FALSE /\ warned = FALSE
  /\ pc = [t \in Readers |-> "idle"]
  /\ node = [t \in Readers |-> Nothing]
  /\ attempt = [t \in Readers |-> 0]
  /\ device = [t \in Readers |-> Nothing]
  /\ session \in BOOLEAN /\ target \in Nodes
  /\ disturbed = [t \in Readers |-> 0]

-----------------------------------------------------------------------------
\* Faulty variants of the definitions below are named ...Bug.

Configured == password # "none"

\* One more disturbance of t's read, counted up to the number of attempts.
Disturb(t) ==
  disturbed' = [disturbed EXCEPT ![t] = IF @ < MaxAttempts THEN @ + 1 ELSE @]

\* A read that fails beyond a dead session's doing is a disturbance.
DisturbIf(t, amiss) == IF amiss THEN Disturb(t) ELSE UNCHANGED disturbed

\* What t does at the top of the retry loop: log in first if there seems to
\* be no session, else send the request, which aims the gateway's buffer.
Try(t, n) ==
  IF loggedIn
  THEN pc' = [pc EXCEPT ![t] = "fetch"] /\ target' = n
  ELSE pc' = [pc EXCEPT ![t] = "login"] /\ UNCHANGED target

MustWarnBug(count, failed, ok) ==
  ~warned /\ ~ok /\ count > WarnAfter /\ failed >= count

\* _maybe_warn: the feature is configured and has never worked.
MustWarn(count, failed, ok) ==
  ~warned /\ ~ok /\ count >= WarnAfter /\ failed >= count

\* async_get_device once the read lock is released: count, warn, return d.
Return(t, d) ==
  /\ readLock' = NoOne
  /\ reads' = reads + 1
  /\ failures' = IF d = Nothing THEN failures + 1 ELSE failures
  /\ succeeded' = (succeeded \/ d # Nothing)
  /\ warned' = (warned \/ MustWarn(reads', failures', succeeded'))
  /\ pc' = [pc EXCEPT ![t] = "idle"]
  /\ device' = [device EXCEPT ![t] = d]

MayRetryReadBug(t) == attempt[t] < MaxAttempts
MayRetryRead(t) == attempt[t] < MaxAttempts - 1

AssumeStaleBug(t) == attempt[t] + 1 > ReloginAfter + 1

\* Enough rejections to stop blaming the buffer and assume the session.
AssumeStale(t) == attempt[t] + 1 >= ReloginAfter

\* A fetch that brought no usable device: retry after a pause, or give up
\* and leave the next read to start with a login.
Rejected(t, forbidden) ==
  /\ IF MayRetryRead(t)
     THEN /\ loggedIn' = (loggedIn /\ ~forbidden /\ ~AssumeStale(t))
          /\ pc' = [pc EXCEPT ![t] = "pause"]
          /\ UNCHANGED <<readLock, health, device>>
     ELSE loggedIn' = FALSE /\ Return(t, Nothing)
  /\ UNCHANGED <<node, attempt, target>>

-----------------------------------------------------------------------------
(* async_get_device, async_login and _async_fetch_device.                  *)

\* Without a password a read returns None at once and asks nobody.
Unconfigured(t) ==
  /\ ~Configured /\ pc[t] = "idle"
  /\ \E n \in Nodes : node' = [node EXCEPT ![t] = n]
  /\ device' = [device EXCEPT ![t] = Nothing]
  /\ UNCHANGED <<password, loggedIn, readLock, health, pc, attempt, session,
                 target, disturbed>>

Ask(t) ==
  /\ Configured /\ pc[t] = "idle" /\ reads < MaxReads
  /\ \E n \in Nodes : node' = [node EXCEPT ![t] = n]
  /\ pc' = [pc EXCEPT ![t] = "lock"]
  /\ device' = [device EXCEPT ![t] = Nothing]
  /\ attempt' = [attempt EXCEPT ![t] = 0]
  /\ disturbed' = [disturbed EXCEPT ![t] = 0]
  /\ UNCHANGED <<password, loggedIn, readLock, health, session, target>>

AcquireBug(t) ==
  /\ pc[t] = "lock" /\ readLock' = t /\ Try(t, node[t])
  /\ UNCHANGED <<password, loggedIn, health, node, attempt, device, session,
                 disturbed>>

Acquire(t) ==
  /\ pc[t] = "lock" /\ readLock = NoOne
  /\ readLock' = t /\ Try(t, node[t])
  /\ UNCHANGED <<password, loggedIn, health, node, attempt, device, session,
                 disturbed>>

\* The login request ends, well or not: the client cannot tell, so it goes on
\* as if logged in.  The gateway may have accepted the password although the
\* connection broke; or the request never reached it.
LoginEnds(t) ==
  /\ pc[t] = "login"
  /\ \/ /\ session' = (session \/ password = "right")
        /\ UNCHANGED disturbed
     \/ ~session /\ Disturb(t) /\ UNCHANGED session
  /\ loggedIn' = TRUE /\ target' = node[t]
  /\ pc' = [pc EXCEPT ![t] = "fetch"]
  /\ UNCHANGED <<password, readLock, health, node, attempt, device>>

SameNodeBug(asked, answered) == TRUE
SameNode(asked, answered) == answered = asked

\* A device arrives: of the buffer's target, or, when the buffer lags behind
\* or the session is dead, of any other node.  Only the asked one is accepted.
DeviceArrives(t) ==
  /\ pc[t] = "fetch"
  /\ \E n \in Nodes :
       LET lag == session /\ n # target IN
       IF SameNode(node[t], n)
       THEN /\ Return(t, n)
            /\ UNCHANGED <<loggedIn, node, attempt, target, disturbed>>
       ELSE Rejected(t, FALSE) /\ DisturbIf(t, lag)
  /\ UNCHANGED <<password, session>>

\* No session: 403, the one reply that says so.
Forbidden(t) ==
  /\ pc[t] = "fetch" /\ ~session
  /\ Rejected(t, TRUE)
  /\ UNCHANGED <<password, session, disturbed>>

\* Another status, a broken connection, a timeout, or a body without DEVICE.
FetchFails(t) ==
  /\ pc[t] = "fetch"
  /\ Rejected(t, FALSE) /\ DisturbIf(t, session)
  /\ UNCHANGED <<password, session>>

Retry(t) ==
  /\ pc[t] = "pause"
  /\ attempt' = [attempt EXCEPT ![t] = @ + 1]
  /\ Try(t, node[t])
  /\ UNCHANGED <<password, loggedIn, readLock, health, node, device, session,
                 disturbed>>

CancelBug(t) ==
  /\ pc[t] # "idle"
  /\ pc' = [pc EXCEPT ![t] = "idle"]
  /\ node' = [node EXCEPT ![t] = Nothing]
  /\ UNCHANGED <<password, loggedIn, readLock, health, attempt, device, session,
                 target, disturbed>>

\* The reading task is cancelled: the lock is released, nothing is counted.
Cancel(t) ==
  /\ pc[t] # "idle"
  /\ pc' = [pc EXCEPT ![t] = "idle"]
  /\ node' = [node EXCEPT ![t] = Nothing]
  /\ readLock' = IF readLock = t THEN NoOne ELSE readLock
  /\ UNCHANGED <<password, loggedIn, health, attempt, device, session, target,
                 disturbed>>

\* The gateway reboots, or gives its only session to somebody else.
SessionEnds ==
  /\ session /\ session' = FALSE
  /\ IF readLock = NoOne THEN UNCHANGED disturbed ELSE Disturb(readLock)
  /\ UNCHANGED <<password, loggedIn, readLock, health, readers, target>>

ReaderStep(t) ==
  \/ Acquire(t) \/ LoginEnds(t) \/ DeviceArrives(t) \/ Forbidden(t)
  \/ FetchFails(t) \/ Retry(t)

WebNext ==
  \/ \E t \in Readers : Unconfigured(t) \/ Ask(t) \/ ReaderStep(t) \/ Cancel(t)
  \/ SessionEnds

WebSpec == WebInit /\ [][WebNext]_webVars

\* Every request has a timeout (WEB_TIMEOUT) and the pause ends, so a reader
\* that can move moves; asyncio.Lock serves its waiters in order.
WebFairSpec ==
  WebSpec /\ \A t \in Readers : WF_webVars(ReaderStep(t)) /\ SF_webVars(Acquire(t))

-----------------------------------------------------------------------------
(* What the client promises.                                               *)

\* Every variable has its type.
WebTypeOK ==
  /\ password \in {"none", "right", "wrong"}
  /\ loggedIn \in BOOLEAN /\ readLock \in Readers \cup {NoOne}
  /\ reads \in Nat /\ failures \in 0..reads
  /\ succeeded \in BOOLEAN /\ warned \in BOOLEAN
  /\ pc \in [Readers -> {"idle", "lock", "login", "fetch", "pause"}]
  /\ node \in [Readers -> Nodes \cup {Nothing}]
  /\ attempt \in [Readers -> 0..MaxAttempts - 1]
  /\ device \in [Readers -> Nodes \cup {Nothing}]
  /\ session \in BOOLEAN /\ target \in Nodes
  /\ disturbed \in [Readers -> 0..MaxAttempts]

\* A device is never taken for another node's, whatever the gateway answers
\* with: one blind's state never lands on another blind's entity.
NeverAnothersDevice ==
  \A t \in Readers : device[t] \in {Nothing, node[t]}

\* With the right password a read fails only if the gateway stumbled on it
\* repeatedly: a session that was dead when the read began, and never says so
\* with a 403, costs the read ReloginAfter attempts and not all of them.
DeadSessionIsNotFatal ==
  \A t \in Readers :
    password = "right" /\ pc[t] = "idle" /\ node[t] # Nothing
      /\ device[t] = Nothing
    => disturbed[t] >= MaxAttempts - ReloginAfter

\* While a reader awaits its device, the gateway's buffer is aimed at it: two
\* readers never retarget it under each other.
BufferIsOurs ==
  \A t \in Readers : pc[t] = "fetch" => target = node[t]

\* A password that never works is reported at the WarnAfter-th read, and nothing
\* is reported before that many have failed ("Consecutive whole-read failures,
\* with no success ever", const.py).  The reads are single ones: with more motors
\* than WarnAfter the report comes within the first poll, not on the second cycle
\* that const.py goes on to promise.
DeadFeatureIsReported ==
  /\ reads >= WarnAfter /\ ~succeeded => warned
  /\ warned => failures >= WarnAfter

\* Every read ends, although the gateway may answer nothing of use.
EveryReadEnds ==
  \A t \in Readers : pc[t] # "idle" ~> pc[t] = "idle"
=============================================================================
