--------------------------- MODULE SomfyWebProofs ---------------------------
(***************************************************************************)
(* Theorems about SomfyWeb for any readers, nodes and attempts.            *)
(***************************************************************************)
EXTENDS SomfyWeb, TLAPS

USE WebReadersAssumption, WebBoundsAssumption
    DEF WebReadersAssumption, WebBoundsAssumption

-----------------------------------------------------------------------------
(* Types, and the read lock: only its holder asks the gateway, so it alone *)
(* aims the gateway's buffer and decides whether there is a session.       *)

Asking == {"login", "fetch", "pause"}

\* Where reader t stands: what it awaits fits what it holds and asked for.
Standing(t) ==
  /\ pc[t] \in Asking => readLock = t
  /\ pc[t] # "idle" => node[t] \in Nodes /\ device[t] = Nothing
  /\ pc[t] = "pause" => attempt[t] < MaxAttempts - 1
  /\ pc[t] = "fetch" => target = node[t]
  /\ device[t] \in {Nothing, node[t]}

WebInv == WebTypeOK /\ \A t \in Readers : Standing(t)

LEMMA WebInvInit == WebInit => WebInv
<1> SUFFICES ASSUME WebInit PROVE WebInv
  OBVIOUS
<1>1. WebTypeOK
  <2>1. 0 \in 0..MaxAttempts - 1 /\ 0 \in 0..MaxAttempts /\ 0 \in 0..0
    OBVIOUS
  <2>2. /\ attempt \in [Readers -> 0..MaxAttempts - 1]
        /\ disturbed \in [Readers -> 0..MaxAttempts]
    BY <2>1 DEF WebInit
  <2>3. /\ reads \in Nat /\ failures \in 0..reads
        /\ succeeded \in BOOLEAN /\ warned \in BOOLEAN /\ loggedIn \in BOOLEAN
    <3>1. /\ reads = 0 /\ failures = 0 /\ succeeded = FALSE
          /\ warned = FALSE /\ loggedIn = FALSE
      BY DEF WebInit
    <3> QED BY <2>1, <3>1
  <2> QED BY <2>2, <2>3 DEF WebInit, WebTypeOK
<1>2. ASSUME NEW t \in Readers PROVE Standing(t)
  BY <1>2 DEF WebInit, Standing, Asking
<1> QED BY <1>1, <1>2 DEF WebInv

LEMMA DisturbType ==
  ASSUME WebTypeOK, NEW t \in Readers, Disturb(t)
  PROVE  disturbed' \in [Readers -> 0..MaxAttempts]
BY DEF WebTypeOK, Disturb

LEMMA ReturnType ==
  ASSUME WebTypeOK, NEW t \in Readers, NEW d \in Nodes \cup {Nothing}, Return(t, d)
  PROVE  /\ readLock' = NoOne /\ reads' \in Nat /\ failures' \in 0..reads'
         /\ succeeded' \in BOOLEAN /\ warned' \in BOOLEAN
         /\ pc' = [pc EXCEPT ![t] = "idle"]
         /\ device' = [device EXCEPT ![t] = d]
         /\ pc' \in [Readers -> {"idle", "lock", "login", "fetch", "pause"}]
         /\ device' \in [Readers -> Nodes \cup {Nothing}]
BY DEF WebTypeOK, Return, MustWarn

LEMMA TryType ==
  ASSUME WebTypeOK, NEW t \in Readers, node[t] \in Nodes, Try(t, node[t])
  PROVE  /\ pc' \in [Readers -> {"idle", "lock", "login", "fetch", "pause"}]
         /\ target' \in Nodes
         /\ \A u \in Readers \ {t} : pc'[u] = pc[u]
         /\ pc'[t] = IF loggedIn THEN "fetch" ELSE "login"
         /\ loggedIn => target' = node[t]
         /\ ~loggedIn => target' = target
BY DEF WebTypeOK, Try

\* A fetch without a usable device, whatever disturbed it.
LEMMA RejectedKeeps ==
  ASSUME WebInv, NEW t \in Readers, pc[t] = "fetch",
         NEW forbidden \in BOOLEAN, Rejected(t, forbidden),
         UNCHANGED <<password, session>>,
         disturbed' \in [Readers -> 0..MaxAttempts]
  PROVE  WebInv'
<1> USE DEF WebInv
<1>1. CASE MayRetryRead(t)
  <2>1. /\ loggedIn' \in BOOLEAN /\ pc' = [pc EXCEPT ![t] = "pause"]
        /\ UNCHANGED <<readLock, health, device, node, attempt, target>>
        /\ attempt[t] < MaxAttempts - 1
    BY <1>1 DEF Rejected, WebTypeOK, MayRetryRead
  <2> QED BY <2>1 DEF WebTypeOK, Standing, Asking, health
<1>2. CASE ~MayRetryRead(t)
  <2>1. /\ loggedIn' = FALSE /\ Return(t, Nothing)
        /\ UNCHANGED <<node, attempt, target>>
    BY <1>2 DEF Rejected
  <2>2. WebTypeOK'
    BY <2>1, ReturnType DEF WebTypeOK
  <2>3. \A u \in Readers : Standing(u)'
    BY <2>1, ReturnType DEF WebTypeOK, Standing, Asking
  <2> QED BY <2>2, <2>3
<1> QED BY <1>1, <1>2

LEMMA WebInvNext == WebInv /\ [WebNext]_webVars => WebInv'
<1> SUFFICES ASSUME WebInv, [WebNext]_webVars PROVE WebInv'
  OBVIOUS
<1>1. ASSUME NEW t \in Readers, Unconfigured(t) PROVE WebInv'
  BY <1>1 DEF Unconfigured, WebInv, WebTypeOK, Standing, Asking, health
<1>2. ASSUME NEW t \in Readers, Ask(t) PROVE WebInv'
  BY <1>2 DEF Ask, WebInv, WebTypeOK, Standing, Asking, health
<1>3. ASSUME NEW t \in Readers, Acquire(t) PROVE WebInv'
  <2>1. /\ pc[t] = "lock" /\ readLock = NoOne /\ readLock' = t
        /\ Try(t, node[t]) /\ node[t] \in Nodes
        /\ UNCHANGED <<password, loggedIn, health, node, attempt, device,
                       session, disturbed>>
    BY <1>3 DEF Acquire, WebInv, Standing
  <2>2. WebTypeOK'
    BY <2>1, TryType DEF WebInv, WebTypeOK, health
  <2>3. \A u \in Readers : Standing(u)'
    BY <2>1, TryType DEF WebInv, WebTypeOK, Standing, Asking
  <2> QED BY <2>2, <2>3 DEF WebInv
<1>4. ASSUME NEW t \in Readers, LoginEnds(t) PROVE WebInv'
  <2>1. /\ session' \in BOOLEAN /\ disturbed' \in [Readers -> 0..MaxAttempts]
    BY <1>4, DisturbType DEF LoginEnds, WebInv, WebTypeOK
  <2>2. /\ pc[t] = "login" /\ loggedIn' = TRUE /\ target' = node[t]
        /\ pc' = [pc EXCEPT ![t] = "fetch"]
        /\ UNCHANGED <<password, readLock, health, node, attempt, device>>
    BY <1>4 DEF LoginEnds
  <2> QED BY <2>1, <2>2 DEF WebInv, WebTypeOK, Standing, Asking, health
<1>5. ASSUME NEW t \in Readers, DeviceArrives(t) PROVE WebInv'
  <2> PICK n \in Nodes :
        IF SameNode(node[t], n)
        THEN /\ Return(t, n)
             /\ UNCHANGED <<loggedIn, node, attempt, target, disturbed>>
        ELSE Rejected(t, FALSE) /\ DisturbIf(t, session /\ n # target)
    BY <1>5 DEF DeviceArrives
  <2>1. pc[t] = "fetch" /\ UNCHANGED <<password, session>>
    BY <1>5 DEF DeviceArrives
  <2>2. CASE SameNode(node[t], n)
    <3>1. /\ Return(t, n) /\ n = node[t]
          /\ UNCHANGED <<loggedIn, node, attempt, target, disturbed>>
      BY <2>2 DEF SameNode
    <3>2. WebTypeOK'
      BY <2>1, <3>1, ReturnType DEF WebInv, WebTypeOK
    <3>3. \A u \in Readers : Standing(u)'
      BY <2>1, <3>1, ReturnType DEF WebInv, WebTypeOK, Standing, Asking
    <3> QED BY <3>2, <3>3 DEF WebInv
  <2>3. CASE ~SameNode(node[t], n)
    <3>1. disturbed' \in [Readers -> 0..MaxAttempts]
      BY <2>3, DisturbType DEF DisturbIf, WebInv, WebTypeOK
    <3> QED BY <2>1, <2>3, <3>1, RejectedKeeps
  <2> QED BY <2>2, <2>3
<1>6. ASSUME NEW t \in Readers, Forbidden(t) PROVE WebInv'
  <2>1. disturbed' \in [Readers -> 0..MaxAttempts]
    BY <1>6 DEF Forbidden, WebInv, WebTypeOK
  <2> QED BY <1>6, <2>1, RejectedKeeps DEF Forbidden
<1>7. ASSUME NEW t \in Readers, FetchFails(t) PROVE WebInv'
  <2>1. disturbed' \in [Readers -> 0..MaxAttempts]
    BY <1>7, DisturbType DEF FetchFails, DisturbIf, WebInv, WebTypeOK
  <2> QED BY <1>7, <2>1, RejectedKeeps DEF FetchFails
<1>8. ASSUME NEW t \in Readers, Retry(t) PROVE WebInv'
  <2>1. /\ pc[t] = "pause" /\ attempt' = [attempt EXCEPT ![t] = @ + 1]
        /\ Try(t, node[t]) /\ node[t] \in Nodes /\ attempt[t] < MaxAttempts - 1
        /\ readLock = t
        /\ UNCHANGED <<password, loggedIn, readLock, health, node, device,
                       session, disturbed>>
    BY <1>8 DEF Retry, WebInv, Standing, Asking
  <2>2. WebTypeOK'
    BY <2>1, TryType DEF WebInv, WebTypeOK, health
  <2>3. \A u \in Readers : Standing(u)'
    BY <2>1, TryType DEF WebInv, WebTypeOK, Standing, Asking
  <2> QED BY <2>2, <2>3 DEF WebInv
<1>9. ASSUME NEW t \in Readers, Cancel(t) PROVE WebInv'
  BY <1>9 DEF Cancel, WebInv, WebTypeOK, Standing, Asking, health
<1>10. CASE SessionEnds
  <2>1. disturbed' \in [Readers -> 0..MaxAttempts]
    BY <1>10, DisturbType DEF SessionEnds, WebInv, WebTypeOK
  <2> QED
    BY <1>10, <2>1 DEF SessionEnds, WebInv, WebTypeOK, Standing, Asking, health, readers
<1>11. CASE UNCHANGED webVars
  BY <1>11 DEF webVars, WebInv, WebTypeOK, Standing, Asking, health, readers
<1> QED
  BY <1>1, <1>2, <1>3, <1>4, <1>5, <1>6, <1>7, <1>8, <1>9, <1>10, <1>11
     DEF WebNext, ReaderStep

LEMMA WebInvAlways == WebSpec => []WebInv
BY WebInvInit, WebInvNext, PTL DEF WebSpec

\* Every variable of the web client keeps its type.
THEOREM WebTypesHold == WebSpec => []WebTypeOK
<1>1. WebInv => WebTypeOK
  BY DEF WebInv
<1> QED BY <1>1, WebInvAlways, PTL

\* However many readers share the client, the device that a read returns is the
\* one it asked for (web.py, _async_fetch_device's check of the node id).
THEOREM DeviceIsTheOneAsked == WebSpec => []NeverAnothersDevice
<1>1. WebInv => NeverAnothersDevice
  BY DEF WebInv, Standing, NeverAnothersDevice
<1> QED BY <1>1, WebInvAlways, PTL

\* No reader aims the gateway's one buffer elsewhere while another awaits its
\* device (web.py, _read_lock).
THEOREM BufferStaysAimed == WebSpec => []BufferIsOurs
<1>1. WebInv => BufferIsOurs
  BY DEF WebInv, Standing, BufferIsOurs
<1> QED BY <1>1, WebInvAlways, PTL

-----------------------------------------------------------------------------
(* Health: as long as no read has succeeded, all have failed.              *)

HealthInv ==
  /\ ~succeeded => failures = reads
  /\ DeadFeatureIsReported

LEMMA ReturnKeepsHealth ==
  ASSUME WebTypeOK, HealthInv, NEW t \in Readers,
         NEW d \in Nodes \cup {Nothing}, Return(t, d)
  PROVE  HealthInv'
<1>1. /\ reads \in Nat /\ failures \in Nat /\ reads' = reads + 1
      /\ succeeded \in BOOLEAN /\ warned \in BOOLEAN
  BY DEF WebTypeOK, Return
<1>2. CASE succeeded'
  <2>1. failures' \in Nat /\ failures' >= failures
    BY <1>1 DEF Return
  <2>2. warned' => failures' >= WarnAfter
    <3>1. CASE warned
      BY <1>1, <2>1, <3>1, WebBoundsAssumption
         DEF HealthInv, DeadFeatureIsReported
    <3>2. CASE ~warned
      BY <1>2, <3>2 DEF Return, MustWarn
    <3> QED BY <3>1, <3>2
  <2> QED BY <1>2, <2>2 DEF HealthInv, DeadFeatureIsReported
<1>3. CASE ~succeeded'
  <2>1. ~succeeded /\ d = Nothing /\ failures' = failures + 1
    BY <1>1, <1>3 DEF Return
  <2>2. failures' = reads'
    BY <1>1, <2>1 DEF HealthInv
  <2>3. ASSUME reads' >= WarnAfter PROVE warned'
    <3>1. warned' = (warned \/ MustWarn(reads', failures', succeeded'))
      BY DEF Return
    <3>2. failures' >= reads'
      BY <1>1, <2>2
    <3> QED BY <1>3, <2>3, <3>1, <3>2 DEF MustWarn
  <2>4. ASSUME warned' PROVE failures' >= WarnAfter
    <3>1. CASE warned
      BY <1>1, <2>1, <3>1, WebBoundsAssumption
         DEF HealthInv, DeadFeatureIsReported
    <3>2. CASE ~warned
      <4>1. reads' >= WarnAfter
        BY <2>4, <3>2 DEF Return, MustWarn
      <4> QED BY <2>2, <4>1
    <3> QED BY <3>1, <3>2
  <2> QED BY <2>2, <2>3, <2>4 DEF HealthInv, DeadFeatureIsReported
<1> QED BY <1>2, <1>3

LEMMA RejectedKeepsHealth ==
  ASSUME WebTypeOK, HealthInv, NEW t \in Readers, NEW forbidden \in BOOLEAN,
         Rejected(t, forbidden)
  PROVE  HealthInv'
<1>1. CASE MayRetryRead(t)
  BY <1>1 DEF Rejected, health, HealthInv, DeadFeatureIsReported
<1>2. CASE ~MayRetryRead(t)
  BY <1>2, ReturnKeepsHealth DEF Rejected
<1> QED BY <1>1, <1>2

LEMMA HealthInvNext == WebTypeOK /\ HealthInv /\ [WebNext]_webVars => HealthInv'
<1> SUFFICES ASSUME WebTypeOK, HealthInv, [WebNext]_webVars PROVE HealthInv'
  OBVIOUS
<1>1. CASE UNCHANGED health
  BY <1>1 DEF health, HealthInv, DeadFeatureIsReported
<1>2. ASSUME NEW t \in Readers, DeviceArrives(t) PROVE HealthInv'
  BY <1>2, ReturnKeepsHealth, RejectedKeepsHealth DEF DeviceArrives
<1>3. ASSUME NEW t \in Readers, Forbidden(t) \/ FetchFails(t) PROVE HealthInv'
  BY <1>3, RejectedKeepsHealth DEF Forbidden, FetchFails
<1> QED
  BY <1>1, <1>2, <1>3
     DEF WebNext, ReaderStep, Unconfigured, Ask, Acquire, LoginEnds, Retry,
         Cancel, SessionEnds, webVars

\* A password that never works is reported after as many failed reads as the
\* threshold says and not sooner, whatever the threshold is (web.py, _maybe_warn).
THEOREM DeadFeatureReported == WebSpec => []DeadFeatureIsReported
<1>1. WebInit => HealthInv
  BY WebBoundsAssumption DEF WebInit, HealthInv, DeadFeatureIsReported
<1>2. HealthInv => DeadFeatureIsReported
  BY DEF HealthInv
<1> QED BY <1>1, <1>2, HealthInvNext, WebTypesHold, PTL DEF WebSpec

-----------------------------------------------------------------------------
(* What a read with the right password costs the gateway.  From attempt    *)
(* ReloginAfter on every attempt starts with a login, after which the read *)
(* has a session, or has been disturbed; and with a session only a         *)
(* disturbance makes it fail.                                              *)

Enough(t, attempts) == disturbed[t] >= attempts - ReloginAfter

\* What has disturbed reader t so far.
Paid(t) ==
  /\ pc[t] = "lock" => attempt[t] = 0
  /\ pc[t] = "login" => Enough(t, attempt[t])
  /\ pc[t] = "fetch" =>
       /\ Enough(t, attempt[t])
       /\ attempt[t] >= ReloginAfter => session \/ Enough(t, attempt[t] + 1)
  /\ pc[t] = "pause" =>
       /\ Enough(t, attempt[t] + 1)
       /\ attempt[t] + 1 >= ReloginAfter => ~loggedIn
  /\ pc[t] = "idle" /\ node[t] # Nothing /\ device[t] = Nothing
       => Enough(t, MaxAttempts)

PaidInv == password = "right" => \A t \in Readers : Paid(t)

LEMMA DisturbCounts ==
  ASSUME WebTypeOK, NEW t \in Readers, Disturb(t)
  PROVE  /\ \A u \in Readers \ {t} : disturbed'[u] = disturbed[u]
         /\ disturbed'[t] >= disturbed[t] /\ disturbed'[t] \in 0..MaxAttempts
         /\ disturbed'[t] >= disturbed[t] + 1 \/ disturbed'[t] = MaxAttempts
BY DEF WebTypeOK, Disturb

\* A fetch fails that has been paid for: with the session, by a disturbance.
LEMMA RejectedIsPaid ==
  ASSUME WebInv, WebInv', PaidInv, password = "right", password' = password,
         NEW t \in Readers, pc[t] = "fetch", session' = session,
         NEW forbidden \in BOOLEAN, Rejected(t, forbidden),
         IF session THEN Disturb(t) ELSE UNCHANGED disturbed,
         NEW u \in Readers
  PROVE  Paid(u)'
<1>1. WebTypeOK /\ Paid(t) /\ Paid(u) /\ Standing(t) /\ Standing(u)
  BY DEF WebInv, PaidInv
<1>2. Enough(t, attempt[t] + 1)'
  <2>1. attempt' = attempt /\ attempt[t] \in 0..MaxAttempts - 1
        /\ disturbed[t] \in 0..MaxAttempts
    BY <1>1 DEF Rejected, WebTypeOK
  <2>2. disturbed'[t] \in 0..MaxAttempts /\ disturbed'[t] >= disturbed[t]
    BY <1>1, DisturbCounts DEF WebTypeOK
  <2>3. CASE session
    BY <1>1, <2>1, <2>2, <2>3, DisturbCounts DEF Paid, Enough
  <2>4. CASE ~session /\ attempt[t] >= ReloginAfter
    BY <1>1, <2>1, <2>4 DEF Paid, Enough
  <2>5. CASE attempt[t] < ReloginAfter
    BY <2>1, <2>2, <2>5 DEF Enough
  <2> QED BY <2>1, <2>3, <2>4, <2>5
<1>3. UNCHANGED <<node, attempt, target>>
  BY DEF Rejected
<1>4. CASE u # t
  <2>1. pc'[u] = pc[u] /\ device'[u] = device[u] /\ disturbed'[u] = disturbed[u]
    BY <1>1, <1>4, DisturbCounts DEF Rejected, Return, WebTypeOK
  <2>2. pc[u] \notin Asking
    BY <1>1, <1>4 DEF Standing, Asking
  <2> QED BY <1>1, <1>3, <2>1, <2>2 DEF Paid, Enough, Asking
<1>5. CASE u = t /\ MayRetryRead(t)
  <2>1. pc'[t] = "pause" /\ (attempt[t] + 1 >= ReloginAfter => ~loggedIn')
    BY <1>1, <1>5 DEF Rejected, AssumeStale, WebTypeOK
  <2> QED BY <1>2, <1>3, <1>5, <2>1 DEF Paid
<1>6. CASE u = t /\ ~MayRetryRead(t)
  <2>1. pc'[t] = "idle" /\ attempt[t] + 1 = MaxAttempts
    BY <1>1, <1>6 DEF Rejected, Return, MayRetryRead, WebTypeOK
  <2> QED BY <1>2, <1>3, <1>6, <2>1 DEF Paid, Enough
<1> QED BY <1>4, <1>5, <1>6

LEMMA PaidInvNext ==
  WebInv /\ WebInv' /\ PaidInv /\ [WebNext]_webVars => PaidInv'
<1> SUFFICES ASSUME WebInv, WebInv', PaidInv, [WebNext]_webVars,
                    password' = "right", NEW u \in Readers
             PROVE  Paid(u)'
  BY DEF PaidInv
<1>p. password' = password
  BY DEF WebNext, ReaderStep, Unconfigured, Ask, Acquire, LoginEnds,
         DeviceArrives, Forbidden, FetchFails, Retry, Cancel, SessionEnds, webVars
<1>q. /\ password = "right" /\ WebTypeOK /\ Paid(u) /\ Standing(u)
      /\ attempt[u] \in 0..MaxAttempts - 1 /\ disturbed[u] \in 0..MaxAttempts
  BY <1>p DEF PaidInv, WebInv, WebTypeOK
<1>1. ASSUME NEW t \in Readers, Unconfigured(t) PROVE Paid(u)'
  BY <1>1, <1>q DEF Unconfigured, Configured, Paid, Enough
<1>2. ASSUME NEW t \in Readers, Ask(t) PROVE Paid(u)'
  BY <1>2, <1>q DEF Ask, Paid, Enough, WebTypeOK
<1>3. ASSUME NEW t \in Readers, Acquire(t) PROVE Paid(u)'
  <2>1. /\ readLock = NoOne /\ Try(t, node[t]) /\ node[t] \in Nodes
        /\ attempt[t] \in 0..MaxAttempts - 1
        /\ UNCHANGED <<loggedIn, node, attempt, device, session, disturbed>>
    BY <1>3, <1>q DEF Acquire, WebInv, Standing, WebTypeOK
  <2>2. CASE u = t
    <3>1. attempt[t] = 0
      BY <1>3, <1>q, <2>2 DEF Acquire, Paid
    <3> QED BY <1>q, <2>1, <2>2, <3>1, TryType DEF Paid, Enough
  <2>3. CASE u # t
    BY <1>q, <2>1, <2>3, TryType DEF Paid, Enough
  <2> QED BY <2>2, <2>3
<1>4. ASSUME NEW t \in Readers, LoginEnds(t) PROVE Paid(u)'
  <2>1. /\ pc[t] = "login" /\ pc' = [pc EXCEPT ![t] = "fetch"]
        /\ UNCHANGED <<node, attempt, device>>
    BY <1>4 DEF LoginEnds
  <2>2. CASE u = t
    <3>1. CASE session' = TRUE /\ UNCHANGED disturbed
      BY <1>q, <2>1, <2>2, <3>1 DEF Paid, Enough, WebTypeOK
    <3>2. CASE Disturb(t)
      BY <1>q, <2>1, <2>2, <3>2, DisturbCounts DEF Paid, Enough, WebTypeOK
    <3> QED BY <1>4, <1>q, <3>1, <3>2 DEF LoginEnds, WebTypeOK
  <2>3. CASE u # t
    <3>1. disturbed'[u] = disturbed[u]
      BY <1>4, <1>q, <2>3, DisturbCounts DEF LoginEnds
    <3>2. pc[u] \notin Asking
      BY <1>q, <2>1, <2>3 DEF WebInv, Standing, Asking
    <3> QED BY <1>q, <2>1, <2>3, <3>1, <3>2 DEF Paid, Enough, Asking, WebTypeOK
  <2> QED BY <2>2, <2>3
<1>5. ASSUME NEW t \in Readers, DeviceArrives(t) PROVE Paid(u)'
  <2> PICK n \in Nodes :
        IF SameNode(node[t], n)
        THEN /\ Return(t, n)
             /\ UNCHANGED <<loggedIn, node, attempt, target, disturbed>>
        ELSE Rejected(t, FALSE) /\ DisturbIf(t, session /\ n # target)
    BY <1>5 DEF DeviceArrives
  <2>1. /\ pc[t] = "fetch" /\ session' = session /\ target = node[t]
        /\ pc \in [Readers -> {"idle", "lock", "login", "fetch", "pause"}]
        /\ device \in [Readers -> Nodes \cup {Nothing}]
    BY <1>5 DEF DeviceArrives, WebInv, Standing, WebTypeOK
  <2>2. CASE SameNode(node[t], n)
    <3>1. /\ UNCHANGED <<node, attempt, disturbed>>
          /\ pc' = [pc EXCEPT ![t] = "idle"] /\ device' = [device EXCEPT ![t] = n]
      BY <2>2 DEF Return
    <3>2. CASE u = t
      BY <2>1, <3>1, <3>2 DEF Paid
    <3>3. CASE u # t
      <4>1. pc[u] \notin Asking
        BY <1>q, <2>1, <3>3 DEF WebInv, Standing, Asking
      <4> QED BY <1>q, <2>1, <3>1, <3>3, <4>1 DEF Paid, Enough, Asking
    <3> QED BY <3>2, <3>3
  <2>3. CASE ~SameNode(node[t], n)
    <3>1. n # target /\ Rejected(t, FALSE) /\ DisturbIf(t, session /\ n # target)
      BY <2>1, <2>3 DEF SameNode
    <3>2. IF session THEN Disturb(t) ELSE UNCHANGED disturbed
      BY <3>1 DEF DisturbIf
    <3> QED BY <1>p, <1>q, <2>1, <3>1, <3>2, RejectedIsPaid
  <2> QED BY <2>2, <2>3
<1>6. ASSUME NEW t \in Readers, Forbidden(t) PROVE Paid(u)'
  <2>1. IF session THEN Disturb(t) ELSE UNCHANGED disturbed
    BY <1>6 DEF Forbidden
  <2> QED BY <1>6, <1>p, <1>q, <2>1, RejectedIsPaid DEF Forbidden
<1>7. ASSUME NEW t \in Readers, FetchFails(t) PROVE Paid(u)'
  <2>1. IF session THEN Disturb(t) ELSE UNCHANGED disturbed
    BY <1>7 DEF FetchFails, DisturbIf
  <2> QED BY <1>7, <1>p, <1>q, <2>1, RejectedIsPaid DEF FetchFails
<1>8. ASSUME NEW t \in Readers, Retry(t) PROVE Paid(u)'
  <2>1. /\ pc[t] = "pause" /\ attempt' = [attempt EXCEPT ![t] = @ + 1]
        /\ Try(t, node[t]) /\ node[t] \in Nodes
        /\ UNCHANGED <<loggedIn, node, device, session, disturbed>>
    BY <1>8 DEF Retry, WebInv, Standing
  <2>2. CASE u = t
    BY <1>q, <2>1, <2>2, TryType DEF Paid, Enough, WebTypeOK
  <2>3. CASE u # t
    <3>1. pc'[u] = pc[u] /\ attempt'[u] = attempt[u] /\ pc[u] \notin Asking
      BY <1>q, <2>1, <2>3, TryType DEF WebInv, Standing, Asking, WebTypeOK
    <3> QED BY <1>q, <2>1, <3>1 DEF Paid, Enough, Asking
  <2> QED BY <2>2, <2>3
<1>9. ASSUME NEW t \in Readers, Cancel(t) PROVE Paid(u)'
  <2>1. /\ pc' = [pc EXCEPT ![t] = "idle"] /\ node' = [node EXCEPT ![t] = Nothing]
        /\ UNCHANGED <<loggedIn, attempt, device, session, disturbed>>
    BY <1>9 DEF Cancel
  <2> QED BY <1>q, <2>1 DEF Paid, Enough, WebTypeOK
<1>10. CASE SessionEnds
  <2>1. /\ UNCHANGED <<loggedIn, pc, node, attempt, device>>
        /\ IF readLock = NoOne THEN UNCHANGED disturbed ELSE Disturb(readLock)
    BY <1>10 DEF SessionEnds, readers
  <2>2. CASE u = readLock
    <3>1. Disturb(u)
      BY <2>1, <2>2
    <3> QED BY <1>q, <2>1, <3>1, DisturbCounts DEF Paid, Enough
  <2>3. CASE u # readLock
    <3>1. disturbed'[u] = disturbed[u]
      BY <1>q, <2>1, <2>3, DisturbCounts DEF WebTypeOK
    <3>2. pc[u] \notin Asking
      BY <1>q, <2>3 DEF Standing
    <3> QED BY <1>q, <2>1, <3>1, <3>2 DEF Paid, Enough, Asking
  <2> QED BY <2>2, <2>3
<1>11. CASE UNCHANGED webVars
  BY <1>11, <1>q DEF webVars, readers, Paid, Enough
<1> QED
  BY <1>1, <1>2, <1>3, <1>4, <1>5, <1>6, <1>7, <1>8, <1>9, <1>10, <1>11
     DEF WebNext, ReaderStep

\* A read with the right password fails only if the gateway stumbled on it at
\* least MaxAttempts - ReloginAfter times: a session that died unnoticed costs
\* it no more than ReloginAfter attempts (web.py, async_get_device's loop).
THEOREM DeadSessionIsSurvived == WebSpec => []DeadSessionIsNotFatal
<1>1. WebInit => PaidInv
  BY DEF WebInit, PaidInv, Paid
<1>2. PaidInv => DeadSessionIsNotFatal
  BY DEF PaidInv, Paid, Enough, DeadSessionIsNotFatal
<1> QED BY <1>1, <1>2, WebInvAlways, PaidInvNext, PTL DEF WebSpec
=============================================================================
