-------------------------- MODULE UaiContractProofs --------------------------
(***************************************************************************)
(* The client of UaiClient implements RemoteCalls, for any number of       *)
(* callers, calls, ids and connections: every step is a step of the        *)
(* abstract specification, or leaves its variables alone.                  *)
(*                                                                         *)
(* What links the two: the call of each caller that is busy has begun and  *)
(* has not ended, and it has written no more copies than its attempts      *)
(* allow (Tracked); a copy on the wire is one that was written and has not *)
(* been run, and each is on the wire once (WireInv); and a reply, on the   *)
(* wire or delivered, is to a call that was run (RanInv).                  *)
(***************************************************************************)
EXTENDS UaiClientProofs, FiniteSetTheorems

USE CallersAssumption, BoundsAssumption DEF CallersAssumption, BoundsAssumption

\* The awaits of a caller about to retry, and those of one whose attempt has
\* been written.
TearingDown == {"stopping", "reconnecting"}
Written == TearingDown \cup {"reply"}

USE DEF TearingDown, Written

\* How many copies the caller's attempts so far may have written.
Allowance(t) == (IF retrying[t] THEN 1 ELSE 0)
                  + (IF pc[t] \in Written THEN 1 ELSE 0)

Busy(t) == pc[t] # "idle"

Tracked ==
  /\ \A t \in Callers :
       /\ Busy(t) => /\ call[t] \in 1..begun /\ outcome[call[t]] = "none"
                     /\ sent[call[t]] <= Allowance(t)
       /\ ~Busy(t) \/ pc[t] \in TearingDown => ~retrying[t]
  /\ \A t, u \in Callers : Busy(t) /\ Busy(u) /\ call[t] = call[u] => t = u
  /\ \A n \in Calls : n > begun => outcome[n] = "none" /\ sent[n] = 0

\* Line k of connection c is a request.
IsRequest(c, k) == k \in 1..Len(toGateway[c]) /\ toGateway[c][k].what = "request"

\* The ids of the copies of call n that are on the wire.
Copies(n) ==
  {i \in Ids : \E c \in Conns : \E k \in 1..Len(toGateway[c]) :
                 IsRequest(c, k) /\ toGateway[c][k].id = i /\ toGateway[c][k].call = n}

LinesInv ==
  \A c \in Conns : \A k \in 1..Len(toGateway[c]) :
    IsRequest(c, k) => toGateway[c][k].id \in 1..msgId /\ toGateway[c][k].call \in Calls

OnceEach ==
  \A c, d \in Conns : \A k \in 1..Len(toGateway[c]), j \in 1..Len(toGateway[d]) :
    /\ IsRequest(c, k) /\ IsRequest(d, j)
    /\ toGateway[c][k].id = toGateway[d][j].id
    => c = d /\ k = j

CopyBound == \A n \in Calls : executed[n] + Cardinality(Copies(n)) <= sent[n]

WireInv == LinesInv /\ OnceEach /\ CopyBound

RanInv ==
  /\ \A c \in Conns : \A r \in toClient[c] : r.call \in Calls /\ executed[r.call] > 0
  /\ \A t \in Callers :
       pc[t] = "reply" /\ fut[t] = "answered" => executed[call[t]] > 0

ContractInv == ReplyInv /\ Tracked /\ WireInv /\ RanInv

AbstractStep == [Contract!Next]_(Contract!vars)

LEMMA Types ==
  ASSUME TypeOK
  PROVE  /\ pc \in [Callers -> LoginPcs \cup {"idle", "lock", "opening", "abandoning",
                                              "reply", "stopping", "reconnecting"}]
         /\ call \in [Callers -> 0..MaxCalls] /\ retrying \in [Callers -> BOOLEAN]
         /\ fut \in [Callers -> {"none", "waiting", "answered", "lost"}]
         /\ begun \in 0..MaxCalls /\ sent \in [Calls -> Nat]
         /\ executed \in [Calls -> Nat] /\ Calls = 1..MaxCalls /\ msgId \in 0..MaxIds
         /\ outcome \in [Calls -> {"none", "answered", "timeout", "lost", "unreachable",
                                   "auth", "cancelled"}]
         /\ toGateway \in [Conns -> Seq(Line)]
BY DEF TypeOK, ClientType, CallersType, LinksType, HistoryType, Calls

-----------------------------------------------------------------------------
(* The calls                                                               *)

LEMMA TrackedStays ==
  ASSUME Tracked, UNCHANGED <<pc, call, retrying, begun, outcome, sent>>
  PROVE  Tracked'
BY DEF Tracked, Busy, Allowance

\* Call n of caller t is in progress, or begins.
Makes(t, n) ==
  \/ Busy(t) /\ n = call[t] /\ begun' = begun
  \/ ~Busy(t) /\ n = begun + 1 /\ begun < MaxCalls /\ begun' = begun + 1

\* A caller goes on with its call, to where its attempts allow the copies
\* written.
LEMMA TrackedMoves ==
  ASSUME TypeOK, Tracked, NEW t \in Callers, NEW n, Makes(t, n),
         NEW p, p # "idle", pc' = [pc EXCEPT ![t] = p],
         call' = [call EXCEPT ![t] = n], outcome' = outcome,
         NEW r \in BOOLEAN, retrying' = [retrying EXCEPT ![t] = r],
         p \in TearingDown => ~r,
         NEW copies \in Nat, sent' = [sent EXCEPT ![n] = copies],
         copies <= (IF r THEN 1 ELSE 0) + (IF p \in Written THEN 1 ELSE 0)
  PROVE  Tracked'
<1>1. n \in Calls /\ n \in 1..begun' /\ begun <= begun' /\ outcome[n] = "none"
  BY Types DEF Makes, Tracked
<1>2. /\ Busy(t)' /\ call'[t] = n /\ sent'[n] = copies /\ pc'[t] = p /\ retrying'[t] = r
      /\ Allowance(t)' = (IF r THEN 1 ELSE 0)
                           + (IF p \in Written THEN 1 ELSE 0)
  BY <1>1, Types DEF Allowance, Busy
<1>3. ASSUME NEW u \in Callers \ {t}
      PROVE  /\ Busy(u)' = Busy(u) /\ Allowance(u)' = Allowance(u)
             /\ call'[u] = call[u] /\ retrying'[u] = retrying[u] /\ pc'[u] = pc[u]
  BY Types DEF Busy, Allowance
<1>4. ASSUME NEW u \in Callers \ {t}, Busy(u)
      PROVE  call[u] # n /\ call[u] \in Calls /\ call[u] \in 1..begun'
             /\ sent'[call[u]] = sent[call[u]]
  <2>1. call[u] \in 1..begun /\ call[u] \in Calls
    BY <1>4, Types DEF Tracked
  <2>2. call[u] # n
    <3>1. CASE Busy(t) /\ n = call[t]
      BY <1>4, <3>1 DEF Tracked
    <3>2. CASE n = begun + 1
      <4>1. begun \in Nat
        BY Types
      <4> QED BY <2>1, <3>2, <4>1
    <3> QED BY <3>1, <3>2 DEF Makes
  <2>3. call[u] \in 1..begun'
    <3>1. begun \in Nat /\ begun' \in Nat
      BY Types DEF Makes
    <3> QED BY <1>1, <2>1, <3>1
  <2>4. sent'[call[u]] = sent[call[u]]
    <3>1. sent \in [Calls -> Nat]
      BY Types
    <3> QED BY <2>1, <2>2, <3>1
  <2> QED BY <2>1, <2>2, <2>3, <2>4
<1>5. ASSUME NEW u \in Callers
      PROVE  /\ Busy(u)' => /\ call'[u] \in 1..begun' /\ outcome'[call'[u]] = "none"
                            /\ sent'[call'[u]] <= Allowance(u)'
             /\ ~Busy(u)' \/ pc'[u] \in TearingDown => ~retrying'[u]
  <2>1. CASE u = t
    BY <1>1, <1>2, <2>1
  <2>2. CASE u # t
    BY <1>3, <1>4, <2>2 DEF Tracked
  <2> QED BY <2>1, <2>2
<1>6. \A u, v \in Callers : Busy(u)' /\ Busy(v)' /\ call'[u] = call'[v] => u = v
  BY <1>2, <1>3, <1>4 DEF Tracked
<1>7. ASSUME NEW m \in Calls, m > begun' PROVE outcome'[m] = "none" /\ sent'[m] = 0
  <2>1. m > begun /\ m # n
    <3>1. begun \in Nat /\ begun' \in Nat /\ m \in Nat
      BY Types DEF Makes
    <3> QED BY <1>1, <1>7, <3>1
  <2> QED BY <2>1, Types DEF Tracked
<1> QED BY <1>5, <1>6, <1>7 DEF Tracked

\* Without starting or writing anything.
LEMMA TrackedGoesOn ==
  ASSUME TypeOK, Tracked, NEW t \in Callers, Busy(t),
         NEW p, p # "idle", pc' = [pc EXCEPT ![t] = p],
         UNCHANGED <<call, begun, outcome, sent>>,
         NEW r \in BOOLEAN, retrying' = [retrying EXCEPT ![t] = r],
         p \in TearingDown => ~r,
         Allowance(t) <= (IF r THEN 1 ELSE 0)
                           + (IF p \in Written THEN 1 ELSE 0)
  PROVE  Tracked'
<1>1. call[t] \in Calls /\ sent[call[t]] \in Nat /\ sent[call[t]] <= Allowance(t)
  BY Types DEF Tracked
<1>2. call' = [call EXCEPT ![t] = call[t]] /\ sent' = [sent EXCEPT ![call[t]] = sent[call[t]]]
  BY <1>1, Types
<1>3. Allowance(t) \in Nat
  BY DEF Allowance
<1>4. sent[call[t]] <= (IF r THEN 1 ELSE 0)
                         + (IF p \in Written THEN 1 ELSE 0)
  BY <1>1, <1>3
<1> QED BY <1>1, <1>2, <1>4, TrackedMoves DEF Makes

LEMMA StutterIsStep ==
  ASSUME UNCHANGED history PROVE AbstractStep
BY DEF history, AbstractStep, Contract!vars

\* A request that is written, at the start of its call or later, is a step
\* of the contract.
LEMMA WriteIsStep ==
  ASSUME TypeOK, Tracked, NEW t \in Callers, NEW n, Makes(t, n),
         sent' = [sent EXCEPT ![n] = sent[n] + 1],
         pc[t] \notin Written, UNCHANGED <<outcome, executed>>
  PROVE  AbstractStep
<1>1. n \in Calls /\ sent[n] \in Nat /\ outcome[n] = "none"
  BY Types DEF Makes, Tracked
<1>2. CASE Busy(t)
  <2>1. begun' = begun /\ n = call[t] /\ n <= begun
    BY <1>2, Types DEF Makes, Tracked
  <2>2. sent[n] < 2
    BY <1>1, <1>2, <2>1 DEF Tracked, Allowance
  <2>3. Contract!Write(n)
    BY <1>1, <2>1, <2>2 DEF Contract!Write, Contract!Running
  <2> QED BY <1>1, <2>3 DEF AbstractStep, Contract!Next, Contract!Calls, Calls
<1>3. CASE ~Busy(t)
  <2>1. begun < MaxCalls /\ begun' = begun + 1 /\ n = begun + 1 /\ sent[n] = 0
    BY <1>1, <1>3, Types DEF Makes, Tracked
  <2>2. sent' = [sent EXCEPT ![begun + 1] = 1]
    BY <2>1
  <2>3. Contract!Begin
    BY <2>1, <2>2 DEF Contract!Begin
  <2> QED BY <2>3 DEF AbstractStep, Contract!Next
<1> QED BY <1>2, <1>3

\* So is a call that begins, or goes on, without writing anything.
LEMMA MoveIsStep ==
  ASSUME TypeOK, Tracked, NEW t \in Callers, NEW n, Makes(t, n),
         UNCHANGED <<sent, outcome, executed>>
  PROVE  AbstractStep
<1>1. n \in Calls
  BY Types DEF Makes, Tracked
<1>2. CASE Busy(t)
  BY <1>2, StutterIsStep DEF Makes, history
<1>3. CASE ~Busy(t)
  <2>1. begun < MaxCalls /\ begun' = begun + 1 /\ n = begun + 1 /\ sent[n] = 0
    BY <1>1, <1>3, Types DEF Makes, Tracked
  <2>2. sent' = [sent EXCEPT ![begun + 1] = 0]
    BY <1>1, <2>1, Types
  <2>3. \E copies \in 0..1 : sent' = [sent EXCEPT ![begun + 1] = copies]
    <3>1. 0 \in 0..1
      OBVIOUS
    <3> WITNESS 0 \in 0..1
    <3> QED BY <2>2
  <2>4. Contract!Begin
    BY <2>1, <2>3, Zenon DEF Contract!Begin
  <2> QED BY <2>4 DEF AbstractStep, Contract!Next
<1> QED BY <1>2, <1>3

\* A caller's call ends; it was busy, or has just begun the call.
LEMMA TrackedEnds ==
  ASSUME TypeOK, Tracked, NEW t \in Callers, Busy(t), NEW how, End(t, how),
         UNCHANGED <<begun, sent>>
  PROVE  Tracked'
<1>1. /\ pc' = [pc EXCEPT ![t] = "idle"] /\ call' = [call EXCEPT ![t] = 0]
      /\ outcome' = [outcome EXCEPT ![call[t]] = how]
      /\ retrying' = [retrying EXCEPT ![t] = FALSE]
  BY DEF End
<1>2. call[t] \in 1..begun
  BY DEF Tracked
<1>3. ~Busy(t)' /\ ~retrying'[t]
  BY <1>1, Types DEF Busy
<1>4. ASSUME NEW u \in Callers \ {t}
      PROVE  /\ Busy(u)' = Busy(u) /\ Allowance(u)' = Allowance(u)
             /\ call'[u] = call[u] /\ retrying'[u] = retrying[u] /\ pc'[u] = pc[u]
             /\ Busy(u) => outcome'[call[u]] = outcome[call[u]]
  BY <1>1, Types DEF Busy, Allowance, Tracked
<1>5. ASSUME NEW n \in Calls, n > begun PROVE outcome'[n] = outcome[n]
  <2>1. n # call[t]
    BY <1>2, <1>5, Types DEF Calls
  <2> QED BY <1>1, <2>1, Types
<1> QED BY <1>3, <1>4, <1>5 DEF Tracked

\* The abstract call ends with it.
LEMMA EndIsStep ==
  ASSUME TypeOK, Tracked, NEW t \in Callers, Busy(t),
         NEW how \in {"answered", "timeout", "lost", "unreachable", "auth", "cancelled"},
         End(t, how), how = "answered" => executed[call[t]] > 0,
         UNCHANGED <<begun, sent, executed>>
  PROVE  AbstractStep
<1>1. /\ call[t] \in Calls /\ call[t] <= begun /\ outcome[call[t]] = "none"
      /\ outcome' = [outcome EXCEPT ![call[t]] = how]
  BY Types DEF Tracked, End
<1>2. CASE how = "answered"
  <2>1. Contract!Answer(call[t])
    BY <1>1, <1>2 DEF Contract!Answer, Contract!Running
  <2> QED BY <1>1, <2>1 DEF AbstractStep, Contract!Next, Contract!Calls, Calls
<1>3. CASE how # "answered"
  <2>1. Contract!Fail(call[t])
    BY <1>1, <1>3 DEF Contract!Fail, Contract!Running
  <2> QED BY <1>1, <2>1 DEF AbstractStep, Contract!Next, Contract!Calls, Calls
<1> QED BY <1>2, <1>3

-----------------------------------------------------------------------------
(* The copies on the wire                                                  *)

LEMMA CopiesAreFew ==
  ASSUME NEW n \in Calls, NEW S, S \subseteq Copies(n)
  PROVE  /\ IsFiniteSet(Copies(n)) /\ IsFiniteSet(S)
         /\ Cardinality(Copies(n)) \in Nat /\ Cardinality(S) \in Nat
         /\ Cardinality(S) <= Cardinality(Copies(n))
<1>1. IsFiniteSet(Ids)
  BY FS_Interval DEF Ids
<1>2. Copies(n) \subseteq Ids
  BY DEF Copies
<1> HIDE DEF Copies
<1> QED BY <1>1, <1>2, FS_Subset, FS_CardinalityType

LEMMA CopiesThenAreFew ==
  ASSUME NEW n \in Calls
  PROVE  IsFiniteSet(Copies(n)') /\ Cardinality(Copies(n)') \in Nat
<1>1. IsFiniteSet(Ids)
  BY FS_Interval DEF Ids
<1>2. Copies(n)' \subseteq Ids
  BY DEF Copies
<1> HIDE DEF Copies
<1> QED BY <1>1, <1>2, FS_Subset, FS_CardinalityType

\* Every request that is now on the wire was, at most one line further back.
Shifted(s) ==
  \A c \in Conns : \A k \in 1..Len(toGateway'[c]) :
    toGateway'[c][k].what = "request" =>
      IsRequest(c, k + s[c]) /\ toGateway'[c][k] = toGateway[c][k + s[c]]

LEMMA ShiftedWire ==
  ASSUME WireInv, NEW s \in [Conns -> 0..1], Shifted(s), msgId' = msgId
  PROVE  /\ LinesInv' /\ OnceEach'
         /\ \A n \in Calls : Copies(n)' \subseteq Copies(n)
<1>1. ASSUME NEW c \in Conns, NEW k \in 1..Len(toGateway'[c]), IsRequest(c, k)'
      PROVE  /\ k + s[c] \in 1..Len(toGateway[c]) /\ IsRequest(c, k + s[c])
             /\ toGateway'[c][k] = toGateway[c][k + s[c]]
  BY <1>1 DEF Shifted, IsRequest
<1>2. LinesInv'
  BY <1>1 DEF WireInv, LinesInv
<1>3. OnceEach'
  <2> SUFFICES ASSUME NEW c \in Conns, NEW d \in Conns,
                      NEW k \in 1..Len(toGateway'[c]), NEW j \in 1..Len(toGateway'[d]),
                      IsRequest(c, k)', IsRequest(d, j)',
                      toGateway'[c][k].id = toGateway'[d][j].id
               PROVE  c = d /\ k = j
    BY DEF OnceEach
  <2> DEFINE kk == k + s[c]
             jj == j + s[d]
  <2>1. /\ kk \in 1..Len(toGateway[c]) /\ IsRequest(c, kk)
        /\ toGateway'[c][k] = toGateway[c][kk]
    BY <1>1
  <2>2. /\ jj \in 1..Len(toGateway[d]) /\ IsRequest(d, jj)
        /\ toGateway'[d][j] = toGateway[d][jj]
    BY <1>1
  <2>3. toGateway[c][kk].id = toGateway[d][jj].id
    BY <2>1, <2>2
  <2>4. c = d /\ kk = jj
    <3> HIDE DEF kk, jj
    <3> QED BY <2>1, <2>2, <2>3 DEF WireInv, OnceEach
  <2>5. k \in Int /\ j \in Int /\ s[c] \in Int
    OBVIOUS
  <2> QED BY <2>4, <2>5
<1>4. ASSUME NEW n \in Calls, NEW i \in Copies(n)' PROVE i \in Copies(n)
  <2>1. PICK c \in Conns : \E k \in 1..Len(toGateway'[c]) :
          IsRequest(c, k)' /\ toGateway'[c][k].id = i /\ toGateway'[c][k].call = n
    BY DEF Copies
  <2>2. PICK k \in 1..Len(toGateway'[c]) :
          IsRequest(c, k)' /\ toGateway'[c][k].id = i /\ toGateway'[c][k].call = n
    BY <2>1
  <2>3. i \in Ids
    BY DEF Copies
  <2> QED BY <1>1, <2>2, <2>3 DEF Copies
<1> QED BY <1>2, <1>3, <1>4

\* Nothing is run, and copies leave the wire if anything happens to them.
LEMMA ShiftedKeeps ==
  ASSUME TypeOK, WireInv, NEW s \in [Conns -> 0..1], Shifted(s), msgId' = msgId,
         UNCHANGED <<sent, executed>>
  PROVE  WireInv'
<1>1. ASSUME NEW n \in Calls
      PROVE  executed'[n] + Cardinality(Copies(n)') <= sent'[n]
  <2>1. Copies(n)' \subseteq Copies(n)
    BY ShiftedWire
  <2>2. Cardinality(Copies(n)') <= Cardinality(Copies(n))
    BY <2>1, CopiesAreFew
  <2>3. /\ Cardinality(Copies(n)) \in Nat /\ Cardinality(Copies(n)') \in Nat
        /\ executed'[n] = executed[n] /\ executed[n] \in Nat
        /\ sent'[n] = sent[n] /\ sent[n] \in Nat
        /\ executed[n] + Cardinality(Copies(n)) <= sent[n]
    BY CopiesAreFew, CopiesThenAreFew, Types DEF WireInv, CopyBound
  <2> HIDE DEF Copies
  <2> QED BY <2>2, <2>3
<1> QED BY <1>1, ShiftedWire DEF WireInv, CopyBound

\* The gateway reads the line at the head of connection c.
LEMMA HeadIsRead ==
  ASSUME TypeOK, NEW c \in Conns, toGateway[c] # <<>>,
         toGateway' = [toGateway EXCEPT ![c] = Tail(toGateway[c])]
  PROVE  Shifted([d \in Conns |-> IF d = c THEN 1 ELSE 0])
<1> DEFINE s == [d \in Conns |-> IF d = c THEN 1 ELSE 0]
<1>1. toGateway \in [Conns -> Seq(Line)] /\ toGateway[c] \in Seq(Line)
  BY Types
<1>2. ASSUME NEW d \in Conns, NEW k \in 1..Len(toGateway'[d]),
             toGateway'[d][k].what = "request"
      PROVE  IsRequest(d, k + s[d]) /\ toGateway'[d][k] = toGateway[d][k + s[d]]
  <2>1. CASE d = c
    <3>1. toGateway'[c] = Tail(toGateway[c]) /\ k + s[d] = k + 1
      BY <1>1, <2>1
    <3>2. k + 1 \in 1..Len(toGateway[c]) /\ toGateway'[c][k] = toGateway[c][k + 1]
      BY <1>1, <2>1, <3>1
    <3> QED BY <1>2, <2>1, <3>1, <3>2 DEF IsRequest
  <2>2. CASE d # c
    <3>1. toGateway'[d] = toGateway[d] /\ k + s[d] = k
      BY <1>1, <2>2
    <3> QED BY <1>2, <3>1 DEF IsRequest
  <2> QED BY <2>1, <2>2
<1> QED BY <1>2 DEF Shifted

\* The copy it runs was written, was not run before, and leaves the wire.
LEMMA RunsWire ==
  ASSUME TypeOK, WireInv, NEW c \in Conns, GatewayRuns(c)
  PROVE  /\ WireInv' /\ AbstractStep
         /\ Head(toGateway[c]).call \in Calls
         /\ executed' = [executed EXCEPT ![Head(toGateway[c]).call] = @ + 1]
<1> DEFINE s == [d \in Conns |-> IF d = c THEN 1 ELSE 0]
<1>1. /\ toGateway[c] # <<>> /\ toGateway' = [toGateway EXCEPT ![c] = Tail(toGateway[c])]
      /\ Head(toGateway[c]).what = "request"
      /\ executed' = [executed EXCEPT ![Head(toGateway[c]).call]
                                        = executed[Head(toGateway[c]).call] + 1]
      /\ UNCHANGED <<begun, outcome, sent, msgId>>
  BY DEF GatewayRuns, client
<1>2. Head(toGateway[c]) = toGateway[c][1] /\ IsRequest(c, 1) /\ 1 \in 1..Len(toGateway[c])
  <2>1. toGateway[c] \in Seq(Line)
    BY Types
  <2> QED BY <1>1, <2>1 DEF IsRequest
<1> PICK n \in Calls, i \in Ids : n = toGateway[c][1].call /\ i = toGateway[c][1].id
  <2>1. toGateway[c][1].id \in 1..msgId /\ toGateway[c][1].call \in Calls
    BY <1>2 DEF WireInv, LinesInv
  <2>2. 1..msgId \subseteq Ids
    <3>1. msgId \in 0..MaxIds
      BY Types
    <3> QED BY <3>1 DEF Ids
  <2> QED BY <2>1, <2>2
<1>3. i \in Copies(n)
  BY <1>2 DEF Copies
<1>4. s \in [Conns -> 0..1] /\ Shifted(s)
  <2>1. s \in [Conns -> 0..1]
    OBVIOUS
  <2>2. Shifted(s)
    <3> HIDE DEF Shifted
    <3> QED BY <1>1, HeadIsRead
  <2> QED BY <2>1, <2>2
<1>5. LinesInv' /\ OnceEach' /\ \A m \in Calls : Copies(m)' \subseteq Copies(m)
  <2> HIDE DEF s
  <2> QED BY <1>1, <1>4, ShiftedWire
<1>6. i \notin Copies(n)'
  <2> SUFFICES ASSUME i \in Copies(n)' PROVE FALSE
    OBVIOUS
  <2>1. PICK d \in Conns : \E k \in 1..Len(toGateway'[d]) :
          IsRequest(d, k)' /\ toGateway'[d][k].id = i
    BY DEF Copies
  <2>2. PICK k \in 1..Len(toGateway'[d]) : IsRequest(d, k)' /\ toGateway'[d][k].id = i
    BY <2>1
  <2> DEFINE kk == k + s[d]
  <2>3. IsRequest(d, kk) /\ kk \in 1..Len(toGateway[d]) /\ toGateway[d][kk].id = i
    BY <1>4, <2>2 DEF Shifted, IsRequest
  <2>4. c = d /\ 1 = kk
    <3> HIDE DEF kk
    <3> QED BY <1>2, <2>3 DEF WireInv, OnceEach
  <2>5. kk = k + 1 /\ k \in Nat /\ k >= 1
    BY <2>4
  <2> QED BY <2>4, <2>5
<1>7. ASSUME NEW m \in Calls PROVE executed'[m] + Cardinality(Copies(m)') <= sent'[m]
  <2>1. /\ executed[m] \in Nat /\ sent[m] \in Nat /\ sent'[m] = sent[m]
        /\ executed[m] + Cardinality(Copies(m)) <= sent[m]
        /\ Cardinality(Copies(m)) \in Nat /\ Cardinality(Copies(m)') \in Nat
    BY <1>1, CopiesAreFew, CopiesThenAreFew, Types DEF WireInv, CopyBound
  <2>2. CASE m = n
    <3>1. Copies(n)' \subseteq Copies(n) \ {i}
      BY <1>5, <1>6
    <3>2. /\ IsFiniteSet(Copies(n)) /\ IsFiniteSet(Copies(n) \ {i})
          /\ Cardinality(Copies(n) \ {i}) = Cardinality(Copies(n)) - 1
      BY <1>3, CopiesAreFew, FS_RemoveElement
    <3>3. Cardinality(Copies(n)') <= Cardinality(Copies(n) \ {i})
      <4> HIDE DEF Copies
      <4> QED BY <3>1, <3>2, FS_Subset
    <3>4. executed'[n] = executed[n] + 1
      BY <1>1, <1>2, <1>3, Types
    <3> HIDE DEF Copies
    <3> QED BY <2>1, <2>2, <3>2, <3>3, <3>4
  <2>3. CASE m # n
    <3>1. Cardinality(Copies(m)') <= Cardinality(Copies(m))
      BY <1>5, CopiesAreFew
    <3>2. executed'[m] = executed[m]
      BY <1>1, <1>2, <2>3, Types
    <3> HIDE DEF Copies
    <3> QED BY <2>1, <3>1, <3>2
  <2> QED BY <2>2, <2>3
<1>8. executed[n] < sent[n]
  <2>1. /\ executed[n] \in Nat /\ sent[n] \in Nat
        /\ executed[n] + Cardinality(Copies(n)) <= sent[n]
        /\ Cardinality(Copies(n)) \in Nat
    BY CopiesAreFew, Types DEF WireInv, CopyBound
  <2>2. Cardinality(Copies(n)) # 0
    BY <1>3, CopiesAreFew, FS_EmptySet
  <2> HIDE DEF Copies
  <2> QED BY <2>1, <2>2
<1>9. AbstractStep
  <2>1. Contract!Execute(n)
    BY <1>1, <1>2, <1>8 DEF Contract!Execute
  <2> QED BY <2>1 DEF AbstractStep, Contract!Next, Contract!Calls, Calls
<1> QED BY <1>1, <1>2, <1>3, <1>5, <1>7, <1>9 DEF WireInv, CopyBound

\* A login line is no request.
LEMMA LoginLineIsWritten ==
  ASSUME TypeOK, NEW line \in {Username, Password}, writer \in Conns,
         toGateway' = [toGateway EXCEPT ![writer] = Append(toGateway[writer], line)]
  PROVE  Shifted([d \in Conns |-> 0])
<1>1. toGateway \in [Conns -> Seq(Line)] /\ line \in Line /\ line.what # "request"
  BY Types, LoginLines DEF Username, Password
<1>2. ASSUME NEW d \in Conns, NEW k \in 1..Len(toGateway'[d]),
             toGateway'[d][k].what = "request"
      PROVE  IsRequest(d, k) /\ toGateway'[d][k] = toGateway[d][k]
  <2>1. CASE d = writer
    <3>1. toGateway'[d] = Append(toGateway[d], line) /\ toGateway[d] \in Seq(Line)
      BY <1>1, <2>1
    <3>2. k \in 1..Len(toGateway[d]) /\ toGateway'[d][k] = toGateway[d][k]
      BY <1>1, <1>2, <3>1
    <3> QED BY <1>2, <3>2 DEF IsRequest
  <2>2. CASE d # writer
    BY <1>1, <1>2, <2>2 DEF IsRequest
  <2> QED BY <2>1, <2>2
<1>3. ASSUME NEW d \in Conns, NEW k \in 1..Len(toGateway'[d])
      PROVE  k + [e \in Conns |-> 0][d] = k
  OBVIOUS
<1> QED BY <1>2, <1>3 DEF Shifted

\* Nothing is written; what is in flight on some connections is lost.
LEMMA LinesAreLost ==
  ASSUME \A c \in Conns : toGateway'[c] = toGateway[c] \/ toGateway'[c] = <<>>
  PROVE  Shifted([d \in Conns |-> 0])
<1>1. ASSUME NEW d \in Conns, NEW k \in 1..Len(toGateway'[d]),
             toGateway'[d][k].what = "request"
      PROVE  IsRequest(d, k) /\ toGateway'[d][k] = toGateway[d][k]
  BY <1>1 DEF IsRequest
<1>2. ASSUME NEW d \in Conns, NEW k \in 1..Len(toGateway'[d])
      PROVE  k + [e \in Conns |-> 0][d] = k
  OBVIOUS
<1> QED BY <1>1, <1>2 DEF Shifted

\* The copies that SendOnLink writes are counted in sent; a copy written on
\* a half-closed link never reaches the wire.
LEMMA SendsWire ==
  ASSUME TypeOK, WireInv, NEW t \in Callers, NEW n \in Calls, NEW holder,
         SendOnLink(t, n, holder), NextId \in Ids, msgId' = NextId,
         UNCHANGED executed
  PROVE  WireInv'
<1>1. /\ sent' = [sent EXCEPT ![n] = sent[n] + 1]
      /\ \/ toGateway' = toGateway
         \/ /\ writer \in Conns
            /\ toGateway' = [toGateway EXCEPT
                               ![writer] = Append(toGateway[writer], Request(NextId, n))]
  BY OpenLink DEF SendOnLink, TypeOK
<1>2. /\ NextId = msgId + 1 /\ msgId \in Nat /\ toGateway \in [Conns -> Seq(Line)]
      /\ Request(NextId, n) \in Line /\ Request(NextId, n).id = NextId
      /\ Request(NextId, n).call = n
  BY Types, RequestIsLine DEF NextId, Ids, Calls, Request
<1> PICK i \in Ids : i = NextId
  OBVIOUS
<1>3. ASSUME NEW c \in Conns, NEW k \in 1..Len(toGateway'[c]), IsRequest(c, k)'
      PROVE  \/ k \in 1..Len(toGateway[c]) /\ IsRequest(c, k) /\ toGateway'[c][k] = toGateway[c][k]
             \/ /\ c = writer /\ k = Len(toGateway[c]) + 1
                /\ toGateway'[c][k] = Request(NextId, n)
  <2>1. CASE toGateway'[c] = toGateway[c]
    BY <1>3, <2>1 DEF IsRequest
  <2>2. CASE c = writer /\ toGateway'[c] = Append(toGateway[c], Request(NextId, n))
    <3> HIDE DEF Request
    <3>1. toGateway[c] \in Seq(Line) /\ Request(NextId, n) \in Line
      BY <1>2
    <3> QED BY <1>3, <2>2, <3>1 DEF IsRequest
  <2> QED BY <1>1, <1>2, <2>1, <2>2
<1>4. ASSUME NEW c \in Conns, NEW k \in 1..Len(toGateway[c]), IsRequest(c, k)
      PROVE  toGateway[c][k].id \in 1..msgId /\ toGateway[c][k].call \in Calls
  BY <1>4 DEF WireInv, LinesInv
<1>5. LinesInv'
  BY <1>2, <1>3, <1>4 DEF LinesInv
<1>6. OnceEach'
  <2> SUFFICES ASSUME NEW c \in Conns, NEW d \in Conns,
                      NEW k \in 1..Len(toGateway'[c]), NEW j \in 1..Len(toGateway'[d]),
                      IsRequest(c, k)', IsRequest(d, j)',
                      toGateway'[c][k].id = toGateway'[d][j].id
               PROVE  c = d /\ k = j
    BY DEF OnceEach
  <2>1. CASE toGateway'[c][k].id = i
    <3>1. i \notin 1..msgId
      BY <1>2
    <3>2. c = writer /\ k = Len(toGateway[c]) + 1
      BY <1>3, <1>4, <2>1, <3>1
    <3>3. d = writer /\ j = Len(toGateway[d]) + 1
      BY <1>3, <1>4, <2>1, <3>1
    <3> QED BY <3>2, <3>3
  <2>2. CASE toGateway'[c][k].id # i
    <3>1. /\ k \in 1..Len(toGateway[c]) /\ IsRequest(c, k) /\ toGateway'[c][k] = toGateway[c][k]
          /\ j \in 1..Len(toGateway[d]) /\ IsRequest(d, j) /\ toGateway'[d][j] = toGateway[d][j]
      BY <1>2, <1>3, <2>2
    <3> QED BY <3>1 DEF WireInv, OnceEach
  <2> QED BY <2>1, <2>2
<1>7. ASSUME NEW m \in Calls, NEW x \in Copies(m)'
      PROVE  x \in Copies(m) \/ (m = n /\ x = i)
  <2>1. PICK c \in Conns : \E k \in 1..Len(toGateway'[c]) :
          IsRequest(c, k)' /\ toGateway'[c][k].id = x /\ toGateway'[c][k].call = m
    BY DEF Copies
  <2>2. PICK k \in 1..Len(toGateway'[c]) :
          IsRequest(c, k)' /\ toGateway'[c][k].id = x /\ toGateway'[c][k].call = m
    BY <2>1
  <2>3. x \in Ids
    BY DEF Copies
  <2> QED BY <1>2, <1>3, <2>2, <2>3 DEF Copies
<1>8. ASSUME NEW m \in Calls PROVE executed'[m] + Cardinality(Copies(m)') <= sent'[m]
  <2>1. /\ executed[m] \in Nat /\ sent[m] \in Nat /\ executed'[m] = executed[m]
        /\ executed[m] + Cardinality(Copies(m)) <= sent[m]
        /\ IsFiniteSet(Copies(m))
        /\ Cardinality(Copies(m)) \in Nat /\ Cardinality(Copies(m)') \in Nat
    BY CopiesAreFew, CopiesThenAreFew, Types DEF WireInv, CopyBound
  <2>2. CASE m = n
    <3>1. Copies(m)' \subseteq Copies(m) \cup {i}
      BY <1>7
    <3>2. /\ IsFiniteSet(Copies(m) \cup {i})
          /\ Cardinality(Copies(m) \cup {i}) \in Nat
          /\ Cardinality(Copies(m) \cup {i}) <= Cardinality(Copies(m)) + 1
      <4> HIDE DEF Copies
      <4>1. /\ IsFiniteSet(Copies(m) \cup {i})
            /\ Cardinality(Copies(m) \cup {i})
                 = IF i \in Copies(m) THEN Cardinality(Copies(m)) ELSE Cardinality(Copies(m)) + 1
        BY <2>1, FS_AddElement
      <4> QED BY <2>1, <4>1
    <3>3. Cardinality(Copies(m)') <= Cardinality(Copies(m) \cup {i})
      <4> HIDE DEF Copies
      <4> QED BY <3>1, <3>2, FS_Subset
    <3>4. sent'[m] = sent[m] + 1
      BY <1>1, <2>2, Types
    <3> HIDE DEF Copies
    <3> QED BY <2>1, <3>2, <3>3, <3>4
  <2>3. CASE m # n
    <3>1. Copies(m)' \subseteq Copies(m)
      BY <1>7, <2>3
    <3>2. Cardinality(Copies(m)') <= Cardinality(Copies(m))
      BY <3>1, CopiesAreFew
    <3>3. sent'[m] = sent[m]
      BY <1>1, <2>3, Types
    <3> HIDE DEF Copies
    <3> QED BY <2>1, <3>2, <3>3
  <2> QED BY <2>2, <2>3
<1> QED BY <1>5, <1>6, <1>8 DEF WireInv, CopyBound

-----------------------------------------------------------------------------
(* Replies, and what most steps leave of the wire                          *)

\* Lines may be lost; nothing is written, run or answered.
OnlyLost ==
  /\ \A c \in Conns : /\ toGateway'[c] = toGateway[c] \/ toGateway'[c] = <<>>
                      /\ toClient'[c] \subseteq toClient[c]
  /\ UNCHANGED <<msgId, sent, executed>>

LEMMA LostKeeps ==
  ASSUME ContractInv, Quiet, OnlyLost
  PROVE  WireInv' /\ RanInv'
<1>1. WireInv'
  <2>1. [d \in Conns |-> 0] \in [Conns -> 0..1]
    OBVIOUS
  <2> QED BY <2>1, LinesAreLost, ShiftedKeeps DEF OnlyLost, ContractInv, ReplyInv
<1>2. RanInv'
  <2>1. \A c \in Conns : \A r \in toClient'[c] : r.call \in Calls /\ executed'[r.call] > 0
    BY DEF ContractInv, RanInv, OnlyLost
  <2>2. \A u \in Callers :
          pc'[u] = "reply" /\ fut'[u] = "answered" => executed'[call'[u]] > 0
    BY DEF ContractInv, RanInv, OnlyLost, Quiet, StillWaits
  <2> QED BY <2>1, <2>2 DEF RanInv
<1> QED BY <1>1, <1>2

\* What the steps of the client are shown to be.
Kept == Tracked' /\ WireInv' /\ RanInv' /\ AbstractStep

\* A caller goes on without writing anything.
LEMMA GoesOn ==
  ASSUME ContractInv, Quiet, OnlyLost, NEW t \in Callers, Busy(t),
         NEW p, p # "idle", pc' = [pc EXCEPT ![t] = p],
         UNCHANGED <<begun, call, outcome>>,
         NEW r \in BOOLEAN, retrying' = [retrying EXCEPT ![t] = r],
         p \in TearingDown => ~r,
         Allowance(t) <= (IF r THEN 1 ELSE 0)
                           + (IF p \in Written THEN 1 ELSE 0)
  PROVE  Kept
<1>1. TypeOK /\ Tracked
  BY DEF ContractInv, ReplyInv
<1>2. UNCHANGED <<begun, sent, executed>>
  BY DEF OnlyLost
<1> QED BY <1>1, <1>2, LostKeeps, TrackedGoesOn, StutterIsStep DEF Kept, history

\* A call ends.
LEMMA Ends ==
  ASSUME ContractInv, Quiet, OnlyLost, NEW t \in Callers, Busy(t),
         NEW how \in {"answered", "timeout", "lost", "unreachable", "auth", "cancelled"},
         End(t, how), how = "answered" => executed[call[t]] > 0, begun' = begun
  PROVE  Kept
<1>1. TypeOK /\ Tracked
  BY DEF ContractInv, ReplyInv
<1>2. UNCHANGED <<begun, sent, executed>>
  BY DEF OnlyLost
<1> QED BY <1>1, <1>2, LostKeeps, TrackedEnds, EndIsStep DEF Kept

\* No caller does anything.
LEMMA NobodyMoves ==
  ASSUME ContractInv, Quiet, OnlyLost, UNCHANGED <<begun, pc, call, retrying, outcome>>
  PROVE  Kept
<1>1. Tracked /\ UNCHANGED <<begun, sent, executed>>
  BY DEF ContractInv, OnlyLost
<1> QED BY <1>1, LostKeeps, TrackedStays, StutterIsStep DEF Kept, history

-----------------------------------------------------------------------------
(* The actions of callers                                                  *)

LEMMA SendKept ==
  ASSUME ContractInv, NEW t \in Callers, pc[t] \notin Written,
         NEW n, Makes(t, n), NEW holder, Send(t, n, holder), executed' = executed,
         \A c \in Conns : toClient'[c] \subseteq toClient[c]
  PROVE  Kept
<1>1. TypeOK /\ Tracked /\ WireInv /\ RanInv
  BY DEF ContractInv, ReplyInv
<1>2. n \in Calls /\ sent[n] \in Nat /\ retrying[t] \in BOOLEAN
  <2>1. n \in Calls
    <3>1. CASE Busy(t)
      BY <1>1, <3>1, Types DEF Makes, Tracked
    <3>2. CASE ~Busy(t)
      BY <1>1, <3>2, Types DEF Makes
    <3> QED BY <3>1, <3>2
  <2> QED BY <1>1, <2>1, Types
<1>3. NextId \in Ids /\ msgId' = NextId /\ NextId = msgId + 1
  BY <1>1, Types DEF Send, NextId, Ids
<1>4. sent[n] <= (IF retrying[t] THEN 1 ELSE 0)
  <2>1. CASE Busy(t)
    BY <1>1, <2>1 DEF Makes, Tracked, Allowance
  <2>2. CASE ~Busy(t)
    <3>1. n = begun + 1 /\ n > begun
      BY <1>1, <2>2, Types DEF Makes
    <3> QED BY <1>1, <1>2, <3>1 DEF Tracked
  <2> QED BY <2>1, <2>2
<1>5. CASE SendOnLink(t, n, holder)
  <2>1. /\ pc' = [pc EXCEPT ![t] = "reply"] /\ call' = [call EXCEPT ![t] = n]
        /\ fut' = [fut EXCEPT ![t] = "waiting"]
        /\ sent' = [sent EXCEPT ![n] = sent[n] + 1]
        /\ retrying' = retrying /\ outcome' = outcome
    BY <1>5 DEF SendOnLink
  <2>2. Tracked'
    <3>1. retrying' = [retrying EXCEPT ![t] = retrying[t]]
      BY <1>1, <2>1, Types
    <3>2. sent[n] + 1 \in Nat /\ sent[n] + 1 <= (IF retrying[t] THEN 1 ELSE 0) + 1
      BY <1>2, <1>4
    <3> QED BY <1>1, <1>2, <2>1, <3>1, <3>2, TrackedMoves
  <2>3. WireInv'
    BY <1>1, <1>2, <1>3, <1>5, SendsWire
  <2>4. RanInv'
    BY <1>1, <2>1, Types DEF RanInv
  <2>5. AbstractStep
    BY <1>1, <2>1, WriteIsStep
  <2> QED BY <2>2, <2>3, <2>4, <2>5 DEF Kept
<1>6. CASE SendBreaks(t, n, holder)
  <2>1. PICK p \in {"opening", "lock"} : pc' = [pc EXCEPT ![t] = p]
    BY <1>6 DEF SendBreaks, Reconnect
  <2>2. /\ ~retrying[t] /\ call' = [call EXCEPT ![t] = n] /\ fut' = FailedFutures
        /\ retrying' = [retrying EXCEPT ![t] = TRUE]
        /\ UNCHANGED <<toGateway, outcome, sent>>
    BY <1>6 DEF SendBreaks, MayRetry
  <2>3. sent' = [sent EXCEPT ![n] = 0]
    BY <1>1, <1>2, <1>4, <2>2, Types
  <2>4. Tracked'
    <3>1. p # "idle" /\ p \notin Written /\ 0 <= 1 + 0 /\ 0 \in Nat
      OBVIOUS
    <3> QED BY <1>1, <2>1, <2>2, <2>3, <3>1, TrackedMoves
  <2>5. WireInv'
    <3>1. OnceEach'
      BY <1>1, <2>2 DEF WireInv, OnceEach, IsRequest
    <3>2. LinesInv'
      <4>1. \A i \in 1..msgId : i \in 1..msgId'
        BY <1>1, <1>3, Types
      <4> QED BY <1>1, <2>2, <4>1 DEF WireInv, LinesInv, IsRequest
    <3>3. CopyBound'
      BY <1>1, <2>2 DEF WireInv, CopyBound, Copies, IsRequest
    <3> QED BY <3>1, <3>2, <3>3 DEF WireInv
  <2>6. RanInv'
    <3>1. \A c \in Conns : \A r \in toClient'[c] : r.call \in Calls /\ executed'[r.call] > 0
      BY <1>1 DEF RanInv
    <3>2. ASSUME NEW u \in Callers, pc'[u] = "reply", fut'[u] = "answered"
          PROVE  executed'[call'[u]] > 0
      <4>1. u # t /\ pc[u] = "reply" /\ call'[u] = call[u] /\ fut[u] = "answered"
        BY <1>1, <2>1, <2>2, <3>2, Types DEF FailedFutures
      <4> QED BY <1>1, <4>1 DEF RanInv
    <3> QED BY <3>1, <3>2 DEF RanInv
  <2>7. AbstractStep
    BY <1>1, <2>2, MoveIsStep
  <2> QED BY <2>4, <2>5, <2>6, <2>7 DEF Kept
<1>7. CASE SendGivesUp(t, holder)
  <2>1. Busy(t) /\ begun' = begun
    BY <1>1, <1>7 DEF SendGivesUp, MayRetry, Makes, Tracked
  <2>2. End(t, "lost") /\ UNCHANGED <<fut, toGateway, sent>>
    BY <1>7 DEF SendGivesUp
  <2>3. Tracked' /\ AbstractStep
    BY <1>1, <2>1, <2>2, TrackedEnds, EndIsStep
  <2>4. WireInv'
    <3>1. OnceEach'
      BY <1>1, <2>2 DEF WireInv, OnceEach, IsRequest
    <3>2. LinesInv'
      <4>1. \A i \in 1..msgId : i \in 1..msgId'
        BY <1>1, <1>3, Types
      <4> QED BY <1>1, <2>2, <4>1 DEF WireInv, LinesInv, IsRequest
    <3>3. CopyBound'
      BY <1>1, <2>2 DEF WireInv, CopyBound, Copies, IsRequest
    <3> QED BY <3>1, <3>2, <3>3 DEF WireInv
  <2>5. RanInv'
    <3>1. \A c \in Conns : \A r \in toClient'[c] : r.call \in Calls /\ executed'[r.call] > 0
      BY <1>1 DEF RanInv
    <3>2. pc' = [pc EXCEPT ![t] = "idle"] /\ call' = [call EXCEPT ![t] = 0]
      BY <2>2 DEF End
    <3>3. ASSUME NEW u \in Callers, pc'[u] = "reply", fut'[u] = "answered"
          PROVE  executed'[call'[u]] > 0
      <4>1. pc[u] = "reply" /\ call'[u] = call[u] /\ fut[u] = "answered"
        BY <1>1, <2>2, <3>2, <3>3, Types
      <4> QED BY <1>1, <4>1 DEF RanInv
    <3> QED BY <3>1, <3>3 DEF RanInv
  <2> QED BY <2>3, <2>4, <2>5 DEF Kept
<1> QED BY <1>5, <1>6, <1>7 DEF Send

LEMMA StartKept ==
  ASSUME ContractInv, NEW t \in Callers, Start(t)
  PROVE  Kept
<1>1. TypeOK /\ Tracked /\ ReplyInv
  BY DEF ContractInv, ReplyInv
<1>2. /\ pc[t] = "idle" /\ ~Busy(t) /\ Makes(t, begun + 1) /\ ~retrying[t]
      /\ executed' = executed /\ toClient' = toClient
  BY <1>1, Types DEF Start, Makes, Busy, Tracked
<1>3. CASE Connected
  BY <1>2, <1>3, SendKept DEF Start
<1>4. CASE ~Connected
  <2>1. /\ call' = [call EXCEPT ![t] = begun + 1] /\ Reconnect(t, lock)
        /\ UNCHANGED <<msgId, retrying, toGateway, outcome, sent, reqId, fut, got, pending>>
    BY <1>4 DEF Start
  <2>2. PICK p \in {"opening", "lock"} : pc' = [pc EXCEPT ![t] = p]
    BY <2>1 DEF Reconnect
  <2>3. Quiet
    <3>1. ASSUME NEW u \in Callers PROVE StillWaits(u)
      BY <1>1, <2>1, <2>2, Types DEF StillWaits
    <3>2. ASSUME NEW d \in Conns PROVE InFlight(d)' \subseteq InFlight(d)
      BY <1>2, <2>1, WireKept
    <3> QED BY <1>1, <2>1, <3>1, <3>2, Types DEF Quiet
  <2>4. Tracked'
    <3>1. sent[begun + 1] = 0 /\ begun + 1 \in Calls
      BY <1>1, <1>2, Types DEF Tracked, Makes
    <3>2. sent' = [sent EXCEPT ![begun + 1] = 0] /\ retrying' = [retrying EXCEPT ![t] = FALSE]
      BY <1>1, <1>2, <2>1, <3>1, Types
    <3>3. p # "idle" /\ p \notin Written /\ 0 <= 0 + 0 /\ 0 \in Nat
      OBVIOUS
    <3> QED BY <1>1, <1>2, <2>1, <2>2, <3>2, <3>3, TrackedMoves
  <2>5. AbstractStep
    BY <1>1, <1>2, <2>1, MoveIsStep
  <2> QED BY <1>2, <2>1, <2>3, <2>4, <2>5, LostKeeps DEF Kept, OnlyLost
<1> QED BY <1>3, <1>4

\* The caller gets, or queues for, the lock.
LEMMA AcquireLockKept ==
  ASSUME ContractInv, NEW t \in Callers, AcquireLock(t)
  PROVE  Kept
<1>1. TypeOK /\ Tracked /\ ReplyInv
  BY DEF ContractInv, ReplyInv
<1>2. /\ pc[t] = "lock" /\ Busy(t) /\ begun' = begun /\ Makes(t, call[t])
      /\ executed' = executed /\ toClient' = toClient
  BY DEF AcquireLock, Makes, Busy
<1>3. CASE Connected
  BY <1>2, <1>3, SendKept DEF AcquireLock
<1>4. CASE ~Connected
  <2>1. /\ Reconnect(t, NoOne)
        /\ UNCHANGED <<call, msgId, retrying, toGateway, outcome, sent, reqId, fut, got, pending>>
    BY <1>4 DEF AcquireLock
  <2>2. PICK p \in {"opening", "lock"} : pc' = [pc EXCEPT ![t] = p]
    BY <2>1 DEF Reconnect
  <2>3. Quiet
    <3>1. ASSUME NEW u \in Callers PROVE StillWaits(u)
      BY <1>1, <2>1, <2>2, Types DEF StillWaits
    <3>2. ASSUME NEW d \in Conns PROVE InFlight(d)' \subseteq InFlight(d)
      BY <1>2, <2>1, WireKept
    <3> QED BY <1>1, <2>1, <3>1, <3>2, Types DEF Quiet
  <2>4. /\ retrying' = [retrying EXCEPT ![t] = retrying[t]] /\ retrying[t] \in BOOLEAN
        /\ Allowance(t) <= (IF retrying[t] THEN 1 ELSE 0)
                             + (IF p \in Written THEN 1 ELSE 0)
        /\ p # "idle" /\ p \notin TearingDown
    BY <1>1, <1>2, <2>1, Types DEF Allowance
  <2> QED BY <1>2, <2>1, <2>2, <2>3, <2>4, GoesOn DEF OnlyLost
<1> QED BY <1>3, <1>4

LEMMA GreetingKept ==
  ASSUME ContractInv, NEW t \in Callers, Greeting(t)
  PROVE  Kept
<1>1. /\ pc[t] = "greeting" /\ Busy(t) /\ begun' = begun /\ Makes(t, call[t])
      /\ executed' = executed /\ Send(t, call[t], NoOne)
  BY DEF Greeting, Makes, Busy
<1>2. \A c \in Conns : toClient'[c] \subseteq toClient[c]
  BY DEF Greeting, ContractInv, ReplyInv, TypeOK, LinksType
<1> QED BY <1>1, <1>2, SendKept

\* The steps that end a call.
LEMMA EndingsKept ==
  ASSUME ContractInv, NEW t \in Callers,
         OpenFails(t) \/ Abandoned(t) \/ Reply(t) \/ Timeout(t) \/ Cancel(t)
  PROVE  Kept
<1> USE DEF OnlyLost, Busy
<1>1. ReplyInv /\ RanInv
  BY DEF ContractInv
<1>2. CASE OpenFails(t)
  BY <1>1, <1>2, OpenFailsQuiet, Ends DEF OpenFails, links
<1>3. CASE Abandoned(t)
  BY <1>1, <1>3, AbandonedQuiet, Ends DEF Abandoned, links
<1>4. CASE Reply(t)
  BY <1>1, <1>4, ReplyQuiet, Ends DEF Reply, links, client, RanInv
<1>5. CASE Timeout(t)
  BY <1>1, <1>5, TimeoutQuiet, Ends DEF Timeout, links
<1>6. CASE Cancel(t)
  <2>1. Quiet /\ OnlyLost /\ begun' = begun
    BY <1>1, <1>6, CancelQuiet DEF Cancel, links
  <2>2. CASE pc[t] = "stopping"
    BY <1>6, <2>1, <2>2, NobodyMoves DEF Cancel, callers
  <2>3. CASE pc[t] # "stopping"
    BY <1>6, <2>1, <2>3, Ends DEF Cancel
  <2> QED BY <2>2, <2>3
<1> QED BY <1>2, <1>3, <1>4, <1>5, <1>6

LEMMA OpenedKept ==
  ASSUME ContractInv, NEW t \in Callers, Opened(t)
  PROVE  Kept
<1>1. ReplyInv /\ TypeOK /\ pc[t] = "opening" /\ Busy(t)
  BY DEF ContractInv, ReplyInv, Opened, Busy
<1> PICK p \in {"user"} : pc' = [pc EXCEPT ![t] = p]
  BY DEF Opened
<1>2. /\ retrying' = [retrying EXCEPT ![t] = retrying[t]]
      /\ UNCHANGED <<begun, call, outcome>> /\ OnlyLost /\ retrying[t] \in BOOLEAN
  BY <1>1, Types DEF Opened, history, OnlyLost
<1>3. /\ p # "idle" /\ p \notin TearingDown
      /\ Allowance(t) <= (IF retrying[t] THEN 1 ELSE 0)
                           + (IF p \in Written THEN 1 ELSE 0)
  BY <1>1 DEF Allowance
<1> QED BY <1>1, <1>2, <1>3, OpenedQuiet, GoesOn

\* A login line is written on the link.
LEMMA PromptKept ==
  ASSUME ContractInv, NEW t \in Callers, PromptUser(t) \/ PromptPassword(t)
  PROVE  Kept
<1>1. ReplyInv /\ TypeOK /\ Tracked /\ WireInv /\ RanInv
  BY DEF ContractInv, ReplyInv
<1>2. PICK line \in {Username, Password}, p \in {"password", "greeting"} :
        /\ toGateway' = [toGateway EXCEPT ![writer] = Append(toGateway[writer], line)]
        /\ pc' = [pc EXCEPT ![t] = p]
        /\ Link = "up" /\ pc[t] \in {"user", "password"} /\ toClient' = toClient
        /\ UNCHANGED <<msgId, call, retrying, history>>
  BY DEF PromptUser, PromptPassword, AnswerPrompt, client
<1>3. Quiet
  BY <1>1, PromptQuiet
<1>4. WireInv'
  <2>1. writer \in Conns
    BY <1>1, <1>2, OpenLink DEF TypeOK
  <2>2. Shifted([d \in Conns |-> 0])
    <3> HIDE DEF Shifted
    <3> QED BY <1>1, <1>2, <2>1, LoginLineIsWritten
  <2>3. [d \in Conns |-> 0] \in [Conns -> 0..1]
    OBVIOUS
  <2> QED BY <1>1, <1>2, <2>2, <2>3, ShiftedKeeps DEF history
<1>5. Tracked'
  <2>1. /\ retrying' = [retrying EXCEPT ![t] = retrying[t]] /\ retrying[t] \in BOOLEAN
        /\ p # "idle" /\ p \notin TearingDown /\ Busy(t)
        /\ Allowance(t) <= (IF retrying[t] THEN 1 ELSE 0)
                             + (IF p \in Written THEN 1 ELSE 0)
    BY <1>1, <1>2, Types DEF Allowance, Busy
  <2> QED BY <1>1, <1>2, <2>1, TrackedGoesOn DEF history
<1>6. RanInv'
  BY <1>1, <1>2, <1>3 DEF RanInv, Quiet, StillWaits, history
<1> QED BY <1>2, <1>4, <1>5, <1>6, StutterIsStep DEF Kept

\* _teardown before wait_closed.
LEMMA CloseLinkLoses ==
  ASSUME TypeOK, CloseLink \/ StopReading, UNCHANGED <<toGateway, msgId, sent, executed>>
  PROVE  OnlyLost
BY DEF CloseLink, StopReading, OnlyLost, TypeOK, LinksType

LEMMA LoginFailsKept ==
  ASSUME ContractInv, NEW t \in Callers, LoginFails(t)
  PROVE  Kept
<1>1. /\ ReplyInv /\ TypeOK /\ pc[t] \in LoginPcs /\ Busy(t) /\ Quiet
      /\ UNCHANGED <<begun, msgId, toGateway, sent, executed>>
  BY LoginFailsQuiet DEF ContractInv, ReplyInv, LoginFails, Busy, LoginPcs
<1>2. CASE Link = "closed"
  <2>1. End(t, "auth") /\ OnlyLost
    BY <1>1, <1>2 DEF LoginFails, OnlyLost
  <2> QED BY <1>1, <2>1, Ends
<1>3. CASE Link # "closed"
  <2> PICK p \in {"abandoning"} : pc' = [pc EXCEPT ![t] = p]
    BY <1>3 DEF LoginFails
  <2>1. OnlyLost /\ UNCHANGED <<call, retrying, outcome>>
    BY <1>1, <1>3, CloseLinkLoses DEF LoginFails
  <2>2. /\ retrying' = [retrying EXCEPT ![t] = retrying[t]] /\ retrying[t] \in BOOLEAN
        /\ p # "idle" /\ p \notin TearingDown
        /\ Allowance(t) <= (IF retrying[t] THEN 1 ELSE 0)
                             + (IF p \in Written THEN 1 ELSE 0)
    BY <1>1, <2>1, Types DEF Allowance, LoginPcs
  <2> QED BY <1>1, <2>1, <2>2, GoesOn
<1> QED BY <1>2, <1>3

\* Having written one copy, the caller may write one more.
LEMMA LinkLostKept ==
  ASSUME ContractInv, NEW t \in Callers, LinkLost(t)
  PROVE  Kept
<1>1. /\ ReplyInv /\ TypeOK /\ pc[t] = "reply" /\ Busy(t) /\ Quiet
      /\ UNCHANGED <<begun, msgId, toGateway, sent, executed>>
  BY LinkLostQuiet DEF ContractInv, ReplyInv, LinkLost, Busy
<1>2. CASE ~MayRetry(t)
  <2>1. End(t, "lost") /\ OnlyLost
    BY <1>1, <1>2 DEF LinkLost, OnlyLost
  <2> QED BY <1>1, <2>1, Ends
<1>3. CASE MayRetry(t) /\ Link = "closed"
  <2>1. /\ OnlyLost /\ retrying' = [retrying EXCEPT ![t] = TRUE] /\ Reconnect(t, lock)
        /\ UNCHANGED <<call, outcome>>
    BY <1>1, <1>3 DEF LinkLost, OnlyLost
  <2>2. PICK p \in {"opening", "lock"} : pc' = [pc EXCEPT ![t] = p]
    BY <2>1 DEF Reconnect
  <2>3. /\ Allowance(t) <= 1 + (IF p \in Written THEN 1 ELSE 0)
        /\ p # "idle" /\ p \notin TearingDown
    BY <1>1, <1>3 DEF Allowance, MayRetry
  <2> QED BY <1>1, <2>1, <2>2, <2>3, GoesOn
<1>4. CASE MayRetry(t) /\ Link # "closed"
  <2> PICK p \in TearingDown : pc' = [pc EXCEPT ![t] = p]
    BY <1>4 DEF LinkLost
  <2>1. OnlyLost /\ UNCHANGED <<call, retrying, outcome>>
    BY <1>1, <1>4, CloseLinkLoses DEF LinkLost
  <2>2. /\ retrying' = [retrying EXCEPT ![t] = FALSE] /\ p # "idle"
        /\ Allowance(t) <= 0 + (IF p \in Written THEN 1 ELSE 0)
    BY <1>1, <1>4, <2>1, Types DEF Allowance, MayRetry
  <2> QED BY <1>1, <2>1, <2>2, GoesOn
<1> QED BY <1>2, <1>3, <1>4

LEMMA StoppedKept ==
  ASSUME ContractInv, NEW t \in Callers, Stopped(t)
  PROVE  Kept
<1>1. /\ ReplyInv /\ TypeOK /\ Tracked /\ pc[t] = "stopping" /\ Busy(t) /\ Quiet
      /\ UNCHANGED <<begun, msgId, toGateway, sent, executed, call, retrying, outcome>>
  BY StoppedQuiet DEF ContractInv, ReplyInv, Stopped, Busy, history
<1> PICK p \in {"reconnecting"} : pc' = [pc EXCEPT ![t] = p]
  BY DEF Stopped
<1>2. OnlyLost
  BY <1>1, CloseLinkLoses DEF Stopped, OnlyLost
<1>3. /\ retrying' = [retrying EXCEPT ![t] = FALSE] /\ p # "idle"
      /\ Allowance(t) <= 0 + (IF p \in Written THEN 1 ELSE 0)
  BY <1>1, Types DEF Allowance, Tracked
<1> QED BY <1>1, <1>2, <1>3, GoesOn

LEMMA TornDownKept ==
  ASSUME ContractInv, NEW t \in Callers, TornDown(t)
  PROVE  Kept
<1>1. /\ ReplyInv /\ TypeOK /\ Tracked /\ pc[t] = "reconnecting" /\ Busy(t) /\ Quiet
      /\ OnlyLost /\ retrying' = [retrying EXCEPT ![t] = TRUE] /\ Reconnect(t, lock)
      /\ UNCHANGED <<begun, call, outcome>>
  BY TornDownQuiet DEF ContractInv, ReplyInv, TornDown, Busy, OnlyLost, links, history
<1>2. PICK p \in {"opening", "lock"} : pc' = [pc EXCEPT ![t] = p]
  BY <1>1 DEF Reconnect
<1>3. /\ Allowance(t) <= 1 + (IF p \in Written THEN 1 ELSE 0)
      /\ p # "idle" /\ p \notin TearingDown
  BY <1>1 DEF Allowance, Tracked
<1> QED BY <1>1, <1>2, <1>3, GoesOn

LEMMA UnloadKept ==
  ASSUME ContractInv, Disconnect \/ DisconnectStopped \/ Disconnected
  PROVE  Kept
<1>1. /\ ReplyInv /\ TypeOK /\ Quiet
      /\ UNCHANGED <<begun, pc, call, retrying, outcome>>
      /\ UNCHANGED <<toGateway, msgId, sent, executed>>
  BY DisconnectQuiet, DisconnectStoppedQuiet, DisconnectedQuiet
  DEF ContractInv, ReplyInv, Disconnect, DisconnectStopped, Disconnected, callers, links,
      history
<1>2. CASE Disconnect
  <2>1. OnlyLost
    BY <1>1, <1>2, CloseLinkLoses DEF Disconnect, OnlyLost
  <2> QED BY <1>1, <2>1, NobodyMoves
<1>3. CASE DisconnectStopped
  <2>1. OnlyLost
    BY <1>1, <1>3, CloseLinkLoses DEF DisconnectStopped, OnlyLost
  <2> QED BY <1>1, <2>1, NobodyMoves
<1>4. CASE Disconnected
  <2>1. OnlyLost
    BY <1>1, <1>4 DEF Disconnected, links, OnlyLost
  <2> QED BY <1>1, <2>1, NobodyMoves
<1> QED BY <1>2, <1>3, <1>4

-----------------------------------------------------------------------------
(* The read loop and the gateway                                           *)

\* The reply that resolves a future is, by OwnReply, to the call of the
\* caller that awaits it; and it was sent because that call was run.
LEMMA DispatchKept ==
  ASSUME ContractInv, NEW c \in Conns, Dispatch(c)
  PROVE  Kept
<1>1. /\ ReplyInv /\ TypeOK /\ Tracked /\ WireInv /\ RanInv
      /\ UNCHANGED <<pc, call, retrying, begun, outcome, sent, executed, toGateway, msgId>>
  BY DEF ContractInv, ReplyInv, Dispatch, history
<1>2. OwnReply'
  <2>1. TypeOK'
    BY <1>1, DispatchType
  <2> QED BY <1>1, <2>1, DispatchReplyInv DEF ReplyInv
<1>3. PICK r \in toClient[c] :
        /\ toClient' = [toClient EXCEPT ![c] = toClient[c] \ {r}]
        /\ \A u \in Callers : fut'[u] = fut[u] \/ got'[u] = r.call
  <2>1. PICK r \in toClient[c] :
          /\ toClient' = [toClient EXCEPT ![c] = toClient[c] \ {r}]
          /\ \/ fut' = fut
             \/ /\ fut' = [fut EXCEPT ![pending[r.id]] = "answered"]
                /\ got' = [got EXCEPT ![pending[r.id]] = r.call]
    <3>1. PICK r \in toClient[c] :
            /\ toClient' = [toClient EXCEPT ![c] = toClient[c] \ {r}]
            /\ IF /\ pending[r.id] # NoOne /\ pc[pending[r.id]] = "reply"
                  /\ reqId[pending[r.id]] = r.id /\ fut[pending[r.id]] = "waiting"
               THEN /\ fut' = [fut EXCEPT ![pending[r.id]] = "answered"]
                    /\ got' = [got EXCEPT ![pending[r.id]] = r.call]
               ELSE UNCHANGED <<fut, got>>
      BY DEF Dispatch
    <3> QED BY <3>1
  <2>2. ASSUME NEW u \in Callers
        PROVE  fut'[u] = fut[u] \/ got'[u] = r.call
    <3>1. fut \in [Callers -> {"none", "waiting", "answered", "lost"}]
          /\ got \in [Callers -> 0..MaxCalls]
      BY <1>1 DEF TypeOK, CallersType
    <3>2. CASE u = pending[r.id]
      BY <2>1, <3>1, <3>2
    <3>3. CASE u # pending[r.id]
      BY <2>1, <3>1, <3>3
    <3> QED BY <3>2, <3>3
  <2> QED BY <2>1, <2>2
<1>4. \A d \in Conns : toClient'[d] \subseteq toClient[d]
  BY <1>1, <1>3 DEF TypeOK, LinksType
<1>5. RanInv'
  <2>1. \A d \in Conns : \A q \in toClient'[d] : q.call \in Calls /\ executed'[q.call] > 0
    BY <1>1, <1>4 DEF RanInv
  <2>2. ASSUME NEW u \in Callers, pc'[u] = "reply", fut'[u] = "answered"
        PROVE  executed'[call'[u]] > 0
    <3>1. CASE fut'[u] = fut[u]
      BY <1>1, <2>2, <3>1 DEF RanInv
    <3>2. CASE got'[u] = r.call
      <4>1. call'[u] = r.call
        BY <1>2, <2>2, <3>2 DEF OwnReply
      <4> QED BY <1>1, <4>1 DEF RanInv
    <3> QED BY <1>3, <3>1, <3>2
  <2> QED BY <2>1, <2>2 DEF RanInv
<1>6. WireInv'
  <2>1. Shifted([d \in Conns |-> 0]) /\ [d \in Conns |-> 0] \in [Conns -> 0..1]
    BY <1>1, LinesAreLost
  <2> QED BY <1>1, <2>1, ShiftedKeeps
<1> QED BY <1>1, <1>5, <1>6, TrackedStays, StutterIsStep DEF Kept, history

LEMMA GatewayKept ==
  ASSUME ContractInv, NEW c \in Conns, GatewayStep(c)
  PROVE  Kept
<1>1. /\ ReplyInv /\ TypeOK /\ Tracked /\ WireInv /\ RanInv
      /\ UNCHANGED <<pc, call, retrying, begun, outcome, sent, msgId>>
  BY DEF ContractInv, ReplyInv, GatewayStep, GatewayReadsUser, GatewayAccepts, GatewayRuns,
         GatewayRefuses, GatewayCloses, ConnectionReset, HangUp, client, callers, history
<1>2. Tracked'
  BY <1>1, TrackedStays
<1>3. CASE GatewayReadsUser(c) \/ GatewayAccepts(c)
  <2>1. /\ toGateway[c] # <<>> /\ toGateway' = [toGateway EXCEPT ![c] = Tail(toGateway[c])]
        /\ UNCHANGED <<pc, fut, call, toClient, executed>>
    BY <1>3 DEF GatewayReadsUser, GatewayAccepts, callers, history
  <2> DEFINE s == [d \in Conns |-> IF d = c THEN 1 ELSE 0]
  <2>2. s \in [Conns -> 0..1]
    OBVIOUS
  <2>3. Shifted(s)
    <3> HIDE DEF Shifted
    <3> QED BY <1>1, <2>1, HeadIsRead
  <2>4. WireInv'
    <3> HIDE DEF s
    <3> QED BY <1>1, <2>1, <2>2, <2>3, ShiftedKeeps
  <2>5. RanInv'
    BY <1>1, <2>1 DEF RanInv
  <2> QED BY <1>1, <1>2, <2>1, <2>4, <2>5, StutterIsStep DEF Kept, history
<1>4. CASE GatewayRuns(c)
  <2>1. WireInv' /\ AbstractStep
    BY <1>1, <1>4, RunsWire
  <2>2. PICK n \in Calls :
          /\ n = Head(toGateway[c]).call
          /\ executed' = [executed EXCEPT ![n] = executed[n] + 1]
    BY <1>1, <1>4, RunsWire
  <2>3. \A m \in Calls : /\ executed'[m] >= executed[m]
                        /\ executed[m] \in Nat /\ executed'[m] \in Nat
    <3>1. executed \in [Calls -> Nat]
      BY <1>1, Types
    <3> QED BY <2>2, <3>1
  <2>4. executed'[n] > 0
    BY <1>1, <2>2, Types
  <2>5. RanInv'
    <3>1. ASSUME NEW d \in Conns, NEW r \in toClient'[d]
          PROVE  r.call \in Calls /\ executed'[r.call] > 0
      <4>1. CASE r \in toClient[d]
        <5>1. r.call \in Calls /\ executed[r.call] > 0
          BY <1>1, <4>1 DEF RanInv
        <5> QED BY <2>3, <5>1
      <4>2. CASE r \notin toClient[d]
        <5> DEFINE reply == [id |-> Head(toGateway[c]).id,
                             call |-> Head(toGateway[c]).call]
        <5>1. toClient' \in {toClient, [toClient EXCEPT ![c] = toClient[c] \cup {reply}]}
          BY <1>4 DEF GatewayRuns
        <5>2. r = reply
          <6> HIDE DEF reply
          <6>1. toClient \in [Conns -> SUBSET [id : 0..MaxIds, call : 0..MaxCalls]]
            BY <1>1 DEF TypeOK, LinksType
          <6>2. toClient'[d] \in {toClient[d], toClient[d] \cup {reply}}
            BY <5>1, <6>1
          <6> QED BY <3>1, <4>2, <6>2
        <5>3. r.call = n
          BY <2>2, <5>2
        <5> QED BY <2>4, <5>3
      <4> QED BY <4>1, <4>2
    <3>2. ASSUME NEW u \in Callers, pc'[u] = "reply", fut'[u] = "answered"
          PROVE  executed'[call'[u]] > 0
      <4>1. pc[u] = "reply" /\ fut[u] = "answered" /\ call'[u] = call[u]
        BY <1>1, <1>4, <3>2 DEF GatewayRuns, callers
      <4>2. call[u] \in Calls /\ executed[call[u]] > 0
        BY <1>1, <4>1, Types DEF RanInv, Tracked, Busy
      <4> QED BY <2>3, <4>1, <4>2
    <3> QED BY <3>1, <3>2 DEF RanInv
  <2> QED BY <1>2, <2>1, <2>5 DEF Kept
<1>5. CASE GatewayRefuses(c) \/ GatewayCloses(c) \/ ConnectionReset(c)
  <2>1. Quiet
    BY <1>1, <1>5, GatewayRefusesQuiet, GatewayClosesQuiet, ConnectionResetQuiet
  <2>2. /\ toGateway' = [toGateway EXCEPT ![c] = <<>>] /\ toClient' = [toClient EXCEPT ![c] = {}]
        /\ executed' = executed
    BY <1>5 DEF GatewayRefuses, GatewayCloses, ConnectionReset, HangUp, history
  <2>3. OnlyLost
    BY <1>1, <2>2 DEF OnlyLost, TypeOK, LinksType
  <2> QED BY <1>1, <2>1, <2>3, NobodyMoves
<1> QED BY <1>3, <1>4, <1>5 DEF GatewayStep

-----------------------------------------------------------------------------
LEMMA ContractInit == Init => ContractInv /\ Contract!Init
<1> SUFFICES ASSUME Init PROVE ContractInv /\ Contract!Init
  OBVIOUS
<1>1. /\ \A c \in Conns : toGateway[c] = <<>> /\ toClient[c] = {}
      /\ \A n \in Calls : sent[n] = 0 /\ executed[n] = 0 /\ outcome[n] = "none"
      /\ \A t \in Callers : pc[t] = "idle" /\ ~retrying[t]
  BY DEF Init
<1>2. \A c \in Conns : ~ \E k \in 1..Len(toGateway[c]) : IsRequest(c, k)
  BY <1>1 DEF IsRequest
<1>3. Tracked /\ LinesInv /\ OnceEach /\ RanInv
  BY <1>1, <1>2 DEF Tracked, Busy, LinesInv, OnceEach, RanInv
<1>4. CopyBound
  <2>1. \A n \in Calls : Copies(n) = {}
    BY <1>2 DEF Copies
  <2>2. Cardinality({}) = 0
    BY FS_EmptySet
  <2> HIDE DEF Copies
  <2> QED BY <1>1, <2>1, <2>2 DEF CopyBound
<1>5. Contract!Init
  BY DEF Init, Contract!Init, Contract!Calls, Calls
<1> QED BY <1>3, <1>4, <1>5, ReplyInit DEF ContractInv, WireInv

LEMMA ContractStep == ContractInv /\ [Next]_vars => ContractInv' /\ AbstractStep
<1> SUFFICES ASSUME ContractInv, [Next]_vars PROVE ContractInv' /\ AbstractStep
  OBVIOUS
<1>1. ReplyInv'
  BY ReplyStep DEF ContractInv
<1>2. ASSUME NEW t \in Callers, Start(t) \/ CallerStep(t) \/ Cancel(t) PROVE Kept
  BY <1>2, StartKept, AcquireLockKept, GreetingKept, EndingsKept, OpenedKept, PromptKept,
     LoginFailsKept, LinkLostKept, StoppedKept, TornDownKept DEF CallerStep
<1>3. CASE UNCHANGED vars
  <2>1. /\ UNCHANGED <<pc, call, retrying, begun, outcome, sent, executed, fut>>
        /\ UNCHANGED <<toGateway, toClient, msgId>> /\ UNCHANGED history
    BY <1>3 DEF vars, client, callers, links, history
  <2>2. WireInv'
    <3>1. TypeOK /\ WireInv
      BY DEF ContractInv, ReplyInv
    <3>2. Shifted([d \in Conns |-> 0]) /\ [d \in Conns |-> 0] \in [Conns -> 0..1]
      BY <2>1, LinesAreLost
    <3> QED BY <2>1, <3>1, <3>2, ShiftedKeeps
  <2>3. Tracked' /\ RanInv'
    BY <2>1, TrackedStays DEF ContractInv, RanInv
  <2> QED BY <2>1, <2>2, <2>3, <1>1, StutterIsStep DEF ContractInv
<1>4. CASE Next
  <2>1. Kept
    BY <1>2, <1>4, UnloadKept, DispatchKept, GatewayKept DEF Next
  <2> QED BY <1>1, <2>1 DEF Kept, ContractInv
<1> QED BY <1>3, <1>4

\* The client implements the contract of RemoteCalls, whatever the gateway
\* and the network do: a request is written at most twice and never once
\* async_request has returned, the gateway runs no copy that was not
\* written, and a call that returns a reply was run.
THEOREM ClientKeepsContract == Spec => CallContract
<1>1. Init => ContractInv /\ Contract!Init
  BY ContractInit
<1>2. ContractInv /\ [Next]_vars => ContractInv' /\ [Contract!Next]_(Contract!vars)
  BY ContractStep DEF AbstractStep
<1> QED BY <1>1, <1>2, PTL DEF Spec, CallContract, Contract!Spec
=============================================================================
