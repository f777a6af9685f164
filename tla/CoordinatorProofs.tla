-------------------------- MODULE CoordinatorProofs --------------------------
(***************************************************************************)
(* Theorems about Coordinator for any motors, covers, positions, intervals *)
(* and deadlines.                                                          *)
(***************************************************************************)
EXTENDS Coordinator, TLAPS

USE MotorsAssumption, TicksAssumption DEF MotorsAssumption, TicksAssumption

-----------------------------------------------------------------------------
(* Types.  That the follow task runs exactly while motors are followed     *)
(* needs that those a cycle has left to read are still followed, besides   *)
(* the one under way.                                                      *)

CycleInv == fLeft \subseteq moving \ {fNode}

CoordInv == CoordTypeOK /\ CycleInv

\* The parts of CoordTypeOK, by who changes them.
FollowTypeOK ==
  /\ moving \subseteq followed /\ followed \subseteq Readable
  /\ inherited \subseteq followed
  /\ follow \in {"none", "sleeping", "reading"} /\ rested \in BOOLEAN
  /\ IF follow = "reading" THEN fNode \in Readable
     ELSE fNode = NoMotor /\ fLeft = {}
  /\ fLeft \subseteq Readable /\ (follow = "none") = (moving = {})
  /\ follow = "none" => followed = {}
  /\ previous \in Positions \cup {Unknown}
  /\ unchanged \in [Motors -> Nat] /\ changed \in BOOLEAN
  /\ ceiling \in 0..CeilingTicks

PollTypeOK ==
  /\ poll \in {"idle", "reading"}
  /\ IF poll = "reading" THEN pNode \in Readable ELSE pNode = NoMotor /\ pLeft = {}
  /\ pLeft \subseteq Readable /\ sincePoll \in 0..PollTicks

NodesTypeOK ==
  /\ known \in [Motors -> Positions \cup {Unknown}]
  /\ shown \in [Motors -> Positions \cup {Unknown}]

MotorsTypeOK ==
  /\ actual \in [Motors -> Positions] /\ goal \in [Motors -> Positions]
  /\ delay \in [Motors -> 0..StartDelay]

BoundsTypeOK ==
  /\ commands \subseteq Targets
  /\ given \in 0..MaxCommands /\ faults \in 0..MaxFaults /\ slow \in 0..MaxSlow

LEMMA Parts ==
  CoordTypeOK <=> /\ FollowTypeOK /\ PollTypeOK /\ NodesTypeOK
                  /\ MotorsTypeOK /\ BoundsTypeOK
BY DEF CoordTypeOK, FollowTypeOK, PollTypeOK, NodesTypeOK, MotorsTypeOK, BoundsTypeOK

LEMMA PartsNext ==
  CoordTypeOK' <=> /\ FollowTypeOK' /\ PollTypeOK' /\ NodesTypeOK'
                   /\ MotorsTypeOK' /\ BoundsTypeOK'
BY DEF CoordTypeOK, FollowTypeOK, PollTypeOK, NodesTypeOK, MotorsTypeOK, BoundsTypeOK

LEMMA PositionsType == 0 \in Positions /\ Unknown \notin Positions /\ Unknown \in Nat
BY DEF Positions, Unknown

LEMMA CoordInvInit == CoordInit => CoordInv
<1> SUFFICES ASSUME CoordInit PROVE CoordInv
  OBVIOUS
<1>1. NodesTypeOK
  BY PositionsType DEF CoordInit, NodesTypeOK
<1>2. MotorsTypeOK
  <2>1. actual \in [Motors -> Positions] /\ goal = actual
    BY PositionsType DEF CoordInit
  <2>2. delay \in [Motors -> 0..StartDelay]
    BY DEF CoordInit
  <2> QED BY <2>1, <2>2 DEF MotorsTypeOK
<1>3. FollowTypeOK /\ CycleInv
  <2>1. 0 \in 0..CeilingTicks
    OBVIOUS
  <2> QED BY <2>1 DEF CoordInit, FollowTypeOK, CycleInv
<1>4. PollTypeOK
  <2>1. 0 \in 0..PollTicks
    OBVIOUS
  <2> QED BY <2>1 DEF CoordInit, PollTypeOK
<1>5. BoundsTypeOK
  <2>1. commands = {} /\ given = 0 /\ faults = 0 /\ slow = 0
    BY DEF CoordInit
  <2> QED BY <2>1 DEF BoundsTypeOK
<1> QED BY <1>1, <1>2, <1>3, <1>4, <1>5, Parts DEF CoordInv

LEMMA AnsweredType ==
  ASSUME CoordTypeOK, NEW outcome, Answered(outcome)
  PROVE  /\ faults' \in 0..MaxFaults /\ UNCHANGED <<given, slow>>
<1>1. faults \in 0..MaxFaults /\ EverFaulty \in BOOLEAN
  BY DEF CoordTypeOK
<1>2. UNCHANGED <<given, slow>>
  BY DEF Answered
<1>3. CASE EverFaulty
  BY <1>3, <1>1 DEF Answered
<1>4. CASE ~EverFaulty
  BY <1>4, <1>1 DEF Answered
<1> QED BY <1>1, <1>2, <1>3, <1>4

LEMMA StoreType ==
  ASSUME CoordTypeOK, NEW n \in Readable, NEW outcome, Store(n, outcome)
  PROVE  known' \in [Motors -> Positions \cup {Unknown}]
BY DEF CoordTypeOK, Store, Reading, Readable

LEMMA PollContinuesType ==
  ASSUME PollTypeOK, poll = "reading", NodesTypeOK, PollContinues,
         known' \in [Motors -> Positions \cup {Unknown}]
  PROVE  PollTypeOK' /\ NodesTypeOK'
<1>1. CASE pLeft # {}
  <2> PICK n \in pLeft : pNode' = n /\ pLeft' = pLeft \ {n}
    BY <1>1 DEF PollContinues
  <2>1. UNCHANGED <<poll, sincePoll, shown>>
    BY <1>1 DEF PollContinues
  <2> QED BY <2>1 DEF PollTypeOK, NodesTypeOK
<1>2. CASE pLeft = {}
  <2>1. /\ poll' = "idle" /\ pNode' = NoMotor /\ sincePoll' = 0
        /\ shown' = known' /\ pLeft' = pLeft
    BY <1>2 DEF PollContinues
  <2>2. 0 \in 0..PollTicks
    OBVIOUS
  <2> QED BY <1>2, <2>1, <2>2 DEF PollTypeOK, NodesTypeOK
<1> QED BY <1>1, <1>2

LEMMA FollowType ==
  ASSUME FollowTypeOK, CycleInv, NEW S \in Targets, Follow(S), inherited' = inherited
  PROVE  FollowTypeOK' /\ CycleInv'
<1> DEFINE targets == S \cap Readable
<1>1. /\ moving' = moving \cup targets
      /\ UNCHANGED <<fNode, fLeft, previous, changed>>
  BY DEF Follow
<1>2. CASE follow = "none" /\ targets # {}
  <2>1. /\ follow' = "sleeping" /\ rested' = FALSE /\ ceiling' = CeilingTicks
        /\ unchanged' = [n \in Motors |-> 0] /\ followed' = targets
    BY <1>2 DEF Follow
  <2>2. moving = {} /\ CeilingTicks \in 0..CeilingTicks
    BY <1>2 DEF FollowTypeOK
  <2> QED BY <1>1, <1>2, <2>1, <2>2 DEF FollowTypeOK, CycleInv
<1>3. CASE ~(follow = "none" /\ targets # {})
  <2>1. /\ followed' = followed \cup targets
        /\ UNCHANGED <<follow, rested, ceiling, unchanged>>
    BY <1>3 DEF Follow
  <2> QED BY <1>1, <1>3, <2>1 DEF FollowTypeOK, CycleInv
<1> QED BY <1>2, <1>3

LEMMA FollowContinuesType ==
  ASSUME FollowTypeOK, CycleInv, NodesTypeOK, follow = "reading",
         NEW m, m = moving \/ m = moving \ {fNode}, NEW c \in BOOLEAN,
         NEW i, i \subseteq inherited, FollowContinues(m, c, i),
         known' \in [Motors -> Positions \cup {Unknown}],
         unchanged' \in [Motors -> Nat], ceiling' = ceiling
  PROVE  FollowTypeOK' /\ CycleInv' /\ NodesTypeOK'
<1>1. CASE fLeft # {}
  <2> PICK n \in fLeft : fNode' = n /\ fLeft' = fLeft \ {n} /\ previous' = known'[n]
    BY <1>1 DEF FollowContinues
  <2>1. /\ moving' = m /\ changed' = c /\ inherited' = i
        /\ UNCHANGED <<follow, rested, followed, shown>>
    BY <1>1 DEF FollowContinues
  <2>2. n \in m /\ n \in Readable /\ n \in Motors /\ fLeft' \subseteq m \ {n}
    BY DEF CycleInv, FollowTypeOK, Readable
  <2>3. m \subseteq moving /\ previous' \in Positions \cup {Unknown}
    BY <2>2
  <2> QED BY <2>1, <2>2, <2>3 DEF FollowTypeOK, CycleInv, NodesTypeOK
<1>2. CASE fLeft = {} /\ m # {} /\ ~CeilingReached
  <2>1. /\ moving' = m /\ follow' = "sleeping" /\ rested' = FALSE
        /\ inherited' = i /\ fNode' = NoMotor /\ previous' = Unknown /\ changed' = FALSE
        /\ shown' = (IF c THEN known' ELSE shown)
        /\ UNCHANGED <<fLeft, followed>>
    BY <1>2 DEF FollowContinues
  <2> QED BY <1>2, <2>1 DEF FollowTypeOK, CycleInv, NodesTypeOK
<1>3. CASE fLeft = {} /\ (m = {} \/ CeilingReached)
  <2>1. /\ moving' = {} /\ followed' = {} /\ follow' = "none" /\ rested' = FALSE
        /\ inherited' = {}
        /\ fNode' = NoMotor /\ previous' = Unknown /\ changed' = FALSE
        /\ shown' = known' /\ UNCHANGED fLeft
    BY <1>3 DEF FollowContinues, StillMoving, FinalWrite
  <2> QED BY <1>3, <2>1 DEF FollowTypeOK, CycleInv, NodesTypeOK
<1> QED BY <1>1, <1>2, <1>3

LEMMA CoordInvNext == CoordInv /\ [CoordNext]_coordVars => CoordInv'
<1> SUFFICES ASSUME CoordInv, [CoordNext]_coordVars PROVE CoordInv'
  OBVIOUS
<1>p. /\ FollowTypeOK /\ PollTypeOK /\ NodesTypeOK /\ MotorsTypeOK
      /\ BoundsTypeOK /\ CycleInv /\ CoordTypeOK
  BY Parts DEF CoordInv
<1>f. ASSUME UNCHANGED followTask, inherited' = inherited
      PROVE  FollowTypeOK' /\ CycleInv'
  BY <1>p, <1>f DEF followTask, FollowTypeOK, CycleInv
<1>o. ASSUME UNCHANGED pollTask PROVE PollTypeOK'
  BY <1>p, <1>o DEF pollTask, PollTypeOK
<1>n. ASSUME UNCHANGED <<known, shown>> PROVE NodesTypeOK'
  BY <1>p, <1>n DEF NodesTypeOK
<1>m. ASSUME UNCHANGED motors PROVE MotorsTypeOK'
  BY <1>p, <1>m DEF motors, MotorsTypeOK
<1>b. ASSUME UNCHANGED <<commands, bounds>> PROVE BoundsTypeOK'
  BY <1>p, <1>b DEF bounds, BoundsTypeOK
<1>1. CASE PollStarts
  <2> PICK n \in Readable : pNode' = n /\ pLeft' = Readable \ {n}
    BY <1>1 DEF PollStarts
  <2>1. /\ poll' = "reading"
        /\ UNCHANGED <<known, shown, followTask, inherited, sincePoll, commands,
                       motors, bounds>>
    BY <1>1 DEF PollStarts
  <2>2. PollTypeOK'
    BY <1>p, <2>1 DEF PollTypeOK
  <2> QED BY <2>1, <2>2, <1>f, <1>n, <1>m, <1>b, PartsNext DEF CoordInv
<1>2. CASE PollStores
  <2> PICK outcome \in Outcomes(pNode) :
        /\ Answered(outcome)
        /\ IF Skips(pNode, outcome) THEN UNCHANGED known ELSE Store(pNode, outcome)
    BY <1>2 DEF PollStores
  <2>1. /\ poll = "reading" /\ PollContinues
        /\ UNCHANGED <<followTask, inherited, commands, motors>>
        /\ pNode \in Readable
    BY <1>2, <1>p DEF PollStores, PollTypeOK
  <2>2. known' \in [Motors -> Positions \cup {Unknown}]
    BY <1>p, <2>1, StoreType DEF NodesTypeOK
  <2>3. PollTypeOK' /\ NodesTypeOK'
    BY <1>p, <2>1, <2>2, PollContinuesType
  <2>4. BoundsTypeOK'
    BY <1>p, <2>1, AnsweredType DEF BoundsTypeOK
  <2> QED BY <2>1, <2>3, <2>4, <1>f, <1>m, PartsNext DEF CoordInv
<1>3. CASE FollowWakes
  <2> PICK n \in moving : fNode' = n /\ fLeft' = moving \ {n} /\ previous' = known[n]
    BY <1>3 DEF FollowWakes
  <2>1. /\ follow = "sleeping" /\ follow' = "reading" /\ changed' = FALSE
        /\ UNCHANGED <<known, shown, moving, rested, unchanged, ceiling, followed,
                       inherited, pollTask, commands, motors, bounds>>
    BY <1>3 DEF FollowWakes
  <2>2. n \in Motors /\ known[n] \in Positions \cup {Unknown} /\ n \in Readable
    BY <1>p DEF FollowTypeOK, NodesTypeOK, Readable
  <2>3. FollowTypeOK' /\ CycleInv'
    BY <1>p, <2>1, <2>2 DEF FollowTypeOK, CycleInv
  <2> QED BY <2>1, <2>3, <1>o, <1>n, <1>m, <1>b, PartsNext DEF CoordInv
<1>4. CASE FollowStores
  <2> DEFINE differs(o) == Reading(fNode, o) # previous
             count(o) == IF differs(o) THEN 0 ELSE unchanged[fNode] + 1
             left(o) == IF Settled(count(o)) THEN moving \ {fNode} ELSE moving
             still(o) == IF differs(o) THEN inherited \ {fNode} ELSE inherited
  <2> PICK o \in Outcomes(fNode) :
        /\ Answered(o)
        /\ IF Skips(fNode, o)
           THEN /\ UNCHANGED <<known, unchanged>>
                /\ FollowContinues(moving, changed, inherited)
           ELSE /\ Store(fNode, o)
                /\ unchanged' = [unchanged EXCEPT ![fNode] = count(o)]
                /\ FollowContinues(left(o), changed \/ differs(o), still(o))
    BY <1>4 DEF FollowStores
  <2>1. /\ follow = "reading" /\ UNCHANGED <<ceiling, pollTask, commands, motors>>
        /\ fNode \in Readable /\ fNode \in Motors /\ changed \in BOOLEAN
    BY <1>4, <1>p DEF FollowStores, FollowTypeOK, Readable
  <2>2. FollowTypeOK' /\ CycleInv' /\ NodesTypeOK'
    <3>1. CASE Skips(fNode, o)
      <4>1. /\ known' \in [Motors -> Positions \cup {Unknown}]
            /\ unchanged' \in [Motors -> Nat]
        BY <1>p, <3>1 DEF NodesTypeOK, FollowTypeOK
      <4> QED BY <1>p, <2>1, <3>1, <4>1, FollowContinuesType
    <3>2. CASE ~Skips(fNode, o)
      <4>1. known' \in [Motors -> Positions \cup {Unknown}]
        BY <1>p, <2>1, <3>2, StoreType
      <4>2. unchanged' \in [Motors -> Nat] /\ ceiling' = ceiling
        BY <1>p, <2>1, <3>2 DEF FollowTypeOK
      <4>3. /\ left(o) = moving \/ left(o) = moving \ {fNode}
            /\ (changed \/ differs(o)) \in BOOLEAN /\ still(o) \subseteq inherited
        OBVIOUS
      <4>4. FollowContinues(left(o), changed \/ differs(o), still(o))
        BY <3>2
      <4> HIDE DEF differs, left, still
      <4>5. \E m, c, i : /\ m = moving \/ m = moving \ {fNode}
                         /\ c \in BOOLEAN /\ i \subseteq inherited
                         /\ FollowContinues(m, c, i)
        BY <4>3, <4>4, Zenon
      <4> PICK m, c, i : /\ m = moving \/ m = moving \ {fNode}
                         /\ c \in BOOLEAN /\ i \subseteq inherited
                         /\ FollowContinues(m, c, i)
        BY <4>5
      <4> QED BY <1>p, <2>1, <4>1, <4>2, FollowContinuesType
    <3> QED BY <3>1, <3>2
  <2>3. BoundsTypeOK'
    BY <1>p, <2>1, AnsweredType DEF BoundsTypeOK
  <2> QED BY <2>1, <2>2, <2>3, <1>o, <1>m, PartsNext DEF CoordInv
<1>5. CASE Tick
  <2>1. /\ delay' = [n \in Motors |-> IF delay[n] = 0 THEN 0 ELSE delay[n] - 1]
        /\ actual' = [n \in Motors |->
             IF delay[n] = 0 THEN Towards(actual[n], goal[n]) ELSE actual[n]]
        /\ goal' = goal
    BY <1>5 DEF Tick
  <2>2. MotorsTypeOK'
    <3>1. ASSUME NEW n \in Motors
          PROVE  Towards(actual[n], goal[n]) \in Positions
      <4>1. actual[n] \in Positions /\ goal[n] \in Positions
        BY <1>p DEF MotorsTypeOK
      <4> QED BY <4>1 DEF Towards, Positions
    <3>2. actual' \in [Motors -> Positions]
      BY <1>p, <2>1, <3>1 DEF MotorsTypeOK
    <3>3. delay' \in [Motors -> 0..StartDelay]
      BY <1>p, <2>1 DEF MotorsTypeOK
    <3> QED BY <1>p, <2>1, <3>2, <3>3 DEF MotorsTypeOK
  <2>3. /\ rested' \in BOOLEAN
        /\ ceiling' = (IF ceiling = 0 THEN 0 ELSE ceiling - 1)
        /\ sincePoll' = (IF sincePoll < PollTicks THEN sincePoll + 1 ELSE sincePoll)
        /\ UNCHANGED <<known, shown, moving, follow, fNode, fLeft, previous,
                       unchanged, changed, followed, inherited, poll, pNode, pLeft,
                       commands, given, faults>>
    BY <1>5 DEF Tick
  <2>4. FollowTypeOK' /\ CycleInv'
    <3>1. ceiling' \in 0..CeilingTicks
      BY <1>p, <2>3 DEF FollowTypeOK
    <3> QED BY <1>p, <2>3, <3>1 DEF FollowTypeOK, CycleInv
  <2>5. PollTypeOK'
    <3>1. sincePoll' \in 0..PollTicks
      BY <1>p, <2>3 DEF PollTypeOK
    <3> QED BY <1>p, <2>3, <3>1 DEF PollTypeOK
  <2>6. BoundsTypeOK'
    <3>1. slow' \in 0..MaxSlow
      BY <1>5, <1>p DEF Tick, BoundsTypeOK
    <3> QED BY <1>p, <2>3, <3>1 DEF BoundsTypeOK
  <2> QED BY <2>2, <2>3, <2>4, <2>5, <2>6, <1>n, PartsNext DEF CoordInv
<1>6. ASSUME NEW S \in Targets, Command(S) PROVE CoordInv'
  <2> PICK p \in Positions, d \in 0..StartDelay :
        /\ goal' = [n \in Motors |-> IF n \in S THEN p ELSE goal[n]]
        /\ delay' = [n \in Motors |-> IF n \in S THEN d ELSE delay[n]]
    BY <1>6 DEF Command
  <2>1. /\ given < MaxCommands /\ given' = given + 1 /\ commands' = commands \cup {S}
        /\ inherited' = inherited \cup (S \cap followed)
        /\ UNCHANGED <<known, shown, followTask, pollTask, actual, faults, slow>>
    BY <1>6 DEF Command
  <2>4. FollowTypeOK' /\ CycleInv'
    BY <1>p, <2>1 DEF followTask, FollowTypeOK, CycleInv
  <2>2. MotorsTypeOK'
    BY <1>p, <2>1 DEF MotorsTypeOK
  <2>3. BoundsTypeOK'
    BY <1>p, <2>1 DEF BoundsTypeOK
  <2> QED BY <2>1, <2>2, <2>3, <2>4, <1>o, <1>n, PartsNext DEF CoordInv
<1>7. ASSUME NEW S \in Targets, CommandReplied(S) PROVE CoordInv'
  <2>1. /\ commands' = commands \ {S} /\ Follow(S)
        /\ UNCHANGED <<known, shown, inherited, pollTask, motors, bounds>>
    BY <1>7 DEF CommandReplied
  <2>2. FollowTypeOK' /\ CycleInv'
    BY <1>p, <2>1, FollowType
  <2>3. BoundsTypeOK'
    BY <1>p, <2>1 DEF bounds, BoundsTypeOK
  <2> QED BY <2>1, <2>2, <2>3, <1>o, <1>n, <1>m, PartsNext DEF CoordInv
<1>8. ASSUME NEW S \in Targets, CommandFails(S) PROVE CoordInv'
  <2>1. /\ commands' = commands \ {S} /\ faults < MaxFaults /\ faults' = faults + 1
        /\ UNCHANGED <<known, shown, followTask, inherited, pollTask, motors, given,
                       slow>>
    BY <1>8 DEF CommandFails
  <2>2. BoundsTypeOK'
    BY <1>p, <2>1 DEF BoundsTypeOK
  <2> QED BY <2>1, <2>2, <1>f, <1>o, <1>n, <1>m, PartsNext DEF CoordInv
<1>9. CASE UNCHANGED coordVars
  BY <1>9, <1>f, <1>o, <1>n, <1>m, <1>b, PartsNext DEF CoordInv, coordVars
<1> QED
  BY <1>1, <1>2, <1>3, <1>4, <1>5, <1>6, <1>7, <1>8, <1>9 DEF CoordNext

\* Every variable of the coordinator keeps its type, and the follow task runs
\* exactly while motors are followed.
THEOREM CoordTypesHold == CoordSpec => []CoordTypeOK
<1>1. CoordInv => CoordTypeOK
  BY DEF CoordInv
<1> QED BY <1>1, CoordInvInit, CoordInvNext, PTL DEF CoordSpec

-----------------------------------------------------------------------------
(* What the tasks tell the entities.                                       *)

LEMMA ShownNext == ShownIsKnown /\ [CoordNext]_coordVars => ShownIsKnown'
<1> SUFFICES ASSUME ShownIsKnown, [CoordNext]_coordVars,
                    poll' = "idle", follow' = "none"
             PROVE  shown' = known'
  BY DEF ShownIsKnown
<1>1. ASSUME UNCHANGED <<known, shown, poll, follow>> PROVE shown' = known'
  BY <1>1 DEF ShownIsKnown
<1>2. CASE PollStarts
  BY <1>2 DEF PollStarts
<1>3. CASE PollStores
  BY <1>3 DEF PollStores, PollContinues
<1>4. CASE FollowWakes
  BY <1>4 DEF FollowWakes
<1>5. CASE FollowStores
  <2>1. follow = "reading" /\ \E m, c, i : FollowContinues(m, c, i)
    BY <1>5 DEF FollowStores
  <2> QED BY <2>1 DEF FollowContinues, FinalWrite
<1>6. ASSUME NEW S \in Targets, CommandReplied(S) PROVE shown' = known'
  <2>1. follow = "none" /\ UNCHANGED <<known, shown, poll>>
    BY <1>6 DEF CommandReplied, Follow, pollTask
  <2> QED BY <2>1 DEF ShownIsKnown
<1> QED
  BY <1>1, <1>2, <1>3, <1>4, <1>5, <1>6
     DEF CoordNext, Tick, Command, CommandFails, coordVars, followTask, pollTask

\* When neither task is at work every entity shows what is known of its motor
\* (coordinator.py, `finally` of _async_follow_movement and the listeners).
THEOREM EntitiesShowWhatIsKnown == CoordSpec => []ShownIsKnown
<1>1. CoordInit => ShownIsKnown
  BY DEF CoordInit, ShownIsKnown
<1> QED BY <1>1, ShownNext, PTL DEF CoordSpec

LEMMA WebStateStep ==
  ASSUME CoordTypeOK, [CoordNext]_coordVars, NEW n \in Motors \ Positional,
         known[n] # Unknown
  PROVE  known'[n] # Unknown
<1>1. ASSUME NEW k \in Readable, NEW o \in Outcomes(k),
             IF Skips(k, o) THEN UNCHANGED known ELSE Store(k, o)
      PROVE  known'[n] # Unknown
  <2>1. CASE k = n /\ ~Skips(k, o)
    <3>1. o = "position" /\ actual[n] \in Positions
      BY <2>1 DEF Outcomes, Skips, CoordTypeOK
    <3> QED BY <1>1, <2>1, <3>1, PositionsType DEF Store, Reading, CoordTypeOK
  <2>2. CASE k # n \/ Skips(k, o)
    BY <1>1, <2>2 DEF Store, CoordTypeOK
  <2> QED BY <2>1, <2>2
<1>2. CASE PollStores
  <2>1. pNode \in Readable
    BY <1>2 DEF PollStores, CoordTypeOK
  <2> QED BY <1>1, <1>2, <2>1 DEF PollStores
<1>3. CASE FollowStores
  <2>1. fNode \in Readable
    BY <1>3 DEF FollowStores, CoordTypeOK
  <2> QED BY <1>1, <1>3, <2>1 DEF FollowStores
<1>4. CASE UNCHANGED known
  BY <1>4
<1> QED
  BY <1>2, <1>3, <1>4
     DEF CoordNext, PollStarts, FollowWakes, Tick, Command, CommandReplied,
         CommandFails, coordVars

\* A missed read never makes a motor read over HTTP unknown again, whichever
\* task reads it (coordinator.py, _async_refresh_node).
THEOREM WebStateIsNeverLost == CoordSpec => WebStateIsKept
<1>1. CoordTypeOK /\ [CoordNext]_coordVars =>
        [\A n \in Motors \ Positional :
           known[n] # Unknown => known'[n] # Unknown]_coordVars
  BY WebStateStep
<1> QED BY <1>1, CoordTypesHold, PTL DEF CoordSpec, WebStateIsKept

-----------------------------------------------------------------------------
(* Following to the end.  Until a motor starts it is read once a tick, so  *)
(* its unchanged reads are limited by its delay (Early).  Once it moves it *)
(* is at another position after every tick, so a read that finds the       *)
(* position known before needs a cause: a position known by chance from an *)
(* earlier journey; one that the refresh has stored in the same tick; or   *)
(* an unknown position stored and read again, which takes lost reads.  The *)
(* first can only be the first read; the refresh comes too seldom to do it *)
(* twice while a motor settles; and the last is counted by `faults`.       *)

\* More reads settle a motor than its delay and a refresh, or its delay and
\* the lost reads, can leave unchanged, and the poll interval is longer than
\* settling takes.
Undisturbed ==
  /\ ~EverFaulty
  /\ StartDelay + 2 < SettleReads /\ StartDelay + MaxFaults < SettleReads
  /\ SettleReads + MaxFaults + MaxSlow <= PollTicks

\* The follow task has n to read before the next tick of its cycle.
Pending(n) == IF follow = "reading" THEN n = fNode \/ n \in fLeft ELSE rested

\* The refresh has read n, and does not read it again while n settles: every
\* tick since its end goes with a read of n, a fault or a slow tick.
Quiet(n) ==
  IF poll = "reading" THEN n # pNode /\ n \notin pLeft
  ELSE sincePoll + (IF Pending(n) THEN 0 ELSE 1) <= unchanged[n] + faults + slow

\* n has been read no more often than its delay explains.
Early(n) ==
  unchanged[n] + delay[n] + (IF Pending(n) THEN 1 ELSE 0) <= StartDelay + 1

CapOf(k) == StartDelay + (IF k <= 2 THEN 2 ELSE k)
Cap == CapOf(faults)
Behind(n, v) == IF actual[n] < goal[n] THEN v <= actual[n] ELSE v >= actual[n]

\* Why n has been read unchanged so often, v being its position known.
Justified(n, v) ==
  IF v = Unknown
  THEN /\ unchanged[n] <= StartDelay + faults
       /\ Quiet(n) \/ unchanged[n] + 1 <= StartDelay + faults
  ELSE /\ Behind(n, v) /\ unchanged[n] <= Cap
       /\ unchanged[n] <= StartDelay + 1 \/ Quiet(n)
       /\ Pending(n) /\ v = actual[n] =>
            Early(n) \/ (Quiet(n) /\ unchanged[n] + 1 <= Cap)

Accounted(n) ==
  ~AtRest(n) /\ unchanged[n] > 0 =>
    /\ delay[n] = 0 \/ Early(n)
    /\ Justified(n, known[n]) /\ (fNode = n => Justified(n, previous))

\* Who is followed and read.
Orderly ==
  /\ follow # "none" => \A n \in Motors \ followed : unchanged[n] = 0
  /\ poll = "reading" => pNode \notin pLeft
  /\ follow = "reading" => fNode \in moving

\* An unknown position costs a read.
LossesCount ==
  /\ \A n \in Positional : known[n] = Unknown => faults > 0
  /\ fNode \in Positional /\ previous = Unknown => faults > 0

\* A motor whose reads count from its last command on is at rest or still
\* followed, and accounted for, unless the deadline has passed.
Watch ==
  /\ Undisturbed /\ Orderly /\ LossesCount
  /\ \A n \in followed \ inherited :
       \/ AtRest(n) \/ ceiling = 0
       \/ n \in moving /\ unchanged[n] < SettleReads /\ Accounted(n)

\* n is on its way and its following matters.
OnItsWay(n) == n \in moving \ inherited /\ ~AtRest(n) /\ ceiling # 0

LEMMA Numbers ==
  ASSUME CoordTypeOK, NEW n \in Motors
  PROVE  /\ unchanged[n] \in Nat /\ faults \in 0..MaxFaults /\ slow \in 0..MaxSlow
         /\ actual[n] \in Nat /\ goal[n] \in Nat /\ known[n] \in Nat /\ previous \in Nat
         /\ actual[n] # Unknown /\ Unknown \in Nat
         /\ sincePoll \in 0..PollTicks /\ ceiling \in Nat /\ delay[n] \in 0..StartDelay
BY DEF CoordTypeOK, Positions, Unknown

LEMMA FollowedAreMotors ==
  ASSUME CoordTypeOK PROVE moving \subseteq Motors /\ moving \subseteq Readable
BY DEF CoordTypeOK, Readable

LEMMA AnswerCosts ==
  ASSUME Undisturbed, CoordTypeOK, NEW o, Answered(o)
  PROVE  /\ slow' = slow /\ faults \in Nat
         /\ IF o = "position" THEN faults' = faults ELSE faults' = faults + 1
BY DEF Undisturbed, Answered, CoordTypeOK

LEMMA CapOfGrows ==
  ASSUME NEW k \in Nat, NEW l \in Nat, k <= l
  PROVE  /\ CapOf(k) \in Nat /\ CapOf(l) \in Nat /\ CapOf(k) <= CapOf(l)
         /\ StartDelay + 2 <= CapOf(k) /\ StartDelay + k <= CapOf(k)
         /\ StartDelay + 2 <= CapOf(l) /\ StartDelay + l <= CapOf(l)
BY DEF CapOf

LEMMA CapGrows ==
  ASSUME faults \in Nat, faults' \in Nat, faults' >= faults
  PROVE  /\ Cap \in Nat /\ Cap' \in Nat /\ Cap <= Cap'
         /\ StartDelay + 2 <= Cap /\ StartDelay + faults <= Cap
         /\ StartDelay + 2 <= Cap' /\ StartDelay + faults' <= Cap'
<1>1. faults <= faults'
  OBVIOUS
<1> QED BY <1>1, CapOfGrows, Zenon DEF Cap

\* A count below its cap stays below that of more faults.
LEMMA OneMore ==
  ASSUME NEW u \in Nat, NEW k \in Nat, NEW l \in Nat, k <= l, NEW c \in Nat,
         StartDelay + 2 <= c, StartDelay + l <= c,
         u <= StartDelay + 1 \/ u + 1 <= StartDelay + k
  PROVE  u + 1 <= c
OBVIOUS

\* A step that leaves n alone keeps the account of n.
LEMMA AccountKept ==
  ASSUME CoordTypeOK, CoordTypeOK', NEW n \in Motors, Accounted(n),
         unchanged'[n] = unchanged[n], faults' >= faults,
         actual'[n] = actual[n], goal'[n] = goal[n], known'[n] = known[n],
         delay'[n] = delay[n], fNode' = n => previous' = known[n] \/ (fNode = n /\ previous' = previous),
         Pending(n)' => Pending(n), unchanged[n] > 0 /\ Quiet(n) => Quiet(n)'
  PROVE  Accounted(n)'
<1> SUFFICES ASSUME ~AtRest(n)', unchanged'[n] > 0
             PROVE  /\ delay'[n] = 0 \/ Early(n)'
                    /\ Justified(n, known[n])' /\ (fNode' = n => Justified(n, previous)')
  BY DEF Accounted
<1>1. /\ delay[n] = 0 \/ Early(n)
      /\ Justified(n, known[n]) /\ (fNode = n => Justified(n, previous))
  BY DEF Accounted, AtRest
<1>2. /\ unchanged[n] \in Nat /\ faults \in Nat /\ faults' \in Nat /\ delay[n] \in Nat
      /\ (Quiet(n) => Quiet(n)')
  BY Numbers, PositionsType DEF CoordTypeOK
<1>3. Cap \in Nat /\ Cap' \in Nat /\ Cap <= Cap'
  BY <1>2, CapGrows
<1>6. Early(n) => Early(n)'
  BY <1>2 DEF Early
<1>7. ASSUME NEW v, Justified(n, v), v = Unknown \/ v # Unknown
      PROVE  IF v = Unknown
             THEN /\ unchanged'[n] <= StartDelay + faults'
                  /\ Quiet(n)' \/ unchanged'[n] + 1 <= StartDelay + faults'
             ELSE /\ IF actual'[n] < goal'[n] THEN v <= actual'[n] ELSE v >= actual'[n]
                  /\ unchanged'[n] <= Cap'
                  /\ unchanged'[n] <= StartDelay + 1 \/ Quiet(n)'
                  /\ Pending(n)' /\ v = actual'[n] =>
                       Early(n)' \/ (Quiet(n)' /\ unchanged'[n] + 1 <= Cap')
  <2>1. CASE v = Unknown
    BY <1>2, <1>7, <2>1 DEF Justified
  <2>2. CASE v # Unknown
    BY <1>2, <1>3, <1>6, <1>7, <2>2 DEF Justified, Behind
  <2> QED BY <2>1, <2>2
<1>4. Justified(n, known[n])'
  <2>1. Unknown' = Unknown
    BY DEF Unknown
  <2> QED BY <1>1, <1>7, <2>1 DEF Justified, Behind
<1>5. ASSUME fNode' = n PROVE Justified(n, previous)'
  <2>1. Unknown' = Unknown
    BY DEF Unknown
  <2>2. CASE previous' = known[n]
    BY <1>1, <1>7, <2>1, <2>2 DEF Justified, Behind
  <2>3. CASE fNode = n /\ previous' = previous
    BY <1>1, <1>7, <2>1, <2>3 DEF Justified, Behind
  <2> QED BY <1>5, <2>2, <2>3
<1> QED BY <1>1, <1>4, <1>5, <1>6

LEMMA WatchParts ==
  ASSUME Watch, CoordInv, NEW n, OnItsWay(n)
  PROVE  /\ n \in Motors /\ n \in Readable /\ n \in followed /\ CoordTypeOK
         /\ Undisturbed /\ unchanged[n] < SettleReads /\ Accounted(n)
         /\ follow \in {"sleeping", "reading"} /\ n \in moving /\ ~AtRest(n)
BY DEF Watch, CoordInv, CoordTypeOK, Readable, OnItsWay

\* The refresh starts no sooner than a motor that moves has settled.
LEMMA PollStartsAccount ==
  ASSUME Watch, CoordInv, CoordInv', PollStarts, NEW n, OnItsWay(n)
  PROVE  Accounted(n)'
<1>1. /\ poll = "idle" /\ sincePoll = PollTicks
      /\ UNCHANGED <<known, follow, rested, fNode, fLeft, previous, unchanged,
                     actual, goal, delay, faults>>
  BY DEF PollStarts, followTask, motors, bounds
<1>2. n \in Motors /\ CoordTypeOK /\ CoordTypeOK' /\ Accounted(n)
  BY WatchParts DEF CoordInv
<1>3. ~Quiet(n)
  <2>1. unchanged[n] < SettleReads /\ SettleReads + MaxFaults + MaxSlow <= PollTicks
    BY WatchParts DEF Undisturbed
  <2>2. unchanged[n] + faults + slow < PollTicks
    BY <1>2, <2>1, Numbers
  <2>3. unchanged[n] + faults + slow \in Nat
    BY <1>2, Numbers
  <2> QED BY <1>1, <2>2, <2>3 DEF Quiet
<1>4. Pending(n)' <=> Pending(n)
  BY <1>1 DEF Pending
<1>5. faults' >= faults
  BY <1>1, <1>2, Numbers
<1> QED BY <1>1, <1>2, <1>3, <1>4, <1>5, AccountKept

LEMMA PollQuiet ==
  ASSUME CoordTypeOK, CoordTypeOK', NEW n \in Motors, poll = "reading", PollContinues,
         n \notin pLeft, unchanged'[n] = unchanged[n], unchanged[n] > 0
  PROVE  Quiet(n)'
<1>1. CASE pLeft # {}
  BY <1>1 DEF PollContinues, Quiet
<1>2. CASE pLeft = {}
  <2>1. poll' = "idle" /\ sincePoll' = 0
    BY <1>2 DEF PollContinues
  <2>2. /\ unchanged'[n] \in Nat /\ unchanged'[n] > 0 /\ faults' \in Nat /\ slow' \in Nat
    BY Numbers DEF CoordTypeOK
  <2> QED BY <2>1, <2>2 DEF Quiet
<1> QED BY <1>1, <1>2

\* The refresh stores a position, or loses one, of a motor it has not read
\* since it settled last.
LEMMA PollStoresAccount ==
  ASSUME Watch, CoordInv, CoordInv', PollStores, NEW n, OnItsWay(n)
  PROVE  Accounted(n)'
<1>1. /\ poll = "reading" /\ PollContinues
      /\ UNCHANGED <<follow, rested, fNode, fLeft, previous, unchanged, actual, goal,
                     delay>>
  BY DEF PollStores, followTask, motors
<1>2. /\ n \in Motors /\ CoordTypeOK /\ CoordTypeOK' /\ Accounted(n) /\ Undisturbed
  BY WatchParts DEF CoordInv
<1> PICK o \in Outcomes(pNode) :
      /\ Answered(o)
      /\ IF Skips(pNode, o) THEN UNCHANGED known ELSE Store(pNode, o)
  BY DEF PollStores
<1>3. /\ slow' = slow /\ faults \in Nat
      /\ IF o = "position" THEN faults' = faults ELSE faults' = faults + 1
  BY <1>2, AnswerCosts
<1>4. faults' >= faults
  BY <1>3
<1>5. Pending(n)' <=> Pending(n)
  BY <1>1 DEF Pending
<1>6. unchanged[n] > 0 /\ n \notin pLeft => Quiet(n)'
  BY <1>1, <1>2, PollQuiet
<1>7. Quiet(n) => n # pNode /\ n \notin pLeft
  BY <1>1 DEF Quiet
<1>8. CASE known'[n] = known[n]
  BY <1>1, <1>2, <1>4, <1>5, <1>6, <1>7, <1>8, AccountKept
<1>9. CASE known'[n] # known[n]
  <2>1. n = pNode /\ ~Skips(n, o) /\ known'[n] = Reading(n, o)
    BY <1>2, <1>9 DEF Store, CoordTypeOK
  <2>2. n \notin pLeft /\ ~Quiet(n)
    BY <1>1, <1>7, <2>1 DEF Watch, Orderly
  <2> SUFFICES ASSUME ~AtRest(n)', unchanged'[n] > 0
               PROVE  /\ delay'[n] = 0 \/ Early(n)'
                      /\ Justified(n, known[n])' /\ (fNode' = n => Justified(n, previous)')
    BY DEF Accounted
  <2>3. /\ delay[n] = 0 \/ Early(n)
        /\ Justified(n, known[n]) /\ (fNode = n => Justified(n, previous))
    BY <1>1, <1>2 DEF Accounted, AtRest
  <2>4. unchanged[n] > 0 /\ unchanged[n] \in Nat /\ Quiet(n)'
    BY <1>1, <1>2, <1>6, <2>2, Numbers
  <2>5. \/ unchanged[n] <= StartDelay + 1
        \/ known[n] = Unknown /\ unchanged[n] + 1 <= StartDelay + faults
    BY <2>2, <2>3 DEF Justified
  <2>6. /\ Cap \in Nat /\ Cap' \in Nat /\ Cap <= Cap' /\ faults' \in Nat
        /\ StartDelay + 2 <= Cap' /\ StartDelay + faults' <= Cap'
    <3>1. faults' \in Nat
      BY <1>3
    <3> QED BY <1>3, <1>4, <3>1, CapGrows
  <2>7. unchanged[n] + 1 <= Cap'
    <3>1. faults <= faults'
      BY <1>3, <1>4, <2>6
    <3>2. unchanged[n] <= StartDelay + 1 \/ unchanged[n] + 1 <= StartDelay + faults
      BY <2>5
    <3> QED BY <1>3, <2>4, <2>6, <3>1, <3>2, OneMore, Zenon
  <2>e. Early(n)' <=> Early(n)
    BY <1>1, <1>5 DEF Early
  <2>8. Justified(n, known[n])'
    <3>1. CASE o = "position"
      <4>1. known'[n] = actual'[n] /\ actual'[n] # Unknown /\ actual'[n] \in Nat
        BY <1>1, <1>2, <2>1, <3>1, Numbers DEF Reading
      <4>2. Behind(n, known[n])'
        BY <4>1 DEF Behind
      <4> QED BY <1>1, <2>4, <2>6, <2>7, <4>1, <4>2 DEF Justified, Unknown
    <3>2. CASE o # "position"
      <4>1. known'[n] = Unknown /\ faults' = faults + 1
        BY <1>3, <2>1, <3>2 DEF Reading
      <4>2. unchanged'[n] <= StartDelay + faults'
        BY <1>1, <1>3, <2>4, <2>5, <4>1
      <4> QED BY <2>4, <4>1, <4>2 DEF Justified, Unknown
    <3> QED BY <3>1, <3>2
  <2>9. ASSUME fNode' = n PROVE Justified(n, previous)'
    <3>1. Justified(n, previous) /\ previous' = previous
      BY <1>1, <2>3, <2>9
    <3>2. CASE previous = Unknown
      BY <1>1, <1>3, <1>4, <2>2, <2>4, <3>1, <3>2 DEF Justified, Unknown
    <3>3. CASE previous # Unknown
      BY <1>1, <1>5, <2>2, <2>4, <2>6, <2>e, <3>1, <3>3 DEF Justified, Behind, Unknown
    <3> QED BY <3>2, <3>3
  <2> QED BY <1>1, <2>3, <2>8, <2>9, <2>e
<1> QED BY <1>8, <1>9

LEMMA FollowWakesAccount ==
  ASSUME Watch, CoordInv, CoordInv', FollowWakes, NEW n, OnItsWay(n)
  PROVE  Accounted(n)'
<1>1. /\ follow = "sleeping" /\ rested /\ follow' = "reading"
      /\ UNCHANGED <<known, unchanged, actual, goal, delay, faults, slow, poll, pNode,
                     pLeft, sincePoll>>
  BY DEF FollowWakes, pollTask, motors, bounds
<1>2. n \in Motors /\ CoordTypeOK /\ CoordTypeOK' /\ Accounted(n)
  BY WatchParts DEF CoordInv
<1>3. /\ moving = fLeft' \cup {fNode'} /\ previous' = known[fNode'] /\ n \in moving
  BY WatchParts DEF FollowWakes
<1>4. Pending(n) /\ Pending(n)'
  BY <1>1, <1>3 DEF Pending
<1>5. Quiet(n) => Quiet(n)'
  BY <1>1, <1>4 DEF Quiet
<1>6. faults' >= faults
  BY <1>1, <1>2, Numbers
<1> QED BY <1>1, <1>2, <1>3, <1>4, <1>5, <1>6, AccountKept

\* A read by the follow task that finds n where it was known to be, though n
\* moves, is accounted for, and there are too few causes for n to settle.
LEMMA UnchangedRead ==
  ASSUME Watch, CoordInv, follow = "reading", OnItsWay(fNode),
         NEW o \in Outcomes(fNode), Answered(o), ~Skips(fNode, o),
         Reading(fNode, o) = previous
  PROVE  /\ delay[fNode] = 0 \/ Early(fNode)
         /\ o = "position" =>
              /\ unchanged[fNode] + 1 <= Cap
              /\ Early(fNode) \/ Quiet(fNode)
         /\ o # "position" =>
              /\ unchanged[fNode] + 1 <= StartDelay + faults + 1
              /\ Quiet(fNode) \/ unchanged[fNode] + 1 <= StartDelay + faults
         /\ unchanged[fNode] + 1 < SettleReads
<1> DEFINE n == fNode
<1>1. /\ n \in Motors /\ CoordTypeOK /\ Accounted(n) /\ Undisturbed /\ ~AtRest(n)
  BY WatchParts
<1>2. /\ unchanged[n] \in Nat /\ faults \in 0..MaxFaults /\ actual[n] # Unknown
      /\ delay[n] \in 0..StartDelay
  BY <1>1, Numbers
<1>3. unchanged[n] > 0 => Justified(n, previous) /\ (delay[n] = 0 \/ Early(n))
  BY <1>1 DEF Accounted
<1>4. Pending(n)
  BY DEF Pending
<1>5. /\ Cap \in Nat /\ StartDelay + 2 <= Cap /\ Cap < SettleReads
  BY <1>1, <1>2 DEF Cap, CapOf, Undisturbed
<1>e. unchanged[n] = 0 => Early(n)
  BY <1>2, <1>4 DEF Early
<1>f. Early(n) => unchanged[n] + 1 <= Cap
  BY <1>2, <1>4, <1>5 DEF Early
<1>d. delay[n] = 0 \/ Early(n)
  BY <1>2, <1>3, <1>e
<1>6. CASE o = "position"
  <2>1. previous = actual[n] /\ previous # Unknown
    BY <1>2, <1>6 DEF Reading
  <2>2. unchanged[n] > 0 => Early(n) \/ (Quiet(n) /\ unchanged[n] + 1 <= Cap)
    BY <1>3, <1>4, <2>1 DEF Justified
  <2>3. /\ Early(n) \/ Quiet(n)
        /\ unchanged[n] + 1 <= Cap
    BY <1>2, <1>e, <1>f, <2>2
  <2> QED BY <1>2, <1>5, <1>6, <1>d, <2>3
<1>7. CASE o # "position"
  <2>1. previous = Unknown
    BY <1>7 DEF Reading
  <2>2. n \in Positional
    BY <1>7 DEF Outcomes, Skips
  <2>3. faults > 0
    BY <2>1, <2>2 DEF Watch, LossesCount
  <2>4. unchanged[n] > 0 => /\ unchanged[n] <= StartDelay + faults
                            /\ Quiet(n) \/ unchanged[n] + 1 <= StartDelay + faults
    BY <1>3, <2>1 DEF Justified
  <2>5. /\ unchanged[n] <= StartDelay + faults
        /\ Quiet(n) \/ unchanged[n] + 1 <= StartDelay + faults
    BY <1>2, <2>3, <2>4
  <2>6. faults + 1 <= MaxFaults
    BY <1>1, <1>2, <1>7 DEF Answered, Undisturbed
  <2>7. unchanged[n] + 1 < SettleReads
    BY <1>1, <1>2, <2>5, <2>6 DEF Undisturbed
  <2> QED BY <1>2, <1>7, <1>d, <2>5, <2>7
<1> QED BY <1>6, <1>7

\* What a read of fNode does to its account.
Counted(o) ==
  IF Skips(fNode, o) THEN UNCHANGED <<known, unchanged>>
  ELSE /\ Store(fNode, o)
       /\ unchanged' = [unchanged EXCEPT ![fNode] =
            IF Reading(fNode, o) # previous THEN 0 ELSE unchanged[fNode] + 1]

\* The cycle goes on, or the task sleeps: fNode is not read again before a tick.
GoesOn ==
  \/ /\ follow' = "reading" /\ fLeft # {} /\ fNode' \in fLeft
     /\ fLeft' = fLeft \ {fNode'} /\ previous' = known'[fNode']
  \/ follow' = "sleeping" /\ rested' = FALSE /\ fLeft = {} /\ fNode' = NoMotor

LEMMA FollowStoresParts ==
  ASSUME CoordInv, FollowStores, moving' # {}
  PROVE  /\ follow = "reading" /\ GoesOn /\ fNode \in Readable
         /\ UNCHANGED <<actual, goal, delay, poll, pNode, pLeft, sincePoll>>
         /\ \E o \in Outcomes(fNode) : Answered(o) /\ Counted(o)
<1>1. /\ follow = "reading" /\ fNode \in Readable
      /\ UNCHANGED <<actual, goal, delay, poll, pNode, pLeft, sincePoll>>
  BY DEF FollowStores, CoordInv, CoordTypeOK, pollTask, motors
<1>2. \E o \in Outcomes(fNode) : Answered(o) /\ Counted(o)
  BY DEF FollowStores, Counted
<1>3. \E m, c, i : FollowContinues(m, c, i)
  BY DEF FollowStores
<1>4. GoesOn
  BY <1>1, <1>3 DEF FollowContinues, StillMoving, GoesOn
<1> QED BY <1>1, <1>2, <1>4

LEMMA FollowStoresOther ==
  ASSUME Watch, CoordInv, CoordInv', FollowStores, NEW n, OnItsWay(n), n # fNode,
         moving' # {}
  PROVE  unchanged'[n] = unchanged[n] /\ Accounted(n)'
<1>1. /\ follow = "reading" /\ GoesOn
      /\ UNCHANGED <<actual, goal, delay, poll, pNode, pLeft, sincePoll>>
  BY FollowStoresParts
<1> PICK o \in Outcomes(fNode) : Answered(o) /\ Counted(o)
  BY FollowStoresParts
<1>2. n \in Motors /\ CoordTypeOK /\ CoordTypeOK' /\ Accounted(n) /\ Undisturbed
  BY WatchParts DEF CoordInv
<1>3. /\ slow' = slow /\ faults \in Nat /\ faults' \in {faults, faults + 1}
  BY <1>2, AnswerCosts
<1>4. known'[n] = known[n] /\ unchanged'[n] = unchanged[n]
  BY <1>2 DEF Counted, Store, CoordTypeOK
<1>5. Pending(n)' <=> Pending(n)
  <2>1. n # NoMotor
    BY <1>2
  <2>2. CASE follow' = "reading"
    BY <1>1, <2>2 DEF GoesOn, Pending
  <2>3. CASE follow' = "sleeping"
    BY <1>1, <2>3 DEF GoesOn, Pending
  <2> QED BY <1>1, <2>2, <2>3 DEF GoesOn
<1>6. /\ unchanged[n] \in Nat /\ sincePoll \in Nat /\ slow \in Nat /\ faults' >= faults
      /\ faults' \in Nat
  BY <1>2, <1>3, Numbers
<1>7. Quiet(n) => Quiet(n)'
  <2>1. CASE poll = "reading"
    BY <1>1, <2>1 DEF Quiet
  <2>2. CASE poll # "reading"
    BY <1>1, <1>3, <1>4, <1>5, <1>6, <2>2 DEF Quiet
  <2> QED BY <2>1, <2>2
<1>8. fNode' = n => previous' = known[n]
  BY <1>1, <1>2, <1>4 DEF GoesOn
<1>9. Accounted(n)'
  BY <1>1, <1>2, <1>4, <1>5, <1>6, <1>7, <1>8, AccountKept
<1> QED BY <1>4, <1>9

LEMMA FollowStoresOwn ==
  ASSUME Watch, CoordInv, CoordInv', FollowStores, NEW n, OnItsWay(n), n = fNode,
         moving' # {}
  PROVE  Accounted(n)'
<1>1. /\ follow = "reading" /\ GoesOn
      /\ UNCHANGED <<actual, goal, delay, poll, pNode, pLeft, sincePoll>>
  BY FollowStoresParts
<1> PICK o \in Outcomes(fNode) : Answered(o) /\ Counted(o)
  BY FollowStoresParts
<1>2. n \in Motors /\ CoordTypeOK /\ CoordTypeOK' /\ Accounted(n) /\ Undisturbed
  BY WatchParts DEF CoordInv
<1>3. /\ slow' = slow /\ faults \in Nat /\ faults' >= faults /\ faults' \in Nat
      /\ IF o = "position" THEN faults' = faults ELSE faults' = faults + 1
  BY <1>2, AnswerCosts
<1>4. Pending(n) /\ ~Pending(n)' /\ fNode' # n
  <2>1. n # NoMotor /\ n \notin fLeft
    BY <1>2 DEF CoordInv, CycleInv
  <2> QED BY <1>1, <2>1 DEF GoesOn, Pending
<1>5. /\ unchanged[n] \in Nat /\ sincePoll \in Nat /\ slow \in Nat
  BY <1>2, Numbers
<1>6. ASSUME unchanged'[n] \in Nat,
             unchanged'[n] + faults' >= unchanged[n] + faults + 1, Quiet(n)
      PROVE  Quiet(n)'
  <2>1. CASE poll = "reading"
    BY <1>1, <1>6, <2>1 DEF Quiet
  <2>2. CASE poll # "reading"
    <3>1. sincePoll <= unchanged[n] + faults + slow
      BY <1>3, <1>4, <1>5, <1>6, <2>2 DEF Quiet
    <3>2. sincePoll' + 1 <= unchanged'[n] + faults' + slow'
      BY <1>1, <1>3, <1>5, <1>6, <3>1
    <3> QED BY <1>1, <1>4, <2>2, <3>2 DEF Quiet
  <2> QED BY <2>1, <2>2
<1>7. CASE Skips(n, o)
  <2>1. UNCHANGED <<known, unchanged>> /\ o # "position"
    BY <1>7 DEF Counted, Skips
  <2>2. Quiet(n) => Quiet(n)'
    BY <1>3, <1>5, <1>6, <2>1
  <2> QED BY <1>1, <1>2, <1>3, <1>4, <2>1, <2>2, AccountKept
<1>8. CASE ~Skips(n, o)
  <2>1. /\ known'[n] = Reading(n, o)
        /\ unchanged'[n] = IF Reading(n, o) # previous THEN 0 ELSE unchanged[n] + 1
    BY <1>2, <1>8 DEF Counted, Store, CoordTypeOK
  <2> SUFFICES ASSUME ~AtRest(n)', unchanged'[n] > 0
               PROVE  (delay'[n] = 0 \/ Early(n)') /\ Justified(n, known[n])'
    BY <1>4 DEF Accounted
  <2>2. Reading(n, o) = previous /\ unchanged'[n] = unchanged[n] + 1
    BY <2>1
  <2>4. /\ delay[n] = 0 \/ Early(n)
        /\ o = "position" => /\ unchanged[n] + 1 <= Cap
                             /\ Early(n) \/ Quiet(n)
        /\ o # "position" => /\ unchanged[n] + 1 <= StartDelay + faults + 1
                             /\ Quiet(n) \/ unchanged[n] + 1 <= StartDelay + faults
    BY <1>1, <1>8, <2>2, UnchangedRead
  <2>5. Quiet(n) => Quiet(n)'
    BY <1>3, <1>5, <1>6, <2>2
  <2>e. Early(n) => Early(n)' /\ unchanged'[n] <= StartDelay + 1
    <3>1. delay'[n] = delay[n] /\ delay[n] \in Nat
      BY <1>1, <1>2, Numbers
    <3> QED BY <1>4, <1>5, <2>2, <3>1 DEF Early
  <2>d. delay'[n] = 0 \/ Early(n)'
    BY <1>1, <2>4, <2>e
  <2>6. CASE o = "position"
    <3>1. known'[n] = actual'[n] /\ actual'[n] # Unknown /\ actual'[n] \in Nat
      BY <1>1, <1>2, <2>1, <2>6, Numbers DEF Reading
    <3>2. Behind(n, known[n])'
      BY <3>1 DEF Behind
    <3>3. unchanged'[n] <= Cap'
      BY <1>3, <2>2, <2>4, <2>6 DEF Cap
    <3>4. unchanged'[n] <= StartDelay + 1 \/ Quiet(n)'
      BY <2>4, <2>5, <2>6, <2>e
    <3> QED BY <1>4, <2>d, <3>1, <3>2, <3>3, <3>4 DEF Justified, Unknown
  <2>7. CASE o # "position"
    <3>1. known'[n] = Unknown /\ faults' = faults + 1
      BY <1>3, <2>1, <2>7 DEF Reading
    <3>2. unchanged'[n] <= StartDelay + faults'
      BY <1>3, <1>5, <2>2, <2>4, <2>7, <3>1
    <3>3. Quiet(n)' \/ unchanged'[n] + 1 <= StartDelay + faults'
      BY <1>3, <1>5, <2>2, <2>4, <2>5, <2>7, <3>1
    <3> QED BY <2>d, <3>1, <3>2, <3>3 DEF Justified, Unknown
  <2> QED BY <2>6, <2>7
<1> QED BY <1>7, <1>8

\* The motor just read is followed on, unless the task ends: it has not settled.
LEMMA FollowStoresUnsettled ==
  ASSUME Watch, CoordInv, FollowStores, NEW n, OnItsWay(n), n = fNode, moving' # {}
  PROVE  unchanged'[n] < SettleReads /\ n \in moving'
<1> DEFINE differs(o) == Reading(fNode, o) # previous
           count(o) == IF differs(o) THEN 0 ELSE unchanged[fNode] + 1
           left(o) == IF Settled(count(o)) THEN moving \ {fNode} ELSE moving
           still(o) == IF differs(o) THEN inherited \ {fNode} ELSE inherited
<1> PICK o \in Outcomes(fNode) :
      /\ Answered(o)
      /\ IF Skips(fNode, o)
         THEN /\ UNCHANGED <<known, unchanged>>
              /\ FollowContinues(moving, changed, inherited)
         ELSE /\ Store(fNode, o)
              /\ unchanged' = [unchanged EXCEPT ![fNode] = count(o)]
              /\ FollowContinues(left(o), changed \/ differs(o), still(o))
  BY DEF FollowStores
<1>1. /\ fNode \in Motors /\ unchanged \in [Motors -> Nat] /\ follow = "reading"
      /\ n \in moving /\ unchanged[n] < SettleReads /\ 2 < SettleReads
  BY WatchParts DEF FollowStores, CoordInv, CoordTypeOK, Undisturbed
<1>2. ASSUME NEW m, NEW c, NEW i, FollowContinues(m, c, i) PROVE moving' = m
  BY <1>2 DEF FollowContinues, StillMoving
<1>3. CASE Skips(fNode, o)
  BY <1>1, <1>2, <1>3
<1>4. CASE ~Skips(fNode, o)
  <2>1. FollowContinues(left(o), changed \/ differs(o), still(o))
    BY <1>4
  <2>2. moving' = left(o)
    <3> HIDE DEF left, differs, still
    <3> QED BY <1>2, <2>1
  <2>3. count(o) \in Nat /\ count(o) < SettleReads
    <3>1. CASE differs(o)
      BY <1>1, <3>1
    <3>2. CASE ~differs(o)
      BY <1>1, <1>4, <3>2, UnchangedRead
    <3> QED BY <3>1, <3>2
  <2>4. unchanged'[n] = count(o)
    BY <1>1, <1>4
  <2> HIDE DEF count
  <2>5. left(o) = moving
    BY <2>3 DEF Settled
  <2> HIDE DEF left
  <2> QED BY <1>1, <2>2, <2>3, <2>4, <2>5
<1> QED BY <1>3, <1>4

\* A tick takes a moving motor away from every position that was known of it.
LEMMA TickAccount ==
  ASSUME Watch, CoordInv, CoordInv', Tick, NEW n, OnItsWay(n)
  PROVE  Accounted(n)'
<1>1. /\ UNCHANGED <<known, follow, fNode, fLeft, previous, unchanged, poll, pNode,
                     pLeft, goal, faults>>
      /\ rested' = (follow = "sleeping") /\ ~(follow = "sleeping" /\ rested)
      /\ actual' = [i \in Motors |->
           IF delay[i] = 0 THEN Towards(actual[i], goal[i]) ELSE actual[i]]
      /\ delay' = [i \in Motors |-> IF delay[i] = 0 THEN 0 ELSE delay[i] - 1]
      /\ sincePoll' = (IF sincePoll < PollTicks THEN sincePoll + 1 ELSE sincePoll)
      /\ IF follow = "reading" \/ poll = "reading" THEN slow' = slow + 1
         ELSE UNCHANGED slow
  BY DEF Tick
<1>2. /\ n \in Motors /\ CoordTypeOK /\ CoordTypeOK' /\ Accounted(n)
      /\ follow \in {"sleeping", "reading"} /\ ~AtRest(n)
  BY WatchParts DEF CoordInv
<1>3. IF delay[n] = 0
      THEN actual'[n] = Towards(actual[n], goal[n]) /\ delay'[n] = 0
      ELSE actual'[n] = actual[n] /\ delay'[n] = delay[n] - 1
  BY <1>1, <1>2
<1>4. /\ delay[n] \in Nat
      /\ unchanged[n] \in Nat /\ faults \in Nat /\ slow \in Nat /\ sincePoll \in Nat
      /\ actual[n] \in Nat /\ goal[n] \in Nat /\ known[n] \in Nat /\ previous \in Nat
  BY <1>2, Numbers
<1> SUFFICES ASSUME ~AtRest(n)', unchanged'[n] > 0
             PROVE  /\ delay'[n] = 0 \/ Early(n)'
                    /\ Justified(n, known[n])' /\ (fNode' = n => Justified(n, previous)')
  BY DEF Accounted
<1>6. /\ delay[n] = 0 \/ Early(n)
      /\ Justified(n, known[n]) /\ (fNode = n => Justified(n, previous))
  BY <1>1, <1>2 DEF Accounted
<1>5. actual[n] # goal[n]
  BY <1>2 DEF AtRest
<1>7. ASSUME NEW v \in Nat, Behind(n, v)
      PROVE  /\ delay[n] = 0 => v # actual'[n]
             /\ IF actual'[n] < goal'[n] THEN v <= actual'[n] ELSE v >= actual'[n]
  <2>1. CASE delay[n] = 0
    <3>1. actual'[n] = (IF actual[n] < goal[n] THEN actual[n] + 1 ELSE actual[n] - 1)
      BY <1>3, <1>4, <1>5, <2>1 DEF Towards
    <3>2. goal'[n] = goal[n] /\ actual'[n] # goal'[n]
      BY <1>1 DEF AtRest
    <3>3. CASE actual[n] < goal[n]
      BY <1>4, <1>7, <3>1, <3>2, <3>3 DEF Behind
    <3>4. CASE ~(actual[n] < goal[n])
      BY <1>4, <1>5, <1>7, <3>1, <3>2, <3>4 DEF Behind
    <3> QED BY <3>3, <3>4
  <2>2. CASE delay[n] # 0
    BY <1>1, <1>3, <1>7, <2>2 DEF Behind
  <2> QED BY <2>1, <2>2
<1>e. delay[n] # 0 => Early(n)'
  <2>1. CASE follow = "sleeping"
    <3>1. ~Pending(n)
      BY <1>1, <2>1 DEF Pending
    <3> QED BY <1>1, <1>3, <1>4, <1>6, <3>1 DEF Early
  <2>2. CASE follow = "reading"
    <3>1. Pending(n)' <=> Pending(n)
      BY <1>1, <2>2 DEF Pending
    <3> QED BY <1>1, <1>3, <1>4, <1>6, <3>1 DEF Early
  <2> QED BY <1>2, <2>1, <2>2
<1>d. delay'[n] = 0 \/ Early(n)'
  BY <1>3, <1>e
<1>8. Quiet(n) => Quiet(n)'
  <2>1. CASE poll = "reading"
    BY <1>1, <2>1 DEF Quiet
  <2>2. CASE poll # "reading" /\ follow = "sleeping"
    <3>1. ~Pending(n) /\ Pending(n)'
      BY <1>1, <2>2 DEF Pending
    <3>2. sincePoll' <= sincePoll + 1 /\ sincePoll' \in Nat
      BY <1>1, <1>4
    <3>3. unchanged'[n] + faults' + slow' = unchanged[n] + faults + slow
      BY <1>1, <2>2
    <3> QED BY <1>1, <1>4, <2>2, <3>1, <3>2, <3>3 DEF Quiet
  <2>3. CASE poll # "reading" /\ follow = "reading"
    <3>1. Pending(n)' <=> Pending(n)
      BY <1>1, <2>3 DEF Pending
    <3>2. sincePoll' <= sincePoll + 1 /\ sincePoll' \in Nat
      BY <1>1, <1>4
    <3>3. unchanged'[n] + faults' + slow' = unchanged[n] + faults + slow + 1
      BY <1>1, <1>4, <2>3
    <3> QED BY <1>1, <1>4, <2>3, <3>1, <3>2, <3>3 DEF Quiet
  <2> QED BY <1>2, <2>1, <2>2, <2>3
<1>9. Cap' = Cap
  BY <1>1 DEF Cap
<1>10. ASSUME NEW v \in Nat, v # Unknown, Justified(n, v)
      PROVE  /\ IF actual'[n] < goal'[n] THEN v <= actual'[n] ELSE v >= actual'[n]
             /\ unchanged'[n] <= Cap' /\ (unchanged'[n] <= StartDelay + 1 \/ Quiet(n)')
             /\ v = actual'[n] => Early(n)'
  <2>1. /\ Behind(n, v) /\ unchanged[n] <= Cap
        /\ unchanged[n] <= StartDelay + 1 \/ Quiet(n)
    BY <1>10 DEF Justified
  <2>2. unchanged'[n] <= Cap' /\ (unchanged'[n] <= StartDelay + 1 \/ Quiet(n)')
    BY <1>1, <1>8, <1>9, <2>1
  <2> QED BY <1>7, <1>e, <2>1, <2>2
<1>11. Justified(n, known[n])'
  <2>1. CASE known[n] = Unknown
    BY <1>1, <1>6, <1>8, <2>1 DEF Justified, Unknown
  <2>2. CASE known[n] # Unknown
    BY <1>1, <1>4, <1>6, <1>10, <2>2 DEF Justified, Behind, Unknown
  <2> QED BY <2>1, <2>2
<1>12. ASSUME fNode' = n PROVE Justified(n, previous)'
  <2>1. Justified(n, previous)
    BY <1>1, <1>6, <1>12
  <2>2. CASE previous = Unknown
    BY <1>1, <1>8, <2>1, <2>2 DEF Justified, Unknown
  <2>3. CASE previous # Unknown
    BY <1>1, <1>4, <1>10, <2>1, <2>3 DEF Justified, Behind, Unknown
  <2> QED BY <2>2, <2>3
<1> QED BY <1>d, <1>11, <1>12

\* A step that only gives commands, has motors followed, or fails.
LEMMA CoversAccount ==
  ASSUME Watch, CoordInv, CoordInv', NEW n, OnItsWay(n),
         UNCHANGED <<known, fNode, fLeft, previous, poll, pNode, pLeft, sincePoll,
                     actual, slow, follow, rested>>,
         unchanged'[n] = unchanged[n], goal'[n] = goal[n], delay'[n] = delay[n],
         faults' \in {faults, faults + 1}
  PROVE  Accounted(n)'
<1>1. n \in Motors /\ CoordTypeOK /\ CoordTypeOK' /\ Accounted(n)
  BY WatchParts DEF CoordInv
<1>2. /\ unchanged[n] \in Nat /\ faults \in Nat /\ slow \in Nat /\ sincePoll \in Nat
      /\ faults' >= faults /\ faults' \in Nat
  BY <1>1, Numbers
<1>3. Pending(n)' <=> Pending(n)
  BY DEF Pending
<1>4. Quiet(n) => Quiet(n)'
  <2>1. CASE poll = "reading"
    BY <2>1 DEF Quiet
  <2>2. CASE poll # "reading"
    BY <1>2, <1>3, <2>2 DEF Quiet
  <2> QED BY <2>1, <2>2
<1> QED BY <1>1, <1>2, <1>3, <1>4, AccountKept

-----------------------------------------------------------------------------
(* The other parts of Watch.                                               *)

LEMMA FollowStoresOrderly ==
  ASSUME Watch, CoordInv, CoordInv', FollowStores PROVE Orderly'
<1>1. /\ UNCHANGED <<poll, pNode, pLeft>> /\ follow = "reading" /\ fNode \in moving
  BY DEF FollowStores, pollTask, Watch, Orderly
<1>2. PICK m, c, i : FollowContinues(m, c, i) /\ m \in {moving, moving \ {fNode}}
  <2>1. PICK o \in Outcomes(fNode) :
          LET differs == Reading(fNode, o) # previous
              count == IF differs THEN 0 ELSE unchanged[fNode] + 1
              left == IF Settled(count) THEN moving \ {fNode} ELSE moving
          IN IF Skips(fNode, o)
             THEN FollowContinues(moving, changed, inherited)
             ELSE FollowContinues(left, changed \/ differs,
                    IF differs THEN inherited \ {fNode} ELSE inherited)
    BY DEF FollowStores
  <2> QED BY <2>1
<1>3. \A n \in Motors : n # fNode => unchanged'[n] = unchanged[n]
  BY DEF FollowStores, CoordInv, CoordTypeOK
<1>4. follow' # "none" => \A n \in Motors \ followed' : unchanged'[n] = 0
  <2>1. follow' # "none" => followed' = followed
    BY <1>2 DEF FollowContinues
  <2>2. fNode \in followed
    BY <1>1 DEF CoordInv, CoordTypeOK
  <2> QED BY <1>1, <1>3, <2>1, <2>2 DEF Watch, Orderly
<1>5. follow' = "reading" => fNode' \in moving'
  <2>1. follow' = "reading" => fNode' \in fLeft /\ moving' = m
    BY <1>1, <1>2 DEF FollowContinues
  <2> QED BY <1>2, <2>1 DEF CoordInv, CycleInv
<1> QED BY <1>1, <1>4, <1>5 DEF Watch, Orderly

LEMMA RepliedOrderly ==
  ASSUME Watch, CoordInv, NEW S \in Targets, CommandReplied(S) PROVE Orderly'
<1>1. Follow(S) /\ UNCHANGED <<poll, pNode, pLeft>>
  BY DEF CommandReplied, pollTask
<1>2. CASE follow = "none" /\ S \cap Readable # {}
  <2>1. unchanged' = [n \in Motors |-> 0] /\ follow' = "sleeping"
    BY <1>1, <1>2 DEF Follow
  <2> QED BY <1>1, <2>1 DEF Watch, Orderly
<1>3. CASE ~(follow = "none" /\ S \cap Readable # {})
  <2>1. /\ UNCHANGED <<follow, unchanged, fNode>>
        /\ followed' = followed \cup (S \cap Readable)
        /\ moving' = moving \cup (S \cap Readable)
    BY <1>1, <1>3 DEF Follow
  <2> QED BY <1>1, <2>1 DEF Watch, Orderly
<1> QED BY <1>2, <1>3

LEMMA OrderlyNext ==
  ASSUME Watch, CoordInv, CoordInv', [CoordNext]_coordVars PROVE Orderly'
<1>1. CASE UNCHANGED <<followed, follow, unchanged, moving, fNode, poll, pNode, pLeft>>
  BY <1>1 DEF Watch, Orderly
<1>2. CASE PollStarts \/ PollStores
  <2>1. UNCHANGED <<followed, follow, unchanged, moving, fNode>>
    BY <1>2 DEF PollStarts, PollStores, followTask
  <2>2. poll' = "reading" => pNode' \notin pLeft'
    BY <1>2 DEF PollStarts, PollStores, PollContinues
  <2> QED BY <2>1, <2>2 DEF Watch, Orderly
<1>3. CASE FollowWakes
  <2>1. /\ UNCHANGED <<followed, unchanged, moving, poll, pNode, pLeft>>
        /\ follow = "sleeping" /\ fNode' \in moving
    BY <1>3 DEF FollowWakes, pollTask
  <2> QED BY <2>1 DEF Watch, Orderly
<1>4. CASE Tick
  BY <1>1, <1>4 DEF Tick
<1>5. ASSUME NEW S \in Targets, Command(S) \/ CommandFails(S) PROVE Orderly'
  BY <1>1, <1>5 DEF Command, CommandFails, followTask, pollTask
<1> QED
  BY <1>1, <1>2, <1>3, <1>4, <1>5, FollowStoresOrderly, RepliedOrderly
     DEF CoordNext, coordVars, followTask, pollTask

LEMMA LossesNext ==
  ASSUME Watch, CoordInv, CoordInv', [CoordNext]_coordVars PROVE LossesCount'
<1>1. CoordTypeOK /\ CoordTypeOK' /\ Undisturbed /\ LossesCount /\ Orderly /\ faults \in Nat
  BY DEF CoordInv, Watch, CoordTypeOK
<1>2. ASSUME NEW k \in Motors, NEW o, Answered(o),
             IF Skips(k, o) THEN UNCHANGED known ELSE Store(k, o)
      PROVE  \A n \in Positional : known'[n] = Unknown => faults' > 0
  <2>1. IF o = "position" THEN faults' = faults ELSE faults' = faults + 1
    BY <1>1, <1>2, AnswerCosts
  <2>2. CASE o # "position"
    BY <1>1, <2>1, <2>2
  <2>3. CASE o = "position"
    <3>1. ASSUME NEW n \in Positional, known'[n] = Unknown PROVE known[n] = Unknown
      <4>1. actual[k] # Unknown
        BY <1>1, Numbers
      <4> QED BY <1>1, <1>2, <2>3, <3>1, <4>1 DEF Skips, Store, Reading, CoordTypeOK
    <3> QED BY <1>1, <2>1, <2>3, <3>1 DEF LossesCount
  <2> QED BY <2>2, <2>3
<1>3. ASSUME \A n \in Positional : known'[n] = Unknown => faults' > 0,
             fNode' # fNode => previous' = known'[fNode'],
             fNode' = fNode => previous' = previous /\ faults' >= faults,
             faults' \in Nat
      PROVE  LossesCount'
  BY <1>1, <1>3 DEF LossesCount
<1>4. CASE PollStores
  <2>1. pNode \in Motors /\ UNCHANGED <<fNode, previous>>
    BY <1>1, <1>4 DEF PollStores, CoordTypeOK, Readable, followTask
  <2> PICK o \in Outcomes(pNode) :
        /\ Answered(o) /\ IF Skips(pNode, o) THEN UNCHANGED known ELSE Store(pNode, o)
    BY <1>4 DEF PollStores
  <2>2. faults' >= faults /\ faults' \in Nat
    BY <1>1, AnswerCosts
  <2> QED BY <1>2, <1>3, <2>1, <2>2
<1>5. CASE FollowStores
  <2>1. fNode \in Motors /\ follow = "reading"
    BY <1>1, <1>5 DEF FollowStores, CoordTypeOK, Readable
  <2> PICK o \in Outcomes(fNode) : Answered(o) /\ Counted(o)
    BY <1>5 DEF FollowStores, Counted
  <2>2. faults' >= faults /\ faults' \in Nat
    BY <1>1, AnswerCosts
  <2>3. \A n \in Positional : known'[n] = Unknown => faults' > 0
    BY <1>2, <2>1 DEF Counted
  <2>4. (fNode' \in Positional => previous' = known'[fNode'])
    <3>1. \E m, c, i : FollowContinues(m, c, i)
      BY <1>5 DEF FollowStores
    <3>2. NoMotor \notin Positional
      OBVIOUS
    <3> QED BY <3>1, <3>2 DEF FollowContinues
  <2> QED BY <2>3, <2>4 DEF LossesCount
<1>6. CASE FollowWakes
  <2>1. previous' = known'[fNode'] /\ faults' = faults /\ known' = known
    BY <1>6 DEF FollowWakes, bounds
  <2> QED BY <1>1, <2>1 DEF LossesCount
<1>7. CASE UNCHANGED <<known, fNode, previous>> /\ faults' \in {faults, faults + 1}
  BY <1>1, <1>7 DEF LossesCount
<1>8. CASE PollStarts \/ Tick \/ UNCHANGED coordVars
  BY <1>7, <1>8 DEF PollStarts, Tick, coordVars, followTask, bounds
<1>9. ASSUME NEW S \in Targets, Command(S) \/ CommandReplied(S) \/ CommandFails(S)
      PROVE  LossesCount'
  BY <1>7, <1>9 DEF Command, CommandReplied, CommandFails, Follow, followTask, bounds
<1> QED BY <1>4, <1>5, <1>6, <1>8, <1>9 DEF CoordNext

\* A motor whose reads count is at rest, past the deadline, or accounted for.
InView(n) ==
  \/ AtRest(n) \/ ceiling = 0
  \/ n \in moving /\ unchanged[n] < SettleReads /\ Accounted(n)

LEMMA WatchedIsOnItsWay ==
  ASSUME Watch, NEW n \in followed \ inherited, ~AtRest(n), ceiling # 0
  PROVE  OnItsWay(n) /\ unchanged[n] < SettleReads
BY DEF Watch, OnItsWay

\* A steered motor is inherited: those whose reads count keep their goal.
LEMMA CommandInView ==
  ASSUME Watch, CoordInv, CoordInv', NEW S \in Targets, Command(S),
         NEW n \in followed' \ inherited'
  PROVE  InView(n)'
<1>1. /\ UNCHANGED <<known, fNode, fLeft, previous, poll, pNode, pLeft, sincePoll, actual,
                     slow, follow, rested, unchanged, moving, followed, faults, ceiling>>
      /\ inherited' = inherited \cup (S \cap followed)
  BY DEF Command, followTask, pollTask
<1>2. n \in followed \ inherited /\ n \notin S /\ n \in Motors
  BY <1>1 DEF CoordInv, CoordTypeOK, Readable
<1>3. goal'[n] = goal[n] /\ delay'[n] = delay[n]
  BY <1>2 DEF Command
<1>4. CASE AtRest(n) \/ ceiling = 0
  BY <1>1, <1>3, <1>4 DEF InView, AtRest
<1>5. CASE ~AtRest(n) /\ ceiling # 0
  <2>1. OnItsWay(n) /\ unchanged[n] < SettleReads
    BY <1>2, <1>5, WatchedIsOnItsWay
  <2>2. Accounted(n)'
    BY <1>1, <1>3, <2>1, CoversAccount
  <2> QED BY <1>1, <2>1, <2>2 DEF InView, OnItsWay
<1> QED BY <1>4, <1>5

\* Whoever joins the motors followed has not been read before.
LEMMA RepliedInView ==
  ASSUME Watch, CoordInv, CoordInv', NEW S \in Targets, CommandReplied(S),
         NEW n \in followed' \ inherited'
  PROVE  InView(n)'
<1>1. /\ Follow(S) /\ inherited' = inherited
      /\ UNCHANGED <<known, fNode, fLeft, previous, poll, pNode, pLeft, sincePoll, actual,
                     goal, delay, slow, faults>>
  BY DEF CommandReplied, Follow, pollTask, motors, bounds
<1>2. 0 < SettleReads /\ n \in Motors
  BY DEF Watch, Undisturbed, CoordInv, CoordTypeOK, Readable
<1>3. ASSUME unchanged'[n] = 0, n \in moving' PROVE InView(n)'
  BY <1>2, <1>3 DEF InView, Accounted
<1>4. CASE follow = "none" /\ S \cap Readable # {}
  <2>1. unchanged' = [i \in Motors |-> 0] /\ moving' = moving \cup (S \cap Readable)
        /\ followed' = S \cap Readable
    BY <1>1, <1>4 DEF Follow
  <2> QED BY <1>2, <1>3, <2>1
<1>5. CASE ~(follow = "none" /\ S \cap Readable # {})
  <2>1. /\ UNCHANGED <<follow, rested, unchanged, ceiling>>
        /\ followed' = followed \cup (S \cap Readable)
        /\ moving' = moving \cup (S \cap Readable)
    BY <1>1, <1>5 DEF Follow
  <2>2. CASE n \notin followed
    <3>1. n \in S \cap Readable /\ follow # "none"
      BY <1>5, <2>1, <2>2
    <3> QED BY <1>2, <1>3, <2>1, <2>2, <3>1 DEF Watch, Orderly
  <2>3. CASE n \in followed /\ (AtRest(n) \/ ceiling = 0)
    BY <1>1, <2>1, <2>3 DEF InView, AtRest
  <2>4. CASE n \in followed /\ ~AtRest(n) /\ ceiling # 0
    <3>1. OnItsWay(n) /\ unchanged[n] < SettleReads
      BY <1>1, <2>4, WatchedIsOnItsWay
    <3>2. Accounted(n)'
      BY <1>1, <2>1, <3>1, CoversAccount
    <3> QED BY <2>1, <3>1, <3>2 DEF InView, OnItsWay
  <2> QED BY <2>2, <2>3, <2>4
<1> QED BY <1>4, <1>5

\* What a read by the follow task leaves of it.
LEMMA FollowStoresEnds ==
  ASSUME Watch, CoordInv, FollowStores
  PROVE  /\ UNCHANGED <<actual, goal, ceiling>> /\ follow = "reading"
         /\ moving' # {} => followed' = followed /\ inherited' \subseteq inherited
         /\ moving' = {} => followed' = {} \/ ceiling' = 0 \/ followed' = followed
         /\ \A n \in inherited \ inherited' :
              followed' # {} => n = fNode /\ unchanged'[n] = 0 /\ moving' = moving
<1> DEFINE differs(o) == Reading(fNode, o) # previous
           count(o) == IF differs(o) THEN 0 ELSE unchanged[fNode] + 1
           left(o) == IF Settled(count(o)) THEN moving \ {fNode} ELSE moving
           still(o) == IF differs(o) THEN inherited \ {fNode} ELSE inherited
<1> PICK o \in Outcomes(fNode) :
      IF Skips(fNode, o)
      THEN FollowContinues(moving, changed, inherited)
      ELSE /\ unchanged' = [unchanged EXCEPT ![fNode] = count(o)]
           /\ FollowContinues(left(o), changed \/ differs(o), still(o))
  BY DEF FollowStores
<1>1. /\ UNCHANGED <<actual, goal, ceiling>> /\ follow = "reading"
      /\ fNode \in Motors /\ unchanged \in [Motors -> Nat] /\ 2 < SettleReads
  BY DEF FollowStores, motors, CoordInv, CoordTypeOK, Readable, Watch, Undisturbed
<1>2. ASSUME NEW m, NEW c, NEW i, FollowContinues(m, c, i)
      PROVE  \/ followed' = {} /\ inherited' = {} /\ moving' = {}
             \/ followed' = followed /\ inherited' = i /\ moving' = m
  BY <1>2 DEF FollowContinues, StillMoving
<1>3. CASE Skips(fNode, o)
  BY <1>1, <1>2, <1>3
<1>4. CASE ~Skips(fNode, o)
  <2>1. FollowContinues(left(o), changed \/ differs(o), still(o))
    BY <1>4
  <2>2. \/ followed' = {} /\ inherited' = {} /\ moving' = {}
        \/ followed' = followed /\ inherited' = still(o) /\ moving' = left(o)
    <3> HIDE DEF left, differs, still
    <3> QED BY <1>2, <2>1
  <2>3. CASE differs(o)
    <3>1. left(o) = moving /\ unchanged'[fNode] = 0
      BY <1>1, <1>4, <2>3 DEF Settled
    <3> QED BY <1>1, <2>2, <2>3, <3>1
  <2>4. CASE ~differs(o)
    BY <1>1, <2>2, <2>4
  <2> QED BY <2>3, <2>4
<1> QED BY <1>3, <1>4

LEMMA FollowStoresInView ==
  ASSUME Watch, CoordInv, CoordInv', FollowStores, NEW n \in followed' \ inherited'
  PROVE  InView(n)'
<1>1. /\ UNCHANGED <<actual, goal, ceiling>> /\ fNode \in moving
      /\ n \in Motors /\ 0 < SettleReads
  BY FollowStoresEnds
     DEF Watch, Orderly, Undisturbed, CoordInv, CoordTypeOK, Readable
<1>2. moving' # {} /\ followed' = followed
  BY FollowStoresEnds DEF CoordInv, CoordTypeOK
<1>3. CASE n \in inherited
  <2>1. n = fNode /\ unchanged'[n] = 0 /\ moving' = moving
    BY <1>2, <1>3, FollowStoresEnds
  <2> QED BY <1>1, <2>1 DEF InView, Accounted
<1>4. CASE n \notin inherited /\ (AtRest(n) \/ ceiling = 0)
  BY <1>1, <1>4 DEF InView, AtRest
<1>5. CASE n \notin inherited /\ ~AtRest(n) /\ ceiling # 0
  <2>1. OnItsWay(n) /\ unchanged[n] < SettleReads
    BY <1>2, <1>5, WatchedIsOnItsWay
  <2>2. CASE n = fNode
    BY <1>2, <2>1, <2>2, FollowStoresOwn, FollowStoresUnsettled DEF InView
  <2>3. CASE n # fNode
    <3>1. unchanged'[n] = unchanged[n] /\ Accounted(n)'
      BY <1>2, <2>1, <2>3, FollowStoresOther
    <3>2. n \in moving'
      <4>1. \E m, c, i : FollowContinues(m, c, i) /\ m \in {moving, moving \ {fNode}}
        BY DEF FollowStores
      <4>2. moving \ {fNode} \subseteq moving'
        BY <1>2, <4>1 DEF FollowContinues, StillMoving
      <4> QED BY <2>1, <2>3, <4>2 DEF OnItsWay
    <3> QED BY <2>1, <3>1, <3>2 DEF InView
  <2> QED BY <2>2, <2>3
<1> QED BY <1>3, <1>4, <1>5

LEMMA InViewNext ==
  ASSUME Watch, CoordInv, CoordInv', [CoordNext]_coordVars,
         NEW n \in followed' \ inherited'
  PROVE  InView(n)'
<1>1. ASSUME UNCHANGED <<moving, followed, inherited, unchanged, goal>>,
             AtRest(n) => AtRest(n)', ceiling = 0 => ceiling' = 0,
             OnItsWay(n) => Accounted(n)'
      PROVE  InView(n)'
  <2>1. n \in followed \ inherited
    BY <1>1
  <2>2. CASE AtRest(n) \/ ceiling = 0
    BY <1>1, <2>2 DEF InView
  <2>3. CASE ~AtRest(n) /\ ceiling # 0
    <3>1. OnItsWay(n) /\ unchanged[n] < SettleReads
      BY <2>1, <2>3, WatchedIsOnItsWay
    <3> QED BY <1>1, <3>1 DEF InView, OnItsWay
  <2> QED BY <2>2, <2>3
<1>2. CASE PollStarts
  BY <1>1, <1>2, PollStartsAccount DEF PollStarts, followTask, motors, AtRest
<1>3. CASE PollStores
  BY <1>1, <1>3, PollStoresAccount DEF PollStores, followTask, motors, AtRest
<1>4. CASE FollowWakes
  BY <1>1, <1>4, FollowWakesAccount DEF FollowWakes, motors, AtRest
<1>5. CASE Tick
  <2>1. /\ UNCHANGED <<moving, followed, inherited, unchanged, goal>>
        /\ ceiling = 0 => ceiling' = 0
        /\ actual' = [i \in Motors |->
             IF delay[i] = 0 THEN Towards(actual[i], goal[i]) ELSE actual[i]]
    BY <1>5 DEF Tick
  <2>2. n \in Motors /\ actual[n] \in Nat /\ goal[n] \in Nat
    BY <2>1, Numbers DEF CoordInv, CoordTypeOK, Readable
  <2>3. AtRest(n) => AtRest(n)'
    BY <2>1, <2>2 DEF AtRest, Towards
  <2> QED BY <1>1, <1>5, <2>1, <2>3, TickAccount
<1>6. ASSUME NEW S \in Targets, CommandFails(S) PROVE InView(n)'
  <2>1. /\ UNCHANGED <<known, fNode, fLeft, previous, poll, pNode, pLeft, sincePoll, actual,
                       goal, delay, slow, follow, rested, unchanged, moving, followed,
                       inherited, ceiling>>
        /\ faults' = faults + 1
    BY <1>6 DEF CommandFails, followTask, pollTask, motors
  <2>2. OnItsWay(n) => Accounted(n)'
    BY <2>1, CoversAccount
  <2> QED BY <1>1, <2>1, <2>2 DEF AtRest
<1>7. CASE UNCHANGED coordVars
  <2>1. UNCHANGED <<known, fNode, fLeft, previous, poll, pNode, pLeft, sincePoll, actual,
                    goal, delay, slow, follow, rested, unchanged, moving, followed,
                    inherited, ceiling, faults>>
    BY <1>7 DEF coordVars, followTask, pollTask, motors, bounds
  <2>2. OnItsWay(n) => Accounted(n)'
    BY <2>1, CoversAccount
  <2> QED BY <1>1, <2>1, <2>2 DEF AtRest
<1> QED
  BY <1>2, <1>3, <1>4, <1>5, <1>6, <1>7, CommandInView, RepliedInView, FollowStoresInView
     DEF CoordNext

LEMMA WatchNext == CoordInv /\ CoordInv' /\ Watch /\ [CoordNext]_coordVars => Watch'
<1> SUFFICES ASSUME CoordInv, CoordInv', Watch, [CoordNext]_coordVars PROVE Watch'
  OBVIOUS
<1>1. Undisturbed'
  BY DEF Watch, Undisturbed
<1>2. \A n \in followed' \ inherited' : InView(n)'
  BY InViewNext
<1> QED BY <1>1, <1>2, OrderlyNext, LossesNext DEF Watch, InView

LEMMA WatchInit == Undisturbed /\ CoordInit => Watch
<1> SUFFICES ASSUME Undisturbed, CoordInit PROVE Watch
  OBVIOUS
<1>1. LossesCount
  <2>1. ASSUME NEW n \in Positional PROVE known[n] # Unknown
    BY PositionsType DEF CoordInit
  <2> QED BY <2>1 DEF CoordInit, LossesCount
<1> QED BY <1>1 DEF CoordInit, Watch, Orderly

LEMMA FollowedStep ==
  ASSUME Watch, CoordInv, [CoordNext]_coordVars, NEW n \in moving \ moving'
  PROVE  AtRest(n) \/ ceiling = 0 \/ n \in inherited
<1>1. CASE FollowStores
  <2> SUFFICES ASSUME OnItsWay(n) PROVE FALSE
    BY DEF OnItsWay
  <2>1. ASSUME NEW m, NEW c, NEW i, FollowContinues(m, c, i), moving' = {} PROVE m = {}
    BY <2>1 DEF FollowContinues, StillMoving, CeilingReached, OnItsWay
  <2>2. CASE moving' # {}
    <3>1. n # fNode
      BY <1>1, <2>2, FollowStoresUnsettled
    <3>2. \E m, c, i : FollowContinues(m, c, i) /\ m \in {moving, moving \ {fNode}}
      BY <1>1 DEF FollowStores
    <3>3. moving \ {fNode} \subseteq moving'
      BY <2>2, <3>2 DEF FollowContinues, StillMoving
    <3> QED BY <3>1, <3>3
  <2>3. CASE moving' = {}
    <3> DEFINE differs(o) == Reading(fNode, o) # previous
               count(o) == IF differs(o) THEN 0 ELSE unchanged[fNode] + 1
               left(o) == IF Settled(count(o)) THEN moving \ {fNode} ELSE moving
               still(o) == IF differs(o) THEN inherited \ {fNode} ELSE inherited
    <3> PICK o \in Outcomes(fNode) :
          /\ Answered(o)
          /\ IF Skips(fNode, o)
             THEN FollowContinues(moving, changed, inherited)
             ELSE FollowContinues(left(o), changed \/ differs(o), still(o))
      BY <1>1 DEF FollowStores
    <3>1. ~Skips(fNode, o) /\ left(o) = {}
      <4>1. \/ Skips(fNode, o) /\ moving = {}
            \/ ~Skips(fNode, o) /\ left(o) = {}
        <5> HIDE DEF left, differs, still
        <5> QED BY <2>1, <2>3
      <4> QED BY <4>1
    <3>2. n = fNode /\ Settled(count(o)) /\ OnItsWay(fNode)
      BY <3>1
    <3>3. follow = "reading" /\ 2 < SettleReads
      BY <1>1 DEF FollowStores, Watch, Undisturbed
    <3>4. Reading(fNode, o) = previous /\ unchanged[fNode] + 1 >= SettleReads
      BY <3>2, <3>3 DEF Settled
    <3>5. unchanged[fNode] + 1 \in Nat /\ SettleReads \in Nat
      BY <3>2, WatchParts, Numbers
    <3> QED BY <3>1, <3>2, <3>3, <3>4, <3>5, UnchangedRead
  <2> QED BY <2>2, <2>3
<1>2. ASSUME moving \subseteq moving' PROVE FALSE
  BY <1>2
<1> QED
  BY <1>1, <1>2
     DEF CoordNext, PollStarts, PollStores, FollowWakes, Tick, Command, CommandReplied,
         CommandFails, Follow, coordVars, followTask

\* A motor is followed until it rests, or until the deadline, whatever its owner
\* commands and the refresh stores meanwhile, unless reads from before its last
\* command count against it: provided that more reads settle it than its start
\* delay and two more, and than its delay and the lost reads (coordinator.py,
\* _async_follow_movement; const.py, MOVING_SETTLE_READS).
THEOREM MotorsAreFollowedHome == Undisturbed /\ CoordSpec => FollowedHome
<1>1. Undisturbed /\ CoordInit => Watch /\ CoordInv
  BY WatchInit, CoordInvInit
<1>2. CoordInv /\ Watch /\ [CoordNext]_coordVars =>
        [\A n \in moving \ moving' :
           AtRest(n) \/ ceiling = 0 \/ n \in inherited]_coordVars
  BY FollowedStep
<1> QED
  BY <1>1, <1>2, WatchNext, CoordInvNext, PTL DEF CoordSpec, FollowedHome
=============================================================================
