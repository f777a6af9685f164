----------------------------- MODULE Coordinator -----------------------------
(***************************************************************************)
(* The coordinator of coordinator.py and the covers of cover.py: a poll of *)
(* every readable motor at the poll interval, a task that follows motors   *)
(* just commanded at a fast interval until they settle, and entities that  *)
(* write their state when told to.  The two tasks read the same motors and *)
(* store into the same nodes.                                              *)
(*                                                                         *)
(* Time is counted in ticks of MOVING_POLL_INTERVAL.  A read is asked in   *)
(* one action and answered and stored in a later one, with whatever the    *)
(* other tasks do in between; replies to the client are in order, so the   *)
(* value stored is the one the gateway has at that moment.  Once set up,   *)
(* the set of nodes and their capability are fixed.                        *)
(***************************************************************************)
EXTENDS Naturals, FiniteSets

CONSTANTS
  Motors,         \* the nodes discovery has found
  NoMotor,        \* no motor
  Positional,     \* those read over telnet; the others over HTTP
  WebReady,       \* a web password is configured
  Targets,        \* sets of motors that one cover commands: a motor, a group
  MaxPosition,    \* positions are 0..MaxPosition, in steps of a tick's travel
  SettleReads,    \* MOVING_SETTLE_READS
  CeilingTicks,   \* MOVING_POLL_MAX_SECONDS, in ticks
  PollTicks,      \* the poll interval, in ticks
  StartDelay,     \* a commanded motor moves after at most so many ticks
  MaxCommands,    \* bound: commands given
  MaxFaults,      \* bound: reads and commands that fail
  EverFaulty,     \* ... unless reads may go on failing for ever
  MaxSlow         \* bound: ticks that pass while a read is under way

Positions == 0..MaxPosition
Unknown == MaxPosition + 1      \* None

ASSUME MotorsAssumption ==
  /\ NoMotor \notin Motors /\ Positional \subseteq Motors
  /\ Targets \subseteq SUBSET Motors
  /\ WebReady \in BOOLEAN /\ EverFaulty \in BOOLEAN
ASSUME TicksAssumption ==
  /\ MaxPosition \in Nat /\ SettleReads \in Nat /\ CeilingTicks \in Nat
  /\ PollTicks \in Nat /\ StartDelay \in Nat
  /\ MaxCommands \in Nat /\ MaxFaults \in Nat \ {0} /\ MaxSlow \in Nat

VARIABLES
  known,       \* node.position of each node
  shown,       \* the position each motor's entity has last written
  moving,      \* _moving
  follow,      \* the follow task: "none", "sleeping" or "reading"
  rested,      \* its sleep is over
  fNode, fLeft, previous,  \* the read under way, the cycle's rest, its `previous`
  unchanged, changed,      \* the follow task's counters and flag
  ceiling,     \* ticks left before its deadline
  poll, pNode, pLeft,      \* the refresh, its read under way and its rest
  sincePoll,   \* ticks since the last refresh, up to PollTicks
  commands,    \* movement requests that wait for their reply
  actual, goal, delay,     \* where each motor is, goes, and when it starts
  followed,    \* motors followed since the follow task started
  inherited,   \* those commanded again while `followed`, whose count of unchanged
               \* reads may go back to before that command
  given, slow,
  faults       \* failures so far, or, if EverFaulty, whether the last read failed

followTask == <<moving, follow, rested, fNode, fLeft, previous, unchanged,
                changed, ceiling, followed>>
pollTask == <<poll, pNode, pLeft, sincePoll>>
motors == <<actual, goal, delay>>
bounds == <<given, faults, slow>>
coordVars == <<known, shown, followTask, inherited, pollTask, commands, motors,
               bounds>>

\* _is_readable: telnet reads positional motors, the web interface the others.
Readable == {n \in Motors : n \in Positional \/ WebReady}

CoordInit ==
  /\ actual \in [Motors -> {0}] /\ goal = actual
  /\ delay = [n \in Motors |-> 0]
  /\ known = [n \in Motors |-> IF n \in Positional THEN actual[n] ELSE Unknown]
  /\ shown = known
  /\ moving = {} /\ follow = "none" /\ rested = FALSE
  /\ fNode = NoMotor /\ fLeft = {} /\ previous = Unknown
  /\ unchanged = [n \in Motors |-> 0] /\ changed = FALSE /\ ceiling = 0
  /\ followed = {} /\ inherited = {}
  /\ poll = "idle" /\ pNode = NoMotor /\ pLeft = {} /\ sincePoll = 0
  /\ commands = {}
  /\ given = 0 /\ faults = 0 /\ slow = 0

-----------------------------------------------------------------------------
(* Reading one motor: UaiClient.async_get_position and                     *)
(* SomfyWebClient.async_get_position.  Faulty variants are named ...Bug.   *)

\* What can become of a read of n: its position; `false`; no answer in time,
\* an error, or a page without a percentage; a login refused on the way.
Outcomes(n) ==
  IF n \in Positional
  THEN {"position", "false", "missed", "refused"}
  ELSE {"position", "missed"}

Reading(n, outcome) == IF outcome = "position" THEN actual[n] ELSE Unknown

SkipsBug(n, outcome) == outcome = "refused"

\* The outcomes after which node.position stays as it is: an exception, and
\* for a motor read over HTTP a missed read.
Skips(n, outcome) ==
  outcome = "refused" \/ (n \notin Positional /\ outcome = "missed")

Store(n, outcome) ==
  known' = [known EXCEPT ![n] = Reading(n, outcome)]

Answered(outcome) ==
  /\ IF EverFaulty
     THEN faults' = IF outcome = "position" THEN 0 ELSE 1
     ELSE \/ outcome = "position" /\ UNCHANGED faults
          \/ outcome # "position" /\ faults < MaxFaults /\ faults' = faults + 1
  /\ UNCHANGED <<given, slow>>

-----------------------------------------------------------------------------
(* The refresh: _async_update_data, then the listeners are told.           *)

PollStarts ==
  /\ poll = "idle" /\ sincePoll = PollTicks
  /\ \E n \in Readable : pNode' = n /\ pLeft' = Readable \ {n}
  /\ poll' = "reading"
  /\ UNCHANGED <<known, shown, followTask, inherited, sincePoll, commands, motors,
                 bounds>>

PollContinuesBug ==
  \/ /\ pLeft # {}
     /\ \E n \in pLeft : pNode' = n /\ pLeft' = pLeft \ {n}
     /\ UNCHANGED <<poll, sincePoll, shown>>
  \/ /\ pLeft = {}
     /\ poll' = "idle" /\ pNode' = NoMotor /\ sincePoll' = 0
     /\ shown' = [shown EXCEPT ![pNode] = known'[pNode]]
     /\ UNCHANGED pLeft

\* The next node is asked, or the refresh is over and every entity told.
PollContinues ==
  \/ /\ pLeft # {}
     /\ \E n \in pLeft : pNode' = n /\ pLeft' = pLeft \ {n}
     /\ UNCHANGED <<poll, sincePoll, shown>>
  \/ /\ pLeft = {}
     /\ poll' = "idle" /\ pNode' = NoMotor /\ sincePoll' = 0
     /\ shown' = known'
     /\ UNCHANGED pLeft

PollStores ==
  /\ poll = "reading"
  /\ \E outcome \in Outcomes(pNode) :
       /\ Answered(outcome)
       /\ IF Skips(pNode, outcome)
          THEN UNCHANGED known
          ELSE Store(pNode, outcome)
  /\ PollContinues
  /\ UNCHANGED <<followTask, inherited, commands, motors>>

-----------------------------------------------------------------------------
(* Following: async_follow_movement and _async_follow_movement.            *)

\* async_follow_movement: the readable targets join the motors followed, and
\* a task is started unless one is running.
Follow(S) ==
  LET targets == S \cap Readable IN
  /\ moving' = moving \cup targets
  /\ IF follow = "none" /\ targets # {}
     THEN /\ follow' = "sleeping" /\ rested' = FALSE /\ ceiling' = CeilingTicks
          /\ unchanged' = [n \in Motors |-> 0]
          /\ followed' = targets
     ELSE /\ followed' = followed \cup targets
          /\ UNCHANGED <<follow, rested, ceiling, unchanged>>
  /\ UNCHANGED <<fNode, fLeft, previous, changed>>

\* The sleep is over and a cycle through the motors followed begins.
FollowWakes ==
  /\ follow = "sleeping" /\ rested
  /\ \E n \in moving :
       fNode' = n /\ fLeft' = moving \ {n} /\ previous' = known[n]
  /\ follow' = "reading" /\ changed' = FALSE
  /\ UNCHANGED <<known, shown, moving, rested, unchanged, ceiling, followed,
                 inherited, pollTask, commands, motors, bounds>>

\* What `finally` leaves of _moving, and writes, when the follow task ends.
StillMovingBug == moving
StillMoving == {}

FinalWriteBug == shown
FinalWrite == known'

CeilingReachedBug == FALSE
CeilingReached == ceiling = 0

\* The rest of a cycle, and of the loop, once m are left moving, c says whether a
\* position changed, and i still have an inherited count: ask the next node; or
\* tell the entities of a change and sleep; or end the task, which always tells
\* the entities.
FollowContinues(m, c, i) ==
  \/ /\ fLeft # {}
     /\ \E n \in fLeft :
          fNode' = n /\ fLeft' = fLeft \ {n} /\ previous' = known'[n]
     /\ moving' = m /\ changed' = c /\ inherited' = i
     /\ UNCHANGED <<follow, rested, followed, shown>>
  \/ /\ fLeft = {} /\ m # {} /\ ~CeilingReached
     /\ moving' = m /\ follow' = "sleeping" /\ rested' = FALSE /\ inherited' = i
     /\ fNode' = NoMotor /\ previous' = Unknown /\ changed' = FALSE
     /\ shown' = IF c THEN known' ELSE shown
     /\ UNCHANGED <<fLeft, followed>>
  \/ /\ fLeft = {} /\ (m = {} \/ CeilingReached)
     /\ moving' = StillMoving /\ follow' = "none" /\ rested' = FALSE
     /\ followed' = {} /\ inherited' = {}
     /\ fNode' = NoMotor /\ previous' = Unknown /\ changed' = FALSE
     /\ shown' = FinalWrite
     /\ UNCHANGED fLeft

SettledBug(count) == count >= SettleReads - 1
Settled(count) == count >= SettleReads

FollowStores ==
  /\ follow = "reading"
  /\ \E outcome \in Outcomes(fNode) :
       LET differs == Reading(fNode, outcome) # previous
           count == IF differs THEN 0 ELSE unchanged[fNode] + 1
           left == IF Settled(count) THEN moving \ {fNode} ELSE moving
       IN
       /\ Answered(outcome)
       /\ IF Skips(fNode, outcome)
          THEN /\ UNCHANGED <<known, unchanged>>
               /\ FollowContinues(moving, changed, inherited)
          ELSE /\ Store(fNode, outcome)
               /\ unchanged' = [unchanged EXCEPT ![fNode] = count]
               /\ FollowContinues(left, changed \/ differs,
                    IF differs THEN inherited \ {fNode} ELSE inherited)
  /\ UNCHANGED <<ceiling, pollTask, commands, motors>>

-----------------------------------------------------------------------------
(* Covers and motors.                                                      *)

\* A cover sends a movement request; the motor obeys after its delay.
Command(S) ==
  /\ given < MaxCommands /\ S \notin commands
  /\ \E p \in Positions, d \in 0..StartDelay :
       /\ goal' = [n \in Motors |-> IF n \in S THEN p ELSE goal[n]]
       /\ delay' = [n \in Motors |-> IF n \in S THEN d ELSE delay[n]]
  /\ commands' = commands \cup {S} /\ given' = given + 1
  /\ inherited' = inherited \cup (S \cap followed)
  /\ UNCHANGED <<known, shown, followTask, pollTask, actual, faults, slow>>

\* The reply comes and the cover has its motors followed.
CommandReplied(S) ==
  /\ S \in commands /\ commands' = commands \ {S}
  /\ Follow(S)
  /\ UNCHANGED <<known, shown, inherited, pollTask, motors, bounds>>

\* The request fails although the motor moves: nothing is followed.
CommandFails(S) ==
  /\ S \in commands /\ commands' = commands \ {S}
  /\ faults < MaxFaults /\ faults' = faults + 1
  /\ UNCHANGED <<known, shown, followTask, inherited, pollTask, motors, given, slow>>

Towards(p, g) == IF p < g THEN p + 1 ELSE IF p > g THEN p - 1 ELSE p

\* One tick passes.  Reads take less than a tick, but for MaxSlow ticks, and a
\* task whose sleep is over runs first.
Tick ==
  /\ ~(follow = "sleeping" /\ rested)
  /\ IF follow = "reading" \/ poll = "reading"
     THEN slow < MaxSlow /\ slow' = slow + 1
     ELSE UNCHANGED slow
  /\ actual' = [n \in Motors |->
                  IF delay[n] = 0 THEN Towards(actual[n], goal[n]) ELSE actual[n]]
  /\ delay' = [n \in Motors |-> IF delay[n] = 0 THEN 0 ELSE delay[n] - 1]
  /\ rested' = (follow = "sleeping")
  /\ ceiling' = IF ceiling = 0 THEN 0 ELSE ceiling - 1
  /\ sincePoll' = IF sincePoll < PollTicks THEN sincePoll + 1 ELSE sincePoll
  /\ UNCHANGED <<known, shown, moving, follow, fNode, fLeft, previous, unchanged,
                 changed, followed, inherited, poll, pNode, pLeft, commands,
                 goal, given, faults>>

CoordNext ==
  \/ PollStarts \/ PollStores \/ FollowWakes \/ FollowStores \/ Tick
  \/ \E S \in Targets : Command(S) \/ CommandReplied(S) \/ CommandFails(S)

CoordSpec == CoordInit /\ [][CoordNext]_coordVars

\* Requests have timeouts and timers fire: reads are stored, the follow task
\* wakes, a refresh that is due starts, and time passes.
CoordFairSpec ==
  /\ CoordSpec
  /\ WF_coordVars(PollStarts) /\ WF_coordVars(PollStores)
  /\ WF_coordVars(FollowWakes) /\ WF_coordVars(FollowStores)
  /\ WF_coordVars(Tick)
-----------------------------------------------------------------------------
(* What the coordinator promises.                                          *)

\* Every variable has its type, and a task that is not reading reads nothing.
CoordTypeOK ==
  /\ known \in [Motors -> Positions \cup {Unknown}]
  /\ shown \in [Motors -> Positions \cup {Unknown}]
  /\ moving \subseteq followed /\ followed \subseteq Readable
  /\ inherited \subseteq followed
  /\ follow \in {"none", "sleeping", "reading"} /\ rested \in BOOLEAN
  /\ IF follow = "reading" THEN fNode \in Readable
     ELSE fNode = NoMotor /\ fLeft = {}
  /\ fLeft \subseteq Readable /\ (follow = "none") = (moving = {})
  /\ follow = "none" => followed = {}
  /\ previous \in Positions \cup {Unknown}
  /\ unchanged \in [Motors -> Nat] /\ changed \in BOOLEAN
  /\ ceiling \in 0..CeilingTicks
  /\ poll \in {"idle", "reading"}
  /\ IF poll = "reading" THEN pNode \in Readable ELSE pNode = NoMotor /\ pLeft = {}
  /\ pLeft \subseteq Readable /\ sincePoll \in 0..PollTicks
  /\ commands \subseteq Targets
  /\ actual \in [Motors -> Positions] /\ goal \in [Motors -> Positions]
  /\ delay \in [Motors -> 0..StartDelay]
  /\ given \in 0..MaxCommands /\ faults \in 0..MaxFaults /\ slow \in 0..MaxSlow

AtRest(n) == actual[n] = goal[n]

\* A motor is followed until it rests, or until the deadline of the task that
\* follows it ("Poll moving nodes until each stops changing, or the ceiling"),
\* unless reads made before its last command count against it.
FollowedHome ==
  [][\A n \in moving \ moving' :
       AtRest(n) \/ ceiling = 0 \/ n \in inherited]_coordVars

\* The same of every motor that no command in flight is about to have followed
\* again: "so we do not give up before it has moved" (const.py).
FollowedUntilSettled ==
  [][\A n \in moving \ moving' :
       \/ AtRest(n) \/ ceiling = 0
       \/ \E S \in commands : n \in S]_coordVars

\* When neither task is at work, every entity shows what the coordinator knows:
\* no reading stored by one task is lost to the other's change detection.
ShownIsKnown == poll = "idle" /\ follow = "none" => shown = known

\* A missed web read is no news: a motor read over HTTP never becomes unknown.
WebStateIsKept ==
  [][\A n \in Motors \ Positional :
       known[n] # Unknown => known'[n] # Unknown]_coordVars

\* The follow task ends: it cannot poll forever.
FollowEnds == follow # "none" ~> follow = "none"

\* Once reads no longer fail, every entity comes to show where its motor is,
\* whichever replies and commands were lost before.
StateConverges ==
  <>[](faults = 0) => <>[](\A n \in Readable : shown[n] = actual[n])
=============================================================================
