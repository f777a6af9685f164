-------------------------------- MODULE Covers --------------------------------
(***************************************************************************)
(* What a cover shows and what it commands: the entities of cover.py with  *)
(* the parsing, naming and addressing they rest on (uai/protocol.py,       *)
(* uai/models.py, const.py) and the movement calls of uai/client.py.       *)
(*                                                                         *)
(* A line of the gateway is a record of what parse_response tells apart, a *)
(* JSON value a record of its type and value.  Reading a motor is one step *)
(* at any time, and so is telling the entities: Coordinator has the tasks  *)
(* that do both.  A request is carried out, or not, when it is sent, and   *)
(* its reply comes later.  All entities are enabled and, since no refresh  *)
(* fails and no node goes away once set up, available.                     *)
(***************************************************************************)
EXTENDS Integers, Sequences, FiniteSets, Functions

CONSTANTS
  Nodes,      \* node ids
  Texts,      \* what labels say
  Sites,      \* the installations considered
  Stop,       \* where a motor comes to rest that is stopped on its way
  Chosen,     \* positions an owner asks a slider for
  Slack       \* how far from its goal a motor may come to rest

POSITION_MIN == 0
POSITION_MAX == 100
CLOSED_POSITION_THRESHOLD == 2
Positions == POSITION_MIN..POSITION_MAX
None == -1

\* A group id as the gateway spells it: 0101 and an index in two hex digits, in
\* upper case or not; or something else.
GroupIds == [formed : BOOLEAN, index : 0..255, upper : BOOLEAN]

\* A label is a sequence: a text, or a node id, and node ids in parentheses.
Labels == Seq(Texts \cup Nodes)

Capabilities == {"positional", "non_positional"}

\* An installation as discovery leaves it: the motors that can be positioned,
\* the capability detected and the one in use, the groups each motor lists, its
\* label without surrounding blanks, the nodes found, and whether there is a
\* web password; and bounds on the commands given and the answers that fail.
SiteType ==
  [slides : SUBSET Nodes, detected : [Nodes -> Capabilities],
   capability : [Nodes -> Capabilities], lists : [Nodes -> SUBSET GroupIds],
   label : [Nodes -> Labels], found : SUBSET Nodes, web : BOOLEAN,
   commands : Nat, failures : Nat]

ASSUME CoversAssumption ==
  /\ IsFiniteSet(Nodes) /\ Texts \cap Nodes = {} /\ Nodes \cap GroupIds = {}
  /\ \A s \in Sites : s \in SiteType
  /\ Stop \in Positions /\ Chosen \subseteq Positions
  /\ Slack \in 0..CLOSED_POSITION_THRESHOLD

VARIABLES
  site,       \* the installation
  groups,     \* the coordinator's groups: group id -> members, with the id each lists
  at, goal,   \* where each motor is, and where it goes, None at rest
  wanted,     \* what the last command obeyed asked of it, None for stop
  known,      \* node.position
  read,       \* motors whose `known` was read at rest since then
  ha, last,   \* each entity's state in Home Assistant, and its _last_written
  told,       \* the entities were told of every change of `known`
  calls,      \* movement requests whose reply is to come
  following,  \* nodes given to async_follow_movement, until it drops them
  given, failed

motors == <<at, goal, wanted>>
entities == <<ha, last, told>>
bounds == <<given, failed>>
coversVars == <<site, groups, motors, known, read, entities, calls, following, bounds>>

-----------------------------------------------------------------------------
(* Names and addresses (uai/models.py).  Faulty variants of a definition   *)
(* are named ...Bug.                                                       *)

SharedBug(n) == FALSE

Shared(n) == \E m \in site.found \ {n} : site.label[m] = site.label[n]

\* unique_slug_names: the node id stands in for an empty label and completes
\* one that two nodes share.
DisplayName(n) ==
  IF site.label[n] = <<>> THEN <<n>>
  ELSE IF Shared(n) THEN Append(site.label[n], n) ELSE site.label[n]

UpperBug(g) == g

Upper(g) == [g EXCEPT !.upper = TRUE]

ALL_GROUP_ID == [formed |-> TRUE, index |-> 1, upper |-> TRUE]

\* async_get_groups, and group_index_for_id as _build_groups uses it.
GroupsOf(n) == {g \in site.lists[n] : Upper(g) # ALL_GROUP_ID}
IsGroup(g) == g.formed /\ g.index > 0

\* _build_groups.  A motor that lists a group in both spellings is in the list
\* of its members twice.
BuildGroups ==
  [g \in {h \in {Upper(i) : i \in UNION {GroupsOf(n) : n \in site.found}} : IsGroup(h)}
     |-> {l \in site.found \X GroupIds : l[2] \in GroupsOf(l[1]) /\ Upper(l[2]) = g}]

Members(g) == {l[1] : l \in groups[g]}

\* One cover per node and one per group, and the nodes behind each.
Entities == site.found \cup DOMAIN groups
Sources(e) == IF e \in site.found THEN {e} ELSE Members(e)

capability_for_group(caps) ==
  IF caps = {"positional"} THEN "positional" ELSE "non_positional"

Capability(e) == capability_for_group({site.capability[n] : n \in Sources(e)})

-----------------------------------------------------------------------------
(* Reading (uai/protocol.py, uai/client.py, uai/models.py, web.py)         *)

\* A number may have a fraction: values are in tenths.
Number(p) == [type |-> "number", val |-> 10 * p]
Fraction(p) == [type |-> "number", val |-> 10 * p + 5]
False == [type |-> "boolean", val |-> 0]
Absent == [type |-> "absent", val |-> 0]

Line(error, result) == [json |-> TRUE, error |-> error, result |-> result]
Chatter == [json |-> FALSE, error |-> FALSE, result |-> Absent]

\* parse_response; chatter is skipped, and the request times out.
ParseResponse(line) ==
  IF line.error THEN [is_error |-> TRUE, result |-> Absent]
  ELSE [is_error |-> FALSE, result |-> line.result]

InRangeBug(p) == p # None

InRange(p) == p \in Positions

\* int() of a number in tenths cuts its fraction off.
Truncated(x) == IF x >= 0 THEN x \div 10 ELSE -(-x \div 10)

ParsePositionBug(v) ==
  IF v.type = "absent" \/ ~InRange(Truncated(v.val)) THEN None ELSE Truncated(v.val)

\* parse_position: `false` is an int in Python, and not a position.
ParsePosition(v) ==
  IF v.type = "number" /\ InRange(Truncated(v.val)) THEN Truncated(v.val) ELSE None

\* async_get_position of the client: None for an error and for no answer.
TelnetPosition(line) ==
  LET response == ParseResponse(line)
  IN IF ~line.json \/ response.is_error THEN None
     ELSE ParsePosition(response.result)

\* parse_web_position on a page, whose value is a whole percentage, or on no page.
ParseWebPosition(v) ==
  IF v.type = "number" /\ InRange(v.val \div 10) THEN v.val \div 10 ELSE None

\* _is_readable.
OverTelnet(n) == site.capability[n] = "positional"
Readable(n) == n \in site.found /\ (OverTelnet(n) \/ site.web)

\* What a read may give if all goes well, and if not.
Replies(n) ==
  IF OverTelnet(n)
  THEN IF n \in site.slides
       THEN {Line(FALSE, Number(at[n])), Line(FALSE, Fraction(at[n]))}
       ELSE {Line(TRUE, Absent)}
  ELSE {Number(at[n])}
Beyond == 255
Failures(n) ==
  IF OverTelnet(n)
  THEN {Chatter, Line(TRUE, Absent), Line(FALSE, Absent), Line(FALSE, False),
        Line(FALSE, Number(Beyond))}
  ELSE {Absent, Number(Beyond)}

Parsed(n, reply) == IF OverTelnet(n) THEN TelnetPosition(reply)
                                     ELSE ParseWebPosition(reply)

Failure(k) == failed + k <= site.failures /\ failed' = failed + k

\* The refresh and the follow task read a position and store it; a motor read
\* over HTTP keeps its position if there is none.
ReadPosition(n) ==
  /\ Readable(n)
  /\ \E reply \in Failures(n) \cup Replies(n) :
       LET p == Parsed(n, reply)
           kept == p = None /\ ~OverTelnet(n)
       IN
       /\ Failure(IF reply \in Replies(n) THEN 0 ELSE 1)
       /\ known' = IF kept THEN known ELSE [known EXCEPT ![n] = p]
       /\ read' = IF kept THEN read
                  ELSE IF p # None /\ goal[n] = None THEN read \cup {n}
                  ELSE read \ {n}
  /\ told' = (told /\ known' = known)
  /\ UNCHANGED <<site, groups, motors, ha, last, calls, following, given>>

-----------------------------------------------------------------------------
(* Showing (cover.py, const.py)                                            *)

gateway_to_ha_position(p) == POSITION_MAX - p

haToGatewayBug(p) == p

ha_to_gateway_position(p) == POSITION_MAX - p

\* round() of sum / count, for which a half goes to the even neighbour.
Rounded(sum, count) ==
  LET q == sum \div count
      r == 2 * (sum % count)
  IN IF r > count \/ (r = count /\ q % 2 = 1) THEN q + 1 ELSE q

Reporting(g) == {l \in groups[g] : known[l[1]] # None}

\* current_cover_position.
MotorPosition(n) ==
  IF known[n] = None THEN None ELSE gateway_to_ha_position(known[n])

GroupPositionBug(g) ==
  IF Reporting(g) = {} THEN None
  ELSE Rounded(SumFunction([l \in groups[g] |-> IF known[l[1]] = None THEN 0
                                                 ELSE MotorPosition(l[1])]),
               Cardinality(groups[g]))

GroupPosition(g) ==
  LET R == Reporting(g)
  IN IF R = {} THEN None
     ELSE Rounded(SumFunction([l \in R |-> MotorPosition(l[1])]), Cardinality(R))

Position(e) == IF e \in site.found THEN MotorPosition(e) ELSE GroupPosition(e)

Closed(p) == IF p = None THEN "unknown"
             ELSE IF p <= CLOSED_POSITION_THRESHOLD THEN "closed" ELSE "open"

\* What an entity would write, whatever else there is being constant.
Snapshot(e) == LET p == Position(e) IN [position |-> p, closed |-> Closed(p)]

NotWritten == [position |-> None, closed |-> "not written"]

\* _handle_coordinator_update of every entity.
UpdateBug(e) ==
  IF Snapshot(e).closed = last[e].closed THEN ha[e] ELSE Snapshot(e)

Update(e) == LET s == Snapshot(e) IN IF s = last[e] THEN ha[e] ELSE s

UpdateListeners ==
  /\ ha' = [e \in Entities |-> Update(e)]
  /\ last' = [e \in Entities |-> Snapshot(e)]
  /\ told' = TRUE
  /\ UNCHANGED <<site, groups, motors, known, read, calls, following, bounds>>

-----------------------------------------------------------------------------
(* Commanding (cover.py, uai/client.py)                                    *)

\* A cover without a slider cannot be set to a position.
Methods(e) == {"up", "down", "stop"} \cup
              (IF Capability(e) = "positional" THEN {"to"} ELSE {})

Clamp(p) == IF p < POSITION_MIN THEN POSITION_MIN
            ELSE IF p > POSITION_MAX THEN POSITION_MAX ELSE p

Key(e) == IF e \in site.found THEN "targetID" ELSE "groupID"

\* encode_request on the parameters of async_move_up, _down, _stop and _to.
Request(e, method, p) ==
  [method |-> method, key |-> Key(e), target |-> e,
   position |-> IF method = "to" THEN Clamp(ha_to_gateway_position(p)) ELSE None]

\* The motors a request moves: a group's are all that list it, found or not.
Addressed(r) ==
  {n \in Nodes :
     /\ IF r.key = "targetID" THEN r.target = n
        ELSE \E g \in site.lists[n] : g.formed /\ g.index = r.target.index
     /\ r.method = "to" => n \in site.slides}

GoalOf(r) == CASE r.method = "up"   -> POSITION_MIN
               [] r.method = "down" -> POSITION_MAX
               [] r.method = "to"   -> r.position
               [] r.method = "stop" -> None

\* What the owner asks for, on the scale of Home Assistant.
WishOf(method, p) == CASE method = "up"   -> 100
                       [] method = "down" -> 0
                       [] method = "to"   -> p
                       [] method = "stop" -> None

\* The gateway carries out r; a motor stopped on its way rests at Stop.
Obey(r, wish) ==
  LET S == Addressed(r)
      Halts(n) == n \in S /\ r.method = "stop" /\ goal[n] # None
  IN /\ goal' = [n \in Nodes |-> IF n \in S THEN GoalOf(r) ELSE goal[n]]
     /\ at' = [n \in Nodes |-> IF Halts(n) THEN Stop ELSE at[n]]
     /\ wanted' = [n \in Nodes |-> IF n \in S THEN wish ELSE wanted[n]]
     /\ read' = read \ S

\* The covers' commands send one request; the gateway may refuse it, or lose it.
Command(e) ==
  /\ given < site.commands /\ given' = given + 1
  /\ \E method \in Methods(e) : \E p \in IF method = "to" THEN Chosen ELSE {None} :
       LET r == Request(e, method, p) IN
       /\ r \notin calls /\ calls' = calls \cup {r}
       /\ \/ Failure(0) /\ Obey(r, WishOf(method, p))
          \/ Failure(1) /\ UNCHANGED <<motors, read>>
  /\ UNCHANGED <<site, groups, known, entities, following>>

FollowBug(e) == {n \in Sources(e) : Readable(n) /\ OverTelnet(n)}

\* _follow: the motors of the cover that can be read.
Follow(e) == {n \in Sources(e) : Readable(n)}

\* The reply, even of an error, lets the cover have its motors followed; without
\* one the command raises.
CommandEnds(r) ==
  /\ r \in calls /\ calls' = calls \ {r}
  /\ \/ Failure(0) /\ following' = following \cup Follow(r.target)
     \/ Failure(1) /\ UNCHANGED following
  /\ UNCHANGED <<site, groups, motors, known, read, entities, given>>

\* The follow task drops a motor.
Drop(n) ==
  /\ n \in following /\ following' = following \ {n}
  /\ UNCHANGED <<site, groups, motors, known, read, entities, calls, bounds>>

\* A motor passes Stop on its way, or arrives near its goal.
Move(n) ==
  /\ goal[n] # None
  /\ \/ /\ at' = [at EXCEPT ![n] = Stop] /\ UNCHANGED goal
        /\ (at[n] < Stop /\ Stop < goal[n]) \/ (goal[n] < Stop /\ Stop < at[n])
     \/ /\ \E p \in {goal[n] - Slack, goal[n], goal[n] + Slack} \cap Positions :
             at' = [at EXCEPT ![n] = p]
        /\ goal' = [goal EXCEPT ![n] = None]
  /\ UNCHANGED <<site, groups, wanted, known, read, entities, calls, following, bounds>>

-----------------------------------------------------------------------------
\* Discovery reads the motors it takes for positional.  Added to Home Assistant,
\* an entity writes its state, but not through the gate of its updates.
CoversInit ==
  /\ site \in Sites /\ groups = BuildGroups
  /\ at = [n \in Nodes |-> POSITION_MIN] /\ goal = [n \in Nodes |-> None]
  /\ wanted = [n \in Nodes |-> None]
  /\ \E readable \in {{}, site.slides} :
       known = [n \in Nodes |->
                  IF site.detected[n] = "positional" /\ n \in readable
                  THEN at[n] ELSE None]
  /\ read = {}
  /\ ha = [e \in Entities |-> Snapshot(e)]
  /\ last = [e \in Entities |-> NotWritten] /\ told = TRUE
  /\ calls = {} /\ following = {} /\ given = 0 /\ failed = 0

CoversNext ==
  \/ \E n \in Nodes : ReadPosition(n) \/ Move(n) \/ Drop(n)
  \/ \E e \in Entities : Command(e)
  \/ \E r \in calls : CommandEnds(r)
  \/ UpdateListeners

CoversSpec == CoversInit /\ [][CoversNext]_coversVars

-----------------------------------------------------------------------------
(* Properties                                                              *)

MaybePosition == Positions \cup {None}
States == [position : MaybePosition, closed : {"unknown", "open", "closed"}]

\* Every variable has its type.
CoversTypeOK ==
  /\ site \in SiteType /\ groups \in [DOMAIN groups -> SUBSET (site.found \X GroupIds)]
  /\ at \in [Nodes -> Positions] /\ goal \in [Nodes -> MaybePosition]
  /\ wanted \in [Nodes -> MaybePosition]
  /\ known \in [Nodes -> MaybePosition] /\ read \subseteq site.found
  /\ ha \in [Entities -> States] /\ last \in [Entities -> States \cup {NotWritten}]
  /\ told \in BOOLEAN
  /\ \A r \in calls : r.target \in Entities /\ r.position \in MaybePosition
  /\ following \subseteq site.found
  /\ given \in 0..site.commands /\ failed \in 0..site.failures

\* Sharing labels never makes two motors share a display name, unless one is
\* labelled as the other would be renamed (models.py, "Make node display names
\* unique", which says nothing of that).
Imitates(m, n) ==
  site.label[m] # <<>> /\ site.label[m][Len(site.label[m])] = n

NamesAreDistinct ==
  \A m, n \in site.found :
    m # n /\ DisplayName(m) = DisplayName(n) => Imitates(m, n) \/ Imitates(n, m)

\* However the motors spell its id, each group address has one cover, of all
\* the motors found that list it, and the ALL group has none (coordinator.py,
\* _build_groups; client.py, async_get_groups).
OneCoverPerGroup ==
  LET listed == {g \in UNION {site.lists[n] : n \in site.found} : g.formed}
      users(i) == {n \in site.found : \E g \in site.lists[n] : g.formed /\ g.index = i}
      covers(i) == {g \in DOMAIN groups : g.index = i}
  IN /\ \A g \in listed :
          IF g.index \in {0, 1} THEN covers(g.index) = {}
          ELSE \E h \in DOMAIN groups :
                 covers(g.index) = {h} /\ Members(h) = users(g.index)
     /\ \A g \in DOMAIN groups : \E h \in listed : h.index = g.index

\* Entities told of the latest readings have written them: the gate on writes
\* never keeps a change from Home Assistant ("Write state only when something
\* actually changed").
WritesAreNotLost == told => \A e \in Entities : ha[e] = Snapshot(e)

\* The position stored of a motor is one at which it is when it is read: `false`,
\* an error, silence or a number out of range never is a position
\* (models.py, parse_position; cover.py, "It is never faked as 0").
NeverInvented ==
  [][\A n \in Nodes : known'[n] \in {known[n], None, at[n]}]_coversVars

\* A group shows a position between those of its members that report one, and
\* none without any; and where these are all closed, or all open, so is the group
\* ("excluded rather than counted as zero").
GroupShowsMembers ==
  told => \A g \in DOMAIN groups :
    LET shown == {ha[n].position : n \in Members(g)} \ {None}
    IN /\ (ha[g].position = None) <=> (shown = {})
       /\ shown # {} => \E p, q \in shown :
                          p <= ha[g].position /\ ha[g].position <= q
       /\ \A s \in {"closed", "open"} :
            shown # {} /\ (\A n \in Members(g) : ha[n].closed \in {s, "unknown"})
              => ha[g].closed = s

\* A command lands: once a motor has come to rest and has been read since, its
\* entity shows the position its owner asked for last, alone or with its group,
\* as near as motors stop, and is closed or open as asked.  Both conversions of
\* polarity are on the way (const.py, PROTO-08).
CommandsLand ==
  told => \A n \in read :
    wanted[n] # None =>
      /\ wanted[n] - Slack <= ha[n].position
      /\ ha[n].position <= wanted[n] + Slack
      /\ wanted[n] = 0 => ha[n].closed = "closed"
      /\ wanted[n] = 100 => ha[n].closed = "open"

\* A command whose reply arrives has every motor followed that it moves, if it
\* was found and can be read (cover.py, _follow: "the members of this group").
MovesAreFollowed ==
  [][\A r \in calls \ calls' :
       failed' = failed =>
         {n \in Addressed(r) : Readable(n)} \subseteq following']_coversVars
=============================================================================
