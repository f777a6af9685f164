----------------------------- MODULE EntryProofs -----------------------------
(***************************************************************************)
(* Theorems about Entry for any bus, any number of motors and groups, and  *)
(* any number of saves, faults and reloads.                                *)
(***************************************************************************)
EXTENDS Entry, FiniteSetTheorems, TLAPS

USE EntryAssumption DEF EntryAssumption

-----------------------------------------------------------------------------
(* Types.  That `setups` stays within Setups needs a count of what caused  *)
(* them (Budget), and that a node discovery is done with has been          *)
(* classified needs where discovery stands (Progress).                     *)

Early == {"connect", "names", "wake", "ping"}
Reading == {"info", "probe", "groups"}

Retry == IF entry = "setup_retry" THEN 1 ELSE 0

Budget ==
  /\ setups + reloads + Retry <= 1 + faults + saves + asked
  /\ reloads <= saves + asked

Progress ==
  /\ step \in Early => found = {}
  /\ step \in Reading => /\ at \notin found /\ at \notin left
                         /\ left \cap found = {}
  /\ step = "groups" => detected[at] # "unknown"

TypeInv == EntryTypeOK /\ Budget /\ Progress

LEMMA NoOptionsType == NoOptions \in Options
BY DEF NoOptions, Options, Overrides

LEMMA TypeInvInit == EntryInit => TypeInv
<1> SUFFICES ASSUME EntryInit PROVE TypeInv
  OBVIOUS
<1>1. 1 \in Setups /\ [s \in Setups |-> "none"] \in [Setups -> Endings]
  BY DEF Setups, Endings
<1>2. /\ setups \in Setups /\ ended \in [Setups -> Endings]
      /\ options \in Options /\ saved \in Options
      /\ used \in [poll : Polls, web : BOOLEAN]
  BY <1>1, NoOptionsType DEF EntryInit
<1>3. /\ detected \in [Nodes -> Capabilities]
      /\ capability \in [Nodes -> Capabilities]
      /\ member \in [Nodes -> SUBSET Groups]
      /\ missed \in [Nodes -> 0..MAX_MISSED_DISCOVERIES]
  BY DEF EntryInit, Capabilities, MAX_MISSED_DISCOVERIES
<1>4. /\ reloads \in 0..(MaxSaves + MaxReloads) /\ asked \in 0..MaxReloads
      /\ saves \in 0..MaxSaves /\ faults \in 0..MaxFaults
  BY DEF EntryInit
<1>6. /\ bus \in Buses /\ data \in [login : {"right"}, web : BOOLEAN]
      /\ entry = "in_progress" /\ step = "connect"
      /\ at = NoNode /\ left = {} /\ open = {} /\ found = {} /\ wasFound = {}
      /\ picked = {}
      /\ published = FALSE /\ listening = FALSE /\ unheard = FALSE
  BY DEF EntryInit
<1>7. EntryTypeOK
  BY <1>2, <1>3, <1>4, <1>6 DEF EntryTypeOK
<1>5. Budget /\ Progress
  BY DEF EntryInit, Budget, Retry, Progress, Early, Reading
<1> QED
  BY <1>5, <1>7 DEF TypeInv

LEMMA ConnectTypes == ASSUME TypeInv, Connect PROVE TypeInv'
BY DEF TypeInv, EntryTypeOK, Budget, Retry, Progress, Early, Reading, Connect,
   Await, Waiting, WebPassword, flows, nodes, Options

LEMMA NamesTypes == ASSUME TypeInv, NamesAndWake PROVE TypeInv'
BY DEF TypeInv, EntryTypeOK, Budget, Retry, Progress, Early, Reading,
   NamesAndWake, Await, Waiting, flows, nodes

LEMMA FailTypes ==
  ASSUME TypeInv, entry = "in_progress", NEW k \in Nat \ {0}, Fault(k),
         NEW state \in {"setup_retry", "setup_error"}, NEW why \in Endings,
         SetupFails(state, why), open' \subseteq open
  PROVE  TypeInv'
<1>1. /\ entry' = state /\ step' = "done" /\ at' = NoNode /\ left' = {}
      /\ found' = {} /\ ended' = [ended EXCEPT ![setups] = why]
      /\ detected' = [n \in Nodes |-> "unknown"]
      /\ capability' = [n \in Nodes |-> "unknown"]
      /\ member' = [n \in Nodes |-> {}]
      /\ UNCHANGED <<bus, data, setups, published, listening, used, missed, wasFound,
                     options, saved, picked, unheard, saves, reloads, asked>>
  BY DEF SetupFails, NothingFound, flows
<1>2. faults' = faults + k /\ faults' \in 0..MaxFaults
  BY DEF Fault, TypeInv, EntryTypeOK
<1>3. EntryTypeOK'
  BY <1>1, <1>2 DEF TypeInv, EntryTypeOK, Capabilities
<1>4. Budget'
  BY <1>1, <1>2 DEF TypeInv, EntryTypeOK, Budget, Retry, Setups
<1>5. Progress'
  BY <1>1 DEF Progress, Early, Reading
<1> QED
  BY <1>3, <1>4, <1>5 DEF TypeInv

LEMMA BeginTypes ==
  ASSUME TypeInv, SetupBegins, open' \subseteq open, ended' \in [Setups -> Endings],
         faults' \in faults..MaxFaults,
         \/ reloads > 0 /\ reloads' = reloads - 1
         \/ entry = "setup_retry" /\ reloads' = reloads
  PROVE  TypeInv'
<1>1. /\ entry' = "in_progress" /\ step' = "connect" /\ at' = NoNode
      /\ left' = {} /\ found' = {} /\ setups' = setups + 1
      /\ published' = FALSE /\ listening' = FALSE /\ unheard' = FALSE
      /\ detected' = [n \in Nodes |-> "unknown"]
      /\ capability' = [n \in Nodes |-> "unknown"]
      /\ member' = [n \in Nodes |-> {}]
      /\ UNCHANGED <<bus, data, used, missed, wasFound, options, saved, picked,
                     saves, asked>>
  BY DEF SetupBegins, NothingFound
<1>2. Budget'
  BY <1>1 DEF TypeInv, EntryTypeOK, Budget, Retry, Setups
<1>3. setups' \in Setups /\ reloads' \in 0..(MaxSaves + MaxReloads)
  BY <1>1 DEF TypeInv, EntryTypeOK, Budget, Retry, Setups
<1>6. faults' \in 0..MaxFaults
  BY DEF TypeInv, EntryTypeOK
<1>4. EntryTypeOK'
  BY <1>1, <1>3, <1>6 DEF TypeInv, EntryTypeOK, Capabilities
<1>5. Progress'
  BY <1>1 DEF Progress, Early, Reading
<1> QED
  BY <1>2, <1>4, <1>5 DEF TypeInv

\* Saves and reloads asked for pay for reloads, and faults for tries again.
LEMMA BudgetKept ==
  ASSUME TypeInv, setups' = setups, entry' = entry,
         NEW f \in Nat, faults' = faults + f, NEW s \in Nat, saves' = saves + s,
         NEW a \in Nat, asked' = asked + a, NEW r \in Nat,
         reloads' = reloads + r, r <= s + a
  PROVE  Budget'
<1>1. /\ setups \in Nat /\ reloads \in Nat /\ saves \in Nat /\ asked \in Nat
      /\ faults \in Nat
  BY DEF TypeInv, EntryTypeOK, Setups
<1>2. Retry' = Retry /\ Retry \in Nat
  BY DEF Retry
<1>3. /\ setups + reloads + Retry <= 1 + faults + saves + asked
      /\ reloads <= saves + asked
  BY DEF TypeInv, Budget
<1> QED
  BY <1>1, <1>2, <1>3 DEF Budget

LEMMA NextNodeTypes ==
  ASSUME TypeInv, NEW rest \in SUBSET Nodes, rest # {}, rest \cap found' = {},
         NextNode(rest), found' \in SUBSET Nodes,
         \A n \in found' : detected'[n] # "unknown",
         detected' \in [Nodes -> Capabilities],
         member' \in [Nodes -> SUBSET Groups],
         missed' \in [Nodes -> 0..MAX_MISSED_DISCOVERIES],
         faults' \in faults..MaxFaults
  PROVE  TypeInv'
<1>1. at' \in rest /\ left' = rest \ {at'}
  BY DEF NextNode
<1>2. /\ step' = "info"
      /\ UNCHANGED <<bus, data, entry, ended, setups, open, published, listening, used,
                     capability, wasFound, options, saved, picked, unheard,
                     saves, reloads, asked>>
  BY DEF NextNode, Await, flows
<1>3. EntryTypeOK'
  BY <1>1, <1>2 DEF TypeInv, EntryTypeOK
<1>4. Budget'
  BY <1>2, BudgetKept DEF TypeInv, EntryTypeOK
<1>5. Progress'
  BY <1>1, <1>2 DEF Progress, Early, Reading
<1> QED
  BY <1>3, <1>4, <1>5 DEF TypeInv

LEMMA PingTypes == ASSUME TypeInv, Ping PROVE TypeInv'
<1>1. Waiting("ping") /\ found = {}
  BY DEF Ping, Waiting, TypeInv, Progress, Early
<1>2. CASE Fault(1) /\ NotReady("empty")
  BY <1>1, <1>2, FailTypes DEF NotReady, Waiting, Endings
<1>3. ASSUME NEW silent \in (SUBSET Nodes) \ {Nodes},
             Fault(Cardinality(silent)),
             missed' = [n \in Nodes |-> IF n \notin silent THEN 0
                          ELSE IF missed[n] = MAX_MISSED_DISCOVERIES
                               THEN missed[n] ELSE missed[n] + 1],
             NextNode(Nodes \ silent),
             UNCHANGED <<found, detected, member>>
      PROVE  TypeInv'
  <2>1. Cardinality(silent) \in Nat
    BY FS_Subset, FS_CardinalityType
  <2>2. faults' \in faults..MaxFaults
    BY <1>3, <2>1 DEF Fault, TypeInv, EntryTypeOK
  <2>3. missed' \in [Nodes -> 0..MAX_MISSED_DISCOVERIES]
    BY <1>3 DEF TypeInv, EntryTypeOK, MAX_MISSED_DISCOVERIES
  <2>4. Nodes \ silent # {} /\ Nodes \ silent \in SUBSET Nodes
    BY <1>3
  <2>5. /\ found' = {} /\ detected' \in [Nodes -> Capabilities]
        /\ member' \in [Nodes -> SUBSET Groups]
    BY <1>1, <1>3 DEF TypeInv, EntryTypeOK
  <2> QED
    BY <1>3, <2>2, <2>3, <2>4, <2>5, NextNodeTypes
<1> QED
  BY <1>2, <1>3 DEF Ping

LEMMA DiscoveryFailsTypes == ASSUME TypeInv, DiscoveryFails PROVE TypeInv'
BY FailTypes DEF DiscoveryFails, Waiting, Endings

LEMMA WakeFailsTypes == ASSUME TypeInv, WakeFails PROVE TypeInv'
BY FailTypes DEF WakeFails, NotReady, Waiting, Endings

LEMMA ConnectFailsTypes == ASSUME TypeInv, ConnectFails PROVE TypeInv'
<1>1. data.login = "right"
  BY DEF TypeInv, EntryTypeOK
<1> QED
  BY <1>1, FailTypes DEF ConnectFails, Waiting, Endings

LEMMA ReadTypes ==
  ASSUME TypeInv, entry = "in_progress", step \in Reading,
         NEW s \in {"probe", "groups"}, Await(s),
         NEW cap \in Capabilities, s = "groups" => cap # "unknown",
         detected' = [detected EXCEPT ![at] = cap],
         NEW k \in Nat, Fault(k),
         UNCHANGED <<at, left, open, published, used, found, capability, member,
                     missed, wasFound>>
  PROVE  TypeInv'
<1>1. /\ step' = s
      /\ UNCHANGED <<bus, data, entry, ended, setups, listening, options, saved,
                     picked, unheard, saves, reloads, asked>>
  BY DEF Await, flows
<1>2. at \in Nodes /\ at \notin found /\ detected \in [Nodes -> Capabilities]
  BY DEF TypeInv, EntryTypeOK, Progress, Reading
<1>3. /\ detected' \in [Nodes -> Capabilities] /\ detected'[at] = cap
      /\ \A n \in found : detected'[n] = detected[n]
  BY <1>2 DEF TypeInv, EntryTypeOK
<1>4. /\ faults \in Nat /\ faults' = faults + k /\ faults' \in 0..MaxFaults
  BY DEF Fault, TypeInv, EntryTypeOK
<1>5. EntryTypeOK'
  BY <1>1, <1>3, <1>4 DEF TypeInv, EntryTypeOK, Reading
<1>6. Budget'
  BY <1>1, <1>4 DEF TypeInv, EntryTypeOK, Budget, Retry, Setups
<1>7. Progress'
  BY <1>1, <1>2, <1>3 DEF TypeInv, Progress, Early, Reading
<1> QED
  BY <1>5, <1>6, <1>7 DEF TypeInv

LEMMA ReadInfoTypes == ASSUME TypeInv, ReadInfo PROVE TypeInv'
<1>1. entry = "in_progress" /\ step \in Reading
  BY DEF ReadInfo, Waiting, Reading
<1>2. PICK answered \in BOOLEAN :
        /\ Fault(IF answered THEN 0 ELSE 1)
        /\ detected' = [detected EXCEPT ![at] = Classify(at, answered)]
        /\ Await(IF detected'[at] = "unknown" THEN "probe" ELSE "groups")
  BY DEF ReadInfo
<1>3. Classify(at, answered) \in Capabilities
  BY DEF Classify, Capabilities
<1>4. detected'[at] = Classify(at, answered)
  BY <1>1, <1>2 DEF TypeInv, EntryTypeOK, Reading
<1>5. UNCHANGED <<at, left, open, published, used, found, capability, member,
                  missed, wasFound>>
  BY DEF ReadInfo
<1> QED
  BY <1>1, <1>2, <1>3, <1>4, <1>5, ReadTypes

LEMMA ProbeTypes == ASSUME TypeInv, Probe PROVE TypeInv'
<1>1. entry = "in_progress" /\ step \in Reading
  BY DEF Probe, Waiting, Reading
<1>2. PICK answered \in BOOLEAN :
        /\ Fault(IF answered THEN 0 ELSE 1)
        /\ detected' = [detected EXCEPT ![at] =
              IF answered /\ bus[at].slides THEN "positional"
                                            ELSE "non_positional"]
  BY DEF Probe
<1>3. /\ Await("groups")
      /\ UNCHANGED <<at, left, open, published, used, found, capability, member,
                     missed, wasFound>>
  BY DEF Probe
<1> QED
  BY <1>1, <1>2, <1>3, ReadTypes DEF Capabilities

LEMMA ReadGroupsTypes == ASSUME TypeInv, ReadGroups PROVE TypeInv'
<1>1. /\ step = "groups" /\ entry = "in_progress" /\ at \in Nodes
      /\ at \notin found /\ at \notin left /\ left \cap found = {}
      /\ detected[at] # "unknown" /\ left \in SUBSET Nodes
  BY DEF ReadGroups, Waiting, TypeInv, EntryTypeOK, Progress, Reading
<1>2. PICK answered \in BOOLEAN :
        /\ Fault(IF answered THEN 0 ELSE 1)
        /\ member' = [member EXCEPT ![at] = IF answered THEN GroupsOf[at] ELSE {}]
  BY DEF ReadGroups
<1>3. /\ found' = found \cup {at} /\ detected' = detected /\ missed' = missed
      /\ IF left = {} THEN DiscoveryEnds(found') ELSE NextNode(left)
  BY DEF ReadGroups
<1>4. /\ member' \in [Nodes -> SUBSET Groups]
      /\ faults' \in faults..MaxFaults
  <2>1. member' \in [Nodes -> SUBSET Groups]
    BY <1>1, <1>2 DEF TypeInv, EntryTypeOK
  <2>2. CASE answered
    BY <1>2, <2>1, <2>2 DEF TypeInv, EntryTypeOK, Fault
  <2>3. CASE ~answered
    BY <1>2, <2>1, <2>3 DEF TypeInv, EntryTypeOK, Fault
  <2> QED
    BY <2>2, <2>3
<1>5. /\ found' \in SUBSET Nodes
      /\ \A n \in found' : detected'[n] # "unknown"
      /\ detected' \in [Nodes -> Capabilities]
      /\ missed' \in [Nodes -> 0..MAX_MISSED_DISCOVERIES]
  BY <1>1, <1>3 DEF TypeInv, EntryTypeOK
<1>6. CASE left # {}
  BY <1>1, <1>3, <1>4, <1>5, <1>6, NextNodeTypes
<1>7. CASE left = {}
  <2>1. /\ step' = "refresh" /\ at' = NoNode /\ left' = {}
        /\ capability' = [n \in Nodes |-> IF n \in found'
                            THEN Override(detected[n], options.overrides[n])
                            ELSE "unknown"]
        /\ UNCHANGED <<bus, data, entry, ended, setups, open, published, listening,
                       used, wasFound, options, saved, picked, unheard, saves,
                       reloads, asked>>
    BY <1>3, <1>7 DEF DiscoveryEnds, Await, flows
  <2>2. \A n \in Nodes : Override(detected[n], options.overrides[n]) \in Capabilities
    BY DEF Override, TypeInv, EntryTypeOK, Options, Overrides, Capabilities
  <2>3. capability' \in [Nodes -> Capabilities]
    BY <2>1, <2>2 DEF Capabilities
  <2>4. EntryTypeOK'
    BY <1>4, <1>5, <2>1, <2>3 DEF TypeInv, EntryTypeOK
  <2>5. Budget'
    <3>1. PICK f \in Nat : faults' = faults + f
      BY <1>4 DEF TypeInv, EntryTypeOK
    <3>2. saves' = saves + 0 /\ asked' = asked + 0 /\ reloads' = reloads + 0
      BY <2>1 DEF TypeInv, EntryTypeOK
    <3> QED
      BY <2>1, <3>1, <3>2, BudgetKept
  <2>6. Progress'
    BY <2>1 DEF Progress, Early, Reading
  <2> QED
    BY <2>4, <2>5, <2>6 DEF TypeInv
<1> QED
  BY <1>6, <1>7

LEMMA LoadTypes == ASSUME TypeInv, Publish \/ Loaded PROVE TypeInv'
<1>1. CASE Publish
  BY <1>1 DEF TypeInv, EntryTypeOK, Budget, Retry, Progress, Early, Reading,
     Publish, Await, Waiting, flows
<1>2. CASE Loaded
  BY <1>2 DEF TypeInv, EntryTypeOK, Budget, Retry, Progress, Early, Reading,
     Loaded, Waiting, flows, nodes
<1> QED
  BY <1>1, <1>2

LEMMA ReloadTypes == ASSUME TypeInv, Reload PROVE TypeInv'
<1>1. open' \subseteq open /\ ended' \in [Setups -> Endings]
  BY DEF Reload, Unload, TypeInv, EntryTypeOK, Endings
<1>2. faults' \in faults..MaxFaults
  BY DEF Reload, Unload, Fault, TypeInv, EntryTypeOK
<1> QED BY <1>1, <1>2, BeginTypes DEF Reload

LEMMA RetryTypes == ASSUME TypeInv, RetrySetup PROVE TypeInv'
<1>1. faults' \in faults..MaxFaults /\ ended' \in [Setups -> Endings]
  BY DEF RetrySetup, TypeInv, EntryTypeOK
<1> QED BY <1>1, BeginTypes DEF RetrySetup

LEMMA AskTypes == ASSUME TypeInv, AskReload PROVE TypeInv'
<1>1. /\ asked' = asked + 1 /\ asked' \in 0..MaxReloads /\ reloads' = reloads + 1
      /\ UNCHANGED <<bus, data, life, nodes, options, saved, picked, unheard, saves, faults>>
  BY DEF AskReload, flows, TypeInv, EntryTypeOK
<1>2. Budget'
  BY <1>1, BudgetKept DEF TypeInv, EntryTypeOK, life
<1>3. reloads' \in 0..(MaxSaves + MaxReloads)
  BY <1>1, <1>2 DEF TypeInv, EntryTypeOK, Budget, Retry
<1>4. EntryTypeOK'
  BY <1>1, <1>3 DEF TypeInv, EntryTypeOK, life, nodes
<1>5. Progress'
  BY <1>1 DEF TypeInv, Progress, Early, Reading, life, nodes
<1> QED
  BY <1>2, <1>4, <1>5 DEF TypeInv

LEMMA PickTypes == ASSUME TypeInv, PickMotor PROVE TypeInv'
BY DEF TypeInv, EntryTypeOK, Budget, Retry, Progress, PickMotor, life, nodes,
   Early, Reading

LEMMA EditedType ==
  ASSUME TypeInv, NEW o \in Options, NEW e \in Edits
  PROVE  Edited(o, e) \in Options
<1>1. picked \subseteq Nodes
  BY DEF TypeInv, EntryTypeOK
<1>2. CASE e \in [page : {"polling"}, value : Polls, motor : {NoNode}]
  BY <1>2 DEF Edited, Options
<1>3. CASE e \in [page : {"web"}, value : {"cleared", "password"}, motor : {NoNode}]
  BY <1>3 DEF Edited, Options
<1>4. CASE e \in [page : {"motor"}, value : Overrides, motor : picked]
  <2>1. e.page = "motor" /\ e.value \in Overrides
    BY <1>4
  <2>2. Edited(o, e) = [o EXCEPT !.overrides[e.motor] = e.value]
    BY <2>1 DEF Edited
  <2>3. /\ o.poll \in Polls /\ o.web \in {"absent", "cleared", "password"}
        /\ o.overrides \in [Nodes -> Overrides]
        /\ o = [poll |-> o.poll, web |-> o.web, overrides |-> o.overrides]
    BY DEF Options
  <2>4. [o.overrides EXCEPT ![e.motor] = e.value] \in [Nodes -> Overrides]
    BY <2>1, <2>3
  <2>5. Edited(o, e) = [poll |-> o.poll, web |-> o.web,
                        overrides |-> [o.overrides EXCEPT ![e.motor] = e.value]]
    BY <2>2, <2>3
  <2> QED BY <2>3, <2>4, <2>5 DEF Options
<1> QED
  BY <1>2, <1>3, <1>4 DEF Edits

LEMMA SubmitTypes == ASSUME TypeInv, Submit PROVE TypeInv'
<1>1. PICK e \in Edits : /\ options' = Edited(options, e)
                         /\ saved' = Edited(saved, e)
                         /\ picked' = picked \ {e.motor}
  BY DEF Submit, Save
<1>2. options' \in Options /\ saved' \in Options /\ picked' \subseteq Nodes
  BY <1>1, EditedType DEF TypeInv, EntryTypeOK
<1>3. /\ saves' = saves + 1 /\ saves' \in 0..MaxSaves
      /\ UNCHANGED <<bus, data, entry, ended, step, at, left, setups, open, published,
                     listening, used, found, detected, capability, member,
                     missed, wasFound, faults, asked>>
  BY DEF Submit, life, nodes, TypeInv, EntryTypeOK
<1>4. /\ reloads' \in {reloads, reloads + 1} /\ unheard' \in BOOLEAN
  BY DEF Submit, TypeInv, EntryTypeOK
<1>5. Budget'
  <2>1. CASE reloads' = reloads
    BY <1>3, <2>1, BudgetKept DEF TypeInv, EntryTypeOK
  <2>2. CASE reloads' = reloads + 1
    BY <1>3, <2>2, BudgetKept DEF TypeInv, EntryTypeOK
  <2> QED
    BY <1>4, <2>1, <2>2
<1>6. reloads' \in 0..(MaxSaves + MaxReloads)
  BY <1>3, <1>4, <1>5 DEF TypeInv, EntryTypeOK, Budget, Retry
<1>7. EntryTypeOK'
  BY <1>2, <1>3, <1>4, <1>6 DEF TypeInv, EntryTypeOK
<1>8. Progress'
  BY <1>3 DEF TypeInv, Progress, Early, Reading
<1> QED
  BY <1>5, <1>7, <1>8 DEF TypeInv

LEMMA TypeInvNext == ASSUME TypeInv, [EntryNext]_entryVars PROVE TypeInv'
<1>1. CASE UNCHANGED entryVars
  BY <1>1 DEF TypeInv, EntryTypeOK, Budget, Retry, Progress, entryVars, life,
     nodes, flows
<1>2. CASE SetupStep
  BY <1>2, ConnectTypes, ConnectFailsTypes, NamesTypes, WakeFailsTypes,
     PingTypes, DiscoveryFailsTypes, ReadInfoTypes, ProbeTypes,
     ReadGroupsTypes, LoadTypes DEF SetupStep
<1> QED
  BY <1>1, <1>2, ReloadTypes, RetryTypes, AskTypes, PickTypes, SubmitTypes
     DEF EntryNext

LEMMA TypeInvHolds == EntrySpec => []TypeInv
BY TypeInvInit, TypeInvNext, PTL DEF EntrySpec

\* Every variable of the entry keeps its type, no run makes more setups than
\* there are causes for one, and a node that discovery has done with has been
\* classified or probed (__init__.py, async_setup_entry; client.py,
\* async_discover_nodes).
THEOREM EntryTyping == EntrySpec => []EntryTypeOK
<1>1. TypeInv => EntryTypeOK
  BY DEF TypeInv
<1> QED
  BY <1>1, TypeInvHolds, PTL

-----------------------------------------------------------------------------
(* Connections.  A setup that has not connected yet has no connection to    *)
(* leave behind, and no setup to come has one either.                       *)

ConnInv ==
  /\ ConnectionsAreClosed
  /\ open \subseteq 1..setups
  /\ entry = "in_progress" /\ step = "connect" => setups \notin open

LEMMA ConnFails ==
  ASSUME TypeInv, ConnInv, entry = "in_progress", NEW state, NEW why,
         SetupFails(state, why), state # "in_progress",
         \/ open' = open \ {setups}
         \/ open' = open /\ (setups \notin open \/ why = "discovery")
  PROVE  ConnInv'
<1>1. /\ entry' = state /\ setups' = setups
      /\ ended' = [ended EXCEPT ![setups] = why]
  BY DEF SetupFails
<1>2. /\ ended'[setups] = why
      /\ \A s \in Setups : s # setups => ended'[s] = ended[s]
      /\ open \subseteq Setups
  BY <1>1 DEF TypeInv, EntryTypeOK
<1> QED
  BY <1>1, <1>2 DEF ConnInv, ConnectionsAreClosed

LEMMA ConnKept ==
  ASSUME ConnInv, UNCHANGED <<entry, ended, setups, open>>, step' # "connect"
  PROVE  ConnInv'
BY DEF ConnInv, ConnectionsAreClosed

LEMMA ConnSetup == ASSUME TypeInv, ConnInv, SetupStep PROVE ConnInv'
<1>1. CASE Connect
  <2>1. /\ open' = open \cup {setups} /\ entry = "in_progress" /\ step' = "names"
        /\ UNCHANGED <<entry, ended, setups>>
    BY <1>1 DEF Connect, Await, Waiting
  <2>2. setups \in Nat \ {0}
    BY DEF TypeInv, EntryTypeOK, Setups
  <2> QED
    BY <2>1, <2>2 DEF ConnInv, ConnectionsAreClosed
<1>2. CASE ConnectFails
  BY <1>2, ConnFails DEF ConnectFails, Waiting, ConnInv
<1>3. CASE WakeFails
  BY <1>3, ConnFails DEF WakeFails, NotReady, Waiting
<1>4. CASE DiscoveryFails
  BY <1>4, ConnFails DEF DiscoveryFails, Waiting
<1>5. CASE NamesAndWake \/ ReadInfo \/ Probe
  BY <1>5, ConnKept DEF NamesAndWake, ReadInfo, Probe, Await
<1>6. CASE Ping
  BY <1>6, ConnKept, ConnFails DEF Ping, NextNode, NotReady, Waiting, Await
<1>7. CASE ReadGroups
  BY <1>7, ConnKept DEF ReadGroups, DiscoveryEnds, NextNode, Await
<1>8. CASE Publish
  BY <1>8, ConnKept DEF Publish, Await
<1>9. CASE Loaded
  BY <1>9 DEF Loaded, Waiting, ConnInv, ConnectionsAreClosed
<1> QED
  BY <1>1, <1>2, <1>3, <1>4, <1>5, <1>6, <1>7, <1>8, <1>9 DEF SetupStep

LEMMA ConnBegins ==
  ASSUME TypeInv, ConnInv, entry # "in_progress", SetupBegins,
         IF entry = "loaded" THEN Unload ELSE UNCHANGED <<open, ended>>
  PROVE  ConnInv'
<1>1. /\ setups' = setups + 1 /\ entry' = "in_progress"
  BY DEF SetupBegins
<1>2. /\ setups \in Nat /\ open \subseteq 1..setups /\ open \subseteq Setups
      /\ setups \in Setups /\ ended \in [Setups -> Endings]
  BY DEF TypeInv, EntryTypeOK, Setups, ConnInv
<1>3. open' \subseteq open
  BY DEF Unload
<1>4. \A s \in open' : ended'[s] \in {"discovery", "in_flight"}
  <2>1. CASE UNCHANGED ended
    BY <2>1, <1>2 DEF ConnInv, ConnectionsAreClosed, Unload
  <2>2. CASE UNCHANGED open /\ ended' = [ended EXCEPT ![setups] = "in_flight"]
    BY <2>2, <1>2 DEF ConnInv, ConnectionsAreClosed
  <2> QED BY <2>1, <2>2 DEF Unload
<1> QED
  BY <1>1, <1>2, <1>3, <1>4 DEF ConnInv, ConnectionsAreClosed

LEMMA ConnNext == ASSUME TypeInv, ConnInv, [EntryNext]_entryVars PROVE ConnInv'
<1>1. CASE SetupStep
  BY <1>1, ConnSetup
<1>2. CASE Reload \/ RetrySetup
  BY <1>2, ConnBegins DEF Reload, RetrySetup
<1>3. CASE AskReload \/ PickMotor \/ Submit \/ UNCHANGED entryVars
  BY <1>3 DEF AskReload, PickMotor, Submit, entryVars, life, ConnInv,
              ConnectionsAreClosed
<1> QED
  BY <1>1, <1>2, <1>3 DEF EntryNext

LEMMA ConnInit == EntryInit => ConnInv
BY DEF EntryInit, ConnInv, ConnectionsAreClosed

\* A connection that is neither of the setup under way nor of the one loaded is
\* of one whose discovery failed, or that was unloaded with calls in flight
\* (__init__.py, async_setup_entry and async_unload_entry).
THEOREM ClosedConnections == EntrySpec => []ConnectionsAreClosed
<1>1. ConnInv => ConnectionsAreClosed
  BY DEF ConnInv
<1> QED
  BY <1>1, ConnInit, ConnNext, TypeInvHolds, PTL DEF EntrySpec

-----------------------------------------------------------------------------
(* Settings.  A setup that has heard of every save holds, from the await at *)
(* which it read them, the settings stored now.                             *)

Reads == used.poll = options.poll /\ used.web = WebPassword(options)
Applies == \A n \in found : capability[n] = Override(detected[n], options.overrides[n])
Heard == ~unheard /\ (entry = "loaded" => reloads = 0)

SettingsInv ==
  /\ options = saved
  /\ listening = (entry = "loaded")
  /\ entry = "in_progress" => step # "done"
  /\ \A n \in Nodes : detected[n] = "positional" => bus[n].slides
  /\ Heard /\ (entry = "loaded" \/ (entry = "in_progress" /\ step # "connect"))
       => Reads
  /\ Heard /\ (entry = "loaded" \/ (entry = "in_progress" /\ step \in {"refresh", "platforms"}))
       => Applies

\* The same settings seen by the next step of a setup.
LEMMA SetupGoesOn ==
  ASSUME SettingsInv, entry = "in_progress", step # "connect", NEW s, Await(s),
         s \notin {"done", "connect"}, used' = used,
         \A n \in Nodes : detected'[n] = "positional" => bus[n].slides,
         s \in {"refresh", "platforms"} /\ Heard => Applies'
  PROVE  SettingsInv'
BY DEF SettingsInv, Await, flows, Heard, Reads, Applies, WebPassword

\* Discovery takes a motor to be positional only if it slides.
LEMMA DetectedSlides ==
  ASSUME TypeInv, SettingsInv, NEW c, detected' = [detected EXCEPT ![at] = c],
         c = "positional" => bus[at].slides
  PROVE  \A n \in Nodes : detected'[n] = "positional" => bus[n].slides
BY DEF TypeInv, EntryTypeOK, SettingsInv

LEMMA SettingsFail ==
  ASSUME SettingsInv, entry = "in_progress", NEW why,
         NEW state \in {"setup_retry", "setup_error"}, SetupFails(state, why)
  PROVE  SettingsInv'
BY DEF SettingsInv, SetupFails, NothingFound, flows, Heard, Reads, Applies

LEMMA SettingsSetup == ASSUME TypeInv, SettingsInv, SetupStep PROVE SettingsInv'
<1>1. CASE Connect
  BY <1>1 DEF Connect, Await, Waiting, nodes, flows, SettingsInv, Heard,
     Reads, Applies, WebPassword, TypeInv, EntryTypeOK, Options
<1>2. CASE ConnectFails \/ WakeFails \/ DiscoveryFails
  BY <1>2, SettingsFail DEF ConnectFails, WakeFails, DiscoveryFails, NotReady,
     Waiting
<1>3. CASE NamesAndWake
  <2>1. PICK s \in {"wake", "ping"} : Await(s)
    BY <1>3 DEF NamesAndWake
  <2>2. /\ entry = "in_progress" /\ step # "connect" /\ used' = used
        /\ detected' = detected
    BY <1>3 DEF NamesAndWake, Waiting, nodes
  <2> QED
    BY <2>1, <2>2, SetupGoesOn DEF SettingsInv
<1>4. CASE Ping
  <2>1. CASE NotReady("empty")
    BY <1>4, <2>1, SettingsFail DEF Ping, NotReady, Waiting
  <2>2. CASE Await("info") /\ used' = used /\ detected' = detected
    BY <1>4, <2>2, SetupGoesOn DEF Ping, Waiting, SettingsInv
  <2> QED
    BY <1>4, <2>1, <2>2 DEF Ping, NextNode
<1>5. CASE ReadInfo
  <2>1. PICK answered \in BOOLEAN :
          /\ detected' = [detected EXCEPT ![at] = Classify(at, answered)]
          /\ Await(IF detected'[at] = "unknown" THEN "probe" ELSE "groups")
    BY <1>5 DEF ReadInfo
  <2>2. Classify(at, answered) = "positional" => bus[at].slides
    BY DEF Classify
  <2>3. \A n \in Nodes : detected'[n] = "positional" => bus[n].slides
    BY <2>1, <2>2, DetectedSlides
  <2>4. entry = "in_progress" /\ step # "connect" /\ used' = used
    BY <1>5 DEF ReadInfo, Waiting
  <2>5. CASE detected'[at] = "unknown"
    BY <2>1, <2>3, <2>4, <2>5, SetupGoesOn
  <2>6. CASE detected'[at] # "unknown"
    BY <2>1, <2>3, <2>4, <2>6, SetupGoesOn
  <2> QED
    BY <2>5, <2>6
<1>6. CASE Probe
  <2>1. PICK answered \in BOOLEAN :
          detected' = [detected EXCEPT ![at] =
            IF answered /\ bus[at].slides THEN "positional"
                                          ELSE "non_positional"]
    BY <1>6 DEF Probe
  <2>2. \A n \in Nodes : detected'[n] = "positional" => bus[n].slides
    BY <2>1, DetectedSlides
  <2> QED
    BY <1>6, <2>2, SetupGoesOn DEF Probe, Waiting
<1>7. CASE ReadGroups
  <2>1. /\ entry = "in_progress" /\ step # "connect" /\ detected' = detected
        /\ used' = used
        /\ IF left = {} THEN DiscoveryEnds(found') ELSE Await("info")
    BY <1>7 DEF ReadGroups, Waiting, DiscoveryEnds, NextNode
  <2>2. CASE left # {}
    BY <2>1, <2>2, SetupGoesOn DEF SettingsInv
  <2>3. CASE left = {}
    <3>1. Await("refresh") /\ options' = options /\ found' \subseteq Nodes
      BY <1>7, <2>1, <2>3 DEF DiscoveryEnds, Await, flows, ReadGroups,
         Waiting, TypeInv, EntryTypeOK
    <3>2. Applies'
      BY <2>1, <2>3, <3>1 DEF DiscoveryEnds, Applies
    <3> QED
      BY <2>1, <3>1, <3>2, SetupGoesOn DEF SettingsInv
  <2> QED
    BY <2>2, <2>3
<1>8. CASE Publish
  <2>1. /\ entry = "in_progress" /\ step = "refresh" /\ used' = used
        /\ Await("platforms")
        /\ UNCHANGED <<found, detected, capability, options>>
    BY <1>8 DEF Publish, Waiting, Await, flows
  <2>2. Heard => Applies'
    BY <2>1 DEF SettingsInv, Applies
  <2> QED
    BY <2>1, <2>2, SetupGoesOn DEF SettingsInv
<1>9. CASE Loaded
  BY <1>9 DEF Loaded, Waiting, nodes, flows, SettingsInv, Heard, Reads,
     Applies, WebPassword
<1> QED
  BY <1>1, <1>2, <1>3, <1>4, <1>5, <1>6, <1>7, <1>8, <1>9 DEF SetupStep

LEMMA SettingsBegin ==
  ASSUME SettingsInv, SetupBegins
  PROVE  SettingsInv'
BY DEF SettingsInv, SetupBegins, NothingFound, Heard, Reads, Applies

LEMMA SettingsSubmit == ASSUME TypeInv, SettingsInv, Submit PROVE SettingsInv'
<1>1. /\ options' = saved'
      /\ UNCHANGED <<bus, data, entry, step, listening, used, found, detected, capability>>
  BY DEF Submit, Save, SettingsInv, life, nodes
<1>2. CASE options' = options
  BY <1>1, <1>2 DEF Submit, SettingsInv, Heard, Reads, Applies, WebPassword
<1>3. CASE options' # options
  <2>1. /\ entry = "loaded" => reloads' = reloads + 1
        /\ entry = "in_progress" => unheard'
    BY <1>3 DEF Submit, SettingsInv
  <2>2. reloads \in Nat
    BY DEF TypeInv, EntryTypeOK
  <2>3. entry \in {"loaded", "in_progress"} => ~Heard'
    BY <1>1, <2>1, <2>2 DEF Heard
  <2> QED
    BY <1>1, <2>3 DEF SettingsInv
<1> QED
  BY <1>2, <1>3

LEMMA SettingsInit == EntryInit => SettingsInv
BY DEF EntryInit, SettingsInv, Heard, Reads, Applies

LEMMA SettingsNext ==
  ASSUME TypeInv, SettingsInv, [EntryNext]_entryVars PROVE SettingsInv'
<1>1. CASE SetupStep
  BY <1>1, SettingsSetup
<1>2. CASE Reload \/ RetrySetup
  BY <1>2, SettingsBegin DEF Reload, RetrySetup
<1>3. CASE Submit
  BY <1>3, SettingsSubmit
<1>4. CASE AskReload
  <2>1. /\ reloads' = reloads + 1 /\ reloads \in Nat
        /\ UNCHANGED <<life, nodes, bus, data, options, saved, unheard>>
    BY <1>4 DEF AskReload, flows, TypeInv, EntryTypeOK
  <2> QED
    BY <2>1 DEF life, nodes, SettingsInv, Heard, Reads, Applies, WebPassword
<1>5. CASE PickMotor \/ UNCHANGED entryVars
  BY <1>5 DEF PickMotor, entryVars, life, nodes, flows, SettingsInv,
              Heard, Reads, Applies, WebPassword
<1> QED
  BY <1>1, <1>2, <1>3, <1>4, <1>5 DEF EntryNext

LEMMA SettingsHold == EntrySpec => []SettingsInv
BY SettingsInit, SettingsNext, TypeInvHolds, PTL DEF EntrySpec

LEMMA InForce ==
  ASSUME SettingsInv, entry = "loaded", reloads = 0, ~unheard
  PROVE  Reads /\ Applies
<1>1. Heard
  BY DEF Heard
<1> QED
  BY <1>1 DEF SettingsInv

LEMMA SettingsEffective == TypeInv /\ SettingsInv => SettingsTakeEffect
<1>1. ASSUME TypeInv, SettingsInv, entry = "loaded", reloads = 0, ~unheard
      PROVE  InEffect
  <2>1. Reads /\ Applies /\ options = saved
    BY <1>1, InForce DEF SettingsInv
  <2>2. saved.web \in {"absent", "cleared", "password"} /\ data.web \in BOOLEAN
    BY <1>1 DEF TypeInv, EntryTypeOK, Options
  <2>3. used.web = WebWanted \/ ClearedInVain
    BY <2>1, <2>2 DEF Reads, WebPassword, WebWanted, ClearedInVain
  <2> QED
    BY <2>1, <2>3 DEF Reads, Applies, Override, InEffect
<1> QED
  BY <1>1 DEF SettingsTakeEffect

\* An entry that is loaded, with no reload to come, runs with the settings last
\* saved, those saved while it was being set up excepted, and a password that
\* was given at installation and then cleared (__init__.py, async_reload_entry;
\* config_flow.py, async_step_web).
THEOREM SettingsApplied == EntrySpec => []SettingsTakeEffect
BY SettingsEffective, TypeInvHolds, SettingsHold, PTL

LEMMA SlidersLive == TypeInv /\ SettingsInv => NoDeadSlider
<1>1. ASSUME TypeInv, SettingsInv, entry = "loaded", reloads = 0, ~unheard,
             NEW n \in found, capability[n] = "positional"
      PROVE  Slides(n)
  <2>1. Applies /\ n \in Nodes
    BY <1>1, InForce DEF TypeInv, EntryTypeOK
  <2>2. "positional" = Override(detected[n], options.overrides[n])
    BY <1>1, <2>1 DEF Applies
  <2>3. CASE options.overrides[n] = "auto"
    BY <1>1, <2>1, <2>2, <2>3 DEF Override, SettingsInv, Slides
  <2>4. CASE options.overrides[n] # "auto"
    BY <2>2, <2>4 DEF Override, Slides
  <2> QED
    BY <2>3, <2>4
<1>2. ASSUME NEW g, GroupCapability(g) = "positional", NEW n \in Members(g)
      PROVE  n \in found /\ capability[n] = "positional"
  <2>1. n \in found
    BY DEF Members
  <2>2. {capability[m] : m \in Members(g)} = {"positional"}
    BY <1>2 DEF GroupCapability
  <2> QED
    BY <2>1, <2>2
<1> QED
  BY <1>1, <1>2 DEF NoDeadSlider

\* A slider moves a motor that can be positioned or that its owner has
\* corrected, and so does that of a group all of whose members are known
\* (models.py, classify_type and capability_for_group).
THEOREM SlidersMove == EntrySpec => []NoDeadSlider
BY SlidersLive, TypeInvHolds, SettingsHold, PTL

=============================================================================
