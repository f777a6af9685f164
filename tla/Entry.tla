-------------------------------- MODULE Entry --------------------------------
(***************************************************************************)
(* The life of the config entry: __init__.py sets it up and unloads it,    *)
(* discovery enumerates the bus on the way, and the options flows of       *)
(* config_flow.py save settings meanwhile.  Home Assistant runs one setup  *)
(* or reload at a time and calls the update listener after every save      *)
(* that changed the options.                                               *)
(*                                                                         *)
(* `step` names the await at which async_setup_entry is suspended:         *)
(*   "connect"   client.async_connect                                      *)
(*   "names"     async_fetch_group_names                                   *)
(*   "wake"      the first async_ping_all, whose answer is not used        *)
(*   "ping"      the async_ping_all of async_discover_nodes                *)
(*   "info", "probe", "groups"   its reads of the node `at`                *)
(*   "refresh"   the first refresh, which cannot fail, and gateway info    *)
(*   "platforms" async_forward_entry_setups; the coordinator is published  *)
(* A setup has a coordinator of its own and runs discovery once on it, so  *)
(* found, detected and groups are filled in as the answers come.  The      *)
(* positions discovery reads and the labels of nodes are left out, and a   *)
(* link lost in a read that goes on is opened again by the next read.      *)
(***************************************************************************)
EXTENDS Naturals, FiniteSets

CONSTANTS
  Nodes,            \* the motors on the bus
  NoNode,           \* no motor
  Groups,           \* the group ids that motors list
  WellFormed,       \* those that group_index_for_id can read
  GroupsOf,         \* Node -> the ids it lists, without ALL
  Buses,            \* possible hardware: Node -> [slides, recognised]
  Polls,            \* poll intervals an owner may choose
  DefaultPoll,      \* DEFAULT_POLL_INTERVAL
  WebAtInstall,     \* whether a web password may be given at installation
  MaxSaves,         \* bound: forms submitted
  MaxFaults,        \* bound: answers lost or refused, unloads during a call
  MaxReloads        \* bound: reloads the owner asks for

ASSUME EntryAssumption ==
  /\ IsFiniteSet(Nodes) /\ NoNode \notin Nodes /\ DefaultPoll \in Polls
  /\ GroupsOf \in [Nodes -> SUBSET Groups] /\ WellFormed \subseteq Groups
  /\ Buses \subseteq [Nodes -> [slides : BOOLEAN, recognised : BOOLEAN]]
  /\ WebAtInstall \subseteq BOOLEAN
  /\ MaxSaves \in Nat /\ MaxFaults \in Nat /\ MaxReloads \in Nat

\* Every setup but the first follows a fault, a save or a reload asked for.
Setups == 1..(1 + MaxFaults + MaxSaves + MaxReloads)
MAX_MISSED_DISCOVERIES == 3

Capabilities == {"positional", "non_positional", "unknown"}
Overrides == {"auto", "positional", "non_positional"}
Options == [poll : Polls, web : {"absent", "cleared", "password"},
            overrides : [Nodes -> Overrides]]
NoOptions == [poll |-> DefaultPoll, web |-> "absent",
              overrides |-> [n \in Nodes |-> "auto"]]

\* ConfigEntry.data: the login, right or wrong, and whether there is a web
\* password.  The install flow has found the login of an entry right.
Data == [login : {"right", "wrong"}, web : BOOLEAN]

VARIABLES
  bus,          \* the hardware there is
  data,         \* ConfigEntry.data, which never changes
  entry,        \* ConfigEntry.state
  ended,        \* why each setup failed, or that calls were in flight at its unload
  step, at, left,   \* where setup waits, the node read and those to read
  setups,       \* setups begun
  open,         \* setups whose client has a connection to the gateway
  published,    \* the coordinator is in hass.data
  listening,    \* the update listener is registered
  used,         \* the poll interval and web feature of this setup
  found, detected, capability, member,  \* nodes of the coordinator
  missed,       \* discovery passes in a row each node has not answered
  wasFound,     \* nodes some discovery has found
  options, saved,   \* ConfigEntry.options; the settings as last submitted
  picked,       \* motors that options dialogs are open for
  unheard,      \* options were saved while this setup was under way
  reloads,      \* calls of async_reload that wait for their turn
  saves, faults, asked

flows == <<options, saved, picked, unheard, saves>>
nodes == <<found, detected, capability, member, missed, wasFound>>
life == <<entry, ended, step, at, left, setups, open, published, listening,
          used>>
entryVars == <<bus, data, life, nodes, flows, reloads, faults, asked>>

NothingFound ==
  /\ found' = {}
  /\ detected' = [n \in Nodes |-> "unknown"]
  /\ capability' = [n \in Nodes |-> "unknown"]
  /\ member' = [n \in Nodes |-> {}]

EntryInit ==
  /\ bus \in Buses /\ data \in [login : {"right"}, web : WebAtInstall]
  /\ entry = "in_progress" /\ ended = [s \in Setups |-> "none"]
  /\ step = "connect" /\ at = NoNode /\ left = {} /\ setups = 1
  /\ open = {} /\ published = FALSE /\ listening = FALSE
  /\ used = [poll |-> DefaultPoll, web |-> FALSE]
  /\ found = {} /\ wasFound = {}
  /\ detected = [n \in Nodes |-> "unknown"]
  /\ capability = [n \in Nodes |-> "unknown"]
  /\ member = [n \in Nodes |-> {}]
  /\ missed = [n \in Nodes |-> 0]
  /\ options = NoOptions /\ saved = NoOptions
  /\ picked = {} /\ unheard = FALSE
  /\ reloads = 0 /\ saves = 0 /\ faults = 0 /\ asked = 0

-----------------------------------------------------------------------------
(* Operators of uai/models.py and of the options.  Faulty variants of a     *)
(* definition, for the mutation of a run, are named ...Bug.                 *)

\* classify_type on the type string of n, or on None.
ClassifyBug(n, answered) ==
  IF answered /\ bus[n].recognised /\ ~bus[n].slides
  THEN "non_positional" ELSE "positional"

Classify(n, answered) ==
  IF ~answered \/ ~bus[n].recognised THEN "unknown"
  ELSE IF bus[n].slides THEN "positional" ELSE "non_positional"

OverrideBug(cap, override) == cap

\* apply_capability_override on what the options flow can store.
Override(cap, override) == IF override = "auto" THEN cap ELSE override

\* _build_groups and capability_for_group.  An id that is not well-formed
\* makes no group.
Members(g) == {n \in found : g \in member[n] \cap WellFormed}
GroupCapability(g) ==
  LET caps == {capability[n] : n \in Members(g)}
  IN IF caps = {} THEN "unknown"
     ELSE IF "non_positional" \in caps THEN "non_positional"
     ELSE IF caps = {"positional"} THEN "positional" ELSE "unknown"

\* `entry.options.get(...) or entry.data.get(...)`: cleared is as absent.
WebPassword(o) == o.web = "password" \/ data.web

-----------------------------------------------------------------------------
(* Setting up                                                              *)

Fault(k) == faults + k <= MaxFaults /\ faults' = faults + k

Waiting(s) == entry = "in_progress" /\ step = s

\* Setup goes on to its next await; what it may change on the way is primed
\* by the action.
Await(s) ==
  /\ step' = s
  /\ UNCHANGED <<bus, data, entry, ended, setups, listening, flows, reloads, asked>>

SetupBegins ==
  /\ entry' = "in_progress"
  /\ step' = "connect" /\ at' = NoNode /\ left' = {}
  /\ setups' = setups + 1
  /\ published' = FALSE /\ listening' = FALSE /\ unheard' = FALSE
  /\ NothingFound
  /\ UNCHANGED <<bus, data, used, missed, wasFound, options, saved, picked, saves,
                 asked>>

\* async_setup_entry raises: ConfigEntryNotReady makes Home Assistant try
\* again, anything else leaves the entry in error.
SetupFails(state, why) ==
  /\ entry' = state /\ step' = "done"
  /\ ended' = [ended EXCEPT ![setups] = why]
  /\ at' = NoNode /\ left' = {} /\ NothingFound
  /\ UNCHANGED <<bus, data, setups, published, listening, used, missed, wasFound,
                 flows, reloads, asked>>

NotReadyBug(why) == SetupFails("setup_error", why) /\ open' = open \ {setups}

\* Disconnect, then ConfigEntryNotReady.
NotReady(why) == SetupFails("setup_retry", why) /\ open' = open \ {setups}

\* Poll interval and web password are read as soon as the client is connected.
Connect ==
  /\ Waiting("connect") /\ data.login = "right" /\ Await("names")
  /\ open' = open \cup {setups}
  /\ used' = [poll |-> options.poll, web |-> WebPassword(options)]
  /\ UNCHANGED <<at, left, published, nodes, faults>>

\* The gateway cannot be reached, or hangs up in the login, which the client
\* takes for refused credentials; it does so if they are wrong.
ConnectFails ==
  /\ Waiting("connect") /\ open' = open
  /\ Fault(IF data.login = "right" THEN 1 ELSE 0)
  /\ \/ SetupFails("setup_retry", "unreachable")
     \/ SetupFails("setup_error", "refused")

\* The names of groups may be missing after three attempts: nothing depends
\* on them but display names.  The answer to the first ping is not used.
NamesAndWake ==
  /\ \/ Waiting("names") /\ Await("wake")
     \/ Waiting("wake") /\ Await("ping")
  /\ UNCHANGED <<at, left, open, published, used, nodes, faults>>

WakeFails == Waiting("wake") /\ Fault(1) /\ NotReady("no_ping")

NextNode(rest) ==
  /\ LET n == CHOOSE n \in rest : TRUE IN at' = n /\ left' = rest \ {n}
  /\ Await("info") /\ UNCHANGED <<open, published, used, capability, wasFound>>

\* The ping lists every node but those whose reply was lost; an error reply
\* counts as an empty list, and without a node setup gives up.
Ping ==
  /\ Waiting("ping")
  /\ \/ \E silent \in (SUBSET Nodes) \ {Nodes} :
          /\ Fault(Cardinality(silent))
          /\ missed' = [n \in Nodes |-> IF n \notin silent THEN 0
                          ELSE IF missed[n] = MAX_MISSED_DISCOVERIES
                               THEN missed[n] ELSE missed[n] + 1]
          /\ NextNode(Nodes \ silent)
          /\ UNCHANGED <<found, detected, member>>
     \/ Fault(1) /\ NotReady("empty")

\* async_discover turns the client's error into UpdateFailed, which the
\* handler around it does not catch: nobody disconnects.  From the ping and the
\* info it may be any, from the later reads only a login refused on the way.
DiscoveryFails ==
  /\ \E s \in {"ping", "info", "probe", "groups"} : Waiting(s)
  /\ Fault(1) /\ open' = open
  /\ SetupFails("setup_error", "discovery")

ReadInfoBug ==
  /\ Waiting("info") /\ Fault(0) /\ Await("groups")
  /\ detected' = [detected EXCEPT ![at] = Classify(at, TRUE)]
  /\ UNCHANGED <<at, left, open, published, used, found, capability, member,
                 missed, wasFound>>

\* Both reads of the node's info; error replies leave it without a type.
ReadInfo ==
  /\ Waiting("info")
  /\ \E answered \in BOOLEAN :
       /\ Fault(IF answered THEN 0 ELSE 1)
       /\ detected' = [detected EXCEPT ![at] = Classify(at, answered)]
       /\ Await(IF detected'[at] = "unknown" THEN "probe" ELSE "groups")
  /\ UNCHANGED <<at, left, open, published, used, found, capability, member,
                 missed, wasFound>>

\* A node of unknown type is positional if it gives any result for its
\* position; no answer in time is taken for a no.
Probe ==
  /\ Waiting("probe")
  /\ \E answered \in BOOLEAN :
       /\ Fault(IF answered THEN 0 ELSE 1)
       /\ detected' = [detected EXCEPT ![at] =
            IF answered /\ bus[at].slides THEN "positional"
                                          ELSE "non_positional"]
  /\ Await("groups")
  /\ UNCHANGED <<at, left, open, published, used, found, capability, member,
                 missed, wasFound>>

\* Discovery is over: the overrides stored by now are applied.
DiscoveryEnds(all) ==
  /\ capability' = [n \in Nodes |-> IF n \in all
                      THEN Override(detected[n], options.overrides[n])
                      ELSE "unknown"]
  /\ at' = NoNode /\ left' = {} /\ Await("refresh")
  /\ UNCHANGED <<open, published, used, wasFound>>

\* The node's groups, none if the answer is lost; then the next node.
ReadGroups ==
  /\ Waiting("groups")
  /\ \E answered \in BOOLEAN :
       /\ Fault(IF answered THEN 0 ELSE 1)
       /\ member' = [member EXCEPT ![at] = IF answered THEN GroupsOf[at] ELSE {}]
  /\ found' = found \cup {at}
  /\ IF left = {} THEN DiscoveryEnds(found') ELSE NextNode(left)
  /\ UNCHANGED <<detected, missed>>

\* First refresh and gateway info; then the coordinator is in hass.data and
\* the covers are added.
Publish ==
  /\ Waiting("refresh") /\ Await("platforms")
  /\ published' = TRUE /\ wasFound' = wasFound \cup found
  /\ UNCHANGED <<at, left, open, used, found, detected, capability, member,
                 missed, faults>>

\* The update listener is registered last.
Loaded ==
  /\ Waiting("platforms")
  /\ entry' = "loaded" /\ step' = "done" /\ listening' = TRUE
  /\ UNCHANGED <<bus, data, ended, at, left, setups, open, published, used, nodes,
                 flows, reloads, faults, asked>>

-----------------------------------------------------------------------------
(* Unloading, reloading and trying again, one at a time                    *)

UnloadBug == UNCHANGED <<open, ended, faults>>

\* async_unload_entry: the client is disconnected, but a call in flight at that
\* moment may take this for a dropped link and connect again (UaiClient).
Unload ==
  \/ open' = open \ {setups} /\ UNCHANGED <<ended, faults>>
  \/ UNCHANGED open /\ ended' = [ended EXCEPT ![setups] = "in_flight"] /\ Fault(1)

\* async_reload_entry, and the owner's reload: unload if loaded, then set up.
Reload ==
  /\ reloads > 0 /\ entry # "in_progress"
  /\ reloads' = reloads - 1
  /\ IF entry = "loaded" THEN Unload ELSE UNCHANGED <<open, ended, faults>>
  /\ SetupBegins

AskReload ==
  /\ asked < MaxReloads /\ asked' = asked + 1 /\ reloads' = reloads + 1
  /\ UNCHANGED <<bus, data, life, nodes, flows, faults>>

\* Home Assistant tries again after ConfigEntryNotReady.
RetrySetup ==
  /\ entry = "setup_retry" /\ SetupBegins /\ UNCHANGED <<open, ended, faults, reloads>>

-----------------------------------------------------------------------------
(* The options flows.  A dialog for the poll interval or the web password   *)
(* keeps nothing between two steps; one for a motor keeps the motor picked, *)
(* which may be gone when the dialog is submitted.                          *)

\* The list to pick from is that of the coordinator in hass.data.
PickMotor ==
  /\ published /\ saves + Cardinality(picked) < MaxSaves
  /\ \E n \in found : picked' = picked \cup {n}
  /\ UNCHANGED <<bus, data, life, nodes, options, saved, unheard, saves, reloads,
                 faults, asked>>

\* An edit changes one setting: the poll interval, the web password or the
\* override of one motor.
Edits ==
  [page : {"polling"}, value : Polls, motor : {NoNode}] \cup
  [page : {"web"}, value : {"cleared", "password"}, motor : {NoNode}] \cup
  [page : {"motor"}, value : Overrides, motor : picked]

Edited(o, e) ==
  CASE e.page = "polling" -> [o EXCEPT !.poll = e.value]
    [] e.page = "web"     -> [o EXCEPT !.web = e.value]
    [] e.page = "motor"   -> [o EXCEPT !.overrides[e.motor] = e.value]

\* _save merges the edit into the options there are when it is submitted;
\* "auto" removes the motor's override.
Save(e) == Edited(options, e)

\* Submitting a form stores the options; Home Assistant tells the listener,
\* if there is one, of a change.
Submit ==
  /\ saves < MaxSaves /\ saves' = saves + 1
  /\ \E e \in Edits :
       /\ options' = Save(e) /\ saved' = Edited(saved, e)
       /\ picked' = picked \ {e.motor}
  /\ IF options' = options THEN UNCHANGED <<reloads, unheard>>
     ELSE /\ reloads' = IF listening THEN reloads + 1 ELSE reloads
          /\ unheard' = (unheard \/ (~listening /\ entry = "in_progress"))
  /\ UNCHANGED <<bus, data, life, nodes, faults, asked>>

-----------------------------------------------------------------------------
SetupStep ==
  \/ Connect \/ ConnectFails \/ NamesAndWake \/ WakeFails
  \/ Ping \/ DiscoveryFails \/ ReadInfo \/ Probe \/ ReadGroups
  \/ Publish \/ Loaded

EntryNext ==
  \/ SetupStep \/ Reload \/ RetrySetup \/ AskReload \/ PickMotor \/ Submit

EntrySpec == EntryInit /\ [][EntryNext]_entryVars

\* Every await of a setup is bounded by a timeout, queued reloads run one
\* after the other, and Home Assistant's retry timer goes off.
EntryFairSpec ==
  EntrySpec /\ WF_entryVars(SetupStep) /\ WF_entryVars(Reload)
            /\ WF_entryVars(RetrySetup)

-----------------------------------------------------------------------------
(* Properties                                                              *)

Endings == {"none", "unreachable", "refused", "no_ping", "empty", "discovery",
            "in_flight"}

\* Every variable has its type, and a node that discovery has done with has
\* been classified or probed (client.py, async_discover_nodes).
EntryTypeOK ==
  /\ bus \in Buses /\ data \in [login : {"right"}, web : BOOLEAN]
  /\ entry \in {"in_progress", "loaded", "setup_retry", "setup_error"}
  /\ ended \in [Setups -> Endings]
  /\ step \in {"connect", "names", "wake", "ping", "info", "probe", "groups",
               "refresh", "platforms", "done"}
  /\ at \in Nodes \cup {NoNode} /\ left \subseteq Nodes
  /\ (at \in Nodes) <=> step \in {"info", "probe", "groups"}
  /\ setups \in Setups /\ open \subseteq Setups
  /\ published \in BOOLEAN /\ listening \in BOOLEAN
  /\ used \in [poll : Polls, web : BOOLEAN]
  /\ found \subseteq Nodes /\ wasFound \subseteq Nodes
  /\ \A n \in found : detected[n] # "unknown"
  /\ detected \in [Nodes -> Capabilities]
  /\ capability \in [Nodes -> Capabilities]
  /\ member \in [Nodes -> SUBSET Groups]
  /\ missed \in [Nodes -> 0..MAX_MISSED_DISCOVERIES]
  /\ options \in Options /\ saved \in Options
  /\ picked \subseteq Nodes
  /\ unheard \in BOOLEAN
  /\ reloads \in 0..(MaxSaves + MaxReloads) /\ asked \in 0..MaxReloads
  /\ saves \in 0..MaxSaves /\ faults \in 0..MaxFaults

\* What the owner asked for: the web password given at installation counts
\* until the owner has said otherwise.
WebWanted == IF saved.web = "absent" THEN data.web
             ELSE saved.web = "password"

\* Clearing a password given at installation brings it back, against
\* config_flow.py ("Submitting an empty box clears it").
ClearedInVain == saved.web = "cleared" /\ data.web

InEffect ==
  /\ used.poll = saved.poll /\ (used.web = WebWanted \/ ClearedInVain)
  /\ \A n \in found :
       capability[n] = IF saved.overrides[n] = "auto" THEN detected[n]
                       ELSE saved.overrides[n]

\* An entry that is loaded and about to stay so runs with the settings last
\* saved in each section, whichever dialogs were open at once (config_flow.py,
\* _save; __init__.py, async_reload_entry).  Those saved while it was being set
\* up are excepted: nobody listened, and the next reload alone applies them; and
\* so is a password ClearedInVain.
SettingsTakeEffect ==
  entry = "loaded" /\ reloads = 0 /\ ~unheard => InEffect

Slides(n) == bus[n].slides \/ options.overrides[n] = "positional"
RealMembers(g) == {n \in Nodes : g \in GroupsOf[n]}

\* "No entity ever advertises a feature its hardware lacks": a motor's slider
\* moves a motor that can be positioned, or that its owner has corrected, and
\* a group all of whose members are known has a slider only if each of them
\* can (models.py, classify_type and capability_for_group).
NoDeadSlider ==
  entry = "loaded" /\ reloads = 0 /\ ~unheard =>
    /\ \A n \in found : capability[n] = "positional" => Slides(n)
    /\ \A g \in Groups :
         GroupCapability(g) = "positional" /\ Members(g) = RealMembers(g)
           => \A n \in RealMembers(g) : Slides(n)

\* A connection has an owner or a known cause: its setup is under way or loaded,
\* or its discovery failed, or calls were in flight when it was unloaded.  In
\* these two cases the code does leave it behind; every other way for a setup to
\* end closes it (__init__.py, async_setup_entry and async_unload_entry).
ConnectionsAreClosed ==
  \A s \in open : \/ s = setups /\ entry \in {"in_progress", "loaded"}
                  \/ ended[s] \in {"discovery", "in_flight"}

\* A motor that has had an entity keeps it until it has missed three
\* discovery passes in a row (coordinator.py, async_discover).
OneMissSurvives ==
  entry = "loaded" =>
    \A n \in wasFound : missed[n] < MAX_MISSED_DISCOVERIES => n \in found

\* Once nothing fails and nobody saves, the entry ends up loaded with no
\* reload to come, or in the error state of a refused login or a failed
\* discovery, and never stays in a setup.
Settles ==
  <>[](/\ reloads = 0
       /\ entry = "loaded" \/ ended[setups] \in {"refused", "discovery"})
=============================================================================
