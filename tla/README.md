# TLA+ specifications of ha_somfy

`ha_somfy` is a Home Assistant integration for the Somfy Connect UAI+ gateway.
This directory holds TLA+ models of its core, the TLC configurations that check
them on small instances, and theorems about them checked by TLAPS. Paths below
are relative to `src/custom_components/ha_somfy/`.

1. [The system](#1-the-system)
2. [The modules](#2-the-modules)
3. [Runs, bounds and what they show](#3-runs-bounds-and-what-they-show)
4. [What is proved](#4-what-is-proved)
5. [Where code and documentation disagree](#5-where-code-and-documentation-disagree)
6. [What is not modelled](#6-what-is-not-modelled)
7. [Plan](#7-plan)

## 1. The system

Everything runs in one asyncio event loop, so the code between two awaits is
atomic, and every hard case is about what other tasks, the gateway and the
network do *during* an await.

| Component | State it keeps | Operations | Interacts with |
| --- | --- | --- | --- |
| Telnet client (`uai/client.py`) | reader/writer, read-loop task, `_pending`, `_msg_id`, connect lock | connect, login, request with one retry, read loop, teardown, disconnect | the gateway over TCP; every other part calls it |
| Wire format (`uai/protocol.py`) | none | encode a request, parse a reply | the client |
| Constants (`const.py`) | none | polarity, thresholds | everybody |
| Data model (`uai/models.py`) | none | classify a motor, apply an override, parse positions, group ids, unique names, group capability | client, coordinator, covers, flows |
| Web client (`web.py`) | session flag, health counters, login and read locks | login, read a device with retries, warn once | the gateway over HTTP; the coordinator calls it |
| Coordinator (`coordinator.py`) | nodes, groups, the set of motors followed and the task that follows them | discovery, refresh, follow a movement | both clients; covers listen to it |
| Cover entities (`cover.py`) | the last state written | open, close, stop, set position; state derived from nodes | coordinator, client |
| Entry lifecycle (`__init__.py`) | the config entry's state, `hass.data`, the update listener | set up, unload, reload, names and gateway info over HTTP | all of the above |
| Flows (`config_flow.py`) | the entry's data and options | install (validate, confirm), options: poll interval, web password, capability of one motor | entry, coordinator |
| Diagnostics (`diagnostics.py`) | none | read-only dump | coordinator |
| Package surface (`uai/__init__.py`) | none | re-exports | |
| Probe scripts (`scripts/`) | none at run time | maintainers' experiments | not part of the integration |

What is hard in each part, and what makes it correct:

* **Telnet client.** Callers share one link, and its replies carry only an id.
  The gateway hangs up on idle links, answers late, out of order or never; a
  request is retried once on a new link; the login of one caller, the teardown
  of another and the read loop interleave; callers are cancelled; the entry is
  unloaded with calls in flight. Correct means: a reply resolves its own call,
  nobody waits for a future no one will resolve, no connection is left behind,
  the request is written at most twice and only while its call runs, every call
  ends.
* **Web client.** The gateway has one session and one "current device" buffer.
  A dead session answers 403 or, with 200, somebody else's device; the buffer
  lags. The refresh and the follow task read concurrently. Correct means: one
  blind's state never lands on another, a dead session is recovered within one
  read, a password that never works is reported, the lock is always passed on.
* **Coordinator and covers.** Two tasks read the same motors and write the same
  nodes while motors move and commands arrive; reads fail; a reply is lost
  although the motor moves. Correct means: a motor is followed until it rests,
  entities show what is known, an answer missed over HTTP erases nothing, the
  follow task ends, and every entity converges to where its motor is.
* **What a cover shows and commands.** Positions pass two parsers, two turns of
  polarity, an average and a gate on writes; commands go to a motor or to a
  group, whose id has several spellings and whose members discovery may not all
  have found. Correct means: no position is invented, a command ends up shown
  as its owner gave it, a group speaks for its members, no write is lost, one
  cover per address and one name per motor, what moves is followed.
* **Install flow.** A check takes many awaits, and the dialog it belongs to may
  be left, and another opened, meanwhile. Correct means: one entry per gateway,
  made of what was checked and confirmed, and no connection left behind.
* **Entry, discovery, options.** A setup is a long sequence of awaits, each of
  which may fail, during which options are saved. Correct means: settings take
  effect and do not undo each other, no entity offers what its hardware lacks,
  every connection is closed, the entry does not stay in a setup, and a motor
  survives a missed discovery pass.

## 2. The modules

### UaiClient, RemoteCalls

`UaiClient` is the telnet client. An action is the code between two awaits that
can suspend. `pc[t]` names the await at which caller `t` is: the connect lock,
`open_connection`, each of the three prompts, its reply, and in a teardown the
read loop or `wait_closed`. `client` holds the client's attributes, `links` both ends
of every connection and what is in flight, `history` what became of each call.

* `Start`, `AcquireLock`, `OpenFails`, `Opened`, `PromptUser`, `PromptPassword`,
  `Greeting`, `LoginFails`, `Abandoned`, `Reply`, `Timeout`, `LinkLost`, `Stopped`,
  `TornDown` and `Cancel` are the turns of `async_request` with the
  `async_connect`, `_open`, `_authenticate` and `_teardown` it calls; `Send` is
  its tail from the new id to the next await, and may itself break and retry.
* `StopReading`, `CloseLink` and `ClearLink` are what `_teardown` does between its
  awaits: the read loop is cancelled and fails the futures, then the transport is
  closed, then `_writer` is cleared. Requests may be written between the first
  two. A cancellation that meets `_teardown` waiting for the read loop is
  swallowed there, and the caller goes on.
* `Dispatch` and `ReadLoopEnds` are `_read_loop` and its `finally` clause.
* `Disconnect`, `DisconnectStopped` and `Disconnected` are `async_disconnect` as
  unloading calls it. Until it has returned, new calls may begin: Home Assistant
  cancels the refresh and the follow task only after `async_unload_entry`.
* The gateway and the network (`GatewayReadsUser` to `ConnectionReset`) are the
  environment: the login dialogue, running a request with or without a reply,
  hanging up, a reset.

Abstractions: a line is a record of kind, id and call. Ids count from the
random start. Replies of other sessions to ids this client never issued, which
the read loop drops, are left out, and the collision of ids with another
session, which protocol.py makes improbable, is not modelled. A request line
fits the transport's buffer, so `drain` does not suspend. The credentials are
right. `Settled` says that closing a transport takes effect before the loop
handles a later connect event.

`RemoteCalls` is what the client promises of a call. `CallContract` states that
`UaiClient` implements it, with the same history variables.

### SomfyWeb

The web client, one action per turn of `async_get_device`: `Ask`, `Acquire`
(the read lock), `LoginEnds`, `DeviceArrives`, `Forbidden` or `FetchFails` (the
endings of a fetch), `Retry` after the pause, `Cancel`. `Rejected` and `Return`
are the two continuations of the retry loop. The gateway is in the environment:
`session`, `target` (its buffer) and `SessionEnds`; `DeviceArrives` lets the
buffer lag and lets a dead session answer with any node. `disturbed` counts
what went wrong in a read besides a session that was dead when it began.

Abstractions: a device is its node (the position string comes with it). The
login lock is held only under the read lock, so it is never contended and is
left out. `async_get_labels`, a series of the same reads, has no caller.

### Coordinator

The refresh (`PollStarts`, `PollStores`), the follow task (`Follow`,
`FollowWakes`, `FollowStores`, `FollowContinues`), commands of covers and the
motors they move (`Command`, `CommandReplied`, `CommandFails`, `Tick`). A read
is asked in one action and stored in a later one. `known` is `node.position`,
`shown` what the entity last wrote. A cover of a group commands its members
together. `followed` and `inherited` are history: the motors followed since the task
started, and those of them commanded again of which no change has been read since, so
that their count of unchanged reads may go back to before that command.

Abstractions: time is counted in ticks of `MOVING_POLL_INTERVAL` (2 s), the
ceiling and the poll interval are small numbers of ticks, and a motor moves one
step a tick from `StartDelay` ticks after its command at the latest. Replies to
one client come in order, so the value stored is the gateway's at that moment.
An entity is its position: closed, opening and availability derive from it. The
nodes are fixed, because discovery runs once before the first refresh. The
failures of the clients are outcomes of a read (`Outcomes`): those both clients
turn into "no value", and those they raise.

### Entry

The config entry: `step` names the await at which `async_setup_entry` is, and
each step has an action for its success and one for its failure. Discovery
(`Ping`, `ReadInfo`, `Probe`, `ReadGroups`, `DiscoveryEnds`) is part of it.
`data` is what the install flow left, the login and whether a web password was
given, `options` are the entry's options, `saved` the settings as the owner last
submitted them, `used` and `capability` what the running setup has made of
them. `Reload`, `RetrySetup` and `AskReload` are Home Assistant's doing: one
setup or reload at a time, a listener call after a save that changed something,
a retry timer after `ConfigEntryNotReady`. `bus` is the hardware, chosen
at the start: whether a motor can be positioned, and whether its type string is
one classify_type recognises. `WellFormed` are the group ids of which
`_build_groups` makes a group. `open` is the set of setups whose client holds a
connection, and `ended` says why a setup ended.

A setup's client is not modelled again: what `UaiClient` shows of it is an outcome
here. `DiscoveryFails` may come at every read of discovery, since a login refused on
a reconnect is an error that none of these reads catches. `Unload` closes the
connection, or, where calls were in flight, leaves one behind (`client_unload`).

Abstractions: the position read of discovery and all display names are left
out (the names of groups and the gateway info may fail without effect). Both
reads of a node's info are one step. An unload is one step, since a save in
the middle of it is heard by the listener as one before it. A dialog for the
poll interval or the web password keeps nothing between its steps, so only the
motor picked is state. The merge of a pass with the nodes of an earlier one is
not modelled, since no coordinator discovers twice (see section 5).

### Covers

What the entities of cover.py show and command, with the parsing, naming and
addressing they rest on: protocol.py, models.py, const.py and the movement calls of
client.py. `site` is an installation as discovery leaves it, `groups` what
`_build_groups` makes of it; neither changes. A member of a group is kept with the
spelling it lists the group in, because the code appends it once per spelling: a
motor that lists a group twice counts twice in the group's average. `at` and `goal`
are the motors, `known` is `node.position`, `ha` and `last` an entity's state in
Home Assistant and its `_last_written`, `calls` the movement requests without a
reply so far, `following` what `async_follow_movement` was given.

* `ReadPosition` is one read of a motor as the refresh or the follow task makes
  it, from the gateway's line to `node.position`: `ParseResponse`,
  `ParsePosition`, `ParseWebPosition`.
* `UpdateListeners` is `_handle_coordinator_update` of every entity: `Snapshot`
  with `MotorPosition` or `GroupPosition`, and the gate (`Update`).
* `Command` and `CommandEnds` are the covers' commands before and after the await
  of their request; `Follow` is `_follow`. `Addressed` and `Obey` are the
  gateway's: which motors a request moves, and where to.
* `Move` and `Drop` are a motor on its way and the follow task giving one up.

`wanted` and `read` are history: what a motor was last asked for, and whether
`known` was read at rest since. Abstractions: a JSON value is its type and its
number in tenths, which `ParsePosition` truncates as `int()` does; a label a
sequence of texts and node ids, so that completing a label with an id
(`DisplayName`) can make it another motor's. Reading and telling the entities happen
at any time, which includes whenever `Coordinator`'s tasks do.

### Install

The install flow, and the entry that comes of it: `Install` extends `Entry`, and
`Entry`'s actions run once the entry is created. `stage` is the step a dialog shows,
`check` the await at which its `_validate` is, `connected` the checks whose client
holds a socket, from before the login on. `SubmitForm`, `Opened`, `Authenticated`,
`CheckFails`, `CheckEnds` and `Confirm` are the handlers up to their awaits. `Leave`
is the owner closing the dialog; its check goes on, and its result is dropped.
Refusing a second flow or entry of one unique id (`Unique`) and dropping other flows
when an entry is created are Home Assistant's doing. `CheckEnds` chooses what the
bus answers to the whole of `async_discover_nodes`, and `Summary` counts it as
`_validate` does, group ids that are not well-formed included.

Abstractions: one gateway under one host name; a form is whether its login is
right and whether it has a web password.

## 3. Runs, bounds and what they show

Definitions named `...Bug` are faulty variants of the definition they precede,
one for each property, which show that the property can be violated.

| Run | Checks | Distinct states |
| --- | --- | --- |
| `client_calls` | types, replies, futures, links, the call contract, and every call ends | 496 k |
| `client_dropped_link`, `client_login`, `client_unload` | the documented promises of section 5 | violated |
| `web_reads` | all properties of `SomfyWeb` | 288 k |
| `coord_follow` | safety of refresh and follow | 3.35 M |
| `coord_ends` | the follow task ends, state converges | 114 k |
| `coord_steered` | section 5 | violated |
| `covers` | all properties of `Covers` | 659 k |
| `entry` | all properties of `Entry` but the one of section 5 | 947 k |
| `entry_one_miss` | section 5 | violated |
| `install` | all properties of `Install`, with the entry's first life | 472 k |

**Client.** Two callers make two calls between them. That lets one caller's
teardown meet the other's login, reply or registration. Two calls write at most
four requests, and `MaxIds` has one id more for a write that fails. `MaxConns`
is 3: one connection each and one reconnection, which either may make; a fourth
cannot be opened, and `open_connection` then fails. One cancellation and one
unload may come at any await. `NoStaleFuture` speaks of runs without a cancellation:
the future of a cancelled caller does stay in `_pending` until the link is lost.
Fairness is one `WF` per caller on all its steps and one on the rest of
`async_disconnect`: every await is bounded by `wait_for`
or by `open_connection`'s timeout, or waits for a local step. Nothing is assumed
of the gateway.

**Web.** Two readers (refresh and follow task), two nodes, the real constants
of const.py (five attempts, re-login after two, warning after three) and reads
until two are counted, which gives up to three, the warning's threshold.
`DeadFeatureIsReported` has the warning come with the third read counted if all have
failed, and not before. Fairness: `WF` on a reader's steps, since each request has a
timeout, and `SF` on taking the lock, since `asyncio.Lock` serves its waiters in order.

**Coordinator.** A telnet motor and a web motor, commanded alone and together.
`coord_follow` gives two commands, so that the second joins a running follow task,
for the same motor or the other, one failed read, a ceiling of six ticks and a poll
interval of five, so that refresh and follow overlap at every offset. A motor starts
up to one tick late and needs two more, so that it could be given up before it
starts and on the way. `SettleReads` is 4, one more than in const.py: with three
and a start delay `FollowedHome` fails (section 5). Four is the least that
satisfies what the theorem about it assumes, and the poll interval is the least too,
four unchanged reads and one failed read, so the run is on the edge of what is
proved (section 4). `FollowedHome` excepts the deadline, which the code sets per
task, and the motors in `inherited`. `coord_steered` has const.py's three reads, one
motor, and a ceiling and an interval that play no part; its property excepts the
deadline and motors that a command in flight is about to have followed again, and
nothing else. In `coord_ends` reads may fail for ever (`EverFaulty`), one tick passes
while a read is under way, and the only fairness is that timers fire and reads end;
`StateConverges` assumes that reads stop failing at some point.

**Covers.** A site carries its own bounds. The houses of a telnet and a web motor
in one group get two commands, or one command and two answers that fail; further
houses have two telnet motors, one of which lists their group in both spellings, a
member discovery missed, and motors whose
capability the owner has corrected. They are followed by every way of labelling
three motors with the five labels that can collide, and every way two motors can
list up to two of five group ids, spelt in either case, the ALL group and a
malformed one among them; there nothing is commanded or fails, since names and
groups never change. `Chosen = {1}` and `Slack = 2` put a motor on either side of
the closed threshold, and `Stop = 50` gives positions that are no end stop.

**Entry.** Two motors in one group, which also list an id that is not well-formed:
both of a type that is recognised, or both of one that is not, and one of them can be
positioned. One fault, which is a lost or refused answer or calls in flight at an
unload, two saves and one reload asked for by the owner, at any await; with and
without a web password given at installation. The number of setups needs no bound of
its own, since each follows one of these. `SettingsTakeEffect` excepts saves made
while a setup is under way and a password cleared in vain, `NoDeadSlider` groups
whose members are not all known, `ConnectionsAreClosed` setups whose discovery
failed and those unloaded with calls in flight: in these cases the code does not
keep the promise (section 5). `Settles` lets the entry end in error where a login
was refused or a discovery failed. Fairness: every await of a setup has a timeout,
queued reloads run, and Home Assistant's retry timer goes off; the owner and the
faults are not fair.

**Install.** Two dialogs, three forms submitted between them, so that both may be
checked, one left and the other tried again; one answer lost, in the check or in the
setup that follows; and one save by the owner once the entry is there, during its
setup too. On its bus one motor is recognised and cannot be positioned, the other
has to be probed and can, and both list a malformed group id. Reloads and more saves
are left to `entry` and to the theorem `InstalledEntryBehaves`. `SummaryIsKept` and
`ConfirmedIsLoaded` speak of a life without faults, in which the bus is the same for
the check and the setup; the first counts malformed group ids apart.

## 4. What is proved

Every theorem is about all values of the constants that satisfy the module's
assumptions: any number of motors, callers, readers, dialogs, calls and faults.

**Client** (`UaiClientProofs`, `UaiLinkProofs`, `UaiContractProofs`; from
`CallersAssumption` and `BoundsAssumption`).

* `Typing`: `Spec => []TypeOK`.
* `RepliesAreOwn`: `Spec => []OwnReply`. A reply in flight names its call and
  its id; that its id belongs to that call is not visible in `OwnReply`. The
  inductive invariant `ReplyInv` adds that the ids of requests and replies on
  the wire were drawn before the next one (`FreshIds`), that a waiting caller
  waits for one of these (`Registered`), and that whatever is on the wire under
  that id is about its call (`Correlated`).
* `WaitersAreRegistered`: `Spec => []NoForgottenWaiter`, by the same invariant.
* `NoFutureIsStale`: `Spec => []NoStaleFuture`, which is inductive with `TypeOK`.
* `NothingLeaks`: `Spec => []NoLeakedConnection`. The inductive invariant
  `LinkInv` adds that exactly the caller inside `_open` holds the connect lock
  (`LockHeld`), and that the link held is closed while someone opens one or waits for
  a transport to close (`ClosedWhileWaiting`). It is needed because `_teardown` runs
  outside the lock, and closes and clears `_writer` after an await each.
* `ReadLoopReadsTheLink`: `Spec => []ReadLoopOwnsLink`, by the same invariant.
* `ClientKeepsContract`: `Spec => CallContract`, the refinement of `RemoteCalls`.
  `ContractInv` adds to `ReplyInv` what relates the two: a busy caller's call has
  begun, has not ended, is nobody else's, and has written no more copies than
  its attempts allow (`Tracked`); the copies on the wire have distinct ids, and
  with those already run they are no more than were written (`WireInv`); and a
  reply, in flight or delivered, is to a call that was run (`RanInv`). That a
  reply delivered is to the caller's own call is `OwnReply` again.

**Web client** (`SomfyWebProofs`; from `WebReadersAssumption` and
`WebBoundsAssumption`).

* `WebTypesHold`, `DeviceIsTheOneAsked`, `BufferStaysAimed`: `WebTypeOK`,
  `NeverAnothersDevice` and `BufferIsOurs`. `WebInv` adds that only the holder of
  the read lock asks the gateway, and where each await leaves its reader
  (`Standing`).
* `DeadFeatureReported`: `DeadFeatureIsReported`, by `HealthInv`: while no read
  has ever succeeded, the failures counted are all the reads made, and no warning has
  been given before enough of them.
* `DeadSessionIsSurvived`: `DeadSessionIsNotFatal`, by `PaidInv`: with the right
  password, all but `ReloginAfter` of the attempts a read has used up are
  disturbances of that read; and an attempt past those has a session, or one more
  disturbance to account for it.

**Coordinator** (`CoordinatorProofs`; from `MotorsAssumption` and
`TicksAssumption`).

* `CoordTypesHold`: `CoordTypeOK`, which says that the follow task runs exactly
  while motors are followed; `CycleInv` adds that those a cycle has left to read
  are still followed.
* `EntitiesShowWhatIsKnown`: `[]ShownIsKnown`.
* `WebStateIsNeverLost`: `CoordSpec => WebStateIsKept`.
* `MotorsAreFollowedHome`: `Undisturbed /\ CoordSpec => FollowedHome`, for motors that
  start late and are steered on the way. `Undisturbed` bounds the constants: the reads
  that settle a motor are more than `StartDelay + 2` and more than `StartDelay` and
  all lost reads together, and with lost reads and slow ticks they take no longer than
  the poll interval. In a moving motor a read that equals the one before it must have
  a cause, and `Watch` counts these against the unchanged reads: the start delay
  (`Early`); a position known by chance from an earlier journey, once; one stored by a
  refresh in the same tick, once, since the next refresh comes too late (`Quiet`); an
  unknown position read again, for which reads were lost (`LossesCount`). The
  conditions tell what const.py's three reads are worth: they satisfy them for motors
  that start at once (with up to two reads lost, and a poll interval of 10 s or more
  against ticks of 2 s), and for no start delay, which is what const.py:60-62 has them
  for; section 5 says how the code fails then. Motors in `inherited` are excepted,
  since `coord_steered` refutes it for them.

**Covers** (`CoversProofs`; from `CoversAssumption`, for any installation).

* `DisplayNamesAreDistinct`, `EveryGroupHasOneCover`: `NamesAreDistinct` and
  `OneCoverPerGroup`, from the installation alone (`Fixed`).
* `NoWriteIsLost`: `WritesAreNotLost`. `WritesInv` adds that `_last_written` is
  what Home Assistant has, or nothing.
* `CommandsDoLand`, `PositionsAreNeverInvented`: `CommandsLand` and
  `NeverInvented`. `LandInv` says of each motor that its goal is the wish turned
  to the gateway's scale, and that at rest it is within `Slack` of it.
* `CommandedAreFollowed`: `MovesAreFollowed`. `CallsInv` adds that a request in
  flight names its target the way its kind requires.
* `CoversTypesHold`: `CoversTypeOK`, by the invariants above and `RestInv`.
* `GroupsSpeakForMembers`: `GroupShowsMembers`. That a rounded average lies between
  the least and the greatest member (`GroupPositionBetween`) needs the sum over a
  set of any size, which is a recursive function on its subsets. As the library's
  induction theorems cannot be used (below), the lemmas about it
  (`SumUnfolds`, `SumExists`, `SumBounds`) take a smallest counterexample, by
  cardinality, and remove an element from it.

**Entry** (`EntryProofs`; from `EntryAssumption`).

* `EntryTyping`: `EntrySpec => []EntryTypeOK`. The inductive invariant `TypeInv`
  adds a count of what causes setups (`Budget`), without which they could
  outnumber `Setups`, and where discovery stands (`Progress`), without which a
  node could be found before it has been classified.
* `ClosedConnections`: `[]ConnectionsAreClosed`: every open connection belongs to the
  setup that runs or is loaded, or to one with a known cause to have left it behind.
  `ConnInv` adds that a setup still in its first await has no connection, nor has one
  to come.
* `SettingsApplied`: `[]SettingsTakeEffect`. `SettingsInv` says at which await a
  setup has read or applied which setting, that a later save is either heard
  by the listener or marked `unheard`, and that the options are what was saved.
* `SlidersMove`: `[]NoDeadSlider`, by the same invariant, which adds that only a
  motor that slides is ever detected as positional.

**Install** (`InstallProofs`; from `EntryAssumption` and `InstallAssumption`).

* `InstallTypesHold`, `OnlyOneEntry`, `CreatedEntryWasChecked`,
  `EveryCheckHangsUp`: `InstallTypeOK`, `OneEntry`, `EntryWasChecked` and
  `ChecksHangUp`. `InstallInv` says that a dialog that goes on is the only open
  one that has set the unique id, and that what it shows to confirm was checked.
* `ConfirmedIsSetUp`: `SummaryIsKept`. The check and the first setup count the
  motors of two discoveries, each a snapshot of its own, and count their groups
  differently: the check counts the ids, the setup builds a group of each well-formed
  one. `FirstSetup` says of a setup
  without faults how far its discovery has come to the whole bus and that nothing is
  corrected yet, whatever the owner saves meanwhile; `Told` that a summary is a
  count of the whole bus.
* `InstalledEntryBehaves`: `EntryTypeOK`, `ConnectionsAreClosed`,
  `SettingsTakeEffect` and `NoDeadSlider` of the entry that the flow creates. Its
  life starts with the data of a form, in a step of a dialog, and dialogs
  step beside it; the invariants of `EntryProofs` are shown to hold where it
  starts (`Installing`), before (`Unstarted`), and through those steps (`LifeInv`).

Each proof has one lemma per action, or per group of actions that do the same to
the invariant, and a temporal step that combines them.

With these, a theorem states every invariant and every action property that a
passing run checks. Only model-checked: liveness (`EveryCallEnds`, `EveryReadEnds`,
`FollowEnds`, `StateConverges`, `Settles`, `ConfirmedIsLoaded`), since TLAPS has no
rules for `ENABLED`, which fairness is defined with. Induction theorems that take
an operator cannot be instantiated by the provers used here; where an induction is
needed it is done on a set, by a smallest counterexample.

## 5. Where code and documentation disagree

Each is a run in which TLC finds the promise violated; `PROJECT.json` quotes the
promise and describes the run.

| Run | Promise | What happens |
| --- | --- | --- |
| `client_dropped_link` | requests reconnect once if the link has dropped | after an idle hang-up the first request is written into the half-closed link and times out |
| `client_login` | the gateway rejected the credentials | another task's request is written into the login dialogue and right credentials are refused |
| `client_unload` | unloading closes the gateway connection | a request in flight takes the disconnect for a dropped link and reconnects |
| `coord_steered` | a motor is not given up before it has moved | the reply to a new command joins the running task, which keeps its count of unchanged reads |
| `entry_one_miss` | a missed pass never removes an entity | each setup starts from an empty coordinator, so the union over passes never happens |

More show up in the models, at the exceptions their properties name, but have no
run of their own:

* Three unchanged reads do not "comfortably" cover a start delay (const.py:60-62).
  A motor that starts a tick late is read unchanged once for it; if its old position
  is unknown, or passed again on the way, or a refresh stores the new one first, one
  read more counts as unchanged although it moves. With `SettleReads = 3` and
  `StartDelay = 1`, `FollowedHome` fails in `coord_follow`.
* Without a delay, three lost reads of one telnet motor do the same (with
  `SettleReads = 3`, `StartDelay = 0` and `MaxFaults = 3`): unknown after unknown counts
  as unchanged, and a refresh that stores the next position first does the rest.
* const.py:41-43 says that the web warning fires "on the second cycle rather than
  instantly", since a poll of nine motors is nine reads. `_maybe_warn` (web.py:198)
  compares the number of single reads with 3, so that it fires at the third read of
  the first cycle; `DeadFeatureIsReported` says when it does.
* An unload or reload with calls in flight may leave a logged-in connection open, as
  `client_unload` shows in the client. `ConnectionsAreClosed` excepts such a setup.
* config_flow.py:86 counts every group id the motors list, coordinator.py:195 makes no
  group of an id it cannot parse: the summary an owner confirms may have more groups
  than the entry.
* A motor that lists a group in upper and in lower case is a member twice
  (coordinator.py:190) and has twice the weight in the group's position, "average of
  the members" (cover.py:299).
* A telnet timeout makes a positional motor unknown, where cover.py:184 says that
  unknown means it reports none. Conversely a motor corrected to non-positional
  keeps the position discovery read before the correction was applied
  (client.py:358), if no web password is set.
* Options saved while a setup is under way are not applied until the next reload
  (`__init__.py`:213, "Reload when options change").
* Clearing the web password brings back the one given at installation
  (config_flow.py:178).
* A motor whose group read was lost is missing from its group, which may then get
  a slider its hardware lacks (cover.py:6).
* A failed discovery raises `UpdateFailed`, which the handler at `__init__.py`:162
  does not catch: the connection stays open and no retry is scheduled. A login
  refused during setup starts a reauthentication flow that config_flow.py does
  not have.
* A motor labelled "A (id of n)" takes the name that `unique_slug_names` gives
  motor n when two motors are labelled "A"; `NamesAreDistinct` excepts it.
* A group of which one member is at 3 and another at 0 is shown closed, as the
  average rounds to 2, while the entity of the first member is open.
* The movement calls of client.py return whether the gateway refused; cover.py
  ignores it and has the motors followed all the same.
* The docstring at cover.py:342 says that the coordinator skips non-positional
  nodes; with a web password it reads and follows them.
* A gateway that has two host names gets two entries: the unique id of a flow is
  the host as it was typed.

## 6. What is not modelled

* In uai/models.py, `find_name_group_conflicts`: a warning without effect on
  state; the dotted spelling of a node id, which is wording.
* Of discovery, the labels and the position read (their results are part of a
  site in `Covers`) and the merge of a pass with an earlier one, which never runs.
* Entity attributes, device classes, the device registry, logging, translations.
* `diagnostics.py` only reads, `uai/__init__.py` re-exports, and `scripts/` are
  maintainers' experiments that no part of the integration runs.

## 7. Plan

Built so far, in this order: `UaiClient` with `RemoteCalls`, `SomfyWeb`,
`Coordinator`, `Entry`, `Covers`, `Install`, and a proof module for each.

1. An abstract specification of following (`Tracker`: a set of motors under
   watch, each leaving only at rest or at a deadline) that `Coordinator`
   implements, with the deadline stated per movement.
2. A composition of `Entry` with `UaiClient`, in place of the two outcomes of
   `Unload`, so that which calls are in flight at an unload decides whether a
   connection is left behind.
