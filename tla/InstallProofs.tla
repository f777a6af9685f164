---------------------------- MODULE InstallProofs ----------------------------
(***************************************************************************)
(* Theorems about Install for any bus and any number of dialogs, forms and *)
(* faults.                                                                 *)
(***************************************************************************)
EXTENDS Install, EntryProofs

USE EntryAssumption, InstallAssumption DEF EntryAssumption, InstallAssumption

-----------------------------------------------------------------------------
(* A dialog that goes on has set the gateway's unique id, is the only such *)
(* one that is open, and is open only until the entry is created; what it  *)
(* shows to confirm has been checked, and found motors.                    *)

\* Where dialog f stands.
Stands(f) ==
  /\ check[f] # "none" => f \in named
  /\ stage[f] \in {"confirm", "created"} => f \in named /\ check[f] = "none"
  /\ check[f] = "discover" => form[f].login = "right"
  /\ f \in connected => check[f] \in {"login", "discover"}
  /\ stage[f] = "confirm" => /\ held[f] = form[f] /\ form[f].login = "right"
                             /\ summary[f].motors > 0
  /\ stage[f] = "created" => /\ data = form[f] /\ form[f].login = "right"
                             /\ summary[f].motors > 0

\* Of two dialogs that have set the unique id, at most one is open or created.
Going(f) == f \in named /\ (Open(f) \/ stage[f] = "created")
Alone == \A f, g \in Flows : Going(f) /\ Going(g) => f = g

InstallInv == InstallTypeOK /\ Alone /\ \A f \in Flows : Stands(f)

LEMMA DataKept == [EntryNext]_entryVars => data' = data
<1>1. Ping \/ ReadGroups => data' = data
  BY DEF Ping, ReadGroups, NextNode, DiscoveryEnds, Await, NotReady, SetupFails
<1>2. Connect \/ NamesAndWake \/ ReadInfo \/ Probe \/ Publish => data' = data
  BY DEF Connect, NamesAndWake, ReadInfo, Probe, Publish, Await
<1>3. ConnectFails \/ WakeFails \/ DiscoveryFails \/ Loaded => data' = data
  BY DEF ConnectFails, WakeFails, DiscoveryFails, Loaded, NotReady, SetupFails
<1>4. Reload \/ RetrySetup \/ AskReload \/ PickMotor \/ Submit => data' = data
  BY DEF Reload, RetrySetup, AskReload, PickMotor, Submit, SetupBegins
<1> QED BY <1>1, <1>2, <1>3, <1>4 DEF EntryNext, SetupStep, entryVars

LEMMA SummaryType ==
  ASSUME NEW answering \in SUBSET Nodes, NEW lost
  PROVE  Summary(answering, lost) \in
           [motors : 0..Cardinality(Nodes), positional : 0..Cardinality(Nodes),
            groups : 0..Cardinality(Groups)]
<1>1. ASSUME NEW S, IsFiniteSet(S), NEW T \in SUBSET S
      PROVE  Cardinality(T) \in 0..Cardinality(S)
  <2>1. Cardinality(T) <= Cardinality(S) /\ IsFiniteSet(T)
    BY <1>1, FS_Subset
  <2> QED BY <1>1, <2>1, FS_CardinalityType
<1>2. Cardinality(answering) \in 0..Cardinality(Nodes)
  BY <1>1
<1>3. Cardinality({n \in answering : Capability(n, lost) = "positional"})
        \in 0..Cardinality(Nodes)
  BY <1>1
<1>4. UNION {GroupsOf[n] : n \in {m \in answering : <<m, "groups">> \notin lost}}
        \in SUBSET Groups
  <2>1. \A n \in answering : GroupsOf[n] \subseteq Groups
    OBVIOUS
  <2> DEFINE S == {m \in answering : <<m, "groups">> \notin lost}
  <2>2. ASSUME NEW g \in UNION {GroupsOf[n] : n \in S} PROVE g \in Groups
    <3> PICK n \in S : g \in GroupsOf[n]
      OBVIOUS
    <3>1. n \in answering
      OBVIOUS
    <3> QED BY <2>1, <3>1
  <2> QED BY <2>2
<1>5. Cardinality(UNION {GroupsOf[n] : n \in
        {m \in answering : <<m, "groups">> \notin lost}}) \in 0..Cardinality(Groups)
  BY <1>1, <1>4
<1> QED BY <1>2, <1>3, <1>5 DEF Summary

LEMMA InstallInvInit == LifeInit => InstallInv
<1> SUFFICES ASSUME LifeInit PROVE InstallInv
  OBVIOUS
<1>1. /\ stage = [f \in Flows |-> "user"] /\ check = [f \in Flows |-> "none"]
      /\ connected = {} /\ named = {} /\ tries = 0
      /\ form = [f \in Flows |-> Unset] /\ held = form
      /\ summary = [f \in Flows |-> NoSummary]
  BY DEF LifeInit
<1>2. Unset \in Data
  BY DEF Unset, Data
<1>3. NoSummary \in [motors : 0..Cardinality(Nodes), positional : 0..Cardinality(Nodes),
                     groups : 0..Cardinality(Groups)]
  <2>1. Cardinality(Nodes) \in Nat /\ Cardinality(Groups) \in Nat
    BY FS_CardinalityType
  <2> QED BY <2>1 DEF NoSummary
<1>4. InstallTypeOK
  BY <1>1, <1>2, <1>3 DEF InstallTypeOK
<1>5. Alone /\ \A f \in Flows : Stands(f)
  BY <1>1 DEF Alone, Going, Stands
<1> QED BY <1>4, <1>5 DEF InstallInv

LEMMA SubmitKeeps ==
  ASSUME InstallInv, NEW f \in Flows, SubmitForm(f)
  PROVE  InstallInv'
<1>1. /\ stage[f] = "user" /\ check[f] = "none" /\ tries < MaxTries
      /\ tries' = tries + 1 /\ UNCHANGED <<connected, held, summary, data>>
  BY DEF SubmitForm, entryVars
<1>2. CASE ~Unique(f) /\ stage' = [stage EXCEPT ![f] = "aborted"]
           /\ UNCHANGED <<check, named, form>>
  <2>1. InstallTypeOK'
    BY <1>1, <1>2 DEF InstallInv, InstallTypeOK
  <2>2. Alone'
    BY <1>1, <1>2 DEF InstallInv, InstallTypeOK, Alone, Going, Open
  <2>3. \A g \in Flows : Stands(g)'
    BY <1>1, <1>2 DEF InstallInv, InstallTypeOK, Stands
  <2> QED BY <2>1, <2>2, <2>3 DEF InstallInv
<1>3. CASE Unique(f) /\ UNCHANGED stage
  <2> PICK d \in Data : form' = [form EXCEPT ![f] = d]
    BY <1>3, <1>1 DEF SubmitForm, InstallInv, InstallTypeOK
  <2>1. check' = [check EXCEPT ![f] = "connect"] /\ named' = named \cup {f}
    BY <1>3, <1>1 DEF SubmitForm, InstallInv, InstallTypeOK
  <2>2. InstallTypeOK'
    BY <1>1, <1>3, <2>1 DEF InstallInv, InstallTypeOK
  <2>3. Alone'
    BY <1>1, <1>3, <2>1 DEF InstallInv, Alone, Going, Unique, Created, Open
  <2>4. \A g \in Flows : Stands(g)'
    BY <1>1, <1>3, <2>1 DEF InstallInv, InstallTypeOK, Stands
  <2> QED BY <2>2, <2>3, <2>4 DEF InstallInv
<1> QED BY <1>2, <1>3 DEF SubmitForm

LEMMA CheckedKeeps ==
  ASSUME InstallInv, NEW f \in Flows, check[f] # "none", Checked(f)
  PROVE  /\ UNCHANGED <<stage, held, summary>> => InstallInv'
         /\ \A s \in [motors : 0..Cardinality(Nodes), positional : 0..Cardinality(Nodes),
                      groups : 0..Cardinality(Groups)] :
              /\ check[f] = "discover" /\ summary' = [summary EXCEPT ![f] = s]
              /\ IF Accepted(s) /\ stage[f] = "user"
                 THEN /\ held' = [held EXCEPT ![f] = form[f]]
                      /\ stage' = [stage EXCEPT ![f] = "confirm"]
                 ELSE UNCHANGED <<held, stage>>
              => InstallInv'
<1>1. /\ check' = [check EXCEPT ![f] = "none"] /\ connected' = connected \ {f}
      /\ UNCHANGED <<named, form, tries, data>>
  BY DEF Checked, Disconnect
<1>2. ASSUME UNCHANGED <<stage, held, summary>> PROVE InstallInv'
  <2>1. InstallTypeOK'
    BY <1>1, <1>2 DEF InstallInv, InstallTypeOK
  <2>2. Alone'
    BY <1>1, <1>2 DEF InstallInv, Alone, Going, Open
  <2>3. \A g \in Flows : Stands(g)'
    BY <1>1, <1>2 DEF InstallInv, InstallTypeOK, Stands
  <2> QED BY <2>1, <2>2, <2>3 DEF InstallInv
<1>3. ASSUME NEW s \in [motors : 0..Cardinality(Nodes),
                        positional : 0..Cardinality(Nodes),
                        groups : 0..Cardinality(Groups)],
             check[f] = "discover", summary' = [summary EXCEPT ![f] = s],
             IF Accepted(s) /\ stage[f] = "user"
             THEN /\ held' = [held EXCEPT ![f] = form[f]]
                  /\ stage' = [stage EXCEPT ![f] = "confirm"]
             ELSE UNCHANGED <<held, stage>>
      PROVE  InstallInv'
  <2>1. CASE Accepted(s) /\ stage[f] = "user"
    <3>1. InstallTypeOK'
      <4>1. summary' \in [Flows -> [motors : 0..Cardinality(Nodes),
                                    positional : 0..Cardinality(Nodes),
                                    groups : 0..Cardinality(Groups)]]
        BY <1>3 DEF InstallInv, InstallTypeOK
      <4>2. /\ stage' \in [Flows -> {"user", "confirm", "created", "aborted"}]
            /\ check' \in [Flows -> {"none", "connect", "login", "discover"}]
            /\ held' \in [Flows -> Data]
        <5>1. /\ stage \in [Flows -> {"user", "confirm", "created", "aborted"}]
              /\ stage' = [stage EXCEPT ![f] = "confirm"]
          BY <1>3, <2>1 DEF InstallInv, InstallTypeOK
        <5>2. check' \in [Flows -> {"none", "connect", "login", "discover"}]
          BY <1>1 DEF InstallInv, InstallTypeOK
        <5>3. /\ held \in [Flows -> Data] /\ form \in [Flows -> Data]
              /\ held' = [held EXCEPT ![f] = form[f]]
          BY <1>3, <2>1 DEF InstallInv, InstallTypeOK
        <5>4. held' \in [Flows -> Data]
          BY <5>3
        <5> QED BY <5>1, <5>2, <5>4
      <4>3. /\ connected' \subseteq Flows /\ named' \subseteq Flows
            /\ tries' \in 0..MaxTries /\ form' \in [Flows -> Data]
        BY <1>1 DEF InstallInv, InstallTypeOK
      <4>4. ASSUME NEW g \in Flows, stage'[g] \in {"confirm", "created"}
            PROVE  check'[g] = "none"
        <5>1. CASE g = f
          BY <1>1, <5>1 DEF InstallInv, InstallTypeOK
        <5>2. CASE g # f
          <6>1. stage'[g] = stage[g] /\ check'[g] = check[g]
            BY <1>1, <1>3, <2>1, <5>2 DEF InstallInv, InstallTypeOK
          <6> QED BY <4>4, <6>1 DEF InstallInv, InstallTypeOK
        <5> QED BY <5>1, <5>2
      <4> QED BY <4>1, <4>2, <4>3, <4>4 DEF InstallTypeOK
    <3>2. Alone'
      BY <1>1, <1>3, <2>1 DEF InstallInv, InstallTypeOK, Alone, Going, Open
    <3>3. \A g \in Flows : Stands(g)'
      BY <1>1, <1>3, <2>1 DEF InstallInv, InstallTypeOK, Stands, Accepted
    <3> QED BY <3>1, <3>2, <3>3 DEF InstallInv
  <2>2. CASE ~(Accepted(s) /\ stage[f] = "user")
    <3>1. InstallTypeOK'
      BY <1>1, <1>3, <2>2 DEF InstallInv, InstallTypeOK
    <3>2. Alone'
      BY <1>1, <1>3, <2>2 DEF InstallInv, InstallTypeOK, Alone, Going, Open
    <3>3. stage[f] \notin {"confirm", "created"}
      BY DEF InstallInv, Stands
    <3>4. \A g \in Flows : Stands(g)'
      BY <1>1, <1>3, <2>2, <3>3 DEF InstallInv, InstallTypeOK, Stands
    <3> QED BY <3>1, <3>2, <3>4 DEF InstallInv
  <2> QED BY <2>1, <2>2
<1> QED BY <1>2, <1>3

LEMMA ConfirmKeeps ==
  ASSUME InstallInv, NEW f \in Flows, Confirm(f)
  PROVE  InstallInv'
<1>1. /\ stage[f] = "confirm" /\ data' = held[f]
      /\ stage' = [g \in Flows |-> IF g = f THEN "created"
                                   ELSE IF g \in named /\ Open(g) THEN "aborted"
                                   ELSE stage[g]]
      /\ UNCHANGED <<check, connected, named, form, held, summary, tries>>
  BY DEF Confirm, EntryData
<1>2. Going(f)
  BY <1>1 DEF InstallInv, Stands, Going, Open
<1>3. ASSUME NEW g \in Flows \ {f}
      PROVE  /\ stage[g] # "created" /\ (g \in named => ~Open(g))
             /\ stage'[g] = stage[g]
  BY <1>1, <1>2, <1>3 DEF InstallInv, Alone, Going, Stands
<1>4. InstallTypeOK'
  BY <1>1, <1>3 DEF InstallInv, InstallTypeOK, Stands
<1>5. Alone'
  BY <1>1, <1>3 DEF InstallInv, Alone, Going, Open
<1>6. \A g \in Flows : Stands(g)'
  <2>1. Stands(f)'
    BY <1>1 DEF InstallInv, Stands
  <2>2. ASSUME NEW g \in Flows \ {f} PROVE Stands(g)'
    BY <1>1, <1>3, <2>2 DEF InstallInv, Stands
  <2> QED BY <2>1, <2>2
<1> QED BY <1>4, <1>5, <1>6 DEF InstallInv

LEMMA InstallInvNext == InstallInv /\ [LifeNext]_lifeVars => InstallInv'
<1> SUFFICES ASSUME InstallInv, [LifeNext]_lifeVars PROVE InstallInv'
  OBVIOUS
<1>1. ASSUME NEW f \in Flows, SubmitForm(f) PROVE InstallInv'
  BY <1>1, SubmitKeeps
<1>2. ASSUME NEW f \in Flows, Authenticated(f) PROVE InstallInv'
  <2>1. /\ check[f] = "login" /\ form[f].login = "right"
        /\ check' = [check EXCEPT ![f] = "discover"]
        /\ UNCHANGED <<stage, connected, named, form, held, summary, tries, data>>
    BY <1>2 DEF Authenticated, entryVars
  <2>2. InstallTypeOK'
    BY <2>1 DEF InstallInv, InstallTypeOK
  <2>3. Alone'
    BY <2>1 DEF InstallInv, Alone, Going, Open
  <2>4. \A g \in Flows : Stands(g)'
    BY <2>1 DEF InstallInv, InstallTypeOK, Stands
  <2> QED BY <2>2, <2>3, <2>4 DEF InstallInv
<1>o. ASSUME NEW f \in Flows, Opened(f) PROVE InstallInv'
  <2>1. /\ check[f] = "connect" /\ check' = [check EXCEPT ![f] = "login"]
        /\ connected' = connected \cup {f}
        /\ UNCHANGED <<stage, named, form, held, summary, tries, data>>
    BY <1>o DEF Opened, entryVars
  <2>2. InstallTypeOK'
    BY <2>1 DEF InstallInv, InstallTypeOK
  <2>3. Alone'
    BY <2>1 DEF InstallInv, Alone, Going, Open
  <2>4. \A g \in Flows : Stands(g)'
    BY <2>1 DEF InstallInv, InstallTypeOK, Stands
  <2> QED BY <2>2, <2>3, <2>4 DEF InstallInv
<1>3. ASSUME NEW f \in Flows, CheckFails(f) PROVE InstallInv'
  BY <1>3, CheckedKeeps DEF CheckFails
<1>4. ASSUME NEW f \in Flows, CheckEnds(f) PROVE InstallInv'
  <2> PICK answering \in SUBSET Nodes : \E lost \in Lost(answering) :
        LET s == Summary(answering, lost) IN
        /\ summary' = [summary EXCEPT ![f] = s]
        /\ IF Accepted(s) /\ stage[f] = "user"
           THEN /\ held' = [held EXCEPT ![f] = form[f]]
                /\ stage' = [stage EXCEPT ![f] = "confirm"]
           ELSE UNCHANGED <<held, stage>>
    BY <1>4 DEF CheckEnds
  <2>1. check[f] = "discover" /\ check[f] # "none" /\ Checked(f)
    BY <1>4 DEF CheckEnds
  <2> QED BY <2>1, SummaryType, CheckedKeeps
<1>5. ASSUME NEW f \in Flows, Confirm(f) PROVE InstallInv'
  BY <1>5, ConfirmKeeps
<1>6. ASSUME NEW f \in Flows, Leave(f) PROVE InstallInv'
  <2>1. /\ Open(f) /\ stage' = [stage EXCEPT ![f] = "aborted"]
        /\ UNCHANGED <<check, connected, named, form, held, summary, tries, data>>
    BY <1>6 DEF Leave, entryVars
  <2>2. InstallTypeOK'
    BY <2>1 DEF InstallInv, InstallTypeOK
  <2>3. Alone'
    BY <2>1 DEF InstallInv, InstallTypeOK, Alone, Going, Open
  <2>4. \A g \in Flows : Stands(g)'
    BY <2>1 DEF InstallInv, InstallTypeOK, Stands
  <2> QED BY <2>2, <2>3, <2>4 DEF InstallInv
<1>7. ASSUME UNCHANGED <<flowVars, data>> PROVE InstallInv'
  BY <1>7 DEF flowVars, InstallInv, InstallTypeOK, Alone, Going, Open, Stands
<1>8. CASE EntryNext /\ UNCHANGED flowVars
  BY <1>7, <1>8, DataKept
<1>9. CASE UNCHANGED lifeVars
  BY <1>7, <1>9 DEF lifeVars, entryVars
<1> QED
  BY <1>1, <1>2, <1>o, <1>3, <1>4, <1>5, <1>6, <1>8, <1>9 DEF LifeNext, FlowStep

LEMMA InstallInvAlways == LifeSpec => []InstallInv
BY InstallInvInit, InstallInvNext, PTL DEF LifeSpec

\* Every variable of the dialogs keeps its type.
THEOREM InstallTypesHold == LifeSpec => []InstallTypeOK
<1>1. InstallInv => InstallTypeOK
  BY DEF InstallInv
<1> QED BY <1>1, InstallInvAlways, PTL

\* However many dialogs are opened, left and confirmed, in any order, the gateway
\* gets one entry (config_flow.py, async_step_user).
THEOREM OnlyOneEntry == LifeSpec => []OneEntry
<1>1. InstallInv => OneEntry
  BY DEF InstallInv, Alone, Going, Stands, OneEntry
<1> QED BY <1>1, InstallInvAlways, PTL

\* The entry is created with the form that was checked: the gateway let it in,
\* and a motor answered (config_flow.py, _validate and async_step_confirm).
THEOREM CreatedEntryWasChecked == LifeSpec => []EntryWasChecked
<1>1. InstallInv => EntryWasChecked
  BY DEF InstallInv, Stands, EntryWasChecked
<1> QED BY <1>1, InstallInvAlways, PTL

\* No check leaves a connection behind, also when its dialog has been left
\* (config_flow.py, `finally` of _validate).
THEOREM EveryCheckHangsUp == LifeSpec => []ChecksHangUp
<1>1. InstallInv => ChecksHangUp
  BY DEF InstallInv, InstallTypeOK, Stands, ChecksHangUp
<1> QED BY <1>1, InstallInvAlways, PTL

-----------------------------------------------------------------------------
(* The life of an entry that a dialog has created is one of EntrySpec but  *)
(* for two things: its data come from the dialog, before the first setup   *)
(* reads them, and checks meet faults too.  So what EntryProofs shows of   *)
(* the steps of an entry shows the same of the entry that gets installed.  *)

Unstarted == ~Created => entry = "in_progress" /\ step = "connect"

EntryInv == TypeInv /\ ConnInv /\ SettingsInv
LifeInv == InstallInv /\ Unstarted /\ EntryInv

\* What a dialog does to the variables of the entry.
Installing ==
  /\ UNCHANGED <<bus, life, nodes, flows, reloads, asked>>
  /\ faults' \in faults..MaxFaults
  /\ \/ data' = data
     \/ /\ data' \in [login : {"right"}, web : BOOLEAN]
        /\ entry = "in_progress" /\ step = "connect"

LEMMA FaultOnlyAdds ==
  ASSUME faults \in Nat, NEW k \in Nat, Fault(k)
  PROVE  faults' \in faults..MaxFaults /\ (faults' = 0 => k = 0)
BY DEF Fault

LEMMA DiscoveryFaults ==
  ASSUME NEW answering \in SUBSET Nodes, NEW lost \in Lost(answering)
  PROVE  /\ Missed(answering) + Cardinality(lost) \in Nat
         /\ Missed(answering) + Cardinality(lost) = 0 => answering = Nodes /\ lost = {}
<1>1. IsFiniteSet(answering) /\ IsFiniteSet(Nodes \ answering)
  BY FS_Subset
<1>2. IsFiniteSet({"info", "probe", "groups"})
  <2>1. IsFiniteSet({"info"}) /\ IsFiniteSet({"probe"}) /\ IsFiniteSet({"groups"})
    BY FS_Singleton
  <2>2. IsFiniteSet({"info"} \cup ({"probe"} \cup {"groups"}))
    BY <2>1, FS_Union
  <2>3. {"info", "probe", "groups"} = {"info"} \cup ({"probe"} \cup {"groups"})
    OBVIOUS
  <2> QED BY <2>2, <2>3
<1>3. IsFiniteSet(answering \X {"info", "probe", "groups"})
  BY <1>1, <1>2, FS_Product
<1>4. IsFiniteSet(lost)
  BY <1>3, FS_Subset DEF Lost
<1>5. Cardinality(Nodes \ answering) \in Nat /\ Cardinality(lost) \in Nat
  BY <1>1, <1>4, FS_CardinalityType
<1>6. Missed(answering) \in Nat /\ (Missed(answering) = 0 => Nodes \ answering = {})
  BY <1>1, <1>5, FS_EmptySet DEF Missed
<1>7. Cardinality(lost) = 0 => lost = {}
  BY <1>4, FS_EmptySet
<1>8. Nodes \ answering = {} => answering = Nodes
  OBVIOUS
<1>9. ASSUME NEW a \in Nat, NEW b \in Nat
      PROVE  a + b \in Nat /\ (a + b = 0 => a = 0 /\ b = 0)
  OBVIOUS
<1> QED BY <1>5, <1>6, <1>7, <1>8, <1>9

LEMMA DialogsInstall ==
  ASSUME LifeInv, NEW f \in Flows,
         SubmitForm(f) \/ FlowStep(f) \/ Confirm(f) \/ Leave(f)
  PROVE  Installing
<1>1. faults \in 0..MaxFaults
  BY DEF LifeInv, EntryInv, TypeInv, EntryTypeOK
<1>2. CASE SubmitForm(f) \/ Opened(f) \/ Authenticated(f) \/ Leave(f)
  BY <1>1, <1>2 DEF SubmitForm, Opened, Authenticated, Leave, entryVars, Installing
<1>3. CASE CheckFails(f)
  <2>1. faults' \in faults..MaxFaults
    BY <1>1, <1>3, FaultOnlyAdds DEF CheckFails
  <2> QED BY <1>3, <2>1 DEF CheckFails, Checked, Installing
<1>4. CASE CheckEnds(f)
  <2>1. PICK answering \in SUBSET Nodes : \E lost \in Lost(answering) :
          Fault(Missed(answering) + Cardinality(lost))
    BY <1>4 DEF CheckEnds
  <2>2. faults' \in faults..MaxFaults
    BY <1>1, <2>1, FaultOnlyAdds, DiscoveryFaults
  <2> QED BY <1>4, <2>2 DEF CheckEnds, Checked, Installing
<1>5. CASE Confirm(f)
  <2>1. stage[f] = "confirm" /\ data' = held[f] /\ Going(f)
    BY <1>5 DEF Confirm, EntryData, LifeInv, InstallInv, Stands, Going, Open
  <2>2. held[f] \in [login : {"right"}, web : BOOLEAN]
    BY <2>1 DEF LifeInv, InstallInv, InstallTypeOK, Stands, Data
  <2>3. ~Created
    BY <2>1 DEF LifeInv, InstallInv, Alone, Going, Stands, Created
  <2> QED
    BY <1>1, <1>5, <2>1, <2>2, <2>3 DEF Confirm, Installing, LifeInv, Unstarted
<1> QED BY <1>2, <1>3, <1>4, <1>5 DEF FlowStep

LEMMA InstallingKeeps == ASSUME EntryInv, Installing PROVE EntryInv'
<1>1. UNCHANGED <<bus, entry, ended, step, at, left, setups, open, published,
                  listening, used, found, detected, capability, member, missed,
                  wasFound, options, saved, picked, unheard, saves, reloads, asked>>
  BY DEF Installing, life, nodes, flows
<1>2. /\ data' \in [login : {"right"}, web : BOOLEAN] /\ faults' \in faults..MaxFaults
      /\ faults \in Nat
  BY DEF Installing, EntryInv, TypeInv, EntryTypeOK
<1>3. EntryTypeOK'
  BY <1>1, <1>2 DEF EntryInv, TypeInv, EntryTypeOK
<1>4. Budget'
  <2>1. PICK k \in Nat : faults' = faults + k
    BY <1>2
  <2>2. saves' = saves + 0 /\ asked' = asked + 0 /\ reloads' = reloads + 0
    BY <1>1 DEF EntryInv, TypeInv, EntryTypeOK
  <2> QED BY <1>1, <2>1, <2>2, BudgetKept DEF EntryInv
<1>5. Progress'
  BY <1>1 DEF EntryInv, TypeInv, Progress, Early, Reading
<1>6. ConnInv'
  BY <1>1 DEF EntryInv, ConnInv, ConnectionsAreClosed
<1>7. SettingsInv'
  BY <1>1 DEF EntryInv, SettingsInv, Heard, Reads, Applies, WebPassword, Installing
<1> QED BY <1>3, <1>4, <1>5, <1>6, <1>7 DEF EntryInv, TypeInv

LEMMA LifeInvInit == LifeInit => LifeInv
<1>1. LifeInit => Unstarted /\ EntryInv
  BY TypeInvInit, ConnInit, SettingsInit
     DEF LifeInit, EntryInit, Unstarted, EntryInv
<1> QED BY <1>1, InstallInvInit DEF LifeInv

LEMMA LifeInvNext == LifeInv /\ [LifeNext]_lifeVars => LifeInv'
<1> SUFFICES ASSUME LifeInv, [LifeNext]_lifeVars PROVE LifeInv'
  OBVIOUS
<1>1. InstallInv'
  BY InstallInvNext DEF LifeInv
<1>2. ASSUME NEW f \in Flows, SubmitForm(f) \/ FlowStep(f) \/ Confirm(f) \/ Leave(f)
      PROVE  Unstarted' /\ EntryInv'
  <2>1. Installing
    BY <1>2, DialogsInstall
  <2>2. EntryInv'
    BY <2>1, InstallingKeeps DEF LifeInv
  <2>3. ASSUME Created PROVE Created'
    <3>1. PICK g \in Flows : stage[g] = "created"
      BY <2>3 DEF Created
    <3>2. Going(g) /\ check[g] = "none" /\ stage[g] # "user" /\ ~Open(g)
      BY <3>1 DEF LifeInv, InstallInv, Stands, Going, Open
    <3>3. stage'[g] = "created"
      BY <1>2, <3>1, <3>2 DEF SubmitForm, FlowStep, Opened, Authenticated, CheckFails, CheckEnds,
         Confirm, Leave, Open, LifeInv, InstallInv, InstallTypeOK
    <3> QED BY <3>3 DEF Created
  <2>4. entry' = entry /\ step' = step
    BY <2>1 DEF Installing, life
  <2> QED BY <2>2, <2>3, <2>4 DEF LifeInv, Unstarted
<1>3. CASE Created /\ EntryNext /\ UNCHANGED flowVars
  <2>1. Created'
    BY <1>3 DEF Created, flowVars
  <2> QED
    BY <1>1, <1>3, <2>1, TypeInvNext, ConnNext, SettingsNext
       DEF LifeInv, Unstarted, EntryInv
<1>4. CASE UNCHANGED lifeVars
  <2>1. UNCHANGED entryVars /\ (Created' <=> Created)
    BY <1>4 DEF lifeVars, flowVars, Created
  <2>2. entry' = entry /\ step' = step
    BY <2>1 DEF entryVars, life
  <2> QED
    BY <1>1, <2>1, <2>2, TypeInvNext, ConnNext, SettingsNext
       DEF LifeInv, Unstarted, EntryInv
<1> QED BY <1>1, <1>2, <1>3, <1>4 DEF LifeNext, LifeInv

LEMMA LifeInvAlways == LifeSpec => []LifeInv
BY LifeInvInit, LifeInvNext, PTL DEF LifeSpec

\* Whatever dialogs are opened, checked, left and confirmed before it, and go on
\* beside it, the entry that gets installed keeps what EntryProofs shows of an
\* entry: its types, an owner or a known cause for every connection, the settings
\* last saved in effect, and no slider for a motor that cannot be positioned
\* (config_flow.py, async_step_confirm; __init__.py, async_setup_entry).
THEOREM InstalledEntryBehaves ==
  LifeSpec => [](/\ EntryTypeOK /\ ConnectionsAreClosed
                 /\ SettingsTakeEffect /\ NoDeadSlider)
<1>1. LifeInv => /\ EntryTypeOK /\ ConnectionsAreClosed
                 /\ SettingsTakeEffect /\ NoDeadSlider
  BY SettingsEffective, SlidersLive
     DEF LifeInv, EntryInv, TypeInv, ConnInv
<1> QED BY <1>1, LifeInvAlways, PTL

-----------------------------------------------------------------------------
(* What is confirmed is what is set up.  While nothing is lost, a check and *)
(* the discovery of the first setup read the same bus to its end, and until *)
(* the coordinator is published no dialog can correct a motor.              *)

\* What discovery makes of n when it gets every answer.
Real(n) == Capability(n, {})
Known(n) == detected[n] = Real(n) /\ member[n] = GroupsOf[n]
AllKnown == found = Nodes /\ \A n \in Nodes : Known(n) /\ capability[n] = Real(n)

\* While nodes are read: those done are known, and none is left out.
Enumerating ==
  /\ Nodes = found \cup {at} \cup left
  /\ \A n \in found : Known(n)
  /\ step = "probe" => ~bus[at].recognised
  /\ step = "groups" => detected[at] = Real(at)

\* Where a setup in which nothing was lost stands.
Faultless ==
  /\ step \in Reading => Enumerating
  /\ step \in {"refresh", "platforms"} \/ published => AllKnown

Uncorrected == options.overrides = [n \in Nodes |-> "auto"] /\ picked = {}

FirstSetup ==
  setups = 1 => /\ ~published => Uncorrected
                /\ published => step \in {"platforms", "done"}
                /\ faults = 0 => Faultless

LEMMA FirstSetupInit == EntryInit => FirstSetup
BY DEF EntryInit, FirstSetup, Uncorrected, Faultless, Reading, NoOptions

\* A step of the first setup before the coordinator is published.
LEMMA FirstSetupGoesOn ==
  ASSUME FirstSetup, entry = "in_progress", step \notin {"platforms", "done"},
         UNCHANGED <<setups, options, picked, published>>, faults' = 0 => Faultless'
  PROVE  FirstSetup'
BY DEF FirstSetup, Uncorrected

LEMMA FirstSetupFails ==
  ASSUME FirstSetup, entry = "in_progress", step \notin {"platforms", "done"},
         NEW state, NEW why, SetupFails(state, why)
  PROVE  FirstSetup'
BY DEF FirstSetup, Uncorrected, Faultless, Reading, SetupFails, NothingFound, flows

LEMMA FirstNextNode ==
  ASSUME TypeInv, NEW rest \in SUBSET Nodes, rest # {}, NextNode(rest),
         published => step \in {"platforms", "done"}, step \notin {"platforms", "done"},
         found' \cup rest = Nodes, \A n \in found' : Known(n)'
  PROVE  Faultless'
<1>1. at' \in rest /\ left' = rest \ {at'} /\ step' = "info" /\ published' = published
  BY DEF NextNode, Await
<1> QED BY <1>1 DEF Faultless, Enumerating, Reading

LEMMA FirstPing ==
  ASSUME TypeInv, FirstSetup, setups = 1, Ping, step' = "info", faults' = 0
  PROVE  Faultless'
<1>1. PICK silent \in (SUBSET Nodes) \ {Nodes} :
        Fault(Cardinality(silent)) /\ NextNode(Nodes \ silent) /\ found' = found
  BY DEF Ping, NotReady, SetupFails
<1>2. step = "ping" /\ found = {} /\ faults \in Nat
  BY DEF Ping, Waiting, TypeInv, Progress, Early, EntryTypeOK
<1>3. IsFiniteSet(silent) /\ Cardinality(silent) \in Nat
  BY FS_Subset, FS_CardinalityType
<1>4. Cardinality(silent) = 0
  BY <1>1, <1>2, <1>3, FaultOnlyAdds
<1>5. silent = {}
  BY <1>3, <1>4, FS_EmptySet
<1>6. NextNode(Nodes) /\ Nodes # {}
  BY <1>1, <1>5
<1> QED BY <1>1, <1>2, <1>6, FirstNextNode DEF FirstSetup

\* A read of node n in which nothing is lost.
LEMMA FirstRead ==
  ASSUME TypeInv, FirstSetup, setups = 1, step \in Reading, faults = 0,
         NEW s \in {"probe", "groups"}, Await(s), NEW cap,
         detected' = [detected EXCEPT ![at] = cap],
         UNCHANGED <<at, left, published, found, member>>,
         s = "probe" => ~bus[at].recognised,
         s = "groups" => cap = Real(at)
  PROVE  Faultless'
<1>1. step' = s /\ bus' = bus
  BY DEF Await
<1>2. Enumerating /\ ~published
  BY DEF FirstSetup, Faultless, Reading
<1>3. at \in Nodes /\ at \notin found /\ found \in SUBSET Nodes
  BY DEF TypeInv, EntryTypeOK, Progress, Reading
<1>4. detected'[at] = cap /\ \A n \in found : detected'[n] = detected[n]
  BY <1>3 DEF TypeInv, EntryTypeOK
<1>5. \A n : Real(n)' = Real(n)
  BY <1>1 DEF Real, Capability, Classify
<1>6. Enumerating'
  BY <1>1, <1>2, <1>4, <1>5 DEF Enumerating, Known
<1> QED BY <1>1, <1>2, <1>6 DEF Faultless

LEMMA FirstSetupReads ==
  ASSUME TypeInv, FirstSetup, setups = 1, faults' = 0, ReadInfo \/ Probe
  PROVE  Faultless'
<1>1. faults \in Nat
  BY DEF TypeInv, EntryTypeOK
<1>2. CASE ReadInfo
  <2> PICK answered \in BOOLEAN :
        /\ Fault(IF answered THEN 0 ELSE 1)
        /\ detected' = [detected EXCEPT ![at] = Classify(at, answered)]
        /\ Await(IF detected'[at] = "unknown" THEN "probe" ELSE "groups")
    BY <1>2 DEF ReadInfo
  <2>1. answered /\ faults = 0
    BY <1>1 DEF Fault
  <2>2. step = "info" /\ UNCHANGED <<at, left, published, found, member>>
    BY <1>2 DEF ReadInfo, Waiting
  <2>3. detected'[at] = Classify(at, TRUE)
    BY <2>1, <2>2 DEF TypeInv, EntryTypeOK
  <2>4. CASE Classify(at, TRUE) = "unknown"
    <3>1. ~bus[at].recognised
      BY <2>4 DEF Classify
    <3> QED
      BY <2>1, <2>2, <2>3, <2>4, <3>1, FirstRead DEF Reading
  <2>5. CASE Classify(at, TRUE) # "unknown"
    <3>1. Real(at) = Classify(at, TRUE)
      BY <2>5 DEF Real, Capability
    <3> QED
      BY <2>1, <2>2, <2>3, <2>5, <3>1, FirstRead DEF Reading
  <2> QED BY <2>4, <2>5
<1>3. CASE Probe
  <2> PICK answered \in BOOLEAN :
        /\ Fault(IF answered THEN 0 ELSE 1)
        /\ detected' = [detected EXCEPT ![at] =
              IF answered /\ bus[at].slides THEN "positional" ELSE "non_positional"]
    BY <1>3 DEF Probe
  <2>1. answered /\ faults = 0
    BY <1>1 DEF Fault
  <2>2. /\ step = "probe" /\ Await("groups")
        /\ UNCHANGED <<at, left, published, found, member>>
    BY <1>3 DEF Probe, Waiting
  <2>3. ~bus[at].recognised
    BY <2>1, <2>2 DEF FirstSetup, Faultless, Enumerating, Reading
  <2>4. Real(at) = IF bus[at].slides THEN "positional" ELSE "non_positional"
    BY <2>3 DEF Real, Capability, Classify
  <2> QED BY <2>1, <2>2, <2>4, FirstRead DEF Reading
<1> QED BY <1>2, <1>3

LEMMA FirstReadGroups ==
  ASSUME TypeInv, FirstSetup, setups = 1, faults' = 0, ReadGroups
  PROVE  Faultless'
<1>1. faults \in Nat
  BY DEF TypeInv, EntryTypeOK
<1> PICK answered \in BOOLEAN :
      /\ Fault(IF answered THEN 0 ELSE 1)
      /\ member' = [member EXCEPT ![at] = IF answered THEN GroupsOf[at] ELSE {}]
  BY DEF ReadGroups
<1>2. answered /\ faults = 0
  BY <1>1 DEF Fault
<1>3. /\ step = "groups" /\ found' = found \cup {at} /\ detected' = detected
      /\ IF left = {} THEN DiscoveryEnds(found') ELSE NextNode(left)
  BY DEF ReadGroups, Waiting
<1>4. Enumerating /\ ~published /\ Uncorrected
  BY <1>2, <1>3 DEF FirstSetup, Faultless, Reading
<1>5. /\ at \in Nodes /\ at \notin found /\ left \in SUBSET Nodes
      /\ found \in SUBSET Nodes
  BY <1>3 DEF TypeInv, EntryTypeOK, Progress, Reading
<1>6. bus' = bus
  BY <1>3 DEF DiscoveryEnds, NextNode, Await
<1>7. \A n : Real(n)' = Real(n)
  BY <1>6 DEF Real, Capability, Classify
<1>8. member'[at] = GroupsOf[at] /\ \A n \in found : member'[n] = member[n]
  BY <1>2, <1>5 DEF TypeInv, EntryTypeOK
<1>9. \A n \in found' : Known(n)'
  BY <1>3, <1>4, <1>7, <1>8 DEF Enumerating, Known
<1>10. CASE left # {}
  <2>1. found' \cup left = Nodes
    BY <1>3, <1>4 DEF Enumerating
  <2> QED BY <1>3, <1>4, <1>5, <1>9, <1>10, <2>1, FirstNextNode
<1>11. CASE left = {}
  <2>1. /\ step' = "refresh" /\ published' = published
        /\ capability' = [n \in Nodes |-> IF n \in found'
                            THEN Override(detected[n], options.overrides[n])
                            ELSE "unknown"]
    BY <1>3, <1>11 DEF DiscoveryEnds, Await
  <2>2. found' = Nodes
    BY <1>3, <1>4, <1>11 DEF Enumerating
  <2>3. \A n \in Nodes : Override(detected[n], options.overrides[n]) = detected[n]
    BY <1>4 DEF Uncorrected, Override
  <2>4. \A n \in Nodes : capability'[n] = detected'[n]
    BY <1>3, <2>1, <2>2, <2>3
  <2>5. AllKnown'
    BY <1>9, <2>2, <2>4 DEF AllKnown, Known
  <2> QED BY <2>1, <2>5 DEF Faultless, Reading
<1> QED BY <1>10, <1>11

LEMMA FirstSetupStep == ASSUME TypeInv, FirstSetup, SetupStep PROVE FirstSetup'
<1>1. faults \in Nat
  BY DEF TypeInv, EntryTypeOK
<1>2. CASE ConnectFails \/ WakeFails \/ DiscoveryFails
  BY <1>2, FirstSetupFails DEF ConnectFails, WakeFails, DiscoveryFails, NotReady, Waiting
<1>3. CASE Connect \/ NamesAndWake
  <2>1. /\ entry = "in_progress" /\ step \in {"connect", "names", "wake"}
        /\ step' \in {"names", "wake", "ping"}
        /\ UNCHANGED <<setups, options, picked, published>>
    BY <1>3 DEF Connect, NamesAndWake, Waiting, Await, flows
  <2>2. setups = 1 => Faultless'
    BY <2>1 DEF FirstSetup, Faultless, Reading
  <2> QED BY <2>1, <2>2 DEF FirstSetup, Uncorrected
<1>4. CASE Ping
  <2>1. entry = "in_progress" /\ step = "ping"
    BY <1>4 DEF Ping, Waiting
  <2>2. CASE NotReady("empty")
    BY <2>1, <2>2, FirstSetupFails DEF NotReady
  <2>3. CASE ~NotReady("empty")
    <3>1. /\ step' = "info" /\ UNCHANGED <<setups, options, picked, published>>
      BY <1>4, <2>3 DEF Ping, NextNode, Await, flows
    <3>2. setups = 1 /\ faults' = 0 => Faultless'
      BY <1>4, <3>1, FirstPing
    <3> QED BY <2>1, <3>1, <3>2 DEF FirstSetup, Uncorrected
  <2> QED BY <2>2, <2>3
<1>5. CASE ReadInfo \/ Probe \/ ReadGroups
  <2>1. /\ entry = "in_progress" /\ step \in Reading
        /\ UNCHANGED <<setups, options, picked, published>>
    BY <1>5 DEF ReadInfo, Probe, ReadGroups, Waiting, Await, DiscoveryEnds, NextNode,
       flows, Reading
  <2>2. setups = 1 /\ faults' = 0 => Faultless'
    BY <1>5, FirstSetupReads, FirstReadGroups
  <2> QED BY <2>1, <2>2 DEF FirstSetup, Uncorrected, Reading
<1>6. CASE Publish \/ Loaded
  <2>1. /\ step \in {"refresh", "platforms"} /\ step' \in {"platforms", "done"}
        /\ step = "refresh" => step' = "platforms"
        /\ published' \in BOOLEAN /\ (published => published')
        /\ UNCHANGED <<setups, options, picked, faults>>
        /\ UNCHANGED <<bus, found, detected, capability, member>>
    BY <1>6 DEF Publish, Loaded, Waiting, Await, flows, nodes, TypeInv, EntryTypeOK
  <2>2. AllKnown => AllKnown'
    BY <2>1 DEF AllKnown, Known, Real, Capability, Classify
  <2>3. Faultless => Faultless'
    BY <2>1, <2>2 DEF Faultless, Reading
  <2>4. Uncorrected => Uncorrected'
    BY <2>1 DEF Uncorrected
  <2>5. published /\ ~published' => FALSE
    BY <2>1
  <2> QED BY <2>1, <2>3, <2>4, <2>5 DEF FirstSetup
<1> QED BY <1>2, <1>3, <1>4, <1>5, <1>6 DEF SetupStep

LEMMA FirstSubmit == ASSUME TypeInv, FirstSetup, Submit PROVE FirstSetup'
<1>1. PICK e \in Edits : options' = Edited(options, e) /\ picked' = picked \ {e.motor}
  BY DEF Submit, Save
<1>2. UNCHANGED <<bus, setups, faults, step, at, left, published, found, detected,
                  capability, member>>
  BY DEF Submit, life, nodes
<1>3. Faultless => Faultless'
  BY <1>2 DEF Faultless, Enumerating, AllKnown, Known, Real, Capability, Classify
<1>4. ASSUME Uncorrected PROVE Uncorrected'
  <2>1. e.page \in {"polling", "web"} /\ picked' = {}
    BY <1>1, <1>4 DEF Edits, Uncorrected
  <2>2. options'.overrides = options.overrides
    BY <1>1, <2>1 DEF Edited, TypeInv, EntryTypeOK, Options
  <2> QED BY <1>4, <2>1, <2>2 DEF Uncorrected
<1> QED BY <1>2, <1>3, <1>4 DEF FirstSetup

LEMMA FirstSetupNext ==
  ASSUME TypeInv, FirstSetup, [EntryNext]_entryVars PROVE FirstSetup'
<1>1. CASE SetupStep
  BY <1>1, FirstSetupStep
<1>2. CASE Reload \/ RetrySetup
  <2>1. setups' = setups + 1 /\ setups \in Nat \ {0}
    BY <1>2 DEF Reload, RetrySetup, SetupBegins, TypeInv, EntryTypeOK, Setups
  <2>2. setups' # 1
    BY <2>1
  <2> QED BY <2>2 DEF FirstSetup
<1>3. CASE Submit
  BY <1>3, FirstSubmit
<1>4. CASE AskReload \/ PickMotor \/ UNCHANGED entryVars
  <2>1. /\ UNCHANGED <<bus, setups, faults, step, at, left, published, found, detected,
                       capability, member, options>>
        /\ ~published => picked' = picked
    BY <1>4 DEF AskReload, PickMotor, entryVars, life, nodes, flows
  <2>2. Faultless => Faultless'
    BY <2>1 DEF Faultless, Enumerating, AllKnown, Known, Real, Capability, Classify
  <2> QED BY <2>1, <2>2 DEF FirstSetup, Uncorrected
<1> QED BY <1>1, <1>2, <1>3, <1>4 DEF EntryNext

LEMMA SummaryCounts ==
  ASSUME TypeInv, AllKnown
  PROVE  LET s == Summary(Nodes, {}) IN
         /\ s.motors = Cardinality(found)
         /\ s.positional = Cardinality({n \in found : capability[n] = "positional"})
         /\ s.groups =
              Cardinality({h \in WellFormed : Members(h) # {}}
                            \cup {h \in Groups \ WellFormed : \E n \in found : h \in member[n]})
<1>1. found = Nodes /\ \A n \in Nodes : /\ capability[n] = Capability(n, {})
                                       /\ member[n] = GroupsOf[n]
  BY DEF AllKnown, Known, Real
<1>2. {n \in Nodes : Capability(n, {}) = "positional"}
        = {n \in found : capability[n] = "positional"}
  BY <1>1
<1>3. {m \in Nodes : <<m, "groups">> \notin {}} = Nodes
  OBVIOUS
<1> DEFINE listed == UNION {GroupsOf[n] : n \in Nodes}
           built == {h \in WellFormed : Members(h) # {}}
           malformed == {h \in Groups \ WellFormed : \E n \in found : h \in member[n]}
<1>4. \A h : h \in listed <=> \E n \in Nodes : h \in GroupsOf[n]
  OBVIOUS
<1>5. \A h : h \in built <=> h \in WellFormed /\ \E n \in Nodes : h \in GroupsOf[n]
  BY <1>1 DEF Members
<1>6. \A h : h \in malformed <=>
               h \in Groups \ WellFormed /\ \E n \in Nodes : h \in GroupsOf[n]
  BY <1>1
<1>7. \A n \in Nodes : GroupsOf[n] \subseteq Groups
  OBVIOUS
<1> HIDE DEF listed, built, malformed
<1>8. listed = built \cup malformed
  BY <1>4, <1>5, <1>6, <1>7
<1> QED BY <1>1, <1>2, <1>3, <1>8 DEF Summary, listed, built, malformed

\* What a dialog shows to confirm is all there is on the bus.
Told ==
  faults = 0 =>
    \A f \in Flows : stage[f] \in {"confirm", "created"} =>
      summary[f] = Summary(Nodes, {})

LEMMA ToldKept ==
  ASSUME LifeInv, Told, bus' = bus, faults' = 0 => faults = 0,
         \A f \in Flows : stage'[f] \in {"confirm", "created"} =>
           stage[f] \in {"confirm", "created"} /\ summary'[f] = summary[f]
  PROVE  Told'
<1>1. Summary(Nodes, {})' = Summary(Nodes, {})
  BY DEF Summary, Capability, Classify
<1> QED BY <1>1 DEF Told

LEMMA EntryFaults == ASSUME TypeInv, EntryNext PROVE bus' = bus /\ (faults' = 0 => faults = 0)
<1>1. faults \in Nat
  BY DEF TypeInv, EntryTypeOK
<1>2. ASSUME NEW k \in Nat, Fault(k) PROVE faults' = 0 => faults = 0
  BY <1>1, <1>2 DEF Fault
<1>3. CASE Ping
  <2>1. bus' = bus
    BY <1>3 DEF Ping, NextNode, Await, NotReady, SetupFails
  <2>2. PICK k \in Nat : Fault(k)
    <3>1. \A silent \in SUBSET Nodes : Cardinality(silent) \in Nat
      BY FS_Subset, FS_CardinalityType
    <3> QED BY <1>3, <3>1 DEF Ping
  <2> QED BY <1>2, <2>1, <2>2
<1>4. CASE ReadInfo \/ Probe \/ ReadGroups
  <2>1. bus' = bus
    BY <1>4 DEF ReadInfo, Probe, ReadGroups, DiscoveryEnds, NextNode, Await
  <2>2. PICK answered \in BOOLEAN : Fault(IF answered THEN 0 ELSE 1)
    BY <1>4 DEF ReadInfo, Probe, ReadGroups
  <2> QED BY <1>2, <2>1, <2>2
<1>5. CASE ConnectFails \/ WakeFails \/ DiscoveryFails
  <2>1. bus' = bus
    BY <1>5 DEF ConnectFails, WakeFails, DiscoveryFails, NotReady, SetupFails
  <2>2. PICK k \in Nat : Fault(k)
    BY <1>5 DEF ConnectFails, WakeFails, DiscoveryFails
  <2> QED BY <1>2, <2>1, <2>2
<1>6. CASE Connect \/ NamesAndWake \/ Publish \/ Loaded
  BY <1>6 DEF Connect, NamesAndWake, Publish, Loaded, Await
<1>7. CASE RetrySetup \/ AskReload \/ PickMotor \/ Submit
  BY <1>7 DEF RetrySetup, AskReload, PickMotor, Submit, SetupBegins
<1>8. CASE Reload
  <2>1. bus' = bus
    BY <1>8 DEF Reload, SetupBegins
  <2>2. faults' = faults \/ Fault(1)
    BY <1>8 DEF Reload, Unload
  <2> QED BY <1>2, <2>1, <2>2
<1> QED BY <1>3, <1>4, <1>5, <1>6, <1>7, <1>8 DEF EntryNext, SetupStep

LEMMA ToldNext == ASSUME LifeInv, Told, [LifeNext]_lifeVars PROVE Told'
<1>1. TypeInv /\ InstallInv /\ faults \in Nat
  BY DEF LifeInv, EntryInv, TypeInv, EntryTypeOK
<1>2. ASSUME NEW f \in Flows,
             \/ SubmitForm(f) \/ Opened(f) \/ Authenticated(f) \/ CheckFails(f)
             \/ Confirm(f) \/ Leave(f)
      PROVE  Told'
  <2>1. Installing
    BY <1>2, DialogsInstall DEF FlowStep
  <2>2. bus' = bus /\ (faults' = 0 => faults = 0)
    BY <1>1, <2>1 DEF Installing
  <2>3. summary' = summary
    BY <1>2 DEF SubmitForm, Opened, Authenticated, CheckFails, Confirm, Leave
  <2>4. ASSUME NEW h \in Flows, stage'[h] \in {"confirm", "created"}
        PROVE  stage[h] \in {"confirm", "created"}
    BY <1>1, <1>2, <2>4 DEF SubmitForm, Opened, Authenticated, CheckFails, Confirm, Leave,
       InstallInv, InstallTypeOK
  <2> QED BY <2>2, <2>3, <2>4, ToldKept
<1>3. ASSUME NEW f \in Flows, CheckEnds(f) PROVE Told'
  <2> DEFINE Ends(answering, lost) ==
        LET s == Summary(answering, lost) IN
        /\ Fault(Missed(answering) + Cardinality(lost))
        /\ summary' = [summary EXCEPT ![f] = s]
        /\ IF Accepted(s) /\ stage[f] = "user"
           THEN /\ held' = [held EXCEPT ![f] = form[f]]
                /\ stage' = [stage EXCEPT ![f] = "confirm"]
           ELSE UNCHANGED <<held, stage>>
  <2> PICK answering \in SUBSET Nodes : \E lost \in Lost(answering) : Ends(answering, lost)
    BY <1>3 DEF CheckEnds
  <2> PICK lost \in Lost(answering) : Ends(answering, lost)
    OBVIOUS
  <2>1. bus' = bus /\ check[f] = "discover"
    BY <1>3 DEF CheckEnds, Checked
  <2>2. Summary(Nodes, {})' = Summary(Nodes, {})
    BY <2>1 DEF Summary, Capability, Classify
  <2>3. stage[f] \notin {"confirm", "created"}
    BY <1>1, <2>1 DEF InstallInv, Stands
  <2>4. SUFFICES ASSUME faults' = 0, NEW h \in Flows,
                        stage'[h] \in {"confirm", "created"}
                 PROVE  summary'[h] = Summary(Nodes, {})
    BY <2>2 DEF Told
  <2>5. answering = Nodes /\ lost = {} /\ faults = 0
    <3> DEFINE k == Missed(answering) + Cardinality(lost)
    <3>1. k \in Nat /\ (k = 0 => answering = Nodes /\ lost = {})
      BY DiscoveryFaults
    <3>2. Fault(k)
      OBVIOUS
    <3> HIDE DEF k
    <3> QED BY <1>1, <2>4, <3>1, <3>2 DEF Fault
  <2>6. CASE h = f
    BY <1>1, <2>5, <2>6 DEF InstallInv, InstallTypeOK
  <2>7. CASE h # f
    <3>1. stage[h] = stage'[h] /\ summary'[h] = summary[h]
      BY <1>1, <2>7 DEF InstallInv, InstallTypeOK
    <3> QED BY <2>4, <2>5, <3>1 DEF Told
  <2> QED BY <2>6, <2>7
<1>4. CASE Created /\ EntryNext /\ UNCHANGED flowVars
  BY <1>1, <1>4, EntryFaults, ToldKept DEF flowVars
<1>5. CASE UNCHANGED lifeVars
  BY <1>5, ToldKept DEF lifeVars, flowVars, entryVars
<1> QED BY <1>2, <1>3, <1>4, <1>5 DEF LifeNext, FlowStep

LEMMA FirstSetupLives == ASSUME LifeInv, FirstSetup, [LifeNext]_lifeVars PROVE FirstSetup'
<1>1. TypeInv /\ faults \in Nat
  BY DEF LifeInv, EntryInv, TypeInv, EntryTypeOK
<1>2. ASSUME NEW f \in Flows, SubmitForm(f) \/ FlowStep(f) \/ Confirm(f) \/ Leave(f)
      PROVE  FirstSetup'
  <2>1. Installing
    BY <1>2, DialogsInstall
  <2>2. /\ UNCHANGED <<bus, setups, step, at, left, published, found, detected,
                       capability, member, options, picked>>
        /\ faults' = 0 => faults = 0
    BY <1>1, <2>1 DEF Installing, life, nodes, flows
  <2>3. Faultless => Faultless'
    BY <2>2 DEF Faultless, Enumerating, AllKnown, Known, Real, Capability, Classify
  <2> QED BY <2>2, <2>3 DEF FirstSetup, Uncorrected
<1>3. CASE EntryNext \/ UNCHANGED lifeVars
  BY <1>1, <1>3, FirstSetupNext DEF lifeVars
<1> QED BY <1>2, <1>3 DEF LifeNext

\* What the owner confirms is what is set up: if nothing gets lost, the first
\* setup finds as many motors and positional ones, and builds a group of every
\* group id counted that is well-formed, whatever else the owner saves and does
\* with dialogs meanwhile (config_flow.py, _validate and
\* async_step_confirm; client.py, async_discover_nodes).
THEOREM ConfirmedIsSetUp == LifeSpec => []SummaryIsKept
<1>1. LifeInit => FirstSetup /\ Told
  BY FirstSetupInit DEF LifeInit, Told
<1>2. TypeInv /\ FirstSetup /\ Told => SummaryIsKept
  BY SummaryCounts DEF FirstSetup, Faultless, Told, SummaryIsKept
<1>3. LifeInv => TypeInv
  BY DEF LifeInv, EntryInv
<1> QED
  BY <1>1, <1>2, <1>3, ToldNext, FirstSetupLives, LifeInvAlways, PTL DEF LifeSpec
=============================================================================
