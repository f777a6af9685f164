------------------------------- MODULE Install -------------------------------
(***************************************************************************)
(* How the entry comes about: the config flow of config_flow.py checks a   *)
(* form with a client of its own, shows what it found, and creates the     *)
(* entry, whose life Entry has.  An owner may leave a dialog at any time,  *)
(* also while its form is checked, and open another one: Home Assistant    *)
(* drops the flow, and its check goes on for nobody.                       *)
(*                                                                         *)
(* There is one gateway, known by one host name.  Home Assistant refuses a *)
(* host an entry has, and one that another open flow has submitted; an     *)
(* entry created closes the other flows of its host.                       *)
(***************************************************************************)
EXTENDS Entry

CONSTANTS
  Flows,      \* dialogs an owner may open
  MaxTries    \* bound: forms submitted

ASSUME InstallAssumption ==
  IsFiniteSet(Flows) /\ IsFiniteSet(Groups) /\ MaxTries \in Nat

Unset == [login |-> "wrong", web |-> FALSE]

VARIABLES
  stage,      \* the step each flow shows: "user", "confirm"; or how it ended
  check,      \* the await at which _validate is suspended for it
  connected,  \* flows whose client has a connection
  named,      \* flows that have set their unique id
  form, held, summary,  \* the form being checked; _data; _summary
  tries

flowVars == <<stage, check, connected, named, form, held, summary, tries>>
lifeVars == <<flowVars, entryVars>>

NoSummary == [motors |-> 0, positional |-> 0, groups |-> 0]

Created == \E f \in Flows : stage[f] = "created"
Open(f) == stage[f] \in {"user", "confirm"}

-----------------------------------------------------------------------------
(* The check of a form: _validate.  Faulty variants are named ...Bug.      *)

\* What async_discover_nodes can return: the nodes that answer the ping, and of
\* these the reads that are lost.
Lost(answering) == SUBSET (answering \X {"info", "probe", "groups"})

\* What it takes: one fault for each reply that is lost, or one for all of them,
\* an error reply to the ping, which counts as an empty list.
Missed(answering) ==
  IF answering = {} THEN 1 ELSE Cardinality(Nodes \ answering)

CapabilityBug(n, lost) ==
  IF Classify(n, <<n, "info">> \notin lost) = "positional"
  THEN "positional" ELSE "non_positional"

Capability(n, lost) ==
  LET type == Classify(n, <<n, "info">> \notin lost)
  IN IF type # "unknown" THEN type
     ELSE IF <<n, "probe">> \notin lost /\ bus[n].slides THEN "positional"
                                                         ELSE "non_positional"

SummaryBug(answering, lost) ==
  [motors |-> Cardinality(answering),
   positional |-> Cardinality({n \in answering : Capability(n, lost) = "positional"}),
   groups |-> Cardinality({ng \in Nodes \X Groups :
                ng[1] \in answering /\ ng[2] \in GroupsOf[ng[1]]
                /\ <<ng[1], "groups">> \notin lost})]

Summary(answering, lost) ==
  [motors |-> Cardinality(answering),
   positional |-> Cardinality({n \in answering : Capability(n, lost) = "positional"}),
   groups |-> Cardinality(UNION {GroupsOf[n] : n \in
                {m \in answering : <<m, "groups">> \notin lost}})]

UniqueBug(f) == \A g \in Flows \ {f} : ~(g \in named /\ Open(g))

\* _abort_if_unique_id_configured, and what async_set_unique_id refuses.
Unique(f) == ~Created /\ \A g \in Flows \ {f} : ~(g \in named /\ Open(g))

\* async_step_user: the unique id, then the check, during which the dialog takes
\* no other form.
SubmitForm(f) ==
  /\ stage[f] = "user" /\ check[f] = "none"
  /\ tries < MaxTries /\ tries' = tries + 1
  /\ \/ /\ ~Unique(f) /\ stage' = [stage EXCEPT ![f] = "aborted"]
        /\ UNCHANGED <<check, named, form>>
     \/ /\ Unique(f) /\ check' = [check EXCEPT ![f] = "connect"]
        /\ named' = named \cup {f}
        /\ \E d \in Data : form' = [form EXCEPT ![f] = d]
        /\ UNCHANGED stage
  /\ UNCHANGED <<connected, held, summary, entryVars>>

\* The connection is open and the login begins.
Opened(f) ==
  /\ check[f] = "connect" /\ check' = [check EXCEPT ![f] = "login"]
  /\ connected' = connected \cup {f}
  /\ UNCHANGED <<stage, named, form, held, summary, tries, entryVars>>

Authenticated(f) ==
  /\ check[f] = "login" /\ form[f].login = "right"
  /\ check' = [check EXCEPT ![f] = "discover"]
  /\ UNCHANGED <<stage, connected, named, form, held, summary, tries, entryVars>>

\* The `finally` of _validate.  A refused login is closed before (client.py,
\* _open), one that cannot be sent only here.
DisconnectBug(f) == IF check[f] = "login" THEN connected ELSE connected \ {f}

Disconnect(f) == connected \ {f}

Checked(f) ==
  /\ check' = [check EXCEPT ![f] = "none"] /\ connected' = Disconnect(f)
  /\ UNCHANGED <<named, form, tries, bus, data, life, nodes, flows, reloads, asked>>

\* The login is refused, or cannot even be sent; the gateway is not reached,
\* hangs up or is silent: the form is shown again with an error.
CheckFails(f) ==
  /\ check[f] # "none"
  /\ Fault(IF check[f] = "login" /\ form[f].login = "wrong" THEN 0 ELSE 1)
  /\ Checked(f) /\ UNCHANGED <<stage, held, summary>>

AcceptedBug(s) == TRUE
Accepted(s) == s.motors > 0

\* The bus is enumerated: with a motor, what was found is shown to confirm.
CheckEnds(f) ==
  /\ check[f] = "discover"
  /\ \E answering \in SUBSET Nodes : \E lost \in Lost(answering) :
       LET s == Summary(answering, lost) IN
       /\ Fault(Missed(answering) + Cardinality(lost))
       /\ summary' = [summary EXCEPT ![f] = s]
       /\ IF Accepted(s) /\ stage[f] = "user"
          THEN /\ held' = [held EXCEPT ![f] = form[f]]
               /\ stage' = [stage EXCEPT ![f] = "confirm"]
          ELSE UNCHANGED <<held, stage>>
  /\ Checked(f)

-----------------------------------------------------------------------------
(* Confirming, and leaving                                                 *)

EntryDataBug(f) == [held[f] EXCEPT !.login = "wrong"]

EntryData(f) == held[f]

\* async_step_confirm: the entry is created, and set up.
Confirm(f) ==
  /\ stage[f] = "confirm"
  /\ stage' = [g \in Flows |-> IF g = f THEN "created"
                               ELSE IF g \in named /\ Open(g) THEN "aborted"
                               ELSE stage[g]]
  /\ data' = EntryData(f)
  /\ UNCHANGED <<check, connected, named, form, held, summary, tries,
                 bus, life, nodes, flows, reloads, faults, asked>>

Leave(f) ==
  /\ Open(f) /\ stage' = [stage EXCEPT ![f] = "aborted"]
  /\ UNCHANGED <<check, connected, named, form, held, summary, tries, entryVars>>

FlowStep(f) == Opened(f) \/ Authenticated(f) \/ CheckFails(f) \/ CheckEnds(f)

\* Until an entry is created its variables have their first values.
LifeInit ==
  /\ EntryInit
  /\ stage = [f \in Flows |-> "user"] /\ check = [f \in Flows |-> "none"]
  /\ connected = {} /\ named = {} /\ tries = 0
  /\ form = [f \in Flows |-> Unset] /\ held = form
  /\ summary = [f \in Flows |-> NoSummary]

LifeNext ==
  \/ \E f \in Flows : SubmitForm(f) \/ FlowStep(f) \/ Confirm(f) \/ Leave(f)
  \/ Created /\ EntryNext /\ UNCHANGED flowVars

\* The awaits of a check have timeouts, as have those of a setup.
LifeSpec ==
  /\ LifeInit /\ [][LifeNext]_lifeVars
  /\ \A f \in Flows : WF_lifeVars(FlowStep(f))
  /\ WF_lifeVars(Created /\ SetupStep /\ UNCHANGED flowVars)
  /\ WF_lifeVars(Created /\ (Reload \/ RetrySetup) /\ UNCHANGED flowVars)

-----------------------------------------------------------------------------
(* Properties                                                              *)

\* Every variable has its type, and a flow that has been left or has ended
\* shows no form whose check could move it on.
InstallTypeOK ==
  /\ stage \in [Flows -> {"user", "confirm", "created", "aborted"}]
  /\ check \in [Flows -> {"none", "connect", "login", "discover"}]
  /\ connected \subseteq Flows /\ named \subseteq Flows /\ tries \in 0..MaxTries
  /\ form \in [Flows -> Data] /\ held \in [Flows -> Data]
  /\ summary \in [Flows -> [motors : 0..Cardinality(Nodes),
                            positional : 0..Cardinality(Nodes),
                            groups : 0..Cardinality(Groups)]]
  /\ \A f \in Flows : stage[f] \in {"confirm", "created"} => check[f] = "none"

\* However many dialogs are opened and left, the gateway gets one entry
\* (config_flow.py, async_step_user, which looks only before the check).
OneEntry == \A f, g \in Flows : stage[f] = "created" /\ stage[g] = "created" => f = g

\* An entry is created with what was checked: the gateway has let it in and
\* a motor has answered ("before committing rather than discovering an empty
\* integration afterwards").
EntryWasChecked ==
  \A f \in Flows : stage[f] = "created" =>
    data = form[f] /\ data.login = "right" /\ summary[f].motors > 0

\* No check leaves its connection behind, wherever it fails, in the login too, and
\* whether or not its dialog is still open (config_flow.py, _validate).
ChecksHangUp == \A f \in connected : check[f] \in {"login", "discover"}

\* What the owner confirms is what is set up: if nothing gets lost, the entry's
\* first setup finds as many motors and positional ones, and each group id counted
\* is that of a group built or is not well-formed, whatever the owner saves
\* meanwhile (a dialog to correct a motor opens only on a motor of a coordinator
\* that is published).
SummaryIsKept ==
  \A f \in Flows :
    stage[f] = "created" /\ setups = 1 /\ published /\ faults = 0 =>
      /\ summary[f].motors = Cardinality(found)
      /\ summary[f].positional = Cardinality({n \in found : capability[n] = "positional"})
      /\ summary[f].groups =
           Cardinality({h \in WellFormed : Members(h) # {}}
                         \cup {h \in Groups \ WellFormed : \E n \in found : h \in member[n]})

\* An entry that was confirmed is loaded in the end if nothing gets lost.
ConfirmedIsLoaded == Created ~> (entry = "loaded" \/ faults > 0)
=============================================================================
