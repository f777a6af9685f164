----------------------------- MODULE RemoteCalls -----------------------------
(***************************************************************************)
(* What the gateway client promises of a call of async_request: it has one *)
(* outcome; its request is written at most twice, and never once the call  *)
(* has ended; the gateway runs no copy that was not written, though it may *)
(* run one after the call has ended; and a call that returns a reply was   *)
(* run.                                                                    *)
(***************************************************************************)
EXTENDS Naturals

CONSTANTS MaxCalls, Failures

VARIABLES begun, outcome, sent, executed

vars == <<begun, outcome, sent, executed>>

Calls == 1..MaxCalls

Running(n) == n <= begun /\ outcome[n] = "none"

Init ==
  /\ begun = 0
  /\ outcome = [n \in Calls |-> "none"]
  /\ sent = [n \in Calls |-> 0]
  /\ executed = [n \in Calls |-> 0]

\* A call begins; on an open link its request is written at once.
Begin ==
  /\ begun < MaxCalls
  /\ begun' = begun + 1
  /\ \E copies \in 0..1 : sent' = [sent EXCEPT ![begun + 1] = copies]
  /\ UNCHANGED <<outcome, executed>>

Write(n) ==
  /\ Running(n) /\ sent[n] < 2
  /\ sent' = [sent EXCEPT ![n] = @ + 1]
  /\ UNCHANGED <<begun, outcome, executed>>

Execute(n) ==
  /\ executed[n] < sent[n]
  /\ executed' = [executed EXCEPT ![n] = @ + 1]
  /\ UNCHANGED <<begun, outcome, sent>>

Answer(n) ==
  /\ Running(n) /\ executed[n] > 0
  /\ outcome' = [outcome EXCEPT ![n] = "answered"]
  /\ UNCHANGED <<begun, sent, executed>>

Fail(n) ==
  /\ Running(n)
  /\ \E how \in Failures : outcome' = [outcome EXCEPT ![n] = how]
  /\ UNCHANGED <<begun, sent, executed>>

Next ==
  \/ Begin
  \/ \E n \in Calls : Write(n) \/ Execute(n) \/ Answer(n) \/ Fail(n)

Spec == Init /\ [][Next]_vars
=============================================================================
