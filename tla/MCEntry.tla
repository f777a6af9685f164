------------------------------- MODULE MCEntry -------------------------------
(* Instances of Entry for TLC: two motors in one group, which also list an  *)
(* id that is not well-formed.                                              *)
EXTENDS Entry, TLC

CONSTANTS n1, n2, g, x

Together == [n \in Nodes |-> Groups]

Sonesse == [slides |-> TRUE, recognised |-> TRUE]
Bridge == [slides |-> FALSE, recognised |-> TRUE]
Newcomer == [slides |-> TRUE, recognised |-> FALSE]
Stranger == [slides |-> FALSE, recognised |-> FALSE]

\* Both motors are of a recognised type, or neither is; one of them slides.
MixedBuses == {(n1 :> Sonesse @@ n2 :> Bridge), (n1 :> Newcomer @@ n2 :> Stranger)}

\* One motor is recognised, the other has to be probed and slides.
OneBus == {(n1 :> Bridge @@ n2 :> Newcomer)}
=============================================================================
