------------------------------ MODULE MCCovers ------------------------------
(* Instances of Covers for TLC.                                             *)
EXTENDS Covers, TLC

CONSTANTS n1, n2, n3, A

\* The group with index 10, as two motors may spell it, another one, ALL, and
\* an id that is no group's.
Lower == [formed |-> TRUE, index |-> 10, upper |-> FALSE]
Capital == [formed |-> TRUE, index |-> 10, upper |-> TRUE]
Other == [formed |-> TRUE, index |-> 2, upper |-> TRUE]
All == [formed |-> TRUE, index |-> 1, upper |-> TRUE]
Strange == [formed |-> FALSE, index |-> 0, upper |-> TRUE]

\* A telnet motor and one that only the web interface reads, in a group.
House ==
  [slides |-> {n1},
   detected |-> [n \in Nodes |-> IF n = n2 THEN "non_positional" ELSE "positional"],
   capability |-> [n \in Nodes |-> IF n = n2 THEN "non_positional" ELSE "positional"],
   lists |-> [n \in Nodes |-> IF n = n1 THEN {Capital, All}
                              ELSE IF n = n2 THEN {Lower, All} ELSE {}],
   label |-> [n \in Nodes |-> <<A>>], found |-> {n1, n2}, web |-> TRUE,
   commands |-> 2, failures |-> 0]

\* The same, with fewer commands and answers that fail.
Flaky == [House EXCEPT !.commands = 1, !.failures = 2]

\* Two telnet motors in a group that has a slider, one of which lists it twice.
Shades == [Flaky EXCEPT !.slides = Nodes, !.failures = 1,
                        !.lists[n1] = {Capital, Lower, All},
                        !.detected = [n \in Nodes |-> "positional"],
                        !.capability = [n \in Nodes |-> "positional"]]

\* The second motor of the group has not been found.
Missed == [Flaky EXCEPT !.found = {n1}]

\* The owner has corrected both motors, wrongly or not; no web password.
Corrected == [Flaky EXCEPT !.web = FALSE,
                           !.capability = [n \in Nodes |->
                              IF n = n1 THEN "non_positional" ELSE "positional"]]

\* Every way three motors may be labelled.
SomeLabels == {<<>>, <<A>>, <<n1>>, <<A, n1>>, <<A, n2>>}
Labelled == {[House EXCEPT !.label = l, !.found = Nodes, !.web = FALSE,
                           !.commands = 0, !.failures = 0] :
               l \in [Nodes -> SomeLabels]}

\* Every way two motors may list up to two groups.
SomeLists == {L \in SUBSET {Lower, Capital, Other, All, Strange} : Cardinality(L) <= 2}
Grouped == {[House EXCEPT !.lists = (n1 :> K) @@ (n2 :> L) @@ (n3 :> {}),
                          !.web = FALSE, !.commands = 0, !.failures = 0] :
              K \in SomeLists, L \in SomeLists}

MCSites == {House, Flaky, Shades, Missed, Corrected} \cup Labelled \cup Grouped
=============================================================================
