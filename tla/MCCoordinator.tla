---------------------------- MODULE MCCoordinator ----------------------------
(* Instances of Coordinator for TLC. *)
EXTENDS Coordinator

\* One cover for each motor, and one for the group of them all.
MotorsAndGroup == {{n} : n \in Motors} \cup {Motors}
=============================================================================
