------------------------------ MODULE MCInstall ------------------------------
(* Instances of Install for TLC: the buses of MCEntry, two dialogs.         *)
EXTENDS MCEntry, Install
=============================================================================
