----------------------------- MODULE MCSomfyWeb -----------------------------
(* An instance of SomfyWeb for TLC: web_reads.cfg gives the constants.      *)
EXTENDS SomfyWeb
=============================================================================
