-------------------------- MODULE MCPluginInstall --------------------------
(***************************************************************************)
(* Instances of PluginInstall for TLC: two versions of one plugin.  v2     *)
(* ships a requirements.txt, a venv and a status file that says "ok".      *)
(***************************************************************************)
EXTENDS PluginInstall

CONSTANTS v1, v2

OkInV2 == [v \in Versions |-> IF v = v2 THEN "ok" ELSE "none"]
=============================================================================
