------------------------- MODULE MCDaemonLifecycle -------------------------
(***************************************************************************)
(* DaemonLifecycle for TLC: three Studio sessions, so that a later meets   *)
(* the daemon, the disk and the token file the earlier ones left.          *)
(***************************************************************************)
EXTENDS DaemonLifecycle
=============================================================================
