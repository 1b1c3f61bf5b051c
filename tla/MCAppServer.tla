---------------------------- MODULE MCAppServer ----------------------------
(* The Codex app server on a small instance: the constants are in the cfg.   *)
EXTENDS AppServer
=============================================================================
