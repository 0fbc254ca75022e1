---------------------------- MODULE MCLoopPlugin ----------------------------
(* TLC instance of LoopPlugin.  Its runs check temporal properties, so     *)
(* handler slots and sessions are not declared symmetric.                  *)
EXTENDS LoopPlugin
=============================================================================
