--------------------------- MODULE MCScheduledTick ---------------------------
(* TLC instance of ScheduledTick.  Its run checks a temporal property, so  *)
(* the ticks are not declared symmetric.                                   *)
EXTENDS ScheduledTick
=============================================================================
