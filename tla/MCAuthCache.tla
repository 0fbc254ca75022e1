---------------------------- MODULE MCAuthCache ----------------------------
(* TLC instance of AuthCache.  Its run checks a temporal property, so the  *)
(* processes are not declared symmetric.                                   *)
EXTENDS AuthCache
=============================================================================
