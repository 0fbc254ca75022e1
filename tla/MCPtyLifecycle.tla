--------------------------- MODULE MCPtyLifecycle ---------------------------
(* TLC instance of PtyLifecycle: the ids are interchangeable.              *)
EXTENDS PtyLifecycle, TLC

PtySymmetry == Permutations(Pty)
=============================================================================
