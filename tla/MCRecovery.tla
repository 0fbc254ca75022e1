----------------------------- MODULE MCRecovery -----------------------------
\* Recovery with the symmetry of its workspaces.
EXTENDS Recovery, TLC

WorkspaceSymmetry == Permutations(Workspace)
=============================================================================
