------------------------ MODULE MCWorkspaceLifecycle ------------------------
\* WorkspaceLifecycle with one scheduled workspace and two dispatched ones;
\* the second slug collides only with a dispatch.
EXTENDS WorkspaceLifecycle, TLC

CONSTANTS task, d1, d2, s1, s2

MCId == {task, d1, d2}
MCScheduled == {task}
MCSlug == {s1, s2}
MCTaskSlug == [i \in MCScheduled |-> s1]
LifecycleSymmetry == Permutations(Request) \cup Permutations({d1, d2})
=============================================================================
