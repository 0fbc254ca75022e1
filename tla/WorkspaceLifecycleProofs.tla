---------------------- MODULE WorkspaceLifecycleProofs ----------------------
(***************************************************************************)
(* Rows and clones stay together, for any number of requests, workspaces   *)
(* and slugs.                                                              *)
(*                                                                         *)
(* RowHasItsClone and CloneHasItsRow speak of quiet slugs only.  What makes *)
(* them inductive is what each request in flight may rely on: a create     *)
(* owns the row it inserted, a remove meets no other workspace's clone,    *)
(* and on a slug that is not excused the two never overlap.                *)
(***************************************************************************)
EXTENDS WorkspaceLifecycle, TLAPS

\* r has inserted its row and has not returned.
Inserted(r) == req[r].pc \in {"clone", "rename", "undo"}

\* An id has one slug: that of its task, or the one it was minted with.
SlugFixed ==
    /\ \A r, q \in Request : (req[r] # Idle /\ req[r].id = req[q].id)
                               => req[r].slug = req[q].slug
    /\ \A r \in Request : (req[r] # Idle /\ row[req[r].id] # None)
                              => row[req[r].id] = req[r].slug
    /\ \A i \in Id \ (Scheduled \cup minted) :
          row[i] = None /\ \A r \in Request : req[r].id # i
    /\ \A i \in Scheduled :
          /\ row[i] \in {None, TaskSlug[i]}
          /\ \A r \in Request : req[r].id = i => req[r].slug = TaskSlug[i]

\* A create past its insert owns its row alone, meets no remove on its slug
\* and has no clone yet.
CreateInv ==
    \A r \in Request : (Inserted(r) /\ req[r].slug \notin excused) =>
        /\ row[req[r].id] = req[r].slug
        /\ clone[req[r].slug] # req[r].id
        /\ \A q \in Request \ {r} : Inserted(q) => req[q].id # req[r].id
        /\ \A q \in Request : req[q].pc \in Removing => req[q].slug # req[r].slug

\* A remove meets its own workspace's clone or none, and none once it is gone.
RemoveInv ==
    \A r \in Request : (req[r].pc \in Removing /\ req[r].slug \notin excused) =>
        /\ clone[req[r].slug] \in {req[r].id, None}
        /\ req[r].pc = "drop" => clone[req[r].slug] = None

\* RowHasItsClone, also while requests are in flight.
RowInv ==
    \A i \in Id : (row[i] # None /\ row[i] \notin excused) =>
        \/ clone[row[i]] = i
        \/ \E r \in Request : Inserted(r) /\ req[r].id = i
        \/ \E r \in Request : req[r].pc = "drop" /\ req[r].id = i

\* CloneHasItsRow, also while requests are in flight.
CloneInv ==
    \A s \in Slug : (clone[s] # None /\ s \notin excused) => row[clone[s]] = s

IInv == TypeOK /\ SlugFixed /\ CreateInv /\ RemoveInv /\ RowInv /\ CloneInv

-----------------------------------------------------------------------------
\* At first there are no workspaces.
LEMMA InitInv == Init => IInv
  BY ScheduledAssumption, TaskSlugAssumption, NoneAssumption
     DEF Init, IInv, TypeOK, SlugFixed, CreateInv, RemoveInv, RowInv, CloneInv,
         Inserted, Idle, Creating, Removing

\* A request is configured; nothing shared changes.
LEMMA ConfigureKeepsInv ==
    ASSUME IInv, NEW r \in Request, NEW i \in Id, NEW s \in Slug, configure(r, i, s)
    PROVE  IInv'
<1> USE ScheduledAssumption, TaskSlugAssumption, NoneAssumption
    DEF IInv, TypeOK, configure, Goto, Return, Idle, Creating, Removing, Inserted
<1>1. TypeOK'
  OBVIOUS
<1>2. SlugFixed'
  BY DEF SlugFixed
<1>3. CreateInv'
  BY DEF SlugFixed, CreateInv, CloneInv, Overlaps
<1>4. RemoveInv'
  BY DEF SlugFixed, CreateInv, RemoveInv, RowInv, Overlaps
<1>5. RowInv'
  BY DEF SlugFixed, CreateInv, RemoveInv, RowInv
<1>6. CloneInv'
  BY DEF SlugFixed, CreateInv, RemoveInv, CloneInv
<1> QED
  BY <1>1, <1>2, <1>3, <1>4, <1>5, <1>6

\* The row of a create appears; a remove in flight for its slug is excused.
LEMMA InsertRowKeepsInv ==
    ASSUME IInv, NEW r \in Request, InsertRow(r)
    PROVE  IInv'
<1> USE ScheduledAssumption, TaskSlugAssumption, NoneAssumption
    DEF IInv, TypeOK, InsertRow, Goto, Return, Idle, Creating, Removing, Inserted
<1>1. TypeOK'
  OBVIOUS
<1>2. SlugFixed'
  BY DEF SlugFixed
<1>3. CreateInv'
  BY DEF SlugFixed, CreateInv, CloneInv, Overlaps
<1>4. RemoveInv'
  BY DEF SlugFixed, CreateInv, RemoveInv, RowInv, Overlaps
<1>5. RowInv'
  BY DEF SlugFixed, CreateInv, RemoveInv, RowInv
<1>6. CloneInv'
  BY DEF SlugFixed, CreateInv, RemoveInv, CloneInv
<1> QED
  BY <1>1, <1>2, <1>3, <1>4, <1>5, <1>6

\* A create whose id is taken ends.
LEMMA InsertConflictKeepsInv ==
    ASSUME IInv, NEW r \in Request, InsertConflict(r)
    PROVE  IInv'
<1> USE ScheduledAssumption, TaskSlugAssumption, NoneAssumption
    DEF IInv, TypeOK, InsertConflict, Goto, Return, Idle, Creating, Removing, Inserted
<1>1. TypeOK'
  OBVIOUS
<1>2. SlugFixed'
  BY DEF SlugFixed
<1>3. CreateInv'
  BY DEF SlugFixed, CreateInv, CloneInv, Overlaps
<1>4. RemoveInv'
  BY DEF SlugFixed, CreateInv, RemoveInv, RowInv, Overlaps
<1>5. RowInv'
  BY DEF SlugFixed, CreateInv, RemoveInv, RowInv
<1>6. CloneInv'
  BY DEF SlugFixed, CreateInv, RemoveInv, CloneInv
<1> QED
  BY <1>1, <1>2, <1>3, <1>4, <1>5, <1>6

\* git works in a directory of its own.
LEMMA CloneRepoIntoKeepsInv ==
    ASSUME IInv, NEW r \in Request, cloneRepoInto(r)
    PROVE  IInv'
<1> USE ScheduledAssumption, TaskSlugAssumption, NoneAssumption
    DEF IInv, TypeOK, cloneRepoInto, Goto, Return, Idle, Creating, Removing, Inserted
<1>1. TypeOK'
  OBVIOUS
<1>2. SlugFixed'
  BY DEF SlugFixed
<1>3. CreateInv'
  BY DEF SlugFixed, CreateInv, CloneInv, Overlaps
<1>4. RemoveInv'
  BY DEF SlugFixed, CreateInv, RemoveInv, RowInv, Overlaps
<1>5. RowInv'
  <2>1. \A q \in Request : Inserted(q)' <=> Inserted(q)
    OBVIOUS
  <2>2. \A q \in Request : /\ req'[q].id = req[q].id
                           /\ req'[q].pc = "drop" <=> req[q].pc = "drop"
    OBVIOUS
  <2> QED
    BY <2>1, <2>2 DEF RowInv
<1>6. CloneInv'
  BY DEF SlugFixed, CreateInv, RemoveInv, CloneInv
<1> QED
  BY <1>1, <1>2, <1>3, <1>4, <1>5, <1>6

\* The clone appears under a slug that was free, or the create is undone.
LEMMA RenameKeepsInv ==
    ASSUME IInv, NEW r \in Request, rename(r)
    PROVE  IInv'
<1> USE ScheduledAssumption, TaskSlugAssumption, NoneAssumption
    DEF IInv, TypeOK, rename, Goto, Return, Idle, Creating, Removing, Inserted
<1>1. TypeOK'
  OBVIOUS
<1>2. SlugFixed'
  BY DEF SlugFixed
<1>3. CreateInv'
  BY DEF SlugFixed, CreateInv, CloneInv, Overlaps
<1>4. RemoveInv'
  BY DEF SlugFixed, CreateInv, RemoveInv, RowInv, Overlaps
<1>5. RowInv'
  BY DEF SlugFixed, CreateInv, RemoveInv, RowInv
<1>6. CloneInv'
  BY DEF SlugFixed, CreateInv, RemoveInv, CloneInv
<1> QED
  BY <1>1, <1>2, <1>3, <1>4, <1>5, <1>6

\* The row a failed create made is deleted, and it had no clone.
LEMMA UndoKeepsInv ==
    ASSUME IInv, NEW r \in Request, Undo(r)
    PROVE  IInv'
<1> USE ScheduledAssumption, TaskSlugAssumption, NoneAssumption
    DEF IInv, TypeOK, Undo, Goto, Return, Idle, Creating, Removing, Inserted
<1>1. TypeOK'
  OBVIOUS
<1>2. SlugFixed'
  BY DEF SlugFixed
<1>3. CreateInv'
  BY DEF SlugFixed, CreateInv, CloneInv, Overlaps
<1>4. RemoveInv'
  BY DEF SlugFixed, CreateInv, RemoveInv, RowInv, Overlaps
<1>5. RowInv'
  BY DEF SlugFixed, CreateInv, RemoveInv, RowInv
<1>6. CloneInv'
  BY DEF SlugFixed, CreateInv, RemoveInv, CloneInv
<1> QED
  BY <1>1, <1>2, <1>3, <1>4, <1>5, <1>6

\* A remove starts from a row; a create in flight for its slug is excused.
LEMMA RemoveKeepsInv ==
    ASSUME IInv, NEW r \in Request, NEW i \in Id, remove(r, i)
    PROVE  IInv'
<1> USE ScheduledAssumption, TaskSlugAssumption, NoneAssumption
    DEF IInv, TypeOK, remove, Goto, Return, Idle, Creating, Removing, Inserted
<1>1. TypeOK'
  OBVIOUS
<1>2. SlugFixed'
  BY DEF SlugFixed
<1>3. CreateInv'
  BY DEF SlugFixed, CreateInv, CloneInv, Overlaps
<1>4. RemoveInv'
  BY DEF SlugFixed, CreateInv, RemoveInv, RowInv, Overlaps
<1>5. RowInv'
  BY DEF SlugFixed, CreateInv, RemoveInv, RowInv
<1>6. CloneInv'
  BY DEF SlugFixed, CreateInv, RemoveInv, CloneInv
<1> QED
  BY <1>1, <1>2, <1>3, <1>4, <1>5, <1>6

\* The clone that goes is that of the workspace being removed.
LEMMA RmKeepsInv ==
    ASSUME IInv, NEW r \in Request, rm(r)
    PROVE  IInv'
<1> USE ScheduledAssumption, TaskSlugAssumption, NoneAssumption
    DEF IInv, TypeOK, rm, Goto, Return, Idle, Creating, Removing, Inserted
<1>1. TypeOK'
  OBVIOUS
<1>2. SlugFixed'
  BY DEF SlugFixed
<1>3. CreateInv'
  BY DEF SlugFixed, CreateInv, CloneInv, Overlaps
<1>4. RemoveInv'
  BY DEF SlugFixed, CreateInv, RemoveInv, RowInv, Overlaps
<1>5. RowInv'
  BY DEF SlugFixed, CreateInv, RemoveInv, RowInv
<1>6. CloneInv'
  BY DEF SlugFixed, CreateInv, RemoveInv, CloneInv
<1> QED
  BY <1>1, <1>2, <1>3, <1>4, <1>5, <1>6

\* A failed removal leaves the row and the clone.
LEMMA RmFailsKeepsInv ==
    ASSUME IInv, NEW r \in Request, rmFails(r)
    PROVE  IInv'
<1> USE ScheduledAssumption, TaskSlugAssumption, NoneAssumption
    DEF IInv, TypeOK, rmFails, Goto, Return, Idle, Creating, Removing, Inserted
<1>1. TypeOK'
  OBVIOUS
<1>2. SlugFixed'
  BY DEF SlugFixed
<1>3. CreateInv'
  BY DEF SlugFixed, CreateInv, CloneInv, Overlaps
<1>4. RemoveInv'
  BY DEF SlugFixed, CreateInv, RemoveInv, RowInv, Overlaps
<1>5. RowInv'
  BY DEF SlugFixed, CreateInv, RemoveInv, RowInv
<1>6. CloneInv'
  BY DEF SlugFixed, CreateInv, RemoveInv, CloneInv
<1> QED
  BY <1>1, <1>2, <1>3, <1>4, <1>5, <1>6

\* The row goes after its clone.
LEMMA DropRowKeepsInv ==
    ASSUME IInv, NEW r \in Request, DropRow(r)
    PROVE  IInv'
<1> USE ScheduledAssumption, TaskSlugAssumption, NoneAssumption
    DEF IInv, TypeOK, DropRow, Goto, Return, Idle, Creating, Removing, Inserted
<1>1. TypeOK'
  OBVIOUS
<1>2. SlugFixed'
  BY DEF SlugFixed
<1>3. CreateInv'
  BY DEF SlugFixed, CreateInv, CloneInv, Overlaps
<1>4. RemoveInv'
  BY DEF SlugFixed, CreateInv, RemoveInv, RowInv, Overlaps
<1>5. RowInv'
  BY DEF SlugFixed, CreateInv, RemoveInv, RowInv
<1>6. CloneInv'
  BY DEF SlugFixed, CreateInv, RemoveInv, CloneInv
<1> QED
  BY <1>1, <1>2, <1>3, <1>4, <1>5, <1>6

\* What a crash catches in flight is excused; the rest was complete.
LEMMA CrashKeepsInv ==
    ASSUME IInv, Crash
    PROVE  IInv'
<1> USE ScheduledAssumption, TaskSlugAssumption, NoneAssumption
    DEF IInv, TypeOK, Crash, Idle, Creating, Removing, Inserted
<1>1. TypeOK'
  OBVIOUS
<1>2. SlugFixed'
  BY DEF SlugFixed
<1>3. CreateInv' /\ RemoveInv'
  BY DEF CreateInv, RemoveInv
<1>4. RowInv'
  BY DEF SlugFixed, RowInv
<1>5. CloneInv'
  BY DEF CloneInv
<1> QED
  BY <1>1, <1>2, <1>3, <1>4, <1>5

\* Every step of every request keeps the invariant.
LEMMA NextInv ==
    ASSUME IInv, [Next]_vars
    PROVE  IInv'
<1>1. CASE \E r \in Request, i \in Id : remove(r, i)
  BY <1>1, RemoveKeepsInv
<1>2. CASE \E r \in Request, i \in Id, s \in Slug : configure(r, i, s)
  BY <1>2, ConfigureKeepsInv
<1>3. CASE \E r \in Request :
              \/ InsertRow(r) \/ InsertConflict(r)
              \/ cloneRepoInto(r) \/ rename(r) \/ Undo(r)
              \/ rm(r) \/ rmFails(r) \/ DropRow(r)
  BY <1>3, InsertRowKeepsInv, InsertConflictKeepsInv, CloneRepoIntoKeepsInv,
     RenameKeepsInv, UndoKeepsInv, RmKeepsInv, RmFailsKeepsInv, DropRowKeepsInv
<1>4. CASE Crash
  BY <1>4, CrashKeepsInv
<1>5. CASE UNCHANGED vars
  BY <1>5 DEF vars, IInv, TypeOK, SlugFixed, CreateInv, RemoveInv, RowInv,
              CloneInv, Inserted
<1> QED
  BY <1>1, <1>2, <1>3, <1>4, <1>5 DEF Next

\* The inductive invariant holds throughout.
LEMMA Invariance == Spec => []IInv
<1>1. Init => IInv
  BY InitInv
<1>2. IInv /\ [Next]_vars => IInv'
  BY NextInv
<1> QED
  BY <1>1, <1>2, PTL DEF Spec

-----------------------------------------------------------------------------
\* The types of rows, clones and requests.
THEOREM TypeCorrect == Spec => []TypeOK
<1>1. IInv => TypeOK
  BY DEF IInv
<1> QED
  BY <1>1, Invariance, PTL

\* A listed workspace has a clone of its own: the patched create leaves no row
\* of a failed clone, and colliding slugs never share a directory.
THEOREM RowsHaveClones == Spec => []RowHasItsClone
<1>1. IInv => RowHasItsClone
  BY NoneAssumption DEF IInv, TypeOK, SlugFixed, RowInv, RowHasItsClone, Quiet,
                        Inserted, Idle, Creating, Removing
<1> QED
  BY <1>1, Invariance, PTL

\* Every clone is identified by a row: the patched remove never drops the row
\* of a clone it could not delete.
THEOREM ClonesHaveRows == Spec => []CloneHasItsRow
<1>1. IInv => CloneHasItsRow
  BY DEF IInv, CloneInv, CloneHasItsRow
<1> QED
  BY <1>1, Invariance, PTL

\* Workspace data is deleted by a remove of that very workspace only.
THEOREM OperatorDeletes == Spec => DeletedByOperatorOnly
<1> DEFINE Deleted ==
      \A s \in Slug : (clone[s] # None /\ clone'[s] # clone[s] /\ s \notin excused)
          => \E r \in Request : /\ req[r].pc = "wipe"
                                /\ req[r].id = clone[s]
                                /\ req[r].slug = s
<1>1. ASSUME IInv, [Next]_vars
      PROVE  Deleted
  <2>1. ASSUME NEW r \in Request, rename(r)
        PROVE  Deleted
    BY <1>1, <2>1 DEF IInv, TypeOK, rename, Goto, Return
  <2>2. ASSUME NEW r \in Request, rm(r)
        PROVE  Deleted
    BY <1>1, <2>2, NoneAssumption DEF IInv, TypeOK, RemoveInv, rm, Goto, Idle, Creating, Removing
  <2>3. CASE UNCHANGED clone
    BY <2>3
  <2> QED
    BY <1>1, <2>1, <2>2, <2>3
       DEF Next, vars, remove, configure, InsertRow, InsertConflict,
           cloneRepoInto, Undo, rmFails, DropRow, Crash
<1> QED
  BY <1>1, Invariance, PTL DEF Spec, DeletedByOperatorOnly
=============================================================================
