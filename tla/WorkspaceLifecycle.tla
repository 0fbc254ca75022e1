------------------------- MODULE WorkspaceLifecycle -------------------------
(***************************************************************************)
(* Workspaces as a row of opencode's WorkspaceTable and a clone on disk:   *)
(* the create and the remove of opencode as kfactory patches them          *)
(* (patches/opencode-workspace-routing.patch) around the create and the    *)
(* remove of the kfactory adapter (plugins/kfactory-adapter/src/index.ts). *)
(*                                                                         *)
(* Requests of several clients interleave at the awaits.  A scheduled task *)
(* creates its workspace under a stable id and slug, again whenever it is  *)
(* missing; a dispatch has a fresh id and a slug with a random suffix of   *)
(* 16 bits, which may name a directory that exists.  git clones into a     *)
(* temporary directory of the request's own, which is left out.            *)
(***************************************************************************)
CONSTANTS
    Request,     \* concurrent requests
    Id,          \* workspace ids
    Scheduled,   \* the stable ids
    Slug,        \* names of clones
    TaskSlug,    \* the slug of each stable id
    None

ASSUME ScheduledAssumption == Scheduled \subseteq Id
ASSUME TaskSlugAssumption == TaskSlug \in [Scheduled -> Slug]
ASSUME NoneAssumption == None \notin Id \cup Slug

VARIABLES
    row,      \* WorkspaceTable: id -> the slug of its row
    clone,    \* slug -> the id whose create put the directory there
    req,      \* the requests in flight
    minted,   \* fresh ids already given out
    excused   \* history: slugs hit by a crash or by a remove during a create

vars == <<row, clone, req, minted, excused>>

Idle == [pc |-> "idle", id |-> None, slug |-> None]
Creating == {"insert", "clone", "rename", "undo"}
Removing == {"wipe", "drop"}

Init ==
    /\ row = [i \in Id |-> None]
    /\ clone = [s \in Slug |-> None]
    /\ req = [r \in Request |-> Idle]
    /\ minted = {}
    /\ excused = {}

Goto(r, pc) == req' = [req EXCEPT ![r].pc = pc]
Return(r) == req' = [req EXCEPT ![r] = Idle]

\* A request other than r is at one of pcs for the slug s.
Overlaps(r, s, pcs) ==
    \E q \in Request \ {r} : req[q].slug = s /\ req[q].pc \in pcs

-----------------------------------------------------------------------------
(* Create.                                                                 *)

\* configure(): the slug is minted, with the task's suffix for a stable id.
configure(r, i, s) ==
    /\ req[r] = Idle
    /\ IF i \in Scheduled THEN s = TaskSlug[i] ELSE i \notin minted
    /\ req' = [req EXCEPT ![r] = [pc |-> "insert", id |-> i, slug |-> s]]
    /\ minted' = minted \cup ({i} \ Scheduled)
    /\ UNCHANGED <<row, clone, excused>>

\* opencode inserts the row before the adapter runs.
InsertRow(r) ==
    /\ req[r].pc = "insert"
    /\ row[req[r].id] = None
    /\ row' = [row EXCEPT ![req[r].id] = req[r].slug]
    /\ Goto(r, "clone")
    /\ excused' = IF Overlaps(r, req[r].slug, Removing)
                  THEN excused \cup {req[r].slug} ELSE excused
    /\ UNCHANGED <<clone, minted>>

\* The id is taken: the insert fails, outside of what the patch undoes.
InsertConflict(r) ==
    /\ req[r].pc = "insert"
    /\ row[req[r].id] # None
    /\ Return(r)
    /\ UNCHANGED <<row, clone, minted, excused>>

\* Mutant: git clones straight into the workspace's directory, and the
\* cleanup of a failed clone removes it.
cloneRepoIntoDirect(r) ==
    /\ req[r].pc = "clone"
    /\ \/ Goto(r, "rename") /\ UNCHANGED clone
       \/ /\ Goto(r, "undo")
          /\ clone' = [clone EXCEPT ![req[r].slug] = None]
    /\ UNCHANGED <<row, minted, excused>>

\* cloneRepoInto: the checks of create() and git clone, which may fail.
cloneRepoInto(r) ==
    /\ req[r].pc = "clone"
    /\ Goto(r, "rename") \/ Goto(r, "undo")
    /\ UNCHANGED <<row, clone, minted, excused>>

\* rename(tmpDir, dir) fails on a directory that is there: slug collision.
rename(r) ==
    /\ req[r].pc = "rename"
    /\ IF clone[req[r].slug] = None
       THEN clone' = [clone EXCEPT ![req[r].slug] = req[r].id] /\ Return(r)
       ELSE Goto(r, "undo") /\ UNCHANGED clone
    /\ UNCHANGED <<row, minted, excused>>

\* Mutant: upstream's create, which leaves the row of a failed create.
UndoNothing(r) ==
    /\ req[r].pc = "undo"
    /\ Return(r)
    /\ UNCHANGED <<row, clone, minted, excused>>

\* The patched catchCause: the row of a failed create is deleted by its id.
Undo(r) ==
    /\ req[r].pc = "undo"
    /\ row' = [row EXCEPT ![req[r].id] = None]
    /\ Return(r)
    /\ UNCHANGED <<clone, minted, excused>>

-----------------------------------------------------------------------------
(* Remove.                                                                 *)

\* Mutant: a remove of an unknown id goes on.
removeBlind(r, i) ==
    /\ req[r] = Idle
    /\ req' = [req EXCEPT ![r] = [pc |-> "wipe", id |-> i, slug |-> row[i]]]
    /\ UNCHANGED <<row, clone, minted, excused>>

\* Workspace.remove reads the row; without one it returns.
remove(r, i) ==
    /\ req[r] = Idle
    /\ row[i] # None
    /\ req' = [req EXCEPT ![r] = [pc |-> "wipe", id |-> i, slug |-> row[i]]]
    /\ excused' = IF Overlaps(r, row[i], Creating \ {"insert"})
                  THEN excused \cup {row[i]} ELSE excused
    /\ UNCHANGED <<row, clone, minted>>

\* The adapter's remove(): rm of the directory the row names.
rm(r) ==
    /\ req[r].pc = "wipe"
    /\ clone' = [clone EXCEPT ![req[r].slug] = None]
    /\ Goto(r, "drop")
    /\ UNCHANGED <<row, minted, excused>>

\* Mutant: upstream's remove, which logs the failure and goes on.
rmFailsSwallowed(r) ==
    /\ req[r].pc = "wipe"
    /\ Goto(r, "drop")
    /\ UNCHANGED <<row, clone, minted, excused>>

\* A check or rm fails: the failure propagates, the row stays.
rmFails(r) ==
    /\ req[r].pc = "wipe"
    /\ Return(r)
    /\ UNCHANGED <<row, clone, minted, excused>>

\* The sessions and the row of the workspace are deleted.
DropRow(r) ==
    /\ req[r].pc = "drop"
    /\ row' = [row EXCEPT ![req[r].id] = None]
    /\ Return(r)
    /\ UNCHANGED <<clone, minted, excused>>

-----------------------------------------------------------------------------
\* opencode-serve dies: what was in flight stays as it is.
Crash ==
    /\ \E r \in Request : req[r] # Idle
    /\ req' = [r \in Request |-> Idle]
    /\ excused' = excused \cup ({req[r].slug : r \in Request} \ {None})
    /\ UNCHANGED <<row, clone, minted>>

Next ==
    \/ \E r \in Request, i \in Id : remove(r, i)
    \/ \E r \in Request, i \in Id, s \in Slug : configure(r, i, s)
    \/ \E r \in Request :
          \/ InsertRow(r) \/ InsertConflict(r)
          \/ cloneRepoInto(r) \/ rename(r) \/ Undo(r)
          \/ rm(r) \/ rmFails(r) \/ DropRow(r)
    \/ Crash

Spec == Init /\ [][Next]_vars

-----------------------------------------------------------------------------
\* Every variable has its type; a request past its lookup has an id and a slug.
TypeOK ==
    /\ row \in [Id -> Slug \cup {None}]
    /\ clone \in [Slug -> Id \cup {None}]
    /\ req \in [Request -> {Idle} \cup
                  [pc : Creating \cup Removing, id : Id, slug : Slug]]
    /\ minted \subseteq Id \ Scheduled
    /\ excused \subseteq Slug

\* No request is working on the slug s.
Quiet(s) == \A r \in Request : req[r].slug # s

\* A listed workspace has a clone, and it is its own: whatever requests
\* overlapped and failed, no row names a directory that was never cloned, and
\* no two rows share one, also when two creates mint the same slug.  A slug
\* that a remove hit during its create, or a crash during any request, is
\* excused, and stays so: what is left there is the operator's to repair.
RowHasItsClone ==
    \A i \in Id : (row[i] # None /\ Quiet(row[i]) /\ row[i] \notin excused)
                     => clone[row[i]] = i

\* A clone on disk is named by the row of the workspace it was made for: no
\* create or remove that fails halfway leaves data that no row identifies, with
\* the same exception of the excused slugs.
CloneHasItsRow ==
    \A s \in Slug : (clone[s] # None /\ Quiet(s) /\ s \notin excused)
                       => row[clone[s]] = s

\* docs/spec.md:246-249, workspace data is deleted by the operator only: a
\* clone goes away, or changes hands, only while a remove that read the row of
\* this very workspace runs, also for creates that collide with it and fail.
DeletedByOperatorOnly ==
    [][\A s \in Slug : (clone[s] # None /\ clone'[s] # clone[s] /\ s \notin excused)
          => \E r \in Request : /\ req[r].pc = "wipe"
                                /\ req[r].id = clone[s]
                                /\ req[r].slug = s]_vars
=============================================================================
