--------------------------- MODULE RecoveryProofs ---------------------------
(***************************************************************************)
(* The properties of the restart recovery for any set of workspaces.       *)
(***************************************************************************)
EXTENDS Recovery, TLAPS

\* What is left in the process, in the rows and in the sweep at each stage:
\* past its block a table has open rows only if its probe failed.
Stages ==
    /\ unit \notin Serving => turn1 = {} /\ turn2 = {} /\ ptyLive = {}
    /\ unit # "sweep" => todo = {}
    /\ spawning \ ptyLive \subseteq open1
    /\ unit = "pty1" => open1 = {} /\ spawning = {}
    /\ unit \in {"probe2", "collect2", "update2", "queue"} \cup Serving =>
          open1 = {} \/ "v1" \in unprobed
    /\ unit \in {"queue"} \cup Serving => open2 = {} \/ "v2" \in unprobed

\* Why nothing is dropped unnoticed: what heal is about to mark has been
\* collected or is accounted for in lost, and so is everything that was left
\* unmarked.
Collected ==
    /\ unit = "down" => owed \subseteq lost \cup Findable
    /\ unit \in Heal => owed \subseteq lost \cup aff \cup Findable
    /\ unit = "update1" => open1 \subseteq aff \cup lost
    /\ unit = "update2" => open2 \subseteq aff \cup lost
    /\ unit \in {"probe2", "collect2", "update2", "queue"} \cup Serving =>
          open1 \cup (pty \ ptyLive) \subseteq lost
    /\ unit \in {"queue"} \cup Serving => open2 \subseteq lost

\* Why nobody is nudged without need: everything heal can find, has collected,
\* has queued or still has to tick is owed a nudge.
Justified ==
    /\ unit \notin Serving => Findable \subseteq owed
    /\ Unmarked \subseteq owed
    /\ unit \in Heal => aff \subseteq owed
    /\ unit \in {"kick", "read"} => queue \subseteq owed
    /\ todo \subseteq owed

IInv ==
    TypeOK /\ Stages /\ OnlyKnownGaps /\ Collected /\ Justified

-----------------------------------------------------------------------------
\* At first there is nothing to recover.
LEMMA InitInv == Init => IInv
  BY DEF Init, IInv, TypeOK, Stages, OnlyKnownGaps, Collected,
         Justified, Findable, ToNudge, Unmarked, running, Heal, Serving

\* A step that leaves everything alone keeps the invariant.
LEMMA StutterKeepsInv ==
    ASSUME IInv, UNCHANGED vars
    PROVE  IInv'
  BY DEF vars, rows, open, turns, ptys, history, IInv, TypeOK, Stages,
         OnlyKnownGaps, Collected, Justified, Findable, ToNudge, Unmarked,
         running, Heal, Serving

\* A turn starts: its row is open and it is running.
LEMMA TurnStartKeepsInv ==
    ASSUME IInv, NEW w \in Workspace, TurnStart(w)
    PROVE  IInv'
<1> USE DEF IInv, TypeOK, TurnStart,
           rows, open, turns, running, ptys, history, Heal, Serving, Findable,
           ToNudge, Unmarked
<1>1. TypeOK' /\ Stages'
  BY DEF Stages
<1>2. OnlyKnownGaps' /\ Collected'
  BY DEF Stages, OnlyKnownGaps, Collected
<1>3. Justified'
  BY DEF Stages, Justified
<1> QED
  BY <1>1, <1>2, <1>3

\* A turn ends: its rows are complete.
LEMMA TurnEndKeepsInv ==
    ASSUME IInv, NEW w \in Workspace, TurnEnd(w)
    PROVE  IInv'
<1> USE DEF IInv, TypeOK, TurnEnd,
           rows, open, turns, running, ptys, history, Heal, Serving, Findable,
           ToNudge, Unmarked
<1>1. TypeOK' /\ Stages'
  BY DEF Stages
<1>2. OnlyKnownGaps' /\ Collected'
  BY DEF Stages, OnlyKnownGaps, Collected
<1>3. Justified'
  BY DEF Stages, Justified
<1> QED
  BY <1>1, <1>2, <1>3

\* A terminal is spawned and is a process of the server.
LEMMA PtySpawnKeepsInv ==
    ASSUME IInv, NEW w \in Workspace, PtySpawn(w)
    PROVE  IInv'
<1> USE DEF IInv, TypeOK, PtySpawn,
           rows, open, turns, running, ptys, history, Heal, Serving, Findable,
           ToNudge, Unmarked
<1>1. TypeOK' /\ Stages'
  BY DEF Stages
<1>2. OnlyKnownGaps' /\ Collected'
  BY DEF Stages, OnlyKnownGaps, Collected
<1>3. Justified'
  BY DEF Stages, Justified
<1> QED
  BY <1>1, <1>2, <1>3

\* A terminal exits and the agent is told.
LEMMA PtyExitKeepsInv ==
    ASSUME IInv, NEW w \in Workspace, PtyExit(w)
    PROVE  IInv'
<1> USE DEF IInv, TypeOK, PtyExit,
           rows, open, turns, running, ptys, history, Heal, Serving, Findable,
           ToNudge, Unmarked
<1>1. TypeOK' /\ Stages'
  BY DEF Stages
<1>2. OnlyKnownGaps' /\ Collected'
  BY DEF Stages, OnlyKnownGaps, Collected
<1>3. Justified'
  BY DEF Stages, Justified
<1> QED
  BY <1>1, <1>2, <1>3

\* A nudge settles what heal marked; an unmarked terminal stays owed.
LEMMA SweepTickKeepsInv ==
    ASSUME IInv, NEW w \in Workspace, SweepTick(w)
    PROVE  IInv'
<1> USE DEF IInv, TypeOK, SweepTick,
           rows, open, turns, running, ptys, history, Heal, Serving, Findable,
           ToNudge, Unmarked
<1>1. TypeOK' /\ Stages'
  BY DEF Stages
<1>2. OnlyKnownGaps' /\ Collected'
  BY DEF Stages, OnlyKnownGaps, Collected
<1>3. Justified'
  BY DEF Stages, Justified
<1> QED
  BY <1>1, <1>2, <1>3

\* A failed tick is one of the known gaps.
LEMMA SweepTickFailsKeepsInv ==
    ASSUME IInv, NEW w \in Workspace, SweepTickFails(w)
    PROVE  IInv'
<1> USE DEF IInv, TypeOK, SweepTickFails,
           rows, open, turns, running, ptys, history, Heal, Serving, Findable,
           ToNudge, Unmarked
<1>1. TypeOK' /\ Stages'
  BY DEF Stages
<1>2. OnlyKnownGaps' /\ Collected'
  BY DEF Stages, OnlyKnownGaps, Collected
<1>3. Justified'
  BY DEF Stages, Justified
<1> QED
  BY <1>1, <1>2, <1>3

\* The process ends: its turns and terminals become owed, and heal finds them.
LEMMA StopKeepsInv ==
    ASSUME IInv, unit \in Serving, Stop
    PROVE  IInv'
<1> USE DEF IInv, TypeOK, Stop,
           rows, open, turns, running, ptys, history, Heal, Serving, Findable,
           ToNudge, Unmarked
<1>1. TypeOK' /\ Stages'
  BY DEF Stages
<1>2. OnlyKnownGaps' /\ Collected'
  BY DEF Stages, OnlyKnownGaps, Collected
<1>3. Justified'
  BY DEF Stages, Justified
<1> QED
  BY <1>1, <1>2, <1>3

\* heal starts with nothing collected.
LEMMA StartUnitKeepsInv ==
    ASSUME IInv, StartUnit
    PROVE  IInv'
<1> USE DEF IInv, TypeOK, StartUnit,
           rows, open, turns, running, ptys, history, Heal, Serving, Findable,
           ToNudge, Unmarked
<1>1. TypeOK' /\ Stages'
  BY DEF Stages
<1>2. OnlyKnownGaps' /\ Collected'
  BY DEF Stages, OnlyKnownGaps, Collected
<1>3. Justified'
  BY DEF Stages, Justified
<1> QED
  BY <1>1, <1>2, <1>3

\* A probe that fails accounts for everything its block would have found.
LEMMA ProbeKeepsInv ==
    ASSUME IInv, v1_exists \/ v2_exists
    PROVE  IInv'
<1> USE DEF IInv, TypeOK, v1_exists, v2_exists, Probe,
           rows, open, turns, running, ptys, history, Heal, Serving, Findable,
           ToNudge, Unmarked
<1>1. TypeOK' /\ Stages'
  BY DEF Stages
<1>2. OnlyKnownGaps' /\ Collected'
  BY DEF Stages, OnlyKnownGaps, Collected
<1>3. Justified'
  BY DEF Stages, Justified
<1> QED
  BY <1>1, <1>2, <1>3

\* A query of heal collects the open rows of its table, or fails.
LEMMA CollectKeepsInv ==
    ASSUME IInv, heal_collect
    PROVE  IInv'
<1> USE DEF IInv, TypeOK, heal_collect, Collect,
           rows, open, turns, running, ptys, history, Heal, Serving, Findable,
           ToNudge, Unmarked
<1>1. TypeOK' /\ Stages'
  BY DEF Stages
<1>2. OnlyKnownGaps' /\ Collected'
  BY DEF Stages, OnlyKnownGaps, Collected
<1>3. Justified'
  BY DEF Stages, Justified
<1> QED
  BY <1>1, <1>2, <1>3

\* The v1 rows are marked after they were collected.
LEMMA Update1KeepsInv ==
    ASSUME IInv, Update1
    PROVE  IInv'
<1> USE DEF IInv, TypeOK, Update1, heal_update,
           rows, open, turns, running, ptys, history, Heal, Serving, Findable,
           ToNudge, Unmarked
<1>1. TypeOK' /\ Stages'
  BY DEF Stages
<1>2. OnlyKnownGaps' /\ Collected'
  BY DEF Stages, OnlyKnownGaps, Collected
<1>3. Justified'
  BY DEF Stages, Justified
<1> QED
  BY <1>1, <1>2, <1>3

\* The abandoned terminals are marked and collected, or left.
LEMMA PtyKeepsInv ==
    ASSUME IInv, heal_process_pty_v1
    PROVE  IInv'
<1> USE DEF IInv, TypeOK, heal_process_pty_v1,
           rows, open, turns, running, ptys, history, Heal, Serving, Findable,
           ToNudge, Unmarked
<1>1. TypeOK' /\ Stages'
  BY DEF Stages
<1>2. OnlyKnownGaps' /\ Collected'
  BY DEF Stages, OnlyKnownGaps, Collected
<1>3. Justified'
  BY DEF Stages, Justified
<1> QED
  BY <1>1, <1>2, <1>3

\* The v2 rows are marked after they were collected.
LEMMA Update2KeepsInv ==
    ASSUME IInv, Update2
    PROVE  IInv'
<1> USE DEF IInv, TypeOK, Update2, heal_update,
           rows, open, turns, running, ptys, history, Heal, Serving, Findable,
           ToNudge, Unmarked
<1>1. TypeOK' /\ Stages'
  BY DEF Stages
<1>2. OnlyKnownGaps' /\ Collected'
  BY DEF Stages, OnlyKnownGaps, Collected
<1>3. Justified'
  BY DEF Stages, Justified
<1> QED
  BY <1>1, <1>2, <1>3

\* The queue holds all that was collected.
LEMMA QueueWriteKeepsInv ==
    ASSUME IInv, QueueWrite
    PROVE  IInv'
<1> USE DEF IInv, TypeOK, QueueWrite,
           rows, open, turns, running, ptys, history, Heal, Serving, Findable,
           ToNudge, Unmarked
<1>1. TypeOK' /\ Stages'
  BY DEF Stages
<1>2. OnlyKnownGaps' /\ Collected'
  BY DEF Stages, OnlyKnownGaps, Collected
<1>3. Justified'
  BY DEF Stages, Justified
<1> QED
  BY <1>1, <1>2, <1>3

\* A heal that is cut short leaves what it did not mark to the next.
LEMMA HealAbortsKeepsInv ==
    ASSUME IInv, HealAborts
    PROVE  IInv'
<1> USE DEF IInv, TypeOK, HealAborts,
           rows, open, turns, running, ptys, history, Heal, Serving, Findable,
           ToNudge, Unmarked
<1>1. TypeOK' /\ Stages'
  BY DEF Stages
<1>2. OnlyKnownGaps' /\ Collected'
  BY DEF Stages, OnlyKnownGaps, Collected
<1>3. Justified'
  BY DEF Stages, Justified
<1> QED
  BY <1>1, <1>2, <1>3

\* The unit is healthy; the queue is not touched.
LEMMA SyncKickKeepsInv ==
    ASSUME IInv, SyncKick
    PROVE  IInv'
<1> USE DEF IInv, TypeOK, SyncKick,
           rows, open, turns, running, ptys, history, Heal, Serving, Findable,
           ToNudge, Unmarked
<1>1. TypeOK' /\ Stages'
  BY DEF Stages
<1>2. OnlyKnownGaps' /\ Collected'
  BY DEF Stages, OnlyKnownGaps, Collected
<1>3. Justified'
  BY DEF Stages, Justified
<1> QED
  BY <1>1, <1>2, <1>3

\* What the sweep does not read of the queue is accounted for.
LEMMA SweepReadKeepsInv ==
    ASSUME IInv, SweepRead
    PROVE  IInv'
<1> USE DEF IInv, TypeOK, SweepRead,
           rows, open, turns, running, ptys, history, Heal, Serving, Findable,
           ToNudge, Unmarked
<1>1. TypeOK' /\ Stages'
  BY DEF Stages
<1>2. OnlyKnownGaps' /\ Collected'
  BY DEF Stages, OnlyKnownGaps, Collected
<1>3. Justified'
  BY DEF Stages, Justified
<1> QED
  BY <1>1, <1>2, <1>3

\* The sweep ends with nothing left to tick.
LEMMA SweepDoneKeepsInv ==
    ASSUME IInv, SweepDone
    PROVE  IInv'
<1> USE DEF IInv, TypeOK, SweepDone,
           rows, open, turns, running, ptys, history, Heal, Serving, Findable,
           ToNudge, Unmarked
<1>1. TypeOK' /\ Stages'
  BY DEF Stages
<1>2. OnlyKnownGaps' /\ Collected'
  BY DEF Stages, OnlyKnownGaps, Collected
<1>3. Justified'
  BY DEF Stages, Justified
<1> QED
  BY <1>1, <1>2, <1>3

\* Every step of the unit, of opencode and of the hooks keeps the invariant.
LEMMA NextInv ==
    ASSUME IInv, [Next]_vars
    PROVE  IInv'
<1>1. CASE \E w \in Workspace : \/ TurnStart(w) \/ TurnEnd(w)
                               \/ PtySpawn(w) \/ PtyExit(w)
                               \/ SweepTick(w) \/ SweepTickFails(w)
  BY <1>1, TurnStartKeepsInv, TurnEndKeepsInv, PtySpawnKeepsInv,
     PtyExitKeepsInv, SweepTickKeepsInv, SweepTickFailsKeepsInv
<1>2. CASE Killed \/ SyncKickFails
  BY <1>2, StopKeepsInv DEF Killed, SyncKickFails, Serving
<1>3. CASE \/ StartUnit \/ v1_exists \/ v2_exists
           \/ heal_collect \/ Update1 \/ heal_process_pty_v1
           \/ Update2 \/ QueueWrite \/ HealAborts
  BY <1>3, StartUnitKeepsInv, ProbeKeepsInv, CollectKeepsInv,
     Update1KeepsInv, PtyKeepsInv,
     Update2KeepsInv, QueueWriteKeepsInv, HealAbortsKeepsInv
<1>4. CASE SyncKick \/ SweepRead \/ SweepDone
  BY <1>4, SyncKickKeepsInv, SweepReadKeepsInv, SweepDoneKeepsInv
<1>5. CASE UNCHANGED vars
  BY <1>5, StutterKeepsInv
<1> QED
  BY <1>1, <1>2, <1>3, <1>4, <1>5 DEF Next

\* The inductive invariant holds in every state of every restart history.
LEMMA Invariance == Spec => []IInv
<1>1. Init => IInv
  BY InitInv
<1>2. IInv /\ [Next]_vars => IInv'
  BY NextInv
<1> QED
  BY <1>1, <1>2, PTL DEF Spec

-----------------------------------------------------------------------------
\* The types, and that a live terminal is always one heal would find.
THEOREM TypeCorrect == Spec => []TypeOK
<1>1. IInv => TypeOK
  BY DEF IInv
<1> QED
  BY <1>1, Invariance, PTL

\* opencode-heal before every start: a turn of a dead server is streaming only
\* if the probe of its table failed, whatever else failed in this or an
\* earlier start.
THEOREM ZombiesHealed == Spec => []ZombiesOnlyUnprobed
<1>1. IInv => ZombiesOnlyUnprobed
  BY DEF IInv, Stages, ZombiesOnlyUnprobed, Serving
<1> QED
  BY <1>1, Invariance, PTL

\* An interrupted workspace is queued unless a listed failure dropped it.
THEOREM GapsAreKnown == Spec => []OnlyKnownGaps
<1>1. IInv => OnlyKnownGaps
  BY DEF IInv
<1> QED
  BY <1>1, Invariance, PTL

\* The recovery sweep never nudges a workspace that is not owed a nudge.
THEOREM NudgesJustified == Spec => NudgeOnlyInterrupted
<1>1. IInv => \A w \in Workspace : SweepTick(w) => w \in owed
  BY DEF IInv, Justified, SweepTick
<1> QED
  BY <1>1, Invariance, PTL DEF NudgeOnlyInterrupted
=============================================================================
