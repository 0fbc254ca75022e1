------------------------------ MODULE Recovery ------------------------------
(***************************************************************************)
(* What happens to the agents' turns when opencode-serve is restarted      *)
(* (modules/recovery.nix): opencode-heal as ExecStartPre marks the turns   *)
(* and terminals the dead process left behind and writes the queue of      *)
(* affected workspaces, opencode-sync-kick and kfactory-recovery-sweep     *)
(* run as ExecStartPost, and the sweep ticks every queued workspace.       *)
(*                                                                         *)
(* heal is a shell script with errexit: one step of the model is one       *)
(* sqlite3 call or the write of the queue.  A call that fails ends the     *)
(* script, except under "|| true", where whatever it had printed is used,  *)
(* and in an if condition, where it reads as "the table is absent".        *)
(* systemd starts the unit again after a failure of any hook.  opencode is *)
(* external; a workspace has at most one dead row and one running turn per *)
(* table and one notifyOnExit PTY.                                         *)
(***************************************************************************)
EXTENDS Naturals

CONSTANT Workspace

VARIABLES
    unit,      \* where the unit is in its start sequence
    open1,     \* workspaces with an incomplete assistant row that a dead
               \* process left in message (v1)
    open2,     \* ... in session_message (v2)
    turn1,     \* workspaces whose turn this server runs, its row in v1
    turn2,     \* ... in v2
    pty,       \* ... with an unmarked notifyOnExit PTY and no <pty_exited>
    ptyLive,   \* ... whose PTY is a process of this server
    spawning,  \* ... whose PTY was spawned by a row still open in v1
    unprobed,  \* heal: the tables whose probe failed in this start
    aff,       \* heal: the ids collected so far
    queue,     \* the queue file
    todo,      \* the sweep: the ids it has still to tick
    owed,      \* history: interrupted, and the nudge is outstanding
    lost       \* history: dropped, or left unmarked, by one of the known gaps

open == <<open1, open2>>
turns == <<turn1, turn2>>
rows == <<open, turns>>
ptys == <<pty, ptyLive, spawning>>
history == <<owed, lost>>
vars == <<unit, rows, ptys, unprobed, aff, queue, todo, history>>

Heal == {"probe1", "collect1", "update1", "pty1",
         "probe2", "collect2", "update2", "queue"}
Serving == {"kick", "read", "sweep", "up"}

running == turn1 \cup turn2

\* What a complete run of heal would collect if the server ended now.
Findable == open1 \cup open2 \cup running \cup pty

\* Whom the start hooks have still to nudge.
ToNudge == IF unit \in {"kick", "read"} THEN queue ELSE todo

\* What heal has not marked: it is found again, whoever was nudged meanwhile.
Unmarked == open1 \cup open2 \cup (pty \ ptyLive)

Init ==
    /\ unit = "down"
    /\ open1 = {} /\ open2 = {} /\ turn1 = {} /\ turn2 = {}
    /\ pty = {} /\ ptyLive = {} /\ spawning = {}
    /\ unprobed = {} /\ aff = {} /\ queue = {} /\ todo = {}
    /\ owed = {} /\ lost = {}

-----------------------------------------------------------------------------
(* opencode-serve, while it runs.                                          *)

TurnStart(w) ==
    /\ unit \in Serving
    /\ w \notin running
    /\ \/ turn1' = turn1 \cup {w} /\ UNCHANGED turn2
       \/ turn2' = turn2 \cup {w} /\ UNCHANGED turn1
    /\ UNCHANGED <<unit, open, ptys, unprobed, aff, queue, todo, history>>

TurnEnd(w) ==
    /\ w \in running
    /\ turn1' = turn1 \ {w} /\ turn2' = turn2 \ {w}
    /\ spawning' = spawning \ ({w} \cap ptyLive)
    /\ UNCHANGED <<unit, open, pty, ptyLive, unprobed, aff, queue, todo,
                    history>>

\* The row of the spawning call may be complete although the turn goes on.
PtySpawn(w) ==
    /\ w \in turn1
    /\ w \notin pty
    /\ pty' = pty \cup {w}
    /\ ptyLive' = ptyLive \cup {w}
    /\ spawning' \in {spawning, spawning \cup {w}}
    /\ UNCHANGED <<unit, rows, unprobed, aff, queue, todo, history>>

PtyExit(w) ==
    /\ w \in ptyLive
    /\ pty' = pty \ {w}
    /\ ptyLive' = ptyLive \ {w}
    /\ spawning' = spawning \ {w}
    /\ UNCHANGED <<unit, rows, unprobed, aff, queue, todo, history>>

\* The server process ends: a crash, a stop of the unit, systemd killing it
\* because a start hook failed or timed out, or the machine, whose next boot
\* finds /run empty.  No heal will find again what was queued and not ticked.
Stop ==
    /\ unit' = "down"
    /\ open1' = open1 \cup turn1 /\ turn1' = {}
    /\ open2' = open2 \cup turn2 /\ turn2' = {}
    /\ ptyLive' = {}
    /\ queue' \in {queue, {}}
    /\ todo' = {}
    /\ owed' = owed \cup running \cup ptyLive
    /\ lost' = lost \cup (ToNudge \ Findable)
    /\ UNCHANGED <<pty, spawning, unprobed, aff>>

Killed == unit \in Serving /\ Stop

-----------------------------------------------------------------------------
(* opencode-heal.                                                          *)

StartUnit ==
    /\ unit = "down"
    /\ unit' = "probe1"
    /\ unprobed' = {}
    /\ aff' = {}
    /\ UNCHANGED <<rows, ptys, queue, todo, history>>

\* if v1_exists, if v2_exists: a failed query skips the whole block, and with
\* it everything the block would have found.
Probe(l, table, block, next, missed) ==
    /\ unit = l
    /\ \/ unit' = block /\ UNCHANGED <<unprobed, lost>>
       \/ /\ unit' = next
          /\ unprobed' = unprobed \cup {table}
          /\ lost' = lost \cup missed
    /\ UNCHANGED <<rows, ptys, aff, queue, todo, owed>>

v1_exists == Probe("probe1", "v1", "collect1", "probe2", open1 \cup pty)
v2_exists == Probe("probe2", "v2", "collect2", "queue", open2)

\* heal_collect, "|| true": of a failing query the rows printed so far count.
Collect(l, table, next) ==
    /\ unit = l
    /\ unit' = next
    /\ \E printed \in SUBSET table :
          /\ aff' = aff \cup printed
          /\ lost' = lost \cup (table \ printed)
    /\ UNCHANGED <<rows, ptys, unprobed, queue, todo, owed>>

heal_collect ==
    \/ Collect("collect1", open1, "update1")
    \/ Collect("collect2", open2, "update2")

\* Mutant: the rows of the v2 table are left open.
heal_updateV1Only(w1, w2) == open1' = open1 \ w1 /\ UNCHANGED open2

\* heal_update: the open rows of a table are completed and marked aborted.
heal_update(w1, w2) == open1' = open1 \ w1 /\ open2' = open2 \ w2

\* Mutant: the rows are marked while the terminals are not looked at again.
Update1KeepsPty ==
    /\ unit = "update1"
    /\ unit' = "pty1"
    /\ heal_update(open1, {})
    /\ UNCHANGED <<turns, ptys, unprobed, aff, queue, todo, history>>

\* A PTY spawned in a row that is now marked is no longer looked at.
Update1 ==
    /\ unit = "update1"
    /\ unit' = "pty1"
    /\ heal_update(open1, {})
    /\ pty' = pty \ spawning
    /\ spawning' = {}
    /\ UNCHANGED <<turns, ptyLive, unprobed, aff, queue, todo, history>>

Update2 ==
    /\ unit = "update2"
    /\ unit' = "queue"
    /\ heal_update({}, open2)
    /\ UNCHANGED <<turns, ptys, unprobed, aff, queue, todo, history>>

\* Mutant: the abandoned terminals are marked and their ids are not printed.
heal_process_pty_v1Silent ==
    /\ unit = "pty1"
    /\ unit' = "probe2"
    /\ pty' = {}
    /\ UNCHANGED <<rows, ptyLive, spawning, unprobed, aff, queue, todo,
                    history>>

\* heal_process_pty_v1, "|| true": abandoned PTYs are marked and collected.
\* sqlite3 reads on after an error, so either may fail without the other; a
\* PTY left unmarked is found and its workspace nudged again after a restart.
heal_process_pty_v1 ==
    /\ unit = "pty1"
    /\ unit' = "probe2"
    /\ pty' \in {pty, {}}
    /\ \E printed \in SUBSET pty :
          /\ aff' = aff \cup printed
          /\ lost' = lost \cup (pty \ printed) \cup pty'
    /\ UNCHANGED <<rows, ptyLive, spawning, unprobed, queue, todo, owed>>

\* Mutant: an empty list leaves the queue file as it is.
QueueWriteSkipsEmpty ==
    /\ unit = "queue"
    /\ unit' = "kick"
    /\ queue' = IF aff = {} THEN queue ELSE aff
    /\ UNCHANGED <<rows, ptys, unprobed, aff, todo, history>>

\* The queue file is replaced and the server starts.  A failing grep or sort
\* ("|| true") cuts the list short.
QueueWrite ==
    /\ unit = "queue"
    /\ unit' = "kick"
    /\ queue' \in SUBSET aff
    /\ lost' = lost \cup (aff \ queue')
    /\ UNCHANGED <<rows, ptys, unprobed, aff, todo, owed>>

\* heal is cut short: an update, the queue write or the log line after it
\* fails, or the unit is stopped.  What it has already marked is not collected
\* a second time.
HealAborts ==
    /\ unit \in Heal
    /\ unit' = "down"
    /\ queue' \in {queue, {}} \cup (IF unit = "queue" THEN {aff} ELSE {})
    /\ lost' = lost \cup (aff \ Findable)
    /\ UNCHANGED <<rows, ptys, unprobed, aff, todo, owed>>

-----------------------------------------------------------------------------
(* ExecStartPost.                                                          *)

\* opencode-sync-kick: healthy, workspaces listed and poked.
SyncKick ==
    /\ unit = "kick"
    /\ unit' = "read"
    /\ UNCHANGED <<rows, ptys, unprobed, aff, queue, todo, history>>

\* The sweep reads the queue through a process substitution: of a failing jq
\* the ids printed so far count.
SweepRead ==
    /\ unit = "read"
    /\ unit' = "sweep"
    /\ todo' \in SUBSET queue
    /\ lost' = lost \cup (queue \ todo')
    /\ UNCHANGED <<rows, ptys, unprobed, aff, queue, owed>>

\* No health within the timeout, or the listing fails: the hook fails.
SyncKickFails == unit = "kick" /\ Stop

\* kfactory tick <id> --prompt: the nudge is accepted.  It settles what heal
\* has marked; what was left unmarked is collected again by the next heal.
SweepTick(w) ==
    /\ unit = "sweep"
    /\ w \in todo
    /\ todo' = todo \ {w}
    /\ owed' = owed \ ({w} \ Unmarked)
    /\ lost' = lost \ ({w} \ Unmarked)
    /\ UNCHANGED <<unit, rows, ptys, unprobed, aff, queue>>

\* The tick of one workspace fails: logged, and the sweep goes on.
SweepTickFails(w) ==
    /\ unit = "sweep"
    /\ w \in todo
    /\ todo' = todo \ {w}
    /\ lost' = lost \cup {w}
    /\ UNCHANGED <<unit, rows, ptys, unprobed, aff, queue, owed>>

SweepDone ==
    /\ unit = "sweep"
    /\ todo = {}
    /\ unit' = "up"
    /\ UNCHANGED <<rows, ptys, unprobed, aff, queue, todo, history>>

Next ==
    \/ \E w \in Workspace : \/ TurnStart(w) \/ TurnEnd(w)
                            \/ PtySpawn(w) \/ PtyExit(w)
                            \/ SweepTick(w) \/ SweepTickFails(w)
    \/ Killed
    \/ StartUnit
    \/ v1_exists
    \/ v2_exists
    \/ heal_collect
    \/ Update1
    \/ heal_process_pty_v1
    \/ Update2
    \/ QueueWrite
    \/ HealAborts
    \/ SyncKick
    \/ SyncKickFails
    \/ SweepRead
    \/ SweepDone

Spec == Init /\ [][Next]_vars

-----------------------------------------------------------------------------
\* Every variable has its type; a PTY of the running server is one heal would
\* find, and a PTY that shares its row's mark has that row open.
TypeOK ==
    /\ unit \in {"down"} \cup Heal \cup Serving
    /\ open1 \subseteq Workspace /\ open2 \subseteq Workspace
    /\ turn1 \subseteq Workspace /\ turn2 \subseteq Workspace
    /\ pty \subseteq Workspace
    /\ ptyLive \subseteq pty
    /\ spawning \subseteq pty \cap (open1 \cup turn1)
    /\ unprobed \subseteq {"v1", "v2"}
    /\ aff \subseteq Workspace
    /\ queue \subseteq Workspace /\ todo \subseteq queue
    /\ owed \subseteq Workspace /\ lost \subseteq Workspace

\* While the server runs, a turn of a dead process is shown as streaming only
\* if the probe of its table failed in this very start: no failed query, mark,
\* queue write or hook, in this start or an earlier one, leaves such a row.
ZombiesOnlyUnprobed ==
    unit \in Serving => /\ open1 # {} => "v1" \in unprobed
                        /\ open2 # {} => "v2" \in unprobed

\* The sweep nudges only workspaces that were interrupted and whose nudge is
\* outstanding: repeated restarts do not inject the recovery prompt into
\* sessions that finished, or were nudged already and have nothing unmarked.
NudgeOnlyInterrupted ==
    [][\A w \in Workspace : SweepTick(w) => w \in owed]_vars

\* An interrupted workspace is still to be nudged unless one of the known gaps
\* dropped it: a failed table probe, a query, mark, grep, sort or jq that
\* failed where the script goes on, a heal cut short after marking, a stop
\* between the queue and its tick, a failed tick.
OnlyKnownGaps ==
    unit \in Serving => owed \subseteq lost \cup ToNudge

\* docs/spec.md:271-275, of rows without time.completed: opencode-heal "marks
\* all such orphans before opencode starts".  While the server runs no turn of
\* a dead process is left open.
NoZombieTurns == unit \in Serving => open1 = {} /\ open2 = {}
=============================================================================
