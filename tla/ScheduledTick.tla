---------------------------- MODULE ScheduledTick ----------------------------
(***************************************************************************)
(* kfactory tick (cmd/kfactory/tick.go) for one scheduled task: timer and  *)
(* manual fires that overlap, the per-task flock, the first-run check, the *)
(* mode of the task and the confirmation poll, beside ad-hoc ticks of the  *)
(* same workspace, which take no lock.                                     *)
(*                                                                         *)
(* A step of a tick is one HTTP call.  A call that changes the server has  *)
(* a second step in which its answer is read, so that a failure between    *)
(* the two is the call whose effect took place and whose answer was lost.  *)
(* The opencode server, the operator's TUI and the clone are external.     *)
(*                                                                         *)
(* phase says on whose behalf the shared calls run:                        *)
(*   progress  readScheduledTaskProgress of a tick that had to wait        *)
(*   first     tickScheduled up to the verdict on the first run            *)
(*   initial   sending initial_prompt                                      *)
(*   confirm   confirmFirstRunVisible                                      *)
(*   cont      the mode switch and the continuation                        *)
(*   adhoc     tickAdhoc                                                   *)
(***************************************************************************)
EXTENDS Naturals, FiniteSets

CONSTANTS
    Tick,      \* tick processes alive at the same time
    Session,   \* bound: root sessions of the workspace that exist at one time
    None,      \* nil
    Mode       \* cfg.Mode

ASSUME TickAssumption == None \notin Tick \cup Session
ASSUME ModeAssumption == Mode \in {"skip-if-exists", "skip-if-dirty", "continue"}

VARIABLES
    lock,         \* holder of the flock on tick-<task-id>.lock, or None
    pc, phase,    \* control point and phase of each tick
    sid,          \* the session a tick has chosen, or None
    due,          \* the confirmation deadline (or the context) has expired
    ws,           \* server: the row wrk_kfactory_<task-id>
    live,         \* server: root sessions of the workspace
    top,          \* server: the most recently updated one, or None
    queued,       \* server: sessions with an accepted prompt not readable yet
    readable,     \* server: sessions with a readable non-blank user message
    late,         \* server: a session create whose client has given up
    initials,     \* history: initial prompts accepted in this workspace; 2 = more
    continued,    \* history: a continuation prompt was accepted in it
    others,       \* history: the operator or an ad-hoc tick wrote in it
    unconfirmed,  \* history: one of them was left without read-back
    foreign       \* history: root sessions changed behind the lock holder's back

tickVars == <<pc, phase, sid, due>>
sessVars == <<live, top, queued, readable, late>>
history == <<initials, continued, others, unconfirmed, foreign>>
vars == <<lock, tickVars, ws, sessVars, history>>

-----------------------------------------------------------------------------
Phases == {"progress", "first", "initial", "confirm", "cont", "adhoc"}
Unlocked == {"idle", "trylock", "blocked"}
Points == Unlocked \cup {"list", "sess", "msgs", "mode", "target", "create",
            "creating", "open", "opened", "send", "sent", "poll"}

\* The prompt of a phase when a session exists; onNoSession sends the initial
\* prompt instead.
PromptOf(ph, recovered) ==
    CASE ph = "adhoc" -> "adhoc"
      [] ph = "cont" /\ ~recovered -> "cont"
      [] OTHER -> "initial"

Init ==
    /\ lock = None
    /\ pc = [t \in Tick |-> "idle"]
    /\ phase = [t \in Tick |-> "first"]
    /\ sid = [t \in Tick |-> None]
    /\ due = [t \in Tick |-> FALSE]
    /\ ws = "absent"
    /\ live = {} /\ top = None
    /\ queued = {} /\ readable = {}
    /\ late = FALSE
    /\ initials = 0 /\ continued = FALSE /\ others = FALSE
    /\ unconfirmed = FALSE /\ foreign = FALSE

Goto(t, l, ph) ==
    /\ pc' = [pc EXCEPT ![t] = l]
    /\ phase' = [phase EXCEPT ![t] = ph]
    /\ UNCHANGED <<lock, sid, due>>

\* Mutant: the lock's file is not closed on the way out.
ExitKeepsLock(t) ==
    /\ pc' = [pc EXCEPT ![t] = "idle"]
    /\ phase' = [phase EXCEPT ![t] = "first"]
    /\ sid' = [sid EXCEPT ![t] = None]
    /\ due' = [due EXCEPT ![t] = FALSE]
    /\ UNCHANGED lock

\* run.Close by defer, or the kernel closing the descriptors of a dead process.
Exit(t) ==
    /\ pc' = [pc EXCEPT ![t] = "idle"]
    /\ phase' = [phase EXCEPT ![t] = "first"]
    /\ sid' = [sid EXCEPT ![t] = None]
    /\ due' = [due EXCEPT ![t] = FALSE]
    /\ lock' = IF lock = t THEN None ELSE lock

-----------------------------------------------------------------------------
\* runTick: a configured task goes for the lock, an ad-hoc ref does not.
Start(t) ==
    /\ pc[t] = "idle"
    /\ Goto(t, "trylock", "first") \/ Goto(t, "list", "adhoc")
    /\ UNCHANGED <<ws, sessVars, history>>

\* Mutant: the tick runs although another one holds the lock.
TryLockIgnored(t) ==
    /\ pc[t] = "trylock"
    /\ lock' = t
    /\ pc' = [pc EXCEPT ![t] = "list"]
    /\ UNCHANGED <<phase, sid, due, ws, sessVars, history>>

\* acquireScheduledTaskRun, LOCK_EX|LOCK_NB.
TryLock(t) ==
    /\ pc[t] = "trylock"
    /\ \/ /\ lock = None
          /\ lock' = t
          /\ pc' = [pc EXCEPT ![t] = "list"]
       \/ /\ lock # None
          /\ pc' = [pc EXCEPT ![t] = "blocked"]
          /\ UNCHANGED lock
    /\ UNCHANGED <<phase, sid, due, ws, sessVars, history>>

\* acquireScheduledTaskRun, the blocking LOCK_EX: waited is set.
LockAfterWait(t) ==
    /\ pc[t] = "blocked"
    /\ lock = None
    /\ lock' = t
    /\ pc' = [pc EXCEPT ![t] = "list"]
    /\ phase' = [phase EXCEPT ![t] = "progress"]
    /\ UNCHANGED <<sid, due, ws, sessVars, history>>

\* listWorkspaces and findWorkspaceByID.  The row is listed while the clone is
\* still running.
List(t) ==
    /\ pc[t] = "list"
    /\ \/ ws = "absent" /\ phase[t] = "progress" /\ Goto(t, "list", "first")
       \/ ws = "absent" /\ phase[t] = "first" /\ Goto(t, "create", "initial")
       \/ ws = "absent" /\ phase[t] = "adhoc" /\ Exit(t)
       \/ ws # "absent" /\ phase[t] # "adhoc" /\ Goto(t, "sess", phase[t])
       \/ ws # "absent" /\ phase[t] = "adhoc" /\ Goto(t, "target", "adhoc")
    /\ UNCHANGED <<ws, sessVars, history>>

\* Mutant: a missing root session counts as a completed first run.
VerdictLenient(t, complete) ==
    \/ phase[t] = "progress" /\ complete /\ Exit(t)
    \/ phase[t] = "progress" /\ ~complete /\ Goto(t, "list", "first")
    \/ phase[t] = "first" /\ Goto(t, "mode", "cont")
    \/ phase[t] = "confirm" /\ complete /\ Exit(t)
    \/ phase[t] = "confirm" /\ ~complete /\ Goto(t, "poll", "confirm")

\* What the callers of the first-run check do with the answer.
Verdict(t, complete) ==
    \/ phase[t] = "progress" /\ complete /\ Exit(t)
    \/ phase[t] = "progress" /\ ~complete /\ Goto(t, "list", "first")
    \/ phase[t] = "first" /\ complete /\ Goto(t, "mode", "cont")
    \/ phase[t] = "first" /\ ~complete /\ Goto(t, "target", "initial")
    \/ phase[t] = "confirm" /\ complete /\ Exit(t)
    \/ phase[t] = "confirm" /\ ~complete /\ Goto(t, "poll", "confirm")

\* scheduledWorkspaceFirstRunComplete: findMostRecentSession.
FindSession(t) ==
    /\ pc[t] = "sess"
    /\ \/ top = None /\ Verdict(t, FALSE)
       \/ /\ top # None
          /\ sid' = [sid EXCEPT ![t] = top]
          /\ pc' = [pc EXCEPT ![t] = "msgs"]
          /\ UNCHANGED <<lock, phase, due>>
    /\ UNCHANGED <<ws, sessVars, history>>

\* sessionHasUserPrompt: any non-blank user message counts.
HasUserPrompt(t) ==
    /\ pc[t] = "msgs"
    /\ sid[t] \in live
    /\ Verdict(t, sid[t] \in readable)
    /\ UNCHANGED <<ws, sessVars, history>>

\* The mode switch of tickScheduled.
ModeSwitch(t) ==
    /\ pc[t] = "mode"
    /\ \/ Mode # "continue" /\ Exit(t)    \* exists, or workspaceDirty says so
       \/ Mode # "skip-if-exists" /\ Goto(t, "target", "cont")
    /\ UNCHANGED <<ws, sessVars, history>>

\* postContinuation: findMostRecentSession, with the caller's onNoSession.
Target(t) ==
    /\ pc[t] = "target"
    /\ \/ top = None /\ phase[t] = "adhoc" /\ Exit(t)
       \/ /\ top = None /\ phase[t] # "adhoc"
          /\ pc' = [pc EXCEPT ![t] = "open"]
          /\ sid' = [sid EXCEPT ![t] = None]
          /\ UNCHANGED <<lock, phase, due>>
       \/ /\ top # None
          /\ pc' = [pc EXCEPT ![t] = "send"]
          /\ sid' = [sid EXCEPT ![t] = top]
          /\ UNCHANGED <<lock, phase, due>>
    /\ UNCHANGED <<ws, sessVars, history>>

-----------------------------------------------------------------------------
\* createWorkspaceWithStableID: opencode inserts the row, then clones.
CreateRow(t) ==
    /\ pc[t] = "create"
    /\ ws = "absent"
    /\ ws' = "creating"
    /\ Goto(t, "creating", "initial")
    /\ UNCHANGED <<sessVars, history>>

CreateAnswered(t) ==
    /\ pc[t] = "creating"
    /\ ws = "ready"
    /\ Goto(t, "open", "initial")
    /\ UNCHANGED <<ws, sessVars, history>>

\* A new root session s on the server.
NewSession(s) ==
    /\ ws = "ready"
    /\ s \notin live
    /\ \A t \in Tick : sid[t] # s
    /\ live' = live \cup {s}
    /\ top' = s

\* dispatchSessionAndPrompt: createSession, and its answer.  recovered tells
\* sendPromptAsync which prompt onNoSession passes.
OpenSession(t, s) ==
    /\ pc[t] = "open"
    /\ NewSession(s)
    /\ pc' = [pc EXCEPT ![t] = "opened"]
    /\ sid' = [sid EXCEPT ![t] = s]
    /\ UNCHANGED <<lock, phase, due, ws, queued, readable, late, history>>

\* The prompt p of tick t is admitted to the queue of its session.
Accept(t, p) ==
    /\ sid[t] \in live
    /\ queued' = queued \cup {sid[t]}
    /\ initials' = IF p = "initial" /\ initials < 2 THEN initials + 1 ELSE initials
    /\ continued' = (continued \/ p = "cont")
    /\ others' = (others \/ p = "adhoc")
    /\ Goto(t, "sent", phase[t])
    /\ UNCHANGED <<ws, live, top, readable, late, unconfirmed, foreign>>

\* sendPromptAsync into a session that was found, or that was just opened.
SendPrompt(t) ==
    \/ pc[t] = "send" /\ Accept(t, PromptOf(phase[t], FALSE))
    \/ pc[t] = "opened" /\ Accept(t, PromptOf(phase[t], TRUE))

\* Mutant: the lock is released as soon as the prompt is accepted.
SendAnsweredNoConfirm(t) ==
    /\ pc[t] = "sent"
    /\ Exit(t)
    /\ UNCHANGED <<ws, sessVars, history>>

\* The prompt was accepted.  Only the two first-run paths confirm it.
SendAnswered(t) ==
    /\ pc[t] = "sent"
    /\ \/ phase[t] = "initial" /\ Goto(t, "poll", "confirm")
       \/ phase[t] # "initial" /\ Exit(t)
    /\ UNCHANGED <<ws, sessVars, history>>

\* Mutant: the poll has no deadline.
PollForever(t) ==
    /\ pc[t] = "poll"
    /\ Goto(t, "sess", "confirm")
    /\ UNCHANGED <<ws, sessVars, history>>

\* confirmFirstRunVisible, top of the loop: check again, or warn and return.
Poll(t) ==
    /\ pc[t] = "poll"
    /\ \/ ~due[t] /\ Goto(t, "sess", "confirm") /\ UNCHANGED unconfirmed
       \/ due[t] /\ Exit(t) /\ unconfirmed' = TRUE
    /\ UNCHANGED <<ws, sessVars, initials, continued, others, foreign>>

\* A check of the poll fails: it counts as "not yet".
PollFails(t) ==
    /\ pc[t] \in {"sess", "msgs"} /\ phase[t] = "confirm"
    /\ Goto(t, "poll", "confirm")
    /\ UNCHANGED <<ws, sessVars, history>>

\* 15 seconds pass, or the 3 minutes of the context.
Deadline(t) ==
    /\ phase[t] = "confirm" /\ ~due[t]
    /\ due' = [due EXCEPT ![t] = TRUE]
    /\ UNCHANGED <<lock, pc, phase, sid, ws, sessVars, history>>

\* The initial prompt of t may be on the server without a read-back.
Outstanding(t) == phase[t] = "confirm" \/ (phase[t] = "initial" /\ pc[t] = "sent")

\* t ends without finishing its work.
Abandon(t) ==
    /\ Exit(t)
    /\ unconfirmed' = (unconfirmed \/ Outstanding(t))
    /\ late' \in {late, late \/ pc[t] = "open"}
    /\ UNCHANGED <<ws, live, top, queued, readable, initials, continued, others,
                   foreign>>

\* fail(...): a call outside the poll returns an error or times out after 60s,
\* its effect done or not; a session create may still take effect later.
CallFails(t) ==
    /\ pc[t] \notin Unlocked \cup {"poll"} /\ phase[t] # "confirm"
    /\ Abandon(t)

\* The process is killed.
Crash(t) ==
    /\ pc[t] # "idle"
    /\ Abandon(t)

-----------------------------------------------------------------------------
\* The adapter finishes the clone; a failed create removes the row again.
ServerCreates ==
    /\ ws = "creating"
    /\ ws' \in {"ready", "absent"}
    /\ UNCHANGED <<lock, tickVars, sessVars, history>>

\* The session create of a tick that gave up takes effect.
LateOpen(s) ==
    /\ late
    /\ late' = FALSE
    /\ NewSession(s)
    /\ foreign' = TRUE
    /\ UNCHANGED <<lock, tickVars, ws, queued, readable,
                   initials, continued, others, unconfirmed>>

\* The accepted prompts of s become readable user messages.
ServerAdmits(s) ==
    /\ s \in queued
    /\ queued' = queued \ {s}
    /\ readable' = readable \cup {s}
    /\ top' = s
    /\ UNCHANGED <<lock, tickVars, ws, live, late, history>>

\* A turn of the agent updates session s.
AgentTurn(s) ==
    /\ s \in live
    /\ top' = s
    /\ UNCHANGED <<lock, tickVars, ws, live, queued, readable, late, history>>

\* The operator opens a session, types into one, or deletes one.
OperatorOpens(s) ==
    /\ NewSession(s)
    /\ foreign' = TRUE
    /\ UNCHANGED <<lock, tickVars, ws, queued, readable, late,
                   initials, continued, others, unconfirmed>>

OperatorWrites(s) ==
    /\ s \in live
    /\ queued' = queued \cup {s}
    /\ others' = TRUE
    /\ UNCHANGED <<lock, tickVars, ws, live, top, readable, late,
                   initials, continued, unconfirmed, foreign>>

OperatorDeletesSession(s) ==
    /\ s \in live
    /\ live' = live \ {s}
    /\ top' \in IF live' = {} THEN {None} ELSE live'
    /\ queued' = queued \ {s}
    /\ readable' = readable \ {s}
    /\ foreign' = TRUE
    /\ UNCHANGED <<lock, tickVars, ws, late, initials, continued, others,
                   unconfirmed>>

\* kfactory delete: the row and the sessions go; a new workspace starts over.
DeleteWorkspace ==
    /\ ws # "absent"
    /\ ws' = "absent"
    /\ live' = {} /\ top' = None
    /\ queued' = {} /\ readable' = {}
    /\ initials' = 0 /\ continued' = FALSE /\ others' = FALSE
    /\ unconfirmed' = FALSE /\ foreign' = FALSE
    /\ UNCHANGED <<lock, tickVars, late>>

\* What the tick itself does once it holds the lock (or needs none).
Work(t) ==
    \/ List(t)
    \/ FindSession(t)
    \/ HasUserPrompt(t)
    \/ ModeSwitch(t)
    \/ Target(t)
    \/ CreateRow(t)
    \/ CreateAnswered(t)
    \/ \E s \in Session : OpenSession(t, s)
    \/ SendPrompt(t)
    \/ SendAnswered(t)
    \/ Poll(t)
    \/ PollFails(t)
    \/ CallFails(t)

Operator ==
    \/ \E s \in Session : OperatorOpens(s)
    \/ \E s \in Session : OperatorWrites(s)
    \/ \E s \in Session : OperatorDeletesSession(s)
    \/ DeleteWorkspace

Next ==
    \/ \E t \in Tick : Start(t)
    \/ \E t \in Tick : TryLock(t)
    \/ \E t \in Tick : LockAfterWait(t)
    \/ \E t \in Tick : Work(t)
    \/ \E t \in Tick : Deadline(t)
    \/ \E t \in Tick : Crash(t)
    \/ ServerCreates
    \/ \E s \in Session : LateOpen(s)
    \/ \E s \in Session : ServerAdmits(s)
    \/ \E s \in Session : AgentTurn(s)
    \/ Operator

Spec == Init /\ [][Next]_vars

\* A running tick is scheduled and each of its calls is answered or times out
\* (60s per request); the clock runs.  Nothing is assumed of the server.
FairSpec ==
    /\ Spec
    /\ \A t \in Tick : WF_vars(Work(t)) /\ WF_vars(Deadline(t))

-----------------------------------------------------------------------------
TickType ==
    /\ lock \in Tick \cup {None}
    /\ pc \in [Tick -> Points]
    /\ phase \in [Tick -> Phases]
    /\ sid \in [Tick -> Session \cup {None}]
    /\ due \in [Tick -> BOOLEAN]
    /\ lock # None => pc[lock] \notin Unlocked
ServerType ==
    /\ ws \in {"absent", "creating", "ready"}
    /\ live \subseteq Session
    /\ IF live = {} THEN top = None ELSE top \in live
    /\ queued \subseteq live
    /\ readable \subseteq live
    /\ late \in BOOLEAN
HistoryType ==
    /\ initials \in 0..2
    /\ continued \in BOOLEAN
    /\ others \in BOOLEAN
    /\ unconfirmed \in BOOLEAN
    /\ foreign \in BOOLEAN

\* Every variable has its type; the lock is held by a tick that works under
\* it, and the server's session sets belong together.
TypeOK == TickType /\ ServerType /\ HistoryType

\* Overlapping fires of one task converge to one initial prompt: a workspace
\* gets a second one only after a tick was cut off (or timed out) before it
\* read its prompt back, or after the root sessions changed behind its back.
OneInitialPrompt ==
    initials > 1 => unconfirmed \/ foreign

\* "per-task lock released => first-run completion observable" (tick.go:444):
\* once an initial prompt was sent, whoever takes the free lock will find the
\* first run complete, with the exceptions confirmFirstRunVisible warns of.
LockReleasedMeansVisible ==
    (lock = None /\ initials > 0) =>
        unconfirmed \/ foreign \/ top \in readable

\* A workspace gets its continuation prompt only after a user message was
\* readable in it, and that message was the initial prompt unless someone else
\* wrote in the workspace: neither a tick that waited nor one that found the
\* workspace half made applies the task's mode before its first run. Any user
\* message counts (tick.go:267), where docs/spec.md:833-835 asks for the
\* configured initial prompt; `others' is that difference.
ContinuationAfterFirstRun ==
    continued => (foreign \/ readable # {}) /\ (others \/ initials > 0)

\* The lock of a task is released in the end, even if the server never shows
\* the prompt or stops answering.
LockReleased == lock # None ~> lock = None
=============================================================================
