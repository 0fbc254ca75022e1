----------------------------- MODULE LoopPlugin -----------------------------
(***************************************************************************)
(* The /loop auto-continuation plugin (plugins/loop/src/index.ts) of one   *)
(* workspace: the durable LoopState file, the idle handlers with their     *)
(* single-flight map, the loop-start and loop-stop tools, session.deleted  *)
(* events and the status check at plugin start.                            *)
(*                                                                         *)
(* JavaScript runs one callback at a time, so a step of the model is the   *)
(* code between two awaits: session.get, session.messages and              *)
(* session.prompt split handleIdle, session.get splits loop-start and      *)
(* session.status splits the start-up check.  The opencode server (turns,  *)
(* events, answers) is external.                                           *)
(***************************************************************************)
EXTENDS Naturals, FiniteSets

CONSTANTS
    Session,        \* sessions of the workspace
    Sub,            \* those with a parent (subagent sessions)
    Slot,           \* bound: idle handlers alive at the same time
    None,           \* null
    MaxIterations,  \* the cap every loop-start of the model asks for
    MAX_CONSECUTIVE_FAILURES,
    MaxRuns,        \* bound: loops started in a behaviour
    MaxIdle,        \* bound: undelivered idle events per session
    Faults          \* disturbances that may happen: subset of "http", "delete", "restart"

ASSUME LoopAssumption ==
    /\ Sub \subseteq Session
    /\ None \notin Session \cup Slot
    /\ MaxIterations \in Nat \ {0}
    /\ MAX_CONSECUTIVE_FAILURES \in Nat \ {0}
    /\ MaxRuns \in Nat
    /\ MaxIdle \in Nat \ {0}
    /\ Faults \subseteq {"http", "delete", "restart"}

VARIABLES
    state,     \* the LoopState file, or NoLoop
    hnd,       \* the activations of handleIdle, one per slot
    inFlight,  \* inFlight map: session -> the handler its tracker belongs to
    starting,  \* sessions whose loop-start awaits session.get
    init,      \* processCurrentStatus: the session it asked about, or None
    busy,      \* server: sessions with a running turn
    text,      \* server: the last assistant message, by what the matcher tells apart
    alive,     \* server: "live", "deleted" (event not delivered yet), "gone"
    idle,      \* server: undelivered session.status idle events
    runs,      \* loops started so far
    faults,    \* the disturbances of this behaviour: all, or restarts only
    ended,     \* history: runs whose state was removed or replaced
    sent,      \* history: continuation prompts injected for each run
    label,     \* history: the highest iteration label among them
    fails      \* history: consecutive failed attempts of each run

plugin == <<state, hnd, inFlight, starting, init>>
server == <<busy, text, alive, idle>>
history == <<ended, sent, label, fails>>
vars == <<plugin, server, runs, faults, history>>

-----------------------------------------------------------------------------
Run == 1..MaxRuns
LoopState == [run : Run, iter : 0..MaxIterations, fails : Nat, s : Session]
NoLoop == [run |-> 0, iter |-> 0, fails |-> 0, s |-> None]
NoHandler == [pc |-> "free", s |-> None, st |-> NoLoop, pending |-> FALSE,
              rerun |-> FALSE, answer |-> "none"]

Active(d) == d.run # 0

\* Mutant: no check that the file is still the one the handler read.
stateStillOursNever(h) == TRUE

\* stateStillOurs: the file still belongs to the run the handler read.
stateStillOurs(h) ==
    state.run = hnd[h].st.run /\ state.s = hnd[h].st.s

\* sessionKind: the possible results.  session.get is called without
\* throwOnError, so an HTTP error either throws (a 404 reads as missing) or
\* comes back without data, and no data means no parent.
sessionKind(s) ==
    (IF alive[s] # "live" THEN {"missing", "root"}
     ELSE IF s \in Sub THEN {"subagent"} ELSE {"root"})
      \cup (IF "http" \in faults THEN {"unknown", "root"} ELSE {})

\* What happens to the run on file when the file becomes d.
Ends(d) ==
    ended' = IF Active(state) /\ d.run # state.run
                THEN ended \cup {state.run} ELSE ended

-----------------------------------------------------------------------------
Init ==
    /\ state = NoLoop
    /\ hnd = [h \in Slot |-> NoHandler]
    /\ inFlight = [s \in Session |-> None]
    /\ starting = {}
    /\ init = None
    /\ busy = {}
    /\ text = [s \in Session |-> "none"]
    /\ alive = [s \in Session |-> "live"]
    /\ idle = [s \in Session |-> 0]
    /\ runs = 0
    /\ faults \in {Faults, Faults \cap {"restart"}}
    /\ ended = {}
    /\ sent = [r \in Run |-> 0]
    /\ label = [r \in Run |-> 0]
    /\ fails = [r \in Run |-> 0]

\* A fresh activation of handleIdle for s that has read file d.
Activation(s, d, rerun) ==
    [NoHandler EXCEPT !.pc = "kind", !.s = s, !.st = d, !.rerun = rerun]

\* processIdle(s), up to the first await.  An idle for a session that owns no
\* loop ends at once.
processIdle(s) ==
    \/ /\ inFlight[s] # None
       /\ hnd' = [hnd EXCEPT ![inFlight[s]].pending = TRUE]
       /\ UNCHANGED inFlight
    \/ /\ inFlight[s] = None
       /\ state.s # s
       /\ UNCHANGED <<hnd, inFlight>>
    \/ /\ inFlight[s] = None
       /\ state.s = s
       /\ \E h \in Slot :
             /\ hnd[h].pc = "free"
             /\ hnd' = [hnd EXCEPT ![h] = Activation(s, state, FALSE)]
             /\ inFlight' = [inFlight EXCEPT ![s] = h]

\* A session.status idle event reaches the plugin.
DeliverIdle(s) ==
    /\ idle[s] > 0
    /\ idle' = [idle EXCEPT ![s] = @ - 1]
    /\ processIdle(s)
    /\ UNCHANGED <<state, starting, init, busy, text, alive, runs, faults, history>>

\* Mutant: an error thrown past the finally leaves the tracker in the map.
ReturnsLeaky(h, d) ==
    /\ state' = d
    /\ Ends(d)
    /\ hnd' = [hnd EXCEPT ![h] = NoHandler]
    /\ UNCHANGED inFlight

\* Mutant: the map entry is dropped before the re-run instead of after it.
ReturnsEarlyDelete(h, d) ==
    LET s == hnd[h].s IN
    /\ state' = d
    /\ Ends(d)
    /\ inFlight' = [inFlight EXCEPT ![s] = None]
    /\ hnd' = [hnd EXCEPT ![h] =
                 IF hnd[h].pending /\ ~hnd[h].rerun /\ d.s = s
                    THEN Activation(s, d, TRUE) ELSE NoHandler]

\* handleIdle of handler h returns, leaving file d.  processIdle runs it once
\* more if an idle came in meanwhile; the finally clears the map entry.
Returns(h, d) ==
    LET s == hnd[h].s
        again == hnd[h].pending /\ ~hnd[h].rerun /\ d.s = s
    IN
    /\ state' = d
    /\ Ends(d)
    /\ hnd' = [hnd EXCEPT ![h] = IF again THEN Activation(s, d, TRUE)
                                          ELSE NoHandler]
    /\ inFlight' = [inFlight EXCEPT ![s] = IF again THEN @ ELSE None]

\* Mutant: the budget is compared with > instead of >=.
onFailureOneMore(h, st) ==
    IF st.fails + 1 > MAX_CONSECUTIVE_FAILURES THEN NoLoop
    ELSE IF stateStillOurs(h) THEN [st EXCEPT !.fails = @ + 1]
    ELSE state

\* onFailure: the file after a failed attempt of the run in st.  Clearing is
\* not guarded by stateStillOurs, the write-back is.
onFailure(h, st) ==
    IF st.fails + 1 >= MAX_CONSECUTIVE_FAILURES THEN NoLoop
    ELSE IF stateStillOurs(h) THEN [st EXCEPT !.fails = @ + 1]
    ELSE state

CountFailure(h) ==
    fails' = [fails EXCEPT ![hnd[h].st.run] =
                 IF @ < MAX_CONSECUTIVE_FAILURES THEN @ + 1 ELSE @]

-----------------------------------------------------------------------------
(* handleIdle after await sessionKind.                                     *)

KindRoot(h) ==
    /\ hnd[h].pc = "kind"
    /\ "root" \in sessionKind(hnd[h].s)
    /\ hnd' = [hnd EXCEPT ![h].pc = "text"]
    /\ UNCHANGED <<state, inFlight, starting, init, server, runs, faults, history>>

KindMissing(h) ==
    /\ hnd[h].pc = "kind"
    /\ "missing" \in sessionKind(hnd[h].s)
    /\ Returns(h, NoLoop)
    /\ UNCHANGED <<starting, init, server, runs, faults, sent, label, fails>>

\* A subagent session, or "unknown" because the lookup failed: fail closed.
KindNotRoot(h) ==
    /\ hnd[h].pc = "kind"
    /\ {"subagent", "unknown"} \cap sessionKind(hnd[h].s) # {}
    /\ Returns(h, state)
    /\ UNCHANGED <<starting, init, server, runs, faults, sent, label, fails>>

-----------------------------------------------------------------------------
(* handleIdle after await lastAssistantText.                               *)

MessagesFail(h) ==
    /\ hnd[h].pc = "text"
    /\ "http" \in faults \/ alive[hnd[h].s] # "live"
    /\ Returns(h, onFailure(h, hnd[h].st))
    /\ CountFailure(h)
    /\ UNCHANGED <<starting, init, server, runs, faults, sent, label>>

HasText(h, t) ==
    /\ hnd[h].pc = "text"
    /\ alive[hnd[h].s] = "live"
    /\ text[hnd[h].s] = t

NoAnswerYet(h) ==
    /\ HasText(h, "none")
    /\ Returns(h, state)
    /\ UNCHANGED <<starting, init, server, runs, faults, sent, label, fails>>

\* matchesSentinel on the last assistant message.
SentinelSeen(h) ==
    /\ HasText(h, "done")
    /\ Returns(h, NoLoop)
    /\ UNCHANGED <<starting, init, server, runs, faults, sent, label, fails>>

CapReached(h) ==
    /\ HasText(h, "plain")
    /\ hnd[h].st.iter >= MaxIterations
    /\ Returns(h, NoLoop)
    /\ UNCHANGED <<starting, init, server, runs, faults, sent, label, fails>>

Superseded(h) ==
    /\ HasText(h, "plain")
    /\ hnd[h].st.iter < MaxIterations
    /\ ~stateStillOurs(h)
    /\ Returns(h, state)
    /\ UNCHANGED <<starting, init, server, runs, faults, sent, label, fails>>

\* Mutants: the file is not bumped before the prompt; the failure count is
\* carried over instead of reset.
BumpedNot(st) == [st EXCEPT !.fails = 0]
BumpedKeepsFails(st) == [st EXCEPT !.iter = @ + 1]

\* The file is bumped before the prompt is awaited.
Bumped(st) == [st EXCEPT !.iter = @ + 1, !.fails = 0]

\* The bump and the prompt call; the call may never reach the server.
Inject(h, reaches) ==
    LET s == hnd[h].s
        r == hnd[h].st.run
    IN
    /\ HasText(h, "plain")
    /\ hnd[h].st.iter < MaxIterations
    /\ stateStillOurs(h)
    /\ reaches \/ "http" \in faults
    /\ state' = Bumped(hnd[h].st)
    /\ Ends(state')
    /\ hnd' = [hnd EXCEPT ![h].pc = "prompt",
                          ![h].answer = IF reaches THEN "waiting" ELSE "lost"]
    /\ busy' = IF reaches THEN busy \cup {s} ELSE busy
    /\ sent' = [sent EXCEPT ![r] = @ + 1]
    /\ label' = [label EXCEPT ![r] = IF hnd[h].st.iter >= @
                                        THEN hnd[h].st.iter + 1 ELSE @]
    /\ UNCHANGED <<inFlight, starting, init, text, alive, idle, runs, faults, fails>>

-----------------------------------------------------------------------------
(* handleIdle after await session.prompt, which spans the agent's turn.    *)

PromptOk(h) ==
    /\ hnd[h].pc = "prompt"
    /\ hnd[h].answer = "ok"
    /\ Returns(h, state)
    /\ fails' = [fails EXCEPT ![hnd[h].st.run] = 0]
    /\ UNCHANGED <<starting, init, server, runs, faults, sent, label>>

\* onFailure({...state, iteration: next}): the failure count is the one read
\* at the start of the handler.
PromptFails(h) ==
    /\ hnd[h].pc = "prompt"
    /\ "http" \in faults \/ hnd[h].answer = "lost"
    /\ Returns(h, onFailure(h, [hnd[h].st EXCEPT !.iter = @ + 1]))
    /\ CountFailure(h)
    /\ UNCHANGED <<starting, init, server, runs, faults, sent, label>>

-----------------------------------------------------------------------------
(* The tools, called by the agent inside a turn of session s.              *)

\* loop-start, up to await sessionKind: refused while a loop is active.
LoopStart(s) ==
    /\ s \in busy \ starting
    /\ ~Active(state)
    /\ runs + Cardinality(starting) < MaxRuns
    /\ starting' = starting \cup {s}
    /\ UNCHANGED <<state, hnd, inFlight, init, server, runs, faults, history>>

\* loop-start after the await: a new run under a new runID.
LoopStartWrite(s) ==
    /\ s \in starting
    /\ "root" \in sessionKind(s)
    /\ starting' = starting \ {s}
    /\ runs' = runs + 1
    /\ state' = [run |-> runs', iter |-> 0, fails |-> 0, s |-> s]
    /\ Ends(state')
    /\ UNCHANGED <<hnd, inFlight, init, server, faults, sent, label, fails>>

LoopStartRefused(s) ==
    /\ s \in starting
    /\ sessionKind(s) # {"root"}
    /\ starting' = starting \ {s}
    /\ UNCHANGED <<state, hnd, inFlight, init, server, runs, faults, history>>

LoopStop(s) ==
    /\ s \in busy
    /\ Active(state)
    /\ state' = NoLoop
    /\ Ends(NoLoop)
    /\ UNCHANGED <<hnd, inFlight, starting, init, server, runs, faults, sent, label, fails>>

\* The session.deleted event.
DeliverDeleted(s) ==
    /\ alive[s] = "deleted"
    /\ idle[s] = 0
    /\ alive' = [alive EXCEPT ![s] = "gone"]
    /\ state' = IF state.s = s THEN NoLoop ELSE state
    /\ Ends(state')
    /\ inFlight' = [inFlight EXCEPT ![s] = None]
    /\ UNCHANGED <<hnd, starting, init, busy, text, idle, runs, faults, sent, label, fails>>

\* Mutant: a session that is not listed is left to its next event.
InitStatusListedOnly ==
    /\ init # None
    /\ init' = None
    /\ UNCHANGED <<state, hnd, inFlight, starting, server, runs, faults, history>>

\* processCurrentStatus after await session.status.  The server lists only the
\* sessions that are not idle.
InitStatus ==
    /\ init # None
    /\ init' = None
    /\ \/ init \in busy /\ UNCHANGED <<hnd, inFlight>>
       \/ init \notin busy /\ processIdle(init)
       \/ "http" \in faults /\ UNCHANGED <<hnd, inFlight>>
    /\ UNCHANGED <<state, starting, server, runs, faults, history>>

-----------------------------------------------------------------------------
(* The opencode server.                                                    *)

TurnStart(s) ==
    /\ alive[s] = "live"
    /\ s \notin busy
    /\ busy' = busy \cup {s}
    /\ UNCHANGED <<plugin, text, alive, idle, runs, faults, history>>

\* A turn ends when its tool calls have returned: the idle event is published
\* and the prompts that waited for the turn are answered.
TurnEnd(s, t) ==
    /\ s \in busy \ starting
    /\ idle[s] < MaxIdle
    /\ busy' = busy \ {s}
    /\ text' = [text EXCEPT ![s] = t]
    /\ idle' = [idle EXCEPT ![s] = @ + 1]
    /\ hnd' = [h \in Slot |->
                 IF hnd[h].s = s /\ hnd[h].answer = "waiting"
                    THEN [hnd[h] EXCEPT !.answer = "ok"] ELSE hnd[h]]
    /\ UNCHANGED <<state, inFlight, starting, init, alive, runs, faults, history>>

DeleteSession(s) ==
    /\ "delete" \in faults
    /\ alive[s] = "live"
    /\ alive' = [alive EXCEPT ![s] = "deleted"]
    /\ busy' = busy \ {s}
    /\ hnd' = [h \in Slot |->
                 IF hnd[h].s = s /\ hnd[h].answer = "waiting"
                    THEN [hnd[h] EXCEPT !.answer = "lost"] ELSE hnd[h]]
    /\ UNCHANGED <<state, inFlight, starting, init, text, idle, runs, faults, history>>

\* The server process restarts: turns, handlers and undelivered events are
\* gone, the LoopState file is not; the plugin reads it as it loads.
Restart ==
    /\ "restart" \in faults
    /\ hnd' = [h \in Slot |-> NoHandler]
    /\ inFlight' = [s \in Session |-> None]
    /\ starting' = {}
    /\ init' = state.s
    /\ busy' = {}
    /\ alive' = [s \in Session |-> IF alive[s] = "live" THEN "live" ELSE "gone"]
    /\ idle' = [s \in Session |-> 0]
    /\ UNCHANGED <<state, text, runs, faults, history>>

HandlerStep(h) ==
    \/ KindRoot(h) \/ KindMissing(h) \/ KindNotRoot(h)
    \/ MessagesFail(h) \/ NoAnswerYet(h) \/ SentinelSeen(h) \/ CapReached(h)
    \/ Superseded(h) \/ \E reaches \in BOOLEAN : Inject(h, reaches)
    \/ PromptOk(h) \/ PromptFails(h)

Next ==
    \/ \E h \in Slot : HandlerStep(h)
    \/ \E s \in Session : \/ DeliverIdle(s) \/ DeliverDeleted(s)
                          \/ LoopStart(s) \/ LoopStartWrite(s)
                          \/ LoopStartRefused(s) \/ LoopStop(s)
                          \/ TurnStart(s) \/ DeleteSession(s)
    \/ \E s \in Session, t \in {"plain", "done"} : TurnEnd(s, t)
    \/ InitStatus
    \/ Restart

Spec == Init /\ [][Next]_vars

\* Pending promises settle, events are delivered, turns end.
Fairness ==
    /\ \A h \in Slot : WF_vars(HandlerStep(h))
    /\ \A s \in Session : /\ WF_vars(DeliverIdle(s))
                          /\ WF_vars(DeliverDeleted(s))
                          /\ WF_vars(LoopStartWrite(s) \/ LoopStartRefused(s))
                          /\ WF_vars(\E t \in {"plain", "done"} : TurnEnd(s, t))
    /\ WF_vars(InitStatus)

FairSpec == Spec /\ Fairness

-----------------------------------------------------------------------------
HandlerType ==
    [pc : {"free", "kind", "text", "prompt"}, s : Session \cup {None},
     st : LoopState \cup {NoLoop}, pending : BOOLEAN, rerun : BOOLEAN,
     answer : {"none", "waiting", "ok", "lost"}]

FileType == state \in LoopState \cup {NoLoop} /\ state.fails < MAX_CONSECUTIVE_FAILURES
HandlersType ==
    /\ hnd \in [Slot -> HandlerType]
    /\ inFlight \in [Session -> Slot \cup {None}]
ToolsType ==
    /\ starting \subseteq Session
    /\ init \in Session \cup {None}
    /\ runs \in 0..MaxRuns
ServerType ==
    /\ busy \subseteq Session
    /\ text \in [Session -> {"none", "plain", "done"}]
    /\ alive \in [Session -> {"live", "deleted", "gone"}]
    /\ idle \in [Session -> 0..MaxIdle]
HistoryType ==
    /\ ended \subseteq Run
    /\ sent \in [Run -> Nat]
    /\ label \in [Run -> 0..MaxIterations]
    /\ fails \in [Run -> Nat]

DataType == FileType /\ HandlersType /\ ToolsType /\ ServerType /\ HistoryType

\* Every variable has its type, and a file with an exhausted failure budget is
\* never left on disk.
TypeOK == DataType /\ faults \subseteq Faults

\* A loop that was stopped, completed or replaced never comes back: no stale
\* handler writes its run to the file again, however long it was suspended.
StoppedStaysStopped == Active(state) => state.run \notin ended

\* No iteration label is injected twice for a run and none exceeds the cap,
\* and the iteration on file counts the prompts of its run: neither a re-run
\* of the handler, a restart nor a failed prompt repeats a label, and a failed
\* transcript read does not use up an iteration.
LabelsDistinct ==
    /\ \A r \in Run : sent[r] <= label[r] /\ label[r] <= MaxIterations
    /\ Active(state) => sent[state.run] = state.iter

\* A run is given up for failures only after MAX_CONSECUTIVE_FAILURES failed
\* attempts, transcript reads and prompts alike, with no successful prompt in
\* between. The reads count because the code counts them (index.ts:304-310, as
\* the comment at 206-209 wants); docs/spec.md:676-679 has only failed prompts
\* count and calls failed reads recoverable.
FailureBudget ==
    [][\A r \in Run :
          (fails'[r] > fails[r] /\ state.run = r /\ ~Active(state'))
             => fails'[r] >= MAX_CONSECUTIVE_FAILURES]_vars

\* One activation of handleIdle per live session at a time.
SingleFlight ==
    \A g, h \in Slot :
        (g # h /\ hnd[g].pc # "free" /\ hnd[g].s = hnd[h].s)
            => alive[hnd[g].s] # "live"

\* The single-flight map never wedges a session: an entry is removed again.
TrackerReleased ==
    \A s \in Session : inFlight[s] # None ~> inFlight[s] = None

\* A loop survives a restart: if the server then stays up and answers, the loop
\* on file is continued or ended, although no idle event of its session may
\* ever come.
LoopSurvivesRestart ==
    (faults \subseteq {"restart"} /\ <>[][~Restart]_vars) =>
        \A s \in Session :
            (init = s /\ state.s = s /\ inFlight[s] = None /\ text[s] # "none")
                ~> (s \in busy \/ state.s # s)

-----------------------------------------------------------------------------
(* What the repository says of the plugin and the code does not do.        *)

\* plugins/loop/test/loop-behavior.test.ts:182, "stale same-session handler
\* cannot overwrite a restarted loop": a handler leaves other runs alone.
HandlerEndsOnlyItsRun ==
    [][\A h \in Slot :
          (HandlerStep(h) /\ Active(state) /\ ~Active(state'))
             => state.run = hnd[h].st.run]_vars

\* docs/spec.md:652, "every subsequent session.status idle for that session
\* fires a check": an active loop of an idle session that has answered is
\* continued or ended.
IdleLoopContinues ==
    \A s \in Session :
        (state.s = s /\ s \notin busy /\ text[s] # "none")
            ~> (s \in busy \/ state.s # s)
=============================================================================
