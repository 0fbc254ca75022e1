------------------------- MODULE ScheduledTickProofs -------------------------
(***************************************************************************)
(* Proofs about ScheduledTick, for any number of ticks and sessions and    *)
(* every mode.                                                             *)
(***************************************************************************)
EXTENDS ScheduledTick, TLAPS

\* The control points a phase passes through.
PointsOf(ph) ==
    CASE ph = "progress" -> {"list", "sess", "msgs"}
      [] ph = "first"    -> Unlocked \cup {"list", "sess", "msgs"}
      [] ph = "initial"  -> {"target", "create", "creating", "open", "opened", "send", "sent"}
      [] ph = "confirm"  -> {"poll", "sess", "msgs"}
      [] ph = "cont"     -> {"mode", "target", "open", "opened", "send", "sent"}
      [] ph = "adhoc"    -> {"list", "target", "send", "sent"}

\* A tick at point l of phase ph is inside the lock.
Inside(l, ph) == l \notin Unlocked /\ ph # "adhoc"

\* The flock is exclusive: its holder is the tick that is inside.
LockInv ==
    \A t \in Tick : /\ pc[t] \in PointsOf(phase[t])
                    /\ lock = t <=> Inside(pc[t], phase[t])

\* Sessions exist in a finished clone only, and the ticks alone make one.
SessionInv ==
    /\ ws # "ready" => live = {}
    /\ ~foreign => \A r, s \in live : r = s

\* Who can have written in the workspace.
Known == others \/ initials > 0

\* What a tick at point l of phase ph has seen is still true, but for the
\* operator: the row it is about to create is missing, the workspace it opens
\* a session in has none, the initial prompt it is about to send was not sent,
\* the first run it continues is readable (or its workspace was deleted) and
\* was the initial prompt or someone else's message.
Owed(l, ph) ==
    /\ l = "create" => ws = "absent"
    /\ l \in {"creating", "open"} => foreign \/ live = {}
    /\ ph = "initial" /\ l # "sent" => foreign \/ unconfirmed \/ initials = 0
    /\ ph = "cont" /\ l \in {"mode", "target", "send"} =>
          foreign \/ readable # {} \/ ws = "absent"
    /\ ph = "cont" /\ l \in {"open", "opened"} => foreign \/ ws = "absent"
    /\ ph = "cont" => Known \/ ws = "absent"

ProgressInv == \A t \in Tick : Owed(pc[t], phase[t])

\* An initial prompt was read back, or a tick inside the lock waits for it; a
\* user message is the initial prompt's doing, or somebody else's.
PromptInv ==
    /\ initials > 0 =>
          foreign \/ unconfirmed \/ readable # {} \/ \E t \in Tick : Outstanding(t)
    /\ queued # {} \/ readable # {} => Known
    /\ OneInitialPrompt
    /\ ContinuationAfterFirstRun

IInv == TypeOK /\ LockInv /\ SessionInv /\ ProgressInv /\ PromptInv

-----------------------------------------------------------------------------
LEMMA Constants == None \notin Tick /\ None \notin Session
BY TickAssumption

\* How Known and the property that names it are used below.
LEMMA KnownFacts ==
    /\ UNCHANGED <<others, initials>> => (Known <=> Known')
    /\ others' => Known'
    /\ initials' > 0 => Known'
    /\ ContinuationAfterFirstRun <=> (continued => (foreign \/ readable # {}) /\ Known)
    /\ ContinuationAfterFirstRun' <=>
          (continued' => (foreign' \/ readable' # {}) /\ Known')
BY DEF Known, ContinuationAfterFirstRun

\* The parts of the invariant that a step leaves alone.
LEMMA Frame ==
    /\ TickType /\ UNCHANGED <<lock, tickVars>> => TickType'
    /\ ServerType /\ UNCHANGED <<ws, sessVars>> => ServerType'
    /\ HistoryType /\ UNCHANGED history => HistoryType'
    /\ LockInv /\ UNCHANGED <<lock, tickVars>> => LockInv'
    /\ SessionInv /\ UNCHANGED <<ws, live, foreign>> => SessionInv'
<1> USE DEF tickVars, sessVars, history
<1>1. TickType /\ UNCHANGED <<lock, tickVars>> => TickType'
  BY DEF TickType
<1>2. ServerType /\ UNCHANGED <<ws, sessVars>> => ServerType'
  BY DEF ServerType
<1>3. HistoryType /\ UNCHANGED history => HistoryType'
  BY DEF HistoryType
<1>4. LockInv /\ UNCHANGED <<lock, tickVars>> => LockInv'
  BY DEF LockInv
<1>5. SessionInv /\ UNCHANGED <<ws, live, foreign>> => SessionInv'
  BY DEF SessionInv
<1> QED BY <1>1, <1>2, <1>3, <1>4, <1>5

LEMMA InitInv == Init => IInv
<1> SUFFICES ASSUME Init PROVE IInv
  OBVIOUS
<1> USE DEF Init
<1>1. TypeOK
  <2>1. TickType
    BY DEF TickType, Points, Unlocked, Phases
  <2>2. ServerType
    BY DEF ServerType
  <2>3. HistoryType
    <3>1. initials \in 0..2
      OBVIOUS
    <3>2. /\ continued \in BOOLEAN /\ others \in BOOLEAN
          /\ unconfirmed \in BOOLEAN /\ foreign \in BOOLEAN
      OBVIOUS
    <3> QED BY <3>1, <3>2 DEF HistoryType
  <2> QED BY <2>1, <2>2, <2>3 DEF TypeOK
<1>2. LockInv
  BY Constants DEF LockInv, PointsOf, Inside, Unlocked
<1>3. SessionInv /\ ProgressInv /\ PromptInv
  BY DEF SessionInv, ProgressInv, Owed, PromptInv, OneInitialPrompt, ContinuationAfterFirstRun
<1> QED BY <1>1, <1>2, <1>3 DEF IInv

-----------------------------------------------------------------------------
(* The steps of a tick.                                                    *)

\* Tick t is now at point l of phase ph, and the lock with it.
Moves(t, l, ph) ==
    /\ l \in PointsOf(ph) /\ ph \in Phases
    /\ pc' = [pc EXCEPT ![t] = l]
    /\ phase' = [phase EXCEPT ![t] = ph]
    /\ sid' \in [Tick -> Session \cup {None}]
    /\ due' \in [Tick -> BOOLEAN]
    /\ \/ lock' = lock /\ (Inside(l, ph) <=> Inside(pc[t], phase[t]))
       \/ lock = None /\ lock' = t /\ Inside(l, ph)
       \/ lock' = (IF lock = t THEN None ELSE lock) /\ ~Inside(l, ph)

LEMMA PointsTyped == \A ph \in Phases : PointsOf(ph) \subseteq Points
BY DEF Phases, PointsOf, Points, Unlocked

LEMMA MovesLock ==
    ASSUME TickType, LockInv, NEW t \in Tick, NEW l, NEW ph, Moves(t, l, ph)
    PROVE  /\ TickType' /\ LockInv'
           /\ pc'[t] = l /\ phase'[t] = ph
           /\ \A u \in Tick \ {t} : pc'[u] = pc[u] /\ phase'[u] = phase[u]
<1>1. l \in Points
  BY PointsTyped DEF Moves
<1>2. /\ pc'[t] = l /\ phase'[t] = ph
      /\ \A u \in Tick \ {t} : pc'[u] = pc[u] /\ phase'[u] = phase[u]
  BY DEF Moves, TickType
<1>3. LockInv'
  BY <1>2, Constants DEF Moves, TickType, LockInv
<1>4. /\ lock' \in Tick \cup {None}
      /\ pc' \in [Tick -> Points] /\ phase' \in [Tick -> Phases]
      /\ sid' \in [Tick -> Session \cup {None}] /\ due' \in [Tick -> BOOLEAN]
  BY <1>1, Constants DEF Moves, TickType
<1>5. lock' # None => pc'[lock'] \notin Unlocked
  BY <1>3, <1>4 DEF LockInv, Inside
<1> QED BY <1>2, <1>3, <1>4, <1>5 DEF TickType

\* There is one tick inside the lock.
LEMMA OneInside ==
    ASSUME LockInv, NEW t \in Tick, Inside(pc[t], phase[t]),
           NEW u \in Tick, Inside(pc[u], phase[u])
    PROVE  t = u
BY DEF LockInv

\* A tick with an initial prompt on its way is inside.
LEMMA OutstandingInside ==
    ASSUME LockInv, NEW t \in Tick, Outstanding(t) PROVE Inside(pc[t], phase[t])
BY DEF LockInv, Outstanding, Inside, Unlocked, PointsOf

\* A step of t that changes nothing on the server.
Control(t, l, ph) ==
    /\ Moves(t, l, ph)
    /\ Owed(l, ph)
    /\ UNCHANGED <<ws, live, top, queued, readable, initials, continued, others, foreign>>
    /\ late' \in BOOLEAN
    /\ unconfirmed' \in BOOLEAN
    /\ unconfirmed => unconfirmed'
    /\ Outstanding(t) => \/ ph = "confirm" \/ (ph = "initial" /\ l = "sent")
                         \/ readable # {} \/ unconfirmed'

LEMMA ControlInv ==
    ASSUME IInv, NEW t \in Tick, NEW l, NEW ph, Control(t, l, ph)
    PROVE  IInv'
<1>1. TypeOK /\ LockInv /\ SessionInv /\ ProgressInv /\ PromptInv
  BY DEF IInv
<1>2. /\ TickType' /\ LockInv'
      /\ pc'[t] = l /\ phase'[t] = ph
      /\ \A u \in Tick \ {t} : pc'[u] = pc[u] /\ phase'[u] = phase[u]
  BY <1>1, MovesLock DEF Control, TypeOK
<1>3. ServerType' /\ HistoryType' /\ SessionInv'
  BY <1>1 DEF Control, TypeOK, ServerType, HistoryType, SessionInv
<1>4. ProgressInv'
  <2>0. Known <=> Known'
    BY KnownFacts DEF Control
  <2>1. Owed(pc[t], phase[t])'
    BY <1>2, <2>0 DEF Control, Owed
  <2>2. ASSUME NEW u \in Tick \ {t} PROVE Owed(pc[u], phase[u])'
    BY <1>1, <1>2, <2>0 DEF Control, Owed, ProgressInv
  <2> QED BY <2>1, <2>2 DEF ProgressInv
<1>5. PromptInv'
  <2>1. ASSUME initials > 0, ~foreign, ~unconfirmed', readable = {}
        PROVE  \E u \in Tick : Outstanding(u)'
    <3>1. PICK u \in Tick : Outstanding(u)
      BY <1>1, <2>1 DEF PromptInv, Control
    <3>2. CASE u = t
      BY <1>2, <2>1, <3>1, <3>2 DEF Control, Outstanding
    <3>3. CASE u # t
      BY <1>2, <3>1, <3>3 DEF Outstanding
    <3> QED BY <3>2, <3>3
  <2>2. OneInitialPrompt'
    BY <1>1 DEF PromptInv, OneInitialPrompt, Control
  <2>3. Known <=> Known'
    BY KnownFacts DEF Control
  <2>4. ContinuationAfterFirstRun'
    BY <1>1, <2>3, KnownFacts DEF PromptInv, Control
  <2> QED BY <1>1, <2>1, <2>2, <2>3, <2>4 DEF PromptInv, Control
<1> QED BY <1>2, <1>3, <1>4, <1>5 DEF IInv, TypeOK

\* Goto and Exit, the two ways in which a tick goes on.
LEMMA GotoInv ==
    ASSUME IInv, NEW t \in Tick, NEW l, NEW ph, Goto(t, l, ph),
           l \in PointsOf(ph), ph \in Phases, Inside(l, ph) <=> Inside(pc[t], phase[t]),
           Owed(l, ph), Outstanding(t) => ph = "confirm",
           UNCHANGED <<ws, sessVars, history>>
    PROVE  IInv'
<1>1. Moves(t, l, ph)
  BY DEF Moves, Goto, IInv, TypeOK, TickType
<1>2. late \in BOOLEAN /\ unconfirmed \in BOOLEAN
  BY DEF IInv, TypeOK, ServerType, HistoryType
<1>3. Control(t, l, ph)
  BY <1>1, <1>2 DEF Control, sessVars, history
<1> QED BY <1>3, ControlInv

LEMMA ExitInv ==
    ASSUME IInv, NEW t \in Tick, Exit(t),
           UNCHANGED <<ws, live, top, queued, readable, initials, continued, others, foreign>>,
           late' \in BOOLEAN, unconfirmed' \in BOOLEAN, unconfirmed => unconfirmed',
           Outstanding(t) => readable # {} \/ unconfirmed'
    PROVE  IInv'
<1>1. "idle" \in PointsOf("first") /\ ~Inside("idle", "first") /\ "first" \in Phases
  BY DEF PointsOf, Inside, Unlocked, Phases
<1>2. Moves(t, "idle", "first")
  BY <1>1 DEF Moves, Exit, IInv, TypeOK, TickType
<1>3. Owed("idle", "first")
  BY DEF Owed
<1>4. Control(t, "idle", "first")
  BY <1>2, <1>3 DEF Control
<1> QED BY <1>4, ControlInv

\* An exit that changes nothing on the server.
LEMMA PlainExitInv ==
    ASSUME IInv, NEW t \in Tick, Exit(t), UNCHANGED <<ws, sessVars, history>>,
           Outstanding(t) => readable # {}
    PROVE  IInv'
<1>1. late \in BOOLEAN /\ unconfirmed \in BOOLEAN
  BY DEF IInv, TypeOK, ServerType, HistoryType
<1> QED BY <1>1, ExitInv DEF sessVars, history

LEMMA StartInv == ASSUME IInv, NEW t \in Tick, Start(t) PROVE IInv'
<1>1. ~Inside(pc[t], phase[t]) /\ ~Outstanding(t)
  BY OutstandingInside DEF IInv, Start, Inside, Unlocked
<1>2. CASE Goto(t, "trylock", "first")
  <2>1. /\ "trylock" \in PointsOf("first") /\ "first" \in Phases
        /\ ~Inside("trylock", "first") /\ Owed("trylock", "first")
    BY DEF PointsOf, Phases, Inside, Unlocked, Owed
  <2> QED BY <1>1, <1>2, <2>1, GotoInv DEF Start
<1>3. CASE Goto(t, "list", "adhoc")
  <2>1. /\ "list" \in PointsOf("adhoc") /\ "adhoc" \in Phases
        /\ ~Inside("list", "adhoc") /\ Owed("list", "adhoc")
    BY DEF PointsOf, Phases, Inside, Unlocked, Owed
  <2> QED BY <1>1, <1>3, <2>1, GotoInv DEF Start
<1> QED BY <1>2, <1>3 DEF Start

LEMMA LockStepInv ==
    ASSUME IInv, NEW t \in Tick, TryLock(t) \/ LockAfterWait(t)
    PROVE  IInv'
<1>0. TickType /\ LockInv /\ late \in BOOLEAN /\ unconfirmed \in BOOLEAN
  BY DEF IInv, TypeOK, ServerType, HistoryType
<1>1. /\ pc[t] \in Unlocked /\ phase[t] = "first"
      /\ ~Inside(pc[t], phase[t]) /\ ~Outstanding(t)
  BY <1>0 DEF TryLock, LockAfterWait, Unlocked, LockInv, PointsOf, Inside, Outstanding, TickType, Phases
<1>2. UNCHANGED <<ws, live, top, queued, readable, late, initials, continued, others, unconfirmed, foreign>>
  BY DEF TryLock, LockAfterWait, sessVars, history
<1>3. ASSUME NEW l, NEW ph, Moves(t, l, ph), Owed(l, ph) PROVE IInv'
  BY <1>0, <1>1, <1>2, <1>3, ControlInv DEF Control
<1>4. /\ \A ph \in {"first", "progress"} :
            "list" \in PointsOf(ph) /\ ph \in Phases /\ Inside("list", ph) /\ Owed("list", ph)
      /\ "blocked" \in PointsOf("first") /\ ~Inside("blocked", "first") /\ Owed("blocked", "first")
  BY DEF PointsOf, Phases, Inside, Unlocked, Owed
<1>5. \/ Moves(t, "list", "first") \/ Moves(t, "blocked", "first")
      \/ Moves(t, "list", "progress")
  BY <1>0, <1>1, <1>4 DEF Moves, TryLock, LockAfterWait, TickType
<1> QED BY <1>3, <1>4, <1>5

\* A tick inside the lock that has sent nothing and finds nothing readable may
\* send the initial prompt.
LEMMA NotSent ==
    ASSUME IInv, NEW t \in Tick, Inside(pc[t], phase[t]), ~Outstanding(t), readable = {}
    PROVE  foreign \/ unconfirmed \/ initials = 0
<1> SUFFICES ASSUME ~foreign, ~unconfirmed, initials # 0 PROVE FALSE
  OBVIOUS
<1>1. initials > 0
  BY DEF IInv, TypeOK, HistoryType
<1>2. PICK u \in Tick : Outstanding(u)
  BY <1>1 DEF IInv, PromptInv
<1>3. t = u
  BY <1>2, OutstandingInside, OneInside DEF IInv
<1> QED BY <1>2, <1>3

LEMMA VerdictInv ==
    ASSUME IInv, NEW t \in Tick, pc[t] \in {"sess", "msgs"},
           NEW complete \in BOOLEAN, Verdict(t, complete),
           complete => readable # {},
           ~complete => foreign \/ readable = {},
           UNCHANGED <<ws, sessVars, history>>
    PROVE  IInv'
<1>1. /\ phase[t] \in {"progress", "first", "confirm"}
      /\ Inside(pc[t], phase[t])
      /\ Outstanding(t) <=> phase[t] = "confirm"
  BY DEF IInv, TypeOK, TickType, Phases, LockInv, PointsOf, Inside, Unlocked, Outstanding
<1>2. ASSUME NEW l, NEW ph, Goto(t, l, ph), l \in PointsOf(ph), ph \in Phases, Inside(l, ph),
             Owed(l, ph), phase[t] = "confirm" => ph = "confirm"
      PROVE  IInv'
  BY <1>1, <1>2, GotoInv
<1>3. CASE phase[t] = "progress" /\ complete /\ Exit(t)
  BY <1>1, <1>3, PlainExitInv
<1>4. CASE phase[t] = "progress" /\ ~complete /\ Goto(t, "list", "first")
  <2>1. /\ "list" \in PointsOf("first") /\ "first" \in Phases /\ Inside("list", "first")
        /\ Owed("list", "first")
    BY DEF PointsOf, Phases, Inside, Unlocked, Owed
  <2> QED BY <1>2, <1>4, <2>1
<1>5. CASE phase[t] = "first" /\ complete /\ Goto(t, "mode", "cont")
  <2>1. /\ "mode" \in PointsOf("cont") /\ "cont" \in Phases /\ Inside("mode", "cont")
        /\ Owed("mode", "cont")
    BY <1>5 DEF PointsOf, Phases, Inside, Unlocked, Owed, IInv, PromptInv
  <2> QED BY <1>2, <1>5, <2>1
<1>6. CASE phase[t] = "first" /\ ~complete /\ Goto(t, "target", "initial")
  <2>1. foreign \/ unconfirmed \/ initials = 0
    BY <1>1, <1>6, NotSent
  <2>2. /\ "target" \in PointsOf("initial") /\ "initial" \in Phases /\ Inside("target", "initial")
        /\ Owed("target", "initial")
    BY <2>1 DEF PointsOf, Phases, Inside, Unlocked, Owed
  <2> QED BY <1>2, <1>6, <2>2
<1>7. CASE phase[t] = "confirm" /\ complete /\ Exit(t)
  BY <1>7, PlainExitInv
<1>8. CASE phase[t] = "confirm" /\ ~complete /\ Goto(t, "poll", "confirm")
  <2>1. /\ "poll" \in PointsOf("confirm") /\ "confirm" \in Phases /\ Inside("poll", "confirm")
        /\ Owed("poll", "confirm")
    BY DEF PointsOf, Phases, Inside, Unlocked, Owed
  <2> QED BY <1>2, <1>8, <2>1
<1> QED BY <1>3, <1>4, <1>5, <1>6, <1>7, <1>8 DEF Verdict

LEMMA FindSessionInv == ASSUME IInv, NEW t \in Tick, FindSession(t) PROVE IInv'
<1>0. /\ TickType /\ LockInv /\ top \in Session \cup {None}
      /\ late \in BOOLEAN /\ unconfirmed \in BOOLEAN
  BY DEF IInv, TypeOK, ServerType, HistoryType
<1>1. CASE top = None /\ Verdict(t, FALSE)
  <2>1. readable = {}
    BY <1>1, Constants DEF IInv, TypeOK, ServerType
  <2> QED BY <1>1, <2>1, VerdictInv DEF FindSession
<1>2. CASE /\ top # None
           /\ sid' = [sid EXCEPT ![t] = top]
           /\ pc' = [pc EXCEPT ![t] = "msgs"]
           /\ UNCHANGED <<lock, phase, due>>
  <2>1. phase[t] \in {"progress", "first", "confirm"}
    BY <1>0 DEF FindSession, TickType, Phases, LockInv, PointsOf, Unlocked
  <2>2. /\ "msgs" \in PointsOf(phase[t]) /\ Inside("msgs", phase[t])
        /\ Inside(pc[t], phase[t]) /\ Owed("msgs", phase[t])
        /\ Outstanding(t) => phase[t] = "confirm"
    BY <2>1 DEF FindSession, PointsOf, Inside, Unlocked, Owed, Outstanding
  <2>3. Moves(t, "msgs", phase[t])
    BY <1>0, <1>2, <2>2 DEF Moves, TickType
  <2>4. Control(t, "msgs", phase[t])
    BY <1>0, <2>2, <2>3 DEF Control, FindSession, sessVars, history
  <2> QED BY <2>4, ControlInv
<1> QED BY <1>1, <1>2 DEF FindSession

LEMMA HasUserPromptInv == ASSUME IInv, NEW t \in Tick, HasUserPrompt(t) PROVE IInv'
<1>1. readable \subseteq live /\ (~foreign => \A r, s \in live : r = s)
  BY DEF IInv, TypeOK, ServerType, SessionInv
<1> DEFINE complete == sid[t] \in readable
<1>2. sid[t] \in live /\ Verdict(t, complete) /\ pc[t] \in {"sess", "msgs"}
      /\ UNCHANGED <<ws, sessVars, history>>
  BY DEF HasUserPrompt
<1>3. /\ complete \in BOOLEAN
      /\ complete => readable # {}
      /\ ~complete => foreign \/ readable = {}
  BY <1>1, <1>2
<1> HIDE DEF complete
<1> QED BY <1>2, <1>3, VerdictInv

LEMMA ListInv == ASSUME IInv, NEW t \in Tick, List(t) PROVE IInv'
<1>0. TickType /\ LockInv /\ UNCHANGED <<ws, sessVars, history>> /\ pc[t] = "list"
  BY DEF IInv, TypeOK, List
<1>1. phase[t] \in {"progress", "first", "adhoc"} /\ ~Outstanding(t)
  BY <1>0 DEF TickType, Phases, LockInv, PointsOf, Unlocked, Outstanding
<1>2. Inside(pc[t], phase[t]) <=> phase[t] # "adhoc"
  BY <1>0 DEF Inside, Unlocked
<1>3. ASSUME NEW l, NEW ph, Goto(t, l, ph), l \in PointsOf(ph), ph \in Phases,
             Inside(l, ph) <=> phase[t] # "adhoc", Owed(l, ph)
      PROVE  IInv'
  BY <1>0, <1>1, <1>2, <1>3, GotoInv
<1>4. CASE ws = "absent" /\ phase[t] = "progress" /\ Goto(t, "list", "first")
  <2>1. /\ "list" \in PointsOf("first") /\ "first" \in Phases /\ Inside("list", "first")
        /\ Owed("list", "first")
    BY DEF PointsOf, Phases, Inside, Unlocked, Owed
  <2> QED BY <1>3, <1>4, <2>1
<1>5. CASE ws = "absent" /\ phase[t] = "first" /\ Goto(t, "create", "initial")
  <2>1. live = {} /\ readable = {}
    BY <1>5 DEF IInv, SessionInv, TypeOK, ServerType
  <2>2. foreign \/ unconfirmed \/ initials = 0
    BY <1>1, <1>2, <1>5, <2>1, NotSent
  <2>3. /\ "create" \in PointsOf("initial") /\ "initial" \in Phases /\ Inside("create", "initial")
        /\ Owed("create", "initial")
    BY <1>5, <2>2 DEF PointsOf, Phases, Inside, Unlocked, Owed
  <2> QED BY <1>3, <1>5, <2>3
<1>6. CASE Exit(t)
  BY <1>0, <1>1, <1>6, PlainExitInv
<1>7. CASE ws # "absent" /\ phase[t] # "adhoc" /\ Goto(t, "sess", phase[t])
  <2>1. /\ "sess" \in PointsOf(phase[t]) /\ phase[t] \in Phases /\ Inside("sess", phase[t])
        /\ Owed("sess", phase[t])
    BY <1>1, <1>7 DEF PointsOf, Phases, Inside, Unlocked, Owed
  <2> QED BY <1>3, <1>7, <2>1
<1>8. CASE ws # "absent" /\ phase[t] = "adhoc" /\ Goto(t, "target", "adhoc")
  <2>1. /\ "target" \in PointsOf("adhoc") /\ "adhoc" \in Phases /\ ~Inside("target", "adhoc")
        /\ Owed("target", "adhoc")
    BY DEF PointsOf, Phases, Inside, Unlocked, Owed
  <2> QED BY <1>3, <1>8, <2>1
<1> QED BY <1>4, <1>5, <1>6, <1>7, <1>8 DEF List

LEMMA ModeSwitchInv == ASSUME IInv, NEW t \in Tick, ModeSwitch(t) PROVE IInv'
<1>1. phase[t] = "cont" /\ Inside(pc[t], phase[t]) /\ ~Outstanding(t)
  BY DEF ModeSwitch, IInv, TypeOK, TickType, Phases, LockInv, PointsOf, Inside, Unlocked, Outstanding
<1>2. CASE Exit(t)
  BY <1>1, <1>2, PlainExitInv DEF ModeSwitch
<1>3. CASE Goto(t, "target", "cont")
  <2>1. Owed("mode", "cont")
    BY <1>1 DEF IInv, ProgressInv, ModeSwitch
  <2>2. /\ "target" \in PointsOf("cont") /\ "cont" \in Phases /\ Inside("target", "cont")
        /\ Owed("target", "cont")
    BY <2>1 DEF PointsOf, Phases, Inside, Unlocked, Owed
  <2> QED BY <1>1, <1>3, <2>2, GotoInv DEF ModeSwitch
<1> QED BY <1>2, <1>3 DEF ModeSwitch

LEMMA TargetInv == ASSUME IInv, NEW t \in Tick, Target(t) PROVE IInv'
<1>0. /\ TickType /\ LockInv /\ top \in Session \cup {None}
      /\ late \in BOOLEAN /\ unconfirmed \in BOOLEAN
      /\ top = None => live = {} /\ readable = {}
  BY Constants DEF IInv, TypeOK, ServerType, HistoryType
<1>1. /\ phase[t] \in {"initial", "cont", "adhoc"} /\ ~Outstanding(t)
      /\ Inside(pc[t], phase[t]) <=> phase[t] # "adhoc"
      /\ Owed("target", phase[t])
  BY <1>0 DEF Target, TickType, Phases, LockInv, PointsOf, Inside, Unlocked, Outstanding,
              IInv, ProgressInv
<1>2. UNCHANGED <<ws, sessVars, history>>
  BY DEF Target
<1>3. ASSUME NEW l, pc' = [pc EXCEPT ![t] = l], sid' \in [Tick -> Session \cup {None}],
             UNCHANGED <<lock, phase, due>>, l \in PointsOf(phase[t]),
             l \in {"open", "send"}, Owed(l, phase[t])
      PROVE  IInv'
  <2>1. Inside(l, phase[t]) <=> phase[t] # "adhoc"
    BY <1>3 DEF Inside, Unlocked
  <2>2. Moves(t, l, phase[t])
    BY <1>0, <1>1, <1>3, <2>1 DEF Moves, TickType
  <2>3. Control(t, l, phase[t])
    BY <1>0, <1>1, <1>2, <1>3, <2>2 DEF Control, sessVars, history
  <2> QED BY <2>3, ControlInv
<1>4. CASE Exit(t)
  BY <1>1, <1>2, <1>4, PlainExitInv
<1>5. CASE /\ top = None /\ phase[t] # "adhoc"
           /\ pc' = [pc EXCEPT ![t] = "open"]
           /\ sid' = [sid EXCEPT ![t] = None]
           /\ UNCHANGED <<lock, phase, due>>
  <2>1. "open" \in PointsOf(phase[t]) /\ Owed("open", phase[t])
    BY <1>0, <1>1, <1>5 DEF PointsOf, Owed
  <2>2. sid' \in [Tick -> Session \cup {None}]
    BY <1>0, <1>5 DEF TickType
  <2> QED BY <1>3, <1>5, <2>1, <2>2
<1>6. CASE /\ top # None
           /\ pc' = [pc EXCEPT ![t] = "send"]
           /\ sid' = [sid EXCEPT ![t] = top]
           /\ UNCHANGED <<lock, phase, due>>
  <2>1. "send" \in PointsOf(phase[t]) /\ Owed("send", phase[t])
    BY <1>0, <1>1, <1>6 DEF PointsOf, Owed
  <2>2. sid' \in [Tick -> Session \cup {None}]
    BY <1>0, <1>6 DEF TickType
  <2> QED BY <1>3, <1>6, <2>1, <2>2
<1> QED BY <1>4, <1>5, <1>6 DEF Target

LEMMA SendAnsweredInv == ASSUME IInv, NEW t \in Tick, SendAnswered(t) PROVE IInv'
<1>1. Outstanding(t) <=> phase[t] = "initial"
  BY DEF IInv, TypeOK, TickType, Phases, SendAnswered, Outstanding, LockInv, PointsOf, Unlocked
<1>2. CASE phase[t] = "initial" /\ Goto(t, "poll", "confirm")
  <2>1. /\ "poll" \in PointsOf("confirm") /\ "confirm" \in Phases /\ Inside("poll", "confirm")
        /\ Owed("poll", "confirm")
    BY DEF PointsOf, Phases, Inside, Unlocked, Owed
  <2>2. Inside(pc[t], phase[t])
    BY <1>2 DEF SendAnswered, Inside, Unlocked
  <2> QED BY <1>2, <2>1, <2>2, GotoInv DEF SendAnswered
<1>3. CASE phase[t] # "initial" /\ Exit(t)
  BY <1>1, <1>3, PlainExitInv DEF SendAnswered
<1> QED BY <1>2, <1>3 DEF SendAnswered

\* confirmFirstRunVisible gives up after its deadline, and says so.
LEMMA PollInv == ASSUME IInv, NEW t \in Tick, Poll(t) \/ PollFails(t) PROVE IInv'
<1>1. phase[t] = "confirm" /\ Inside(pc[t], phase[t])
  BY DEF Poll, PollFails, IInv, TypeOK, TickType, Phases, LockInv, PointsOf, Inside, Unlocked
<1>2. ASSUME NEW l \in {"sess", "poll"}, Goto(t, l, "confirm"), UNCHANGED <<ws, sessVars, history>>
      PROVE  IInv'
  <2>1. /\ l \in PointsOf("confirm") /\ "confirm" \in Phases /\ Inside(l, "confirm")
        /\ Owed(l, "confirm")
    BY <1>2 DEF PointsOf, Phases, Inside, Unlocked, Owed
  <2> QED BY <1>1, <1>2, <2>1, GotoInv
<1>3. CASE Poll(t) /\ due[t] /\ Exit(t) /\ unconfirmed' = TRUE
  <2>1. /\ late' \in BOOLEAN
        /\ UNCHANGED <<ws, live, top, queued, readable, initials, continued, others, foreign>>
    BY <1>3 DEF Poll, sessVars, IInv, TypeOK, ServerType
  <2>2. unconfirmed' \in BOOLEAN /\ unconfirmed'
    BY <1>3
  <2> QED BY <1>3, <2>1, <2>2, ExitInv
<1> QED BY <1>2, <1>3 DEF Poll, PollFails, history

\* A tick that ends early with its prompt on the way leaves a mark.
LEMMA AbandonInv == ASSUME IInv, NEW t \in Tick, Abandon(t) PROVE IInv'
<1>1. late \in BOOLEAN /\ unconfirmed \in BOOLEAN
  BY DEF IInv, TypeOK, ServerType, HistoryType
<1>2. late' \in BOOLEAN
  BY <1>1 DEF Abandon
<1>3. /\ unconfirmed' \in BOOLEAN /\ (unconfirmed => unconfirmed')
      /\ (Outstanding(t) => unconfirmed')
  BY <1>1 DEF Abandon
<1> QED BY <1>2, <1>3, ExitInv DEF Abandon

LEMMA DeadlineInv == ASSUME IInv, NEW t \in Tick, Deadline(t) PROVE IInv'
<1>0. TickType /\ LockInv /\ ProgressInv /\ late \in BOOLEAN /\ unconfirmed \in BOOLEAN
  BY DEF IInv, TypeOK, ServerType, HistoryType
<1>1. Moves(t, pc[t], phase[t]) /\ phase[t] = "confirm"
  BY <1>0 DEF Deadline, Moves, TickType, LockInv
<1>2. Control(t, pc[t], phase[t])
  BY <1>0, <1>1 DEF Control, Deadline, ProgressInv, sessVars, history
<1> QED BY <1>2, ControlInv

LEMMA CreateAnsweredInv == ASSUME IInv, NEW t \in Tick, CreateAnswered(t) PROVE IInv'
<1>1. phase[t] = "initial" /\ Inside(pc[t], phase[t]) /\ ~Outstanding(t)
  BY DEF CreateAnswered, IInv, TypeOK, TickType, Phases, LockInv, PointsOf, Inside, Unlocked, Outstanding
<1>2. Owed("creating", "initial")
  BY <1>1 DEF IInv, ProgressInv, CreateAnswered
<1>3. /\ "open" \in PointsOf("initial") /\ "initial" \in Phases /\ Inside("open", "initial")
      /\ Owed("open", "initial")
  BY <1>2 DEF PointsOf, Phases, Inside, Unlocked, Owed
<1> QED BY <1>1, <1>3, GotoInv DEF CreateAnswered

-----------------------------------------------------------------------------
(* The steps of a tick that change the server.                             *)

\* Every other tick is outside the lock: it creates, opens and continues nothing.
LEMMA OthersOwe ==
    ASSUME IInv, NEW t \in Tick, Inside(pc[t], phase[t]), NEW u \in Tick \ {t}
    PROVE  /\ pc[u] \notin {"create", "creating", "open", "opened", "mode"}
           /\ phase[u] \in {"first", "adhoc"}
<1>1. ~Inside(pc[u], phase[u])
  BY OneInside DEF IInv
<1> QED BY <1>1 DEF Inside, Unlocked, IInv, LockInv, PointsOf, TypeOK, TickType, Phases

LEMMA CreateRowInv == ASSUME IInv, NEW t \in Tick, CreateRow(t) PROVE IInv'
<1>0. TypeOK /\ LockInv /\ SessionInv /\ ProgressInv /\ PromptInv
  BY DEF IInv
<1>1. phase[t] = "initial" /\ Inside(pc[t], phase[t]) /\ ~Outstanding(t)
  BY <1>0 DEF CreateRow, TypeOK, TickType, Phases, LockInv, PointsOf, Inside, Unlocked, Outstanding
<1>2. live = {} /\ Owed("create", "initial")
  BY <1>0, <1>1 DEF CreateRow, SessionInv, ProgressInv
<1>3. Moves(t, "creating", "initial")
  <2>1. "creating" \in PointsOf("initial") /\ "initial" \in Phases /\ Inside("creating", "initial")
    BY DEF PointsOf, Phases, Inside, Unlocked
  <2> QED BY <1>0, <1>1, <2>1 DEF Moves, CreateRow, Goto, TypeOK, TickType
<1>4. /\ TickType' /\ LockInv'
      /\ pc'[t] = "creating" /\ phase'[t] = "initial"
      /\ \A u \in Tick \ {t} : pc'[u] = pc[u] /\ phase'[u] = phase[u]
  BY <1>0, <1>3, MovesLock DEF TypeOK
<1>5. ws' = "creating"
      /\ UNCHANGED <<live, top, queued, readable, late, initials, continued, others, unconfirmed, foreign>>
  BY DEF CreateRow, sessVars, history
<1>6. ServerType' /\ HistoryType' /\ SessionInv'
  BY <1>0, <1>2, <1>5 DEF TypeOK, ServerType, HistoryType, SessionInv
<1>7. ProgressInv'
  <2>1. Owed(pc[t], phase[t])'
    BY <1>2, <1>4, <1>5 DEF Owed
  <2>2. ASSUME NEW u \in Tick \ {t} PROVE Owed(pc[u], phase[u])'
    BY <1>1, <1>4, OthersOwe DEF Owed
  <2> QED BY <2>1, <2>2 DEF ProgressInv
<1>8. PromptInv'
  <2>1. \A u \in Tick : Outstanding(u) => Outstanding(u)'
    BY <1>1, <1>4 DEF Outstanding
  <2>2. ContinuationAfterFirstRun' /\ (Known <=> Known')
    BY <1>0, <1>5, KnownFacts DEF PromptInv
  <2> QED BY <1>0, <1>5, <2>1, <2>2 DEF PromptInv, OneInitialPrompt
<1> QED BY <1>4, <1>6, <1>7, <1>8 DEF IInv, TypeOK

LEMMA OpenSessionInv ==
    ASSUME IInv, NEW t \in Tick, NEW s \in Session, OpenSession(t, s) PROVE IInv'
<1>0. TypeOK /\ LockInv /\ SessionInv /\ ProgressInv /\ PromptInv
  BY DEF IInv
<1>1. /\ phase[t] \in {"initial", "cont"} /\ Inside(pc[t], phase[t]) /\ ~Outstanding(t)
      /\ pc[t] = "open" /\ Owed("open", phase[t])
  BY <1>0 DEF OpenSession, TypeOK, TickType, Phases, LockInv, PointsOf, Inside, Unlocked, Outstanding,
              ProgressInv
<1>2. /\ ws = "ready" /\ live' = live \cup {s} /\ top' = s
      /\ UNCHANGED <<ws, queued, readable, late, initials, continued, others, unconfirmed, foreign>>
  BY DEF OpenSession, NewSession, history
<1>3. Moves(t, "opened", phase[t])
  <2>1. "opened" \in PointsOf(phase[t]) /\ phase[t] \in Phases /\ Inside("opened", phase[t])
    BY <1>1 DEF PointsOf, Phases, Inside, Unlocked
  <2> QED BY <1>0, <1>1, <2>1 DEF Moves, OpenSession, TypeOK, TickType
<1>4. /\ TickType' /\ LockInv'
      /\ pc'[t] = "opened" /\ phase'[t] = phase[t]
      /\ \A u \in Tick \ {t} : pc'[u] = pc[u] /\ phase'[u] = phase[u]
  BY <1>0, <1>3, MovesLock DEF TypeOK
<1>5. ServerType' /\ HistoryType'
  BY <1>0, <1>2 DEF TypeOK, ServerType, HistoryType
<1>6. SessionInv'
  BY <1>0, <1>1, <1>2 DEF SessionInv, Owed
<1>7. ProgressInv'
  <2>1. Owed(pc[t], phase[t])'
    <3>1. Known => Known'
      BY <1>2, KnownFacts
    <3> QED BY <1>1, <1>2, <1>4, <3>1 DEF Owed
  <2>2. ASSUME NEW u \in Tick \ {t} PROVE Owed(pc[u], phase[u])'
    BY <1>1, <1>4, OthersOwe DEF Owed
  <2> QED BY <2>1, <2>2 DEF ProgressInv
<1>8. PromptInv'
  <2>1. \A u \in Tick : Outstanding(u) => Outstanding(u)'
    BY <1>1, <1>4 DEF Outstanding
  <2>2. ContinuationAfterFirstRun' /\ (Known <=> Known')
    BY <1>0, <1>2, KnownFacts DEF PromptInv
  <2> QED BY <1>0, <1>2, <2>1, <2>2 DEF PromptInv, OneInitialPrompt
<1> QED BY <1>4, <1>5, <1>6, <1>7, <1>8 DEF IInv, TypeOK

LEMMA SendPromptInv == ASSUME IInv, NEW t \in Tick, SendPrompt(t) PROVE IInv'
<1>0. TypeOK /\ LockInv /\ SessionInv /\ ProgressInv /\ PromptInv
  BY DEF IInv
<1>1. PICK p \in {"initial", "cont", "adhoc"} :
        /\ Accept(t, p)
        /\ p = "adhoc" <=> phase[t] = "adhoc"
        /\ p = "cont" <=> phase[t] = "cont" /\ pc[t] = "send"
  BY <1>0 DEF SendPrompt, PromptOf, LockInv, PointsOf, Unlocked, TypeOK, TickType, Phases
<1>2. /\ pc[t] \in {"send", "opened"} /\ phase[t] \in {"initial", "cont", "adhoc"}
      /\ ~Outstanding(t) /\ Owed(pc[t], phase[t])
  BY <1>0 DEF SendPrompt, LockInv, PointsOf, Unlocked, TypeOK, TickType, Phases, Outstanding,
              ProgressInv
<1>3. /\ sid[t] \in live
      /\ queued' = queued \cup {sid[t]}
      /\ initials' = IF p = "initial" /\ initials < 2 THEN initials + 1 ELSE initials
      /\ continued' = (continued \/ p = "cont")
      /\ others' = (others \/ p = "adhoc")
      /\ UNCHANGED <<ws, live, top, readable, late, unconfirmed, foreign>>
  BY <1>1 DEF Accept
<1>4. ws = "ready"
  BY <1>0, <1>3 DEF SessionInv
<1>5. Moves(t, "sent", phase[t])
  <2>1. /\ "sent" \in PointsOf(phase[t]) /\ phase[t] \in Phases
        /\ Inside("sent", phase[t]) <=> Inside(pc[t], phase[t])
    BY <1>2 DEF PointsOf, Phases, Inside, Unlocked
  <2> QED BY <1>0, <1>1, <2>1 DEF Moves, Accept, Goto, TypeOK, TickType
<1>6. /\ TickType' /\ LockInv'
      /\ pc'[t] = "sent" /\ phase'[t] = phase[t]
      /\ \A u \in Tick \ {t} : pc'[u] = pc[u] /\ phase'[u] = phase[u]
  BY <1>0, <1>5, MovesLock DEF TypeOK
<1>7. ServerType'
  BY <1>0, <1>3 DEF TypeOK, ServerType
<1>8. HistoryType'
  <2>1. initials' \in 0..2
    BY <1>0, <1>3 DEF TypeOK, HistoryType
  <2>2. continued' \in BOOLEAN /\ others' \in BOOLEAN
    BY <1>3
  <2> QED BY <1>0, <1>3, <2>1, <2>2 DEF TypeOK, HistoryType
<1>9. SessionInv'
  BY <1>0, <1>3 DEF SessionInv
<1>13. Known'
  <2>1. Known => Known'
    <3>1. initials > 0 => initials' > 0
      BY <1>0, <1>3 DEF TypeOK, HistoryType
    <3>2. others => others'
      BY <1>3
    <3> QED BY <3>1, <3>2 DEF Known
  <2>2. CASE p = "initial"
    <3>1. initials' > 0
      BY <1>0, <1>3, <2>2 DEF TypeOK, HistoryType
    <3> QED BY <3>1, KnownFacts
  <2>3. CASE p = "adhoc"
    <3>1. others'
      BY <1>3, <2>3
    <3> QED BY <3>1, KnownFacts
  <2>4. CASE p = "cont"
    BY <1>1, <1>2, <1>4, <2>1, <2>4 DEF Owed
  <2> QED BY <2>2, <2>3, <2>4
<1>10. ProgressInv'
  <2>1. Owed(pc[t], phase[t])'
    BY <1>2, <1>6, <1>13 DEF Owed
  <2>2. ASSUME NEW u \in Tick \ {t} PROVE Owed(pc[u], phase[u])'
    <3>1. CASE p = "initial"
      <4>1. Inside(pc[t], phase[t])
        BY <1>1, <1>2, <3>1 DEF Inside, Unlocked
      <4> QED BY <1>6, <1>13, <4>1, OthersOwe DEF Owed
    <3>2. CASE p # "initial"
      <4>1. initials' = initials
        BY <1>3, <3>2
      <4>2. Owed(pc[u], phase[u])
        BY <1>0 DEF ProgressInv
      <4> QED BY <1>3, <1>6, <1>13, <4>1, <4>2 DEF Owed
    <3> QED BY <3>1, <3>2
  <2> QED BY <2>1, <2>2 DEF ProgressInv
<1>11. p = "initial" => foreign \/ unconfirmed \/ (initials = 0 /\ phase[t] = "initial")
  BY <1>1, <1>2, <1>4 DEF Owed
<1>12. PromptInv'
  <2>1. \A u \in Tick : Outstanding(u) => Outstanding(u)'
    BY <1>2, <1>6 DEF Outstanding
  <2>2. phase[t] = "initial" => Outstanding(t)'
    BY <1>6 DEF Outstanding
  <2>3. ASSUME initials' > 0, ~foreign, ~unconfirmed, readable = {}
        PROVE  \E u \in Tick : Outstanding(u)'
    <3>1. CASE p = "initial"
      BY <1>11, <2>2, <2>3, <3>1
    <3>2. CASE p # "initial"
      <4>1. initials > 0
        BY <1>3, <2>3, <3>2
      <4> QED BY <1>0, <2>1, <2>3, <4>1 DEF PromptInv
    <3> QED BY <3>1, <3>2
  <2>4. OneInitialPrompt'
    <3>1. CASE p = "initial"
      <4>1. initials = 0 => initials' = 1
        BY <1>3, <3>1
      <4> QED BY <1>3, <1>11, <3>1, <4>1 DEF OneInitialPrompt
    <3>2. CASE p # "initial"
      BY <1>0, <1>3, <3>2 DEF PromptInv, OneInitialPrompt
    <3> QED BY <3>1, <3>2
  <2>5. ContinuationAfterFirstRun'
    <3>1. p = "cont" => foreign \/ readable # {}
      BY <1>1, <1>2, <1>4 DEF Owed
    <3>2. continued => foreign \/ readable # {}
      BY <1>0, KnownFacts DEF PromptInv
    <3>3. continued' => continued \/ p = "cont"
      BY <1>3
    <3> QED BY <1>3, <1>13, <3>1, <3>2, <3>3, KnownFacts
  <2> QED BY <1>3, <1>13, <2>3, <2>4, <2>5 DEF PromptInv
<1> QED BY <1>6, <1>7, <1>8, <1>9, <1>10, <1>12 DEF IInv, TypeOK

-----------------------------------------------------------------------------
(* The server and the operator.                                            *)

\* A change of the sessions behind the lock holder's back is marked.
LEMMA ForeignInv ==
    ASSUME IInv, UNCHANGED <<lock, tickVars, ws, initials, continued, others, unconfirmed>>,
           foreign' = TRUE, ServerType', live' # {} => ws = "ready",
           queued' \subseteq queued, readable' \subseteq readable
    PROVE  IInv'
<1>0. Known <=> Known'
  BY KnownFacts
<1>1. TickType' /\ LockInv'
  BY Frame DEF IInv, TypeOK
<1>2. HistoryType'
  BY DEF IInv, TypeOK, HistoryType
<1>3. SessionInv'
  BY DEF SessionInv
<1>4. ProgressInv'
  BY <1>0 DEF IInv, ProgressInv, Owed, tickVars
<1>5. PromptInv'
  <2>1. ContinuationAfterFirstRun'
    BY <1>0, KnownFacts DEF IInv, PromptInv
  <2> QED BY <1>0, <2>1 DEF IInv, PromptInv, OneInitialPrompt
<1> QED BY <1>1, <1>2, <1>3, <1>4, <1>5 DEF IInv, TypeOK

\* A change that leaves the sessions alone; what is readable stays readable.
LEMMA QuietInv ==
    ASSUME IInv, UNCHANGED <<lock, tickVars, ws, live>>,
           UNCHANGED <<initials, continued, unconfirmed, foreign>>,
           others' \in BOOLEAN, Known => Known',
           ServerType', readable \subseteq readable',
           queued' # {} \/ readable' # {} => Known' \/ queued # {} \/ readable # {}
    PROVE  IInv'
<1>1. TickType' /\ LockInv' /\ SessionInv'
  BY Frame DEF IInv, TypeOK
<1>4. HistoryType'
  BY DEF IInv, TypeOK, HistoryType
<1>2. ProgressInv'
  BY DEF IInv, ProgressInv, Owed, tickVars
<1>3. PromptInv'
  <2>1. \A u \in Tick : Outstanding(u) => Outstanding(u)'
    BY DEF Outstanding, tickVars
  <2>2. ContinuationAfterFirstRun'
    BY KnownFacts DEF IInv, PromptInv
  <2> QED BY <2>1, <2>2 DEF IInv, PromptInv, OneInitialPrompt
<1> QED BY <1>1, <1>2, <1>3, <1>4 DEF IInv, TypeOK

LEMMA SessionStepInv ==
    ASSUME IInv, NEW s \in Session,
           \/ LateOpen(s) \/ ServerAdmits(s) \/ AgentTurn(s)
           \/ OperatorOpens(s) \/ OperatorWrites(s) \/ OperatorDeletesSession(s)
    PROVE  IInv'
<1>0. ServerType /\ SessionInv /\ others \in BOOLEAN
  BY DEF IInv, TypeOK, HistoryType
<1> USE DEF history
<1>1. CASE LateOpen(s) \/ OperatorOpens(s)
  <2>1. ws = "ready" /\ live' = live \cup {s} /\ top' = s
        /\ UNCHANGED <<lock, tickVars, ws, queued, readable, initials, continued, others, unconfirmed>>
    BY <1>1 DEF LateOpen, OperatorOpens, NewSession
  <2>2. late' \in BOOLEAN
    BY <1>0, <1>1 DEF LateOpen, OperatorOpens, ServerType
  <2>3. foreign' = TRUE
    BY <1>1 DEF LateOpen, OperatorOpens
  <2>4. ServerType'
    BY <1>0, <2>1, <2>2 DEF ServerType
  <2> QED BY <2>1, <2>3, <2>4, ForeignInv
<1>2. CASE ServerAdmits(s)
  <2>1. ServerType'
    BY <1>0, <1>2 DEF ServerAdmits, ServerType
  <2>2. Known <=> Known'
    BY <1>2, KnownFacts DEF ServerAdmits
  <2> QED BY <1>0, <1>2, <2>1, <2>2, QuietInv DEF ServerAdmits
<1>3. CASE AgentTurn(s)
  <2>1. ServerType'
    BY <1>0, <1>3 DEF AgentTurn, ServerType
  <2>2. Known <=> Known'
    BY <1>3, KnownFacts DEF AgentTurn
  <2> QED BY <1>0, <1>3, <2>1, <2>2, QuietInv DEF AgentTurn
<1>4. CASE OperatorWrites(s)
  <2>1. ServerType'
    BY <1>0, <1>4 DEF OperatorWrites, ServerType
  <2>2. Known'
    BY <1>4, KnownFacts DEF OperatorWrites
  <2> QED BY <1>4, <2>1, <2>2, QuietInv DEF OperatorWrites
<1>5. CASE OperatorDeletesSession(s)
  <2>1. ServerType'
    BY <1>0, <1>5 DEF OperatorDeletesSession, ServerType
  <2>2. live' # {} => ws = "ready"
    BY <1>0, <1>5 DEF OperatorDeletesSession, SessionInv
  <2> QED BY <1>5, <2>1, <2>2, ForeignInv DEF OperatorDeletesSession
<1> QED BY <1>1, <1>2, <1>3, <1>4, <1>5

LEMMA ServerCreatesInv == ASSUME IInv, ServerCreates PROVE IInv'
<1>1. TickType' /\ LockInv' /\ HistoryType'
  BY Frame DEF IInv, TypeOK, ServerCreates
<1>2. /\ live = {}
      /\ UNCHANGED <<live, queued, readable, pc, phase>>
      /\ UNCHANGED <<initials, continued, others, unconfirmed, foreign>>
  BY DEF IInv, SessionInv, ServerCreates, sessVars, history, tickVars
<1>6. Known <=> Known'
  BY <1>2, KnownFacts
<1>3. ServerType' /\ SessionInv'
  BY <1>2 DEF IInv, TypeOK, ServerType, SessionInv, ServerCreates, sessVars
<1>4. ProgressInv'
  <2> SUFFICES ASSUME NEW u \in Tick PROVE Owed(pc[u], phase[u])'
    BY DEF ProgressInv
  <2>1. Owed(pc[u], phase[u]) /\ ws = "creating"
    BY DEF IInv, ProgressInv, ServerCreates
  <2> QED BY <1>2, <1>6, <2>1 DEF Owed
<1>5. PromptInv'
  <2>1. \A u \in Tick : Outstanding(u) => Outstanding(u)'
    BY <1>2 DEF Outstanding
  <2>2. ContinuationAfterFirstRun'
    BY <1>2, <1>6, KnownFacts DEF IInv, PromptInv
  <2> QED BY <1>2, <1>6, <2>1, <2>2 DEF IInv, PromptInv, OneInitialPrompt
<1> QED BY <1>1, <1>3, <1>4, <1>5 DEF IInv, TypeOK

LEMMA DeleteWorkspaceInv == ASSUME IInv, DeleteWorkspace PROVE IInv'
<1>1. TickType' /\ LockInv' /\ late \in BOOLEAN
  BY Frame DEF IInv, TypeOK, ServerType, DeleteWorkspace
<1>2. HistoryType'
  <2>1. initials' \in 0..2
    BY DEF DeleteWorkspace
  <2>2. /\ continued' \in BOOLEAN /\ others' \in BOOLEAN
        /\ unconfirmed' \in BOOLEAN /\ foreign' \in BOOLEAN
    BY DEF DeleteWorkspace
  <2> QED BY <2>1, <2>2 DEF HistoryType
<1>3. ServerType' /\ SessionInv' /\ ProgressInv'
  BY <1>1 DEF DeleteWorkspace, ServerType, SessionInv, ProgressInv, Owed
<1>4. PromptInv'
  BY DEF DeleteWorkspace, PromptInv, OneInitialPrompt, ContinuationAfterFirstRun
<1> QED BY <1>1, <1>2, <1>3, <1>4 DEF IInv, TypeOK

LEMMA StepInv == IInv /\ [Next]_vars => IInv'
<1> SUFFICES ASSUME IInv, [Next]_vars PROVE IInv'
  OBVIOUS
<1>1. ASSUME NEW t \in Tick, Work(t) PROVE IInv'
  BY <1>1, ListInv, FindSessionInv, HasUserPromptInv, ModeSwitchInv, TargetInv, CreateRowInv,
     CreateAnsweredInv, OpenSessionInv, SendPromptInv, SendAnsweredInv, PollInv, AbandonInv
     DEF Work, CallFails
<1>2. ASSUME NEW t \in Tick, \/ Start(t) \/ TryLock(t) \/ LockAfterWait(t)
                             \/ Deadline(t) \/ Crash(t)
      PROVE  IInv'
  BY <1>2, StartInv, LockStepInv, DeadlineInv, AbandonInv DEF Crash
<1>3. CASE Operator
  BY <1>3, SessionStepInv, DeleteWorkspaceInv DEF Operator
<1>4. CASE UNCHANGED vars
  <2>1. ServerType' /\ readable \subseteq readable'
    BY <1>4, Frame DEF vars, sessVars, IInv, TypeOK
  <2>2. Known => Known'
    BY <1>4, KnownFacts DEF vars, history
  <2>3. others' \in BOOLEAN
    BY <1>4 DEF vars, history, IInv, TypeOK, HistoryType
  <2>4. queued' # {} \/ readable' # {} => Known' \/ queued # {} \/ readable # {}
    BY <1>4 DEF vars, sessVars
  <2> QED BY <1>4, <2>1, <2>2, <2>3, <2>4, QuietInv DEF vars, sessVars, history
<1> QED BY <1>1, <1>2, <1>3, <1>4, SessionStepInv, ServerCreatesInv DEF Next

-----------------------------------------------------------------------------
\* Every variable has its type and the server's session sets belong together,
\* with any number of overlapping ticks (tick.go).
THEOREM TypeCorrect == Spec => []TypeOK
<1>1. IInv => TypeOK
  BY DEF IInv
<1> QED BY InitInv, StepInv, <1>1, PTL DEF Spec

\* Overlapping fires of one task send one initial prompt, unless a tick was cut
\* off before it read its prompt back or the sessions changed behind its back
\* (tick.go, acquireScheduledTaskRun and the first-run check).
THEOREM InitialPromptSafety == Spec => []OneInitialPrompt
<1>1. IInv => OneInitialPrompt
  BY DEF IInv, PromptInv
<1> QED BY InitInv, StepInv, <1>1, PTL DEF Spec

\* Whoever takes the free lock after an initial prompt was sent finds the first
\* run complete (tick.go, confirmFirstRunVisible), with its two exceptions.
THEOREM VisibilitySafety == Spec => []LockReleasedMeansVisible
<1>1. ASSUME IInv PROVE LockReleasedMeansVisible
  <2> SUFFICES ASSUME lock = None, initials > 0, ~unconfirmed, ~foreign
               PROVE  top \in readable
    BY DEF LockReleasedMeansVisible
  <2>1. \A t \in Tick : ~Outstanding(t)
    BY <1>1, Constants, OutstandingInside DEF IInv, LockInv
  <2>2. readable # {}
    BY <1>1, <2>1 DEF IInv, PromptInv
  <2> QED BY <1>1, <2>2 DEF IInv, TypeOK, ServerType, SessionInv
<1> QED BY InitInv, StepInv, <1>1, PTL DEF Spec

\* A continuation goes out only after a user message was readable in the
\* workspace, and somebody wrote it: a tick its initial prompt, an ad-hoc tick
\* or the operator one of their own (tick.go, tickScheduled).
THEOREM ContinuationSafety == Spec => []ContinuationAfterFirstRun
<1>1. IInv => ContinuationAfterFirstRun
  BY DEF IInv, PromptInv
<1> QED BY InitInv, StepInv, <1>1, PTL DEF Spec
=============================================================================
