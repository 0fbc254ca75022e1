---------------------------- MODULE PtyLifecycle ----------------------------
(***************************************************************************)
(* The two readers of a session's transcript that look for notifyOnExit    *)
(* terminals still running: the parser of the ntfy plugin                  *)
(* (plugins/ntfy/src/pty-lifecycle.ts) and its mirror in SQL, the          *)
(* abandoned-PTY pass of opencode-heal.  The transcript is written by      *)
(* opencode and opencode-pty (external): turns, pty_spawn calls, the       *)
(* <pty_exited> message of a terminal that ends, and texts that mention    *)
(* the records.  A restart of the server kills the terminals; heal runs    *)
(* before it serves again, here as one step (Recovery has its failures).   *)
(***************************************************************************)
EXTENDS Naturals, Sequences, FiniteSets

CONSTANTS
    Pty,          \* ids; opencode-pty draws a new one for every call
    MaxMessages,  \* bound: length of the transcript
    MaxMentions,  \* bound: texts that mention a record
    MaxRestarts   \* bound: restarts of the server

ASSUME PtyAssumption == {MaxMessages, MaxMentions, MaxRestarts} \subseteq Nat

VARIABLES
    msgs,     \* the transcript, in order
    now,      \* time_created of the next part
    up,       \* the server is running
    live,     \* terminals that are running
    exiting,  \* ... that ended, and whose message is not written yet
    queued,   \* heal put the workspace on the recovery queue
    restarts,
    dead,     \* history: terminals that a restart ended
    nudged,   \* history: those of them a queue entry was written for
    waived    \* history: terminals of turns the operator interrupted

transcript == <<msgs, now>>
vars == <<transcript, up, live, exiting, queued, restarts, dead, nudged, waived>>

-----------------------------------------------------------------------------
(* A message has a role, parts, and the marks of a turn that ended.  A part *)
(* is a pty_spawn call or a text that holds one record of a terminal's end, *)
(* as the exact block or inline in prose.                                   *)

Parts == UNION {msgs[i].parts : i \in DOMAIN msgs}
Calls == {q \in Parts : q.type = "tool"}
Open == {i \in DOMAIN msgs : msgs[i].role = "assistant" /\ ~msgs[i].completed}

\* parsePtySpawnedID: the output of a completed call holds its record.
parsePtySpawnedID(part) == IF part.status = "completed" THEN {part.id} ELSE {}

\* Mutants: prose counts as a record; every record ends every terminal.
parsePtyExitedIDsProse(parts) == {q.id : q \in {r \in parts : r.type = "text"}}
parsePtyExitedIDsAny(parts) ==
    IF \E q \in parts : q.type = "text" /\ q.block THEN Pty ELSE {}

\* parsePtyExitedIDs, on the joined text parts of a message: exact blocks only.
parsePtyExitedIDs(parts) ==
    {q.id : q \in {r \in parts : r.type = "text" /\ r.block}}

\* unfinishedNotifyOnExitPtys: one pass over the messages in order.
unfinishedNotifyOnExitPtys(messages) ==
    LET spawned(m) == UNION {parsePtySpawnedID(q) :
                                q \in {r \in m.parts : r.type = "tool" /\ r.notifyOnExit}}
        pending[i \in 0..Len(messages)] ==
            IF i = 0 THEN {}
            ELSE IF messages[i].role = "assistant"
            THEN pending[i - 1] \cup spawned(messages[i])
            ELSE pending[i - 1] \ parsePtyExitedIDs(messages[i].parts)
    IN pending[Len(messages)]

\* Mutant: heal takes the record of an end from any message.
abandonedAnyRole(messages) ==
    {q \in UNION {messages[i].parts :
                    i \in {j \in DOMAIN messages : ~messages[j].aborted}} :
        /\ q.type = "tool" /\ q.notifyOnExit /\ q.status = "completed"
        /\ ~\E i \in DOMAIN messages : \E x \in messages[i].parts :
              x.type = "text" /\ x.block /\ x.id = q.id /\ x.time > q.time}

\* heal_process_pty_v1, the temporary table abandoned_pty: calls whose output
\* has an id, in messages that carry no MessageAbortedError, less those with
\* the block of their id in a later text part of a user message.
abandoned(messages) ==
    {q \in UNION {messages[i].parts :
                    i \in {j \in DOMAIN messages : ~messages[j].aborted}} :
        /\ q.type = "tool" /\ q.notifyOnExit /\ q.status = "completed"
        /\ ~\E i \in DOMAIN messages : \E x \in messages[i].parts :
              /\ messages[i].role = "user"
              /\ x.type = "text" /\ x.block /\ x.id = q.id /\ x.time > q.time}

-----------------------------------------------------------------------------
Init ==
    /\ msgs = <<>> /\ now = 0
    /\ up = TRUE
    /\ live = {} /\ exiting = {}
    /\ queued = FALSE
    /\ restarts = 0
    /\ dead = {} /\ nudged = {} /\ waived = {}

Message(role, parts) ==
    [role |-> role, parts |-> parts, completed |-> role = "user", aborted |-> FALSE]

\* A part is added to message i.
AddPart(i, part) ==
    /\ msgs' = [msgs EXCEPT ![i].parts = @ \cup {part}]
    /\ now' = now + 1

AddMessage(m) ==
    /\ Len(msgs) < MaxMessages
    /\ msgs' = Append(msgs, m)
    /\ now' = now + Cardinality(m.parts)

Text(p, block) == [type |-> "text", id |-> p, block |-> block, time |-> now]

TurnStart ==
    /\ up
    /\ Open = {}
    /\ AddMessage(Message("assistant", {}))
    /\ UNCHANGED <<up, live, exiting, queued, restarts, dead, nudged, waived>>

\* pty_spawn starts the process before the call returns.
SpawnCall(p, notifyOnExit) ==
    /\ up
    /\ \A q \in Calls : q.id # p
    /\ \E i \in Open :
          AddPart(i, [type |-> "tool", id |-> p, notifyOnExit |-> notifyOnExit,
                      status |-> "running", time |-> now])
    /\ live' = live \cup {p}
    /\ UNCHANGED <<up, exiting, queued, restarts, dead, nudged, waived>>

\* What becomes of the calls still running in a set of parts.
Settle(parts, status) ==
    {IF q.type = "tool" /\ q.status = "running" THEN [q EXCEPT !.status = status]
     ELSE q : q \in parts}

SpawnReturns ==
    /\ up
    /\ \E i \in Open :
          /\ \E q \in msgs[i].parts : q.type = "tool" /\ q.status = "running"
          /\ msgs' = [msgs EXCEPT ![i].parts = Settle(@, "completed")]
    /\ UNCHANGED <<now, up, live, exiting, queued, restarts, dead, nudged, waived>>

TurnEnd ==
    /\ up
    /\ \E i \in Open :
          /\ \A q \in msgs[i].parts : q.type = "tool" => q.status # "running"
          /\ msgs' = [msgs EXCEPT ![i].completed = TRUE]
    /\ UNCHANGED <<now, up, live, exiting, queued, restarts, dead, nudged, waived>>

\* The operator interrupts the turn; its terminals go on.
TurnAborted ==
    /\ up
    /\ \E i \in Open :
          /\ msgs' = [msgs EXCEPT ![i].completed = TRUE, ![i].aborted = TRUE,
                                  ![i].parts = Settle(@, "error")]
          /\ waived' = waived \cup {q.id : q \in {r \in msgs[i].parts : r.type = "tool"}}
    /\ UNCHANGED <<now, up, live, exiting, queued, restarts, dead, nudged>>

\* Texts that speak of a terminal without being opencode-pty's own record.
Mentions ==
    {q \in Parts : q.type = "text" /\ ~q.block} \cup
    UNION {{q \in msgs[i].parts : q.type = "text"} :
             i \in {j \in DOMAIN msgs : msgs[j].role = "assistant"}}

\* The operator mentions a record in prose; the agent quotes the block.
UserMentions(p) ==
    /\ up
    /\ Cardinality(Mentions) < MaxMentions
    /\ AddMessage(Message("user", {Text(p, FALSE)}))
    /\ UNCHANGED <<up, live, exiting, queued, restarts, dead, nudged, waived>>

AgentQuotes(p) ==
    /\ up
    /\ Cardinality(Mentions) < MaxMentions
    /\ \E i \in Open : AddPart(i, Text(p, TRUE))
    /\ UNCHANGED <<up, live, exiting, queued, restarts, dead, nudged, waived>>

\* A terminal ends; its onExit callback injects the message.
PtyEnds(p) ==
    /\ p \in live
    /\ live' = live \ {p}
    /\ exiting' = IF \E q \in Calls : q.id = p /\ q.notifyOnExit
                     THEN exiting \cup {p} ELSE exiting
    /\ UNCHANGED <<transcript, up, queued, restarts, dead, nudged, waived>>

PtyExitedMessage(p) ==
    /\ p \in exiting
    /\ exiting' = exiting \ {p}
    /\ AddMessage(Message("user", {Text(p, TRUE)}))
    /\ UNCHANGED <<up, live, queued, restarts, dead, nudged, waived>>

\* The server process dies, and with it terminals and callbacks.
Crash ==
    /\ up
    /\ restarts < MaxRestarts
    /\ up' = FALSE
    /\ restarts' = restarts + 1
    /\ live' = {} /\ exiting' = {}
    /\ dead' = dead \cup live \cup exiting
    /\ UNCHANGED <<transcript, queued, nudged, waived>>

\* Mutant: the rows are completed without the mark.
heal_updateUnmarked(messages) ==
    [i \in DOMAIN messages |-> [messages[i] EXCEPT !.completed = TRUE]]

\* heal_update: every open row that carries no mark is completed and marked.
heal_update(messages) ==
    [i \in DOMAIN messages |->
       IF i \in Open /\ ~messages[i].aborted
       THEN [messages[i] EXCEPT !.completed = TRUE, !.aborted = TRUE]
       ELSE messages[i]]

\* Mutant: the messages of abandoned terminals are not marked.
markAbandonedNever(messages) == messages

\* The messages that spawned an abandoned terminal are marked.
markAbandoned(messages) ==
    [i \in DOMAIN messages |->
       IF messages[i].parts \cap abandoned(messages) # {}
       THEN [messages[i] EXCEPT !.aborted = TRUE] ELSE messages[i]]

\* Mutant: the ids of abandoned terminals do not reach the queue.
HealSilent ==
    LET stuck == heal_update(msgs) IN
    /\ ~up
    /\ up' = TRUE
    /\ msgs' = markAbandoned(stuck)
    /\ queued' = (Open # {})
    /\ nudged' = IF queued' THEN nudged \cup dead ELSE nudged
    /\ UNCHANGED <<now, live, exiting, restarts, dead, waived>>

\* opencode-heal, then the server starts.
Heal ==
    LET stuck == heal_update(msgs) IN
    /\ ~up
    /\ up' = TRUE
    /\ msgs' = markAbandoned(stuck)
    /\ queued' = (Open # {} \/ abandoned(stuck) # {})
    /\ nudged' = IF queued' THEN nudged \cup dead ELSE nudged
    /\ UNCHANGED <<now, live, exiting, restarts, dead, waived>>

Next ==
    \/ TurnStart \/ SpawnReturns \/ TurnEnd \/ TurnAborted
    \/ \E p \in Pty, notify \in BOOLEAN : SpawnCall(p, notify)
    \/ \E p \in Pty : UserMentions(p) \/ AgentQuotes(p)
    \/ \E p \in Pty : PtyEnds(p) \/ PtyExitedMessage(p)
    \/ Crash \/ Heal

Spec == Init /\ [][Next]_vars

-----------------------------------------------------------------------------
PartType ==
    [type : {"tool"}, id : Pty, notifyOnExit : BOOLEAN,
     status : {"running", "completed", "error"}, time : Nat]
    \cup [type : {"text"}, id : Pty, block : BOOLEAN, time : Nat]

MessageType ==
    [role : {"assistant", "user"}, parts : SUBSET PartType,
     completed : BOOLEAN, aborted : BOOLEAN]

TranscriptType == msgs \in Seq(MessageType) /\ now \in Nat
TerminalType ==
    /\ up \in BOOLEAN
    /\ live \subseteq Pty /\ exiting \subseteq Pty
    /\ ~up => live = {} /\ exiting = {}
    /\ dead \subseteq Pty /\ nudged \subseteq dead /\ waived \subseteq Pty
    /\ queued \in BOOLEAN
    /\ restarts \in 0..MaxRestarts
TurnType ==
    /\ Cardinality(Open) <= 1
    /\ \A i \in DOMAIN msgs : \A q \in msgs[i].parts :
          q.type = "tool" /\ q.status = "running" => i \in Open \/ msgs[i].aborted

\* Every variable has its type; no terminal is running or ending while the
\* server is down, at most one turn is open, and a call that never returned
\* belongs to that turn or to one marked as interrupted.
TypeOK == TranscriptType /\ TerminalType /\ TurnType

\* Terminals on record: their call asked for the notification and returned.
Recorded == {q.id : q \in {r \in Calls : r.notifyOnExit /\ r.status = "completed"}}

\* As long as a terminal on record runs, or its message is still to come, the
\* parser reports it pending, whatever other terminals, prose, quotes and
\* restarts the transcript holds: its idle is suppressed.
RunningIsPending ==
    (live \cup exiting) \cap Recorded \subseteq unfinishedNotifyOnExitPtys(msgs)

\* nix/replay/pty-lifecycle-contract runs both readers on transcripts of one
\* call; on every transcript, heal's query selects what the parser reports, up
\* to the messages that carry a mark.
HealMirrorsParser ==
    {q.id : q \in abandoned(msgs)}
      = {p \in unfinishedNotifyOnExitPtys(msgs) :
           \A i \in DOMAIN msgs : msgs[i].aborted =>
              \A q \in msgs[i].parts : q.type = "tool" => q.id # p}

\* No terminal on record that a restart ended is forgotten: once the server
\* serves again its workspace has been queued, unless the operator had
\* interrupted the turn that started it.
KilledIsRecovered == up => dead \cap Recorded \subseteq nudged \cup waived

\* A restart that ended neither a turn nor a terminal on record queues nothing:
\* what an earlier heal settled, or the operator interrupted, is not nudged.
SettledOnce ==
    [][ Heal /\ Open = {} /\ dead \cap Recorded \subseteq nudged \cup waived
          => ~queued' ]_vars

\* plugins/ntfy/src/index.ts:299-300: "Suppress only session.idle while a
\* notifyOnExit PTY is pending; its eventual `<pty_exited>` message wakes the
\* agent".  So while the server runs, what the parser reports has a message to
\* come.
PendingHasMessageToCome ==
    up => unfinishedNotifyOnExitPtys(msgs) \subseteq live \cup exiting
=============================================================================
