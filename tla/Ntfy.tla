-------------------------------- MODULE Ntfy --------------------------------
(***************************************************************************)
(* The ntfy plugin (plugins/ntfy/src/index.ts) of one workspace: events    *)
(* become handlers that ask for the branch, for the session's parent and   *)
(* for its transcript, and then send a notification or put it behind a     *)
(* timer of its (session, event) key.                                      *)
(*                                                                         *)
(* opencode does not wait for the event hook, so handlers overlap.  One    *)
(* step is the code between two awaits; a lookup is answered by the server *)
(* in a step of its own where the answer can be stale when it is used.  A  *)
(* lookup ends in an answer, in an exception, or, the client being called  *)
(* without throwOnError, in a result without data.  Handlers are numbered  *)
(* in the order of arrival of their events.                                *)
(***************************************************************************)
EXTENDS NtfyConfig, FiniteSets

CONSTANTS
    Session,
    Sub,          \* the sessions with a parent
    RawBranch,    \* what git reports: names, "HEAD", "" outside of git
    ConfigFile,   \* configuration files to start from
    MaxEvents,    \* bound: events that start a handler
    MaxChanges    \* bound: changes of branch and spawned terminals

\* "none", "asked" and "undefined" are the model's marks for an absent value.
ASSUME NtfyAssumption ==
    /\ Sub \subseteq Session
    /\ "none" \notin Session
    /\ RawBranch \cap {"undefined", "none", "asked"} = {}
    /\ ConfigFile \subseteq Field(ConfigObject)
    /\ MaxEvents \in Nat /\ MaxChanges \in Nat

VARIABLES
    file,      \* the configuration file
    status,    \* the plugin: "loading", "active", "off" (no file), "failed"
    disposed,
    cached,    \* branch resolver: the label, or Undefined
    pending,   \* branch resolver: the refresh in flight
    kinds,     \* isSubagent's cache
    hnd,       \* the handlers
    arrived,   \* handlers started so far
    timers,    \* timers map: the handler whose notification waits, or 0
    sent,      \* handlers whose POST to the ntfy server was started
    branch,    \* server: the branch of the workspace
    told,      \* server: vcs.branch.updated events to deliver
    ptys,      \* server: sessions whose transcript shows a PTY still pending
    changes,   \* changes of branch and spawned terminals so far
    quiet,     \* history: handlers whose session had no PTY pending at some
               \* moment since their event
    misread,   \* history: sessions whose lookup came back without data
    suspect    \* history: the label was written by a refresh that failed or
               \* that an update had overtaken

setup == <<file, status, disposed>>
resolver == <<cached, pending>>
history == <<quiet, misread, suspect>>
server == <<branch, told, ptys, changes>>
vars == <<setup, resolver, kinds, hnd, arrived, timers, sent,
          server, history>>

-----------------------------------------------------------------------------
Num == 1..MaxEvents
Key == Session \X NOTIFICATION_EVENTS
Undefined == "undefined"
Empty == ""

normalizeBranch(b) ==
    IF b = Empty THEN "no-git" ELSE IF b = "HEAD" THEN "detached" ELSE b

Label == {normalizeBranch(b) : b \in RawBranch} \cup {"no-git"}

\* Mutant: an interruption keeps a name of its own.
decodeEventAborted(type) ==
    CASE type = "session.status idle" -> "session.idle"
      [] type = "session.error aborted" -> "session.aborted"
      [] type = "session.error" -> "session.error"
      [] type = "permission.asked" -> "permission.asked"

\* decodeEvent and the switch of the event hook: the notification an event of
\* opencode stands for.  Everything else (malformed events, other statuses,
\* the deprecated session.idle) is ignored.
decodeEvent(type) ==
    CASE type = "session.status idle" -> "session.idle"
      [] type = "session.error aborted" -> "session.idle"
      [] type = "session.error" -> "session.error"
      [] type = "permission.asked" -> "permission.asked"

EventType ==
    {"session.status idle", "session.error aborted", "session.error",
     "permission.asked"}

NoHandler == [pc |-> "free", s |-> "none", e |-> "none", ans |-> "none"]
KeyOf(n) == <<hnd[n].s, hnd[n].e>>
config == loadConfig(file).v

Init ==
    /\ file \in ConfigFile
    /\ status = "loading"
    /\ disposed = FALSE
    /\ cached = Undefined /\ pending = "none"
    /\ kinds = [s \in Session |-> "unknown"]
    /\ hnd = [n \in Num |-> NoHandler]
    /\ arrived = 0
    /\ timers = [k \in Key |-> 0]
    /\ sent = {}
    /\ branch \in RawBranch
    /\ told = <<>> /\ ptys = {} /\ changes = 0
    /\ quiet = {} /\ misread = {} /\ suspect = FALSE

\* makeNtfyPlugin reads the configuration.
Load ==
    /\ status = "loading"
    /\ status' = CASE loadConfig(file).is = "ok" -> "active"
                   [] loadConfig(file).is = "absent" -> "off"
                   [] loadConfig(file).is = "bad" -> "failed"
    /\ UNCHANGED <<file, disposed, resolver, kinds, hnd, arrived, timers, sent,
                   server, history>>

-----------------------------------------------------------------------------
(* makeBranchResolver.                                                     *)

\* The server reads the branch for vcs.get.
VcsGet ==
    /\ pending = "asked"
    /\ pending' = normalizeBranch(branch)
    /\ UNCHANGED <<setup, cached, kinds, hnd, arrived, timers, sent, server,
                   history>>

\* refresh() goes on with the answer, also over a label that an update has put
\* there since.
refresh ==
    /\ pending \notin {"none", "asked"}
    /\ cached' = pending
    /\ pending' = "none"
    /\ suspect' = (cached # Undefined)
    /\ UNCHANGED <<setup, kinds, hnd, arrived, timers, sent, server, quiet,
                   misread>>

refreshFails ==
    /\ pending # "none"
    /\ cached' = "no-git"
    /\ pending' = "none"
    /\ suspect' = TRUE
    /\ UNCHANGED <<setup, kinds, hnd, arrived, timers, sent, server, quiet,
                   misread>>

\* Mutant: an update only fills an empty cache.
updateOnce(b) == IF cached = Undefined THEN normalizeBranch(b) ELSE cached

\* update: a branch event replaces the label.
update(b) == normalizeBranch(b)

BranchUpdated ==
    /\ status = "active"
    /\ ~disposed
    /\ told # <<>>
    /\ told' = Tail(told)
    /\ cached' = update(Head(told))
    /\ suspect' = FALSE
    /\ UNCHANGED <<setup, pending, kinds, hnd, arrived, timers, sent, branch,
                   ptys, changes, quiet, misread>>

-----------------------------------------------------------------------------
(* The event hook.                                                         *)

\* branch.current(): without a label a refresh is started, or the one in flight
\* shared.
current ==
    pending' = IF cached = Undefined /\ pending = "none" THEN "asked" ELSE pending

\* event(), up to await branch.current().
Event(type, s) ==
    LET n == arrived + 1 IN
    /\ status = "active"
    /\ ~disposed
    /\ arrived < MaxEvents
    /\ arrived' = n
    /\ hnd' = [hnd EXCEPT ![n] = [NoHandler EXCEPT
                 !.pc = IF cached = Undefined THEN "waiting" ELSE "branch",
                 !.s = s, !.e = decodeEvent(type)]]
    /\ current
    /\ quiet' = IF s \in ptys THEN quiet ELSE quiet \cup {n}
    /\ UNCHANGED <<setup, cached, kinds, timers, sent, server, misread,
                   suspect>>

\* The label has arrived; dispatchNotification, up to await isSubagent.  (An
\* empty session id, which it drops too, does not pass decodeEvent.)
dispatchNotification(n) ==
    LET go == ~disposed /\ config.enabled /\ config.events[hnd[n].e].enabled IN
    /\ \/ hnd[n].pc = "branch"
       \/ hnd[n].pc = "waiting" /\ pending = "none"
    /\ hnd' = [hnd EXCEPT ![n].pc = IF go THEN "subagent" ELSE "dropped",
                          ![n].ans = IF go THEN kinds[hnd[n].s] ELSE "none"]
    /\ UNCHANGED <<setup, resolver, kinds, arrived, timers, sent, server, history>>

Drop(n) ==
    /\ hnd' = [hnd EXCEPT ![n].pc = "dropped", ![n].ans = "none"]
    /\ UNCHANGED <<timers, sent>>

\* sendNotification starts the POST (sendNtfy) and does not await it: how the
\* POST ends is logged and changes nothing.
sendNotification(n) == sent' = IF disposed THEN sent ELSE sent \cup {n}

\* Mutant: a pending timer is cleared and no new one is set.
scheduleNotificationForgets(n) ==
    /\ ~disposed
    /\ hnd' = [hnd EXCEPT ![n].pc = "scheduled", ![n].ans = "none"]
    /\ IF config.events[hnd[n].e].notifyAfterMs <= 0
       THEN sendNotification(n) /\ UNCHANGED timers
       ELSE /\ timers' = [timers EXCEPT ![KeyOf(n)] = IF @ = 0 THEN n ELSE 0]
            /\ UNCHANGED sent

\* scheduleNotification: the previous timer of the key is cleared; without a
\* delay the notification is sent now.
scheduleNotification(n) ==
    LET k == KeyOf(n) IN
    /\ ~disposed
    /\ hnd' = [hnd EXCEPT ![n].pc = "scheduled", ![n].ans = "none"]
    /\ IF config.events[hnd[n].e].notifyAfterMs <= 0
       THEN timers' = [timers EXCEPT ![k] = 0] /\ sendNotification(n)
       ELSE timers' = [timers EXCEPT ![k] = n] /\ UNCHANGED sent

\* The rest of dispatchNotification after a session was found to be a root.
RootSession(n) ==
    IF disposed THEN Drop(n)
    ELSE IF hnd[n].e = "session.idle"
    THEN hnd' = [hnd EXCEPT ![n].pc = "pty", ![n].ans = "none"] /\ UNCHANGED <<timers, sent>>
    ELSE scheduleNotification(n)

\* isSubagent answered from the cache.
KnownSession(n) ==
    /\ hnd[n].pc = "subagent"
    /\ hnd[n].ans # "unknown"
    /\ IF hnd[n].ans = "subagent" THEN Drop(n) ELSE RootSession(n)
    /\ UNCHANGED <<setup, resolver, kinds, arrived, server, history>>

\* isSubagent after await session.get: the parent decides, and a result without
\* data (an HTTP error) has none.  What was read is cached.
isSubagent(n) ==
    LET s == hnd[n].s IN
    /\ hnd[n].pc = "subagent"
    /\ hnd[n].ans = "unknown"
    /\ \E data \in BOOLEAN :
          LET kind == IF data /\ s \in Sub THEN "subagent" ELSE "root" IN
          /\ kinds' = [kinds EXCEPT ![s] = kind]
          /\ misread' = IF data THEN misread ELSE misread \cup {s}
          /\ IF kind = "subagent" THEN Drop(n) ELSE RootSession(n)
    /\ UNCHANGED <<setup, resolver, arrived, server, quiet, suspect>>

\* Mutants: a failed lookup is taken for a root session; it is never settled.
isSubagentFailsOpen(n) ==
    /\ hnd[n].pc = "subagent"
    /\ hnd[n].ans = "unknown"
    /\ RootSession(n)
    /\ UNCHANGED <<setup, resolver, kinds, arrived, server, history>>
isSubagentFailsHangs(n) ==
    /\ hnd[n].pc = "subagent"
    /\ hnd[n].ans = "unknown"
    /\ hnd' = [hnd EXCEPT ![n].pc = "free"]
    /\ UNCHANGED <<timers, sent>>
    /\ UNCHANGED <<setup, resolver, kinds, arrived, server, history>>

\* session.get throws: treated as a subagent, and not cached.
isSubagentFails(n) ==
    /\ hnd[n].pc = "subagent"
    /\ hnd[n].ans = "unknown"
    /\ Drop(n)
    /\ UNCHANGED <<setup, resolver, kinds, arrived, server, history>>

\* The server reads the transcript, or fails to.
SessionMessages(n) ==
    /\ hnd[n].pc = "pty"
    /\ hnd[n].ans = "none"
    /\ \E a \in {IF hnd[n].s \in ptys THEN "pending" ELSE "clear", "unknown"} :
          hnd' = [hnd EXCEPT ![n].ans = a]
    /\ UNCHANGED <<setup, resolver, kinds, arrived, timers, sent, server,
                   history>>

\* Mutant: an unknown state does not suppress.
SuppressesPendingOnly(a) == a = "pending"

\* The gates after ptyNotifyState.
Suppresses(a) == a \in {"pending", "unknown"}

ptyNotifyState(n) ==
    /\ hnd[n].pc = "pty"
    /\ hnd[n].ans # "none"
    /\ IF Suppresses(hnd[n].ans) \/ disposed THEN Drop(n)
       ELSE scheduleNotification(n)
    /\ UNCHANGED <<setup, resolver, kinds, arrived, server, history>>

-----------------------------------------------------------------------------
\* The callback of a timer.
TimerFires(k) ==
    /\ timers[k] # 0
    /\ timers' = [timers EXCEPT ![k] = 0]
    /\ sendNotification(timers[k])
    /\ UNCHANGED <<setup, resolver, kinds, hnd, arrived, server, history>>

\* Mutant: the timers are left running.
disposeKeepsTimers ==
    /\ status = "active"
    /\ ~disposed
    /\ disposed' = TRUE
    /\ UNCHANGED <<file, status, resolver, kinds, hnd, arrived, timers, sent,
                   server, history>>

dispose ==
    /\ status = "active"
    /\ ~disposed
    /\ disposed' = TRUE
    /\ timers' = [k \in Key |-> 0]
    /\ UNCHANGED <<file, status, resolver, kinds, hnd, arrived, sent, server,
                   history>>

-----------------------------------------------------------------------------
(* opencode and the workspace.                                             *)

Checkout(b) ==
    /\ changes < MaxChanges
    /\ b \notin {branch, Empty}
    /\ branch' = b
    /\ changes' = changes + 1
    /\ told' = IF status = "active" /\ ~disposed THEN Append(told, b) ELSE told
    /\ UNCHANGED <<setup, resolver, kinds, hnd, arrived, timers, sent, ptys,
                   history>>

PtySpawned(s) ==
    /\ changes < MaxChanges
    /\ changes' = changes + 1
    /\ s \notin ptys
    /\ ptys' = ptys \cup {s}
    /\ UNCHANGED <<setup, resolver, kinds, hnd, arrived, timers, sent, branch,
                   told, history>>

PtyExited(s) ==
    /\ s \in ptys
    /\ ptys' = ptys \ {s}
    /\ quiet' = quiet \cup {n \in Num : hnd[n].s = s}
    /\ UNCHANGED <<setup, resolver, kinds, hnd, arrived, timers, sent, branch,
                   told, changes, misread, suspect>>

HandlerStep(n) ==
    \/ dispatchNotification(n)
    \/ KnownSession(n) \/ isSubagent(n) \/ isSubagentFails(n)
    \/ SessionMessages(n) \/ ptyNotifyState(n)

Next ==
    \/ Load
    \/ VcsGet \/ refresh \/ refreshFails \/ BranchUpdated
    \/ \E type \in EventType, s \in Session : Event(type, s)
    \/ \E n \in Num : HandlerStep(n)
    \/ \E k \in Key : TimerFires(k)
    \/ dispose
    \/ \E b \in RawBranch : Checkout(b)
    \/ \E s \in Session : PtySpawned(s) \/ PtyExited(s)

Spec == Init /\ [][Next]_vars

\* Lookups of the local server end, one way or another, and the runtime runs
\* due timers.  Nothing is assumed of the ntfy server.
Fairness ==
    /\ WF_vars(VcsGet \/ refresh \/ refreshFails)
    /\ \A n \in Num : WF_vars(HandlerStep(n))
    /\ \A k \in Key : WF_vars(TimerFires(k))

FairSpec == Spec /\ Fairness

-----------------------------------------------------------------------------
HandlerType ==
    [pc : {"free", "waiting", "branch", "subagent", "pty", "dropped", "scheduled"},
     s : Session \cup {"none"}, e : NOTIFICATION_EVENTS \cup {"none"},
     ans : {"none", "unknown", "root", "subagent", "pending", "clear"}]

PluginType ==
    /\ status \in {"loading", "active", "off", "failed"}
    /\ disposed \in BOOLEAN
    /\ cached \in Label \cup {Undefined}
    /\ pending \in Label \cup {"none", "asked"}
    /\ kinds \in [Session -> {"unknown", "root", "subagent"}]
HandlersType ==
    /\ hnd \in [Num -> HandlerType]
    /\ arrived \in 0..MaxEvents
    /\ sent \subseteq Num
TimersType ==
    /\ timers \in [Key -> 0..MaxEvents]
    /\ \A k \in Key : timers[k] # 0 =>
          hnd[timers[k]].pc = "scheduled" /\ KeyOf(timers[k]) = k
ServerType ==
    /\ branch \in RawBranch
    /\ told \in Seq(RawBranch)
    /\ ptys \subseteq Session
    /\ changes \in 0..MaxChanges
HistoryType == quiet \subseteq Num /\ misread \subseteq Session /\ suspect \in BOOLEAN

\* Every variable has its type; a notification that waits for its timer is one
\* that passed every gate, under the key of its own session and event.
TypeOK == PluginType /\ HandlersType /\ TimersType /\ ServerType /\ HistoryType

\* What the operator wrote about event e, read off the file directly.
Entries(e) ==
    IF file.v.events.is = "ok" /\ file.v.events.v.of[e].is = "ok"
    THEN {file.v.events.v.of[e].v} ELSE {}
Sound(r) ==
    /\ ~r.unknown
    /\ ~IsBad(r.enabled)
    /\ ~IsBad(r.notifyAfter)
    /\ r.notifyAfter.is = "ok" => r.notifyAfter.v # <<>>
Wants(e) ==
    /\ file.v.enabled # Ok(FALSE)
    /\ \A r \in Entries(e) : r.enabled # Ok(FALSE)
Delays(e) ==
    \E r \in Entries(e) : /\ r.notifyAfter.is = "ok"
                          /\ \E i \in DOMAIN r.notifyAfter.v : r.notifyAfter.v[i].n > 0

\* config.ts fails loud: what the plugin schedules, it schedules under a file
\* without a malformed entry for any event, which wants the event; it puts only
\* events the file delays behind a timer, and sends the others at once.  No
\* mistake in the file turns into a notification at once.
SendsAsConfigured ==
    \A n \in Num : hnd[n].pc = "scheduled" =>
        /\ file.is = "ok"
        /\ ~IsBad(file.v.events)
        /\ \A e \in NOTIFICATION_EVENTS : \A r \in Entries(e) : Sound(r)
        /\ Wants(hnd[n].e)
        /\ ~Delays(hnd[n].e) => n \in sent
        /\ timers[KeyOf(n)] = n => Delays(hnd[n].e)

\* A subagent's session is notified about only when its lookup has been
\* answered without data: an exception fails closed, and no interleaving of
\* lookups lets a session through that was always read correctly.
SubagentsSilent ==
    \A n \in Num : hnd[n].pc = "scheduled" /\ hnd[n].s \in Sub => hnd[n].s \in misread

\* An idle notification is scheduled only for a session that had no pending PTY
\* at some moment after its event: with a PTY pending all along, no order of
\* lookups, failures and other events lets "Agent Idle" out.
IdleOnlyWhenQuiet ==
    \A n \in Num : hnd[n].pc = "scheduled" /\ hnd[n].e = "session.idle" => n \in quiet

\* When every branch event has been delivered the label in the cache is that of
\* the workspace, unless vcs.get failed or its answer came in after an update.
BranchLabelCurrent ==
    cached # Undefined /\ told = <<>> /\ ~disposed /\ ~suspect =>
        cached = normalizeBranch(branch)

\* Coalescing never swallows a key: while a scheduled notification is neither
\* sent nor waiting, another one of its key is, unless the plugin was disposed.
CoalescedNotLost ==
    \A n \in Num : hnd[n].pc = "scheduled" =>
        \/ disposed
        \/ timers[KeyOf(n)] # 0
        \/ \E m \in sent : KeyOf(m) = KeyOf(n)

\* The handlers and timers together are a debouncer: see Debounce.
D == INSTANCE Debounce WITH
        Key <- Key, Id <- Num, Empty <- 0,
        pend <- timers,
        out <- {<<KeyOf(n), n>> : n \in sent},
        closed <- disposed

Debounced == D!Spec

\* The event hook comes to an end for every event, whatever the ntfy server
\* does: a POST that hangs holds up no handler.
EventHookReturns ==
    \A n \in Num : hnd[n].pc \in {"waiting", "branch"} ~> hnd[n].pc \in {"dropped", "scheduled"}

\* index.ts:69-70: "Non-empty parentID means subagent; suppress to avoid
\* notification floods. Fail closed on lookup errors".
FailsClosed == \A n \in sent : hnd[n].s \notin Sub
=============================================================================
