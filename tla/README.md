# A TLA+ model of kfactory

kfactory runs one `opencode serve` as a personal coding-agent factory: a Go
CLI with an OIDC token cache, a workspace adapter and two more plugins inside
the server, a stack of patches to opencode, and NixOS modules that restart the
server and recover the agents' work. Almost all of its bugs worth fearing need
two actors: two CLI processes and one token file, an idle event and a tool
call, a timer and a manual tick, a restart and a half-written queue, a delete
and a clone, a notification and the lookups it waits for. This directory models
those parts, checks them with TLC on small instances, and proves with TLAPS, for
every instance, all their safety properties that hold.

Paths below are relative to the repository.

## 1. Inventory

| Component | State it keeps | Operations | Interacts with | What is hard |
|---|---|---|---|---|
| Token cache, `cmd/kfactory/auth.go` | `auth.json`, flock on `auth.json.lock`; at the provider: which refresh tokens are alive | `ensureFresh`, `runLogin`, `deleteTokens` | every CLI command, the TUI's `kfactory auth refresh` child | single-use refresh tokens, lost answers, crash and power loss around the rename |
| Scheduled and ad-hoc ticks, `cmd/kfactory/tick.go` | flock per task; on the server: workspace row, sessions, messages | `runTick`, `tickScheduled`, `tickAdhoc`, `confirmFirstRunVisible` | HTTP client, timers, operator, recovery sweep | overlapping fires, prompts accepted before they are readable, crashes between calls |
| HTTP client, `cmd/kfactory/client.go` | none | one function per endpoint, reference resolution | opencode server | client timeout while the server goes on |
| Loop plugin, `plugins/loop/src/index.ts` | durable `LoopState` file, in-memory single-flight map | idle events, `loop-start`, `loop-stop`, `session.deleted`, start-up check | opencode events and session API | state read before an await and used after it |
| Workspace adapter, `plugins/kfactory-adapter/src/index.ts` | clones on disk | `configure`, `create`, `remove`, `target` | opencode's workspace table | clone failures, slug collisions |
| Patched workspace create and remove, `patches/opencode-workspace-routing.patch` | `WorkspaceTable` rows | create, remove | adapter | row and clone must go together across failures |
| Restart recovery, `modules/recovery.nix`, `modules/scripts/*.sh` | marks in the message tables, queue file | heal, sync-kick, recovery sweep | systemd, SQLite, `kfactory tick` | each hook can fail or be killed at any step |
| ntfy plugin, `plugins/ntfy/src/index.ts`, `config.ts` | debounce timers, branch and subagent caches, the parsed configuration | event hook, timer callbacks, `dispose` | opencode's event stream and API, push backend | handlers overlap at three awaited lookups, which may be late, fail or come back empty; dispose in between |
| PTY transcript readers, `plugins/ntfy/src/pty-lifecycle.ts` and heal's abandoned-PTY pass | none; heal marks messages | `unfinishedNotifyOnExitPtys`, `heal_process_pty_v1` | transcripts of opencode and opencode-pty | two implementations of one contract; terminals die with the server |
| ntfy backend, `plugins/ntfy/src/backend.ts` | none | one POST | ntfy server | |
| TUI refresh wrapper, `patches/opencode-kfactory-refresh.patch` | cached bearer, in-flight refresh | fetch, 401 retry, child process | token cache | refresh killed half-way |
| CLI reads (`list`, `status`, `attach`), other patches, Nix builders, test runners | none of their own | | | |

What makes each correct, in a sentence:

* the cache never loses a live refresh token outside a narrow, documented
  window, and says "log in again" only when that is true;
* a task's workspace gets its initial prompt once, and its continuation only
  after it;
* a loop that was stopped stays stopped, counts its iterations and failures
  correctly, and goes on while it is active;
* after a restart no dead turn looks alive, and exactly the interrupted
  workspaces are nudged;
* a row and a clone exist together, and only the operator deletes data;
* a notification goes out once per burst, only for what the operator asked for,
  never for a subagent, and "idle" only when nothing will wake the agent;
* a running terminal is pending for both readers, and one a restart killed is
  recovered exactly once.

## 2. Modules

| Module | Models | Used by |
|---|---|---|
| `AuthCache` | the token cache | `MCAuthCache`, `AuthCacheProofs` |
| `LoopPlugin` | the loop plugin of one workspace | `MCLoopPlugin`, `LoopPluginProofs` |
| `ScheduledTick` | ticks of one task, with the server side they can observe | `MCScheduledTick`, `ScheduledTickProofs` |
| `Recovery` | the start sequence of `opencode-serve` | `MCRecovery`, `RecoveryProofs` |
| `WorkspaceLifecycle` | create and remove of workspaces | `MCWorkspaceLifecycle`, `WorkspaceLifecycleProofs` |
| `NtfyConfig` | the parser of the ntfy configuration, as operators | `Ntfy` |
| `Ntfy` | the ntfy plugin of one workspace | `MCNtfy`, `NtfyProofs` |
| `Debounce` | abstract: what the plugin promises of its notifications | `Ntfy`, by refinement |
| `PtyLifecycle` | a transcript, its two readers and restarts | `MCPtyLifecycle`, `PtyLifecycleProofs` |
| `NatLemmas` | nothing; the least-element principle for sets of naturals | `NtfyProofs`, `PtyLifecycleProofs` |

The `MC` modules add only the symmetry sets and values TLC needs (a run with a
temporal property has no symmetry). An operator
whose comment starts with "Mutant" is a deliberately broken variant of the
definition that follows it; it is used by no specification, and shows that a
property notices the bug it is there for.

### AuthCache

A token file is a pair of serial numbers, one for the access and one for the
refresh token; `at = 0` is a missing file, `rt = 0` a file `loadTokens`
rejects. A process walks through `load -> wait -> reload -> request -> reply
-> write -> renamed`; a login starts at `device`, a logout goes from `wait` to
`remove`. Each control point is a place where another process can interfere
or the process can die: the file reads, the poll of the flock, the HTTP
exchange, the rename, the fsync of the directory. `recoverable` is the set of
contents a power loss may bring back: a rename or a removal adds the new content, the
directory fsync leaves only the visible one. The provider (`IdPRefresh`) is external and decides
freely whether it rotates the token, omits the refresh token or the expiry, and
whether the answer arrives. `burned` records rotated tokens whose replacement
was lost by a crash, a failed save or a lost answer; these are the losses the
code cannot prevent, so the properties name them rather than ignore them.

### LoopPlugin

JavaScript runs to the next await, so that is a step. `hnd[h]` is one
activation of `handleIdle` with the `LoopState` it read at its start;
`inFlight` is the single-flight map with its one re-run per handler. The loop's
sessions, turns, idle events and deletions belong to opencode and are external;
events may be delivered late and at most `MaxIdle` are outstanding per session.
A file's `runID` (what `stateStillOurs` compares) is the number of the run.
The last assistant message is one of "none", "plain" or "done" (matches the
sentinel). `sessionKind` is the set of possible results of a lookup: the client
is called without `throwOnError`, so an HTTP error may come back as a result
without data, which reads as a root session. `Faults` switches failing calls,
session deletion and server restarts on and off, so that a violation can be
shown with the fewest of them; `faults`, fixed at the start of a behaviour, is
all of `Faults` or only the restarts among them.

### ScheduledTick

`phase` says on whose behalf the shared HTTP helpers run, `pc` which call is
next. A call that changes the server has two steps, the effect and the answer,
so a failure in between is the lost answer. `queued` holds prompts the server
accepted and does not show yet, `readable` those that `sessionHasUserPrompt`
finds; `late` is a session create that goes on after its client timed out. The
operator opens, writes to and deletes sessions and deletes the workspace at any
time. Such changes behind the lock holder's back set `foreign`, and prompts
left without read-back set `unconfirmed`; the properties except exactly these.
`others` records that somebody but a tick's initial prompt wrote a user message
into the workspace: the operator, or an ad-hoc tick.

### Recovery

`open1` and `open2` are the workspaces with an incomplete assistant row that a
dead process left in the v1 or v2 table, `turn1` and `turn2` those whose turn
the present server runs (its row becomes an open one when the process ends),
`pty` those with an unmarked `notifyOnExit` terminal whose exit was not
reported. heal's calls are one step each, and a failing call does what the
shell makes of it: a table probe is an `if` condition, where `errexit` is off,
so a failed one reads as an absent table and the whole block is skipped
(`unprobed`); of a query or terminal pass followed by `|| true` whatever was
printed before the failure counts; anything else ends the unit's start
(`errexit`), and systemd starts it again. The terminal pass is a script sqlite3
reads on after an error, so its mark and its output fail independently. The
sweep reads the queue through a process substitution, whose failing `jq` leaves
a short list unnoticed (`SweepRead`). The queue file
survives until it is replaced, or until a reboot clears `/run`. `owed` and
`lost` are history: interrupted with the nudge outstanding, and dropped by one
of the known gaps. A workspace left unmarked stays owed, since the next heal
nudges it again. Simplification: one dead row and one turn per table and one
terminal per workspace. The transcript matching in heal's SQL is abstracted to its result;
`PtyLifecycle` models the matching.

### WorkspaceLifecycle

A request is one HTTP create or remove; it interleaves with others at its
awaits. `row` is the table, `clone[s]` names the id whose create put the
directory there, so sharing or swapping a clone is visible. A scheduled id has
its task's slug and may be created again; a dispatched id is new each time and
its slug arbitrary, so collisions happen. `excused` marks slugs on which the
code makes no promise: a crash caught a request in flight, or a remove
overlapped a create (then the clone may appear after its row was dropped).
The URL and slug grammar is not modelled, and neither is the temporary clone
directory, whose name is private to the request.

### NtfyConfig, Ntfy and Debounce

`NtfyConfig` translates the parser: a JSON field is absent, malformed or
carries a value, an object records whether it holds an unknown key, and a
parser yields `Bad` where the code throws. Durations are sequences of segments
and are converted to milliseconds with the code's rounding.

`Ntfy` starts from a file, loads it (`Load`), and then runs. opencode does not
await event hooks (docs/spec.md:674 has "concurrent idle handlers" for the loop), so
handlers overlap. `hnd[n]` is the handler of the n-th event; its `pc` is the
await it is suspended at: the branch (`waiting`, or `branch` when the cached
label was there), `session.get` (`subagent`), `session.messages` (`pty`).
`ans` is what the lookup has already answered and the handler not yet used:
the cache entry that `isSubagent` read, or the transcript's state when the
server read it, so an answer can be stale. A lookup ends in an answer, in an
exception, or in a result without data. `timers[k]` is the handler whose
notification waits under the key, `sent` the handlers whose POST was started.
The POST is not awaited; the comment at config.ts:110-112 that a hung ntfy
server would stall the hook describes an earlier shape of the code, and
`EventHookReturns` shows that it no longer does. Branch changes and terminals
are external; `quiet`, `misread` and `suspect` are history.

`Debounce` is the promise: per key at most one notification waits, another
one may take its place, what waits is passed on once and in the end, and nothing
happens after closing. `Ntfy` implements it with `timers` as what waits and
`sent` as what was passed on (`Debounced`, the fairness of `Debounce` included).

### PtyLifecycle

A message has a role, a set of parts and the marks of an ended turn; a part is
a `pty_spawn` call or a text with one record, as the exact block or in prose.
`unfinishedNotifyOnExitPtys` is the parser's one pass in message order,
`abandoned` heal's query, which instead compares the times of parts and skips
marked messages. The transcript grows by turns, calls that return or not,
terminals that end and their `<pty_exited>` messages, interruptions, prose that
mentions a record and an agent that quotes one; a crash kills the terminals
with their messages, and heal (one step here, `Recovery` has its failures)
completes and marks what it finds before the server serves again.

## 3. Runs

All runs finish in seconds to two and a half minutes. "violation" runs state a sentence of
the repository's own comments, docs or tests that the code does not keep.

| Run | Instance | Shows |
|---|---|---|
| `auth` | 2 processes, 2 issued tokens | mutual exclusion, the cache is current, no replay, logout is final, honest exit codes, every command returns |
| `loop` | 1 session, 2 handlers, 2 runs, 2 iterations, all faults or restarts only | a stopped loop stays stopped, labels are distinct and capped and the iteration counts the prompts, failure budget, single flight, the single-flight map never wedges, and a loop on file goes on after a restart, although its idle session is not in the server's status list |
| `loop_stale` | one session, no faults | violation: a handler suspended across a stop and a new start clears the new run |
| `loop_stall` | one session, no faults | violation: a dropped idle stalls an active loop |
| `tick` | 3 ticks, 1 session, `skip-if-dirty` | one initial prompt, lock released implies visible, continuation after a readable message that is the initial prompt or someone else's, lock released in the end |
| `recovery` | 3 workspaces | no dead turn is left open but in a table whose probe failed, no unneeded nudge, no unknown gap |
| `recovery_probe` | 1 workspace | violation: a failed table probe leaves a dead turn open while the server serves |
| `lifecycle` | 3 requests, 1 scheduled and 2 dispatched ids, 2 slugs | rows and clones belong together, only a remove deletes data |
| `ntfy` | 2 events, a root and a subagent session, 1 branch change or terminal, 6 files | sends as configured, subagents and pending terminals are silent, the label is current, no key is swallowed, the hook returns; refinement of `Debounce` |
| `ntfy_subagent` | same | violation: a lookup that ends in an HTTP error lets a subagent through |
| `pty` | 2 terminals, 4 messages, 1 mention, 2 restarts | parser and heal's query agree, running is pending, killed is recovered, settled once |
| `pty_pending` | same | violation: a terminal killed by a restart stays pending for the parser |

Why the bounds are enough. `auth`: two processes race for one expired token,
and two issued tokens cover a login followed by a refresh that rotates; the
proofs lift both bounds. `loop`: two handler slots are needed (a handler
of a deleted session beside a new one) and a third run adds no interaction that
a second does not have; the failure budget of three is reached. A subagent
session can own a loop only through a lookup without data, after which it is
treated like a root, so the runs have none; the proofs cover any set of them.
A behaviour of `loop` has all the faults or, for `LoopSurvivesRestart`,
restarts only: the other faults are allowed to end a loop, or to hold it up
until the next idle. `tick`: one tick
holds the lock, one waits, one is ad hoc; a second root session only arises
behind the holder's back, which `foreign` excepts from every property, so one
session loses nothing. `skip-if-dirty` is the mode with every branch (its
verdict is free). `recovery` and `lifecycle`: the properties relate a workspace
to itself or to one other; the proofs lift the bounds. `ntfy`: two events are
what overlaps, coalesces or shares a refresh; every property relates at most
two handlers; one change reaches every stale answer, since an answer is used
once. The files hold each kind of mistake the parser tells apart for an event,
beside a sound one with a delayed, an immediate and a disabled event. `pty`:
both readers treat terminals one by one, so two (one to confuse with the
other) suffice; four messages hold a turn, an interrupted or second turn, an
exit record and a mention in every order, and two restarts let the second meet
what the first left.

TLC checks deadlock in the runs of the first five modules: these systems never
stop, since commands, turns, ticks and requests may always start again, within
the named bounds. The runs of `Ntfy` and `PtyLifecycle` say `CHECK_DEADLOCK
FALSE`: a plugin without a configuration file, or whose events are used up, and
a transcript at its bound have nothing left to do.

### Fairness

* `AuthCache`: weak fairness of each process's own steps. Every blocking call
  has a deadline from its context, the poll of the lock included, so a process
  that can go on or time out does one of the two. Nothing is assumed of the
  provider, of expiry or of crashes.
* `LoopPlugin`: weak fairness of handler continuations, event delivery,
  `loop-start` answers, the start-up check and the end of a turn: the event loop
  runs ready callbacks, and an awaited call of opencode settles. The tools, the
  faults and new turns by the user are not fair. `LoopSurvivesRestart` adds, as
  its hypothesis, that the server stops restarting.
* `ScheduledTick`: weak fairness of a tick's own calls and of its confirmation
  deadline. The server is not assumed to admit a prompt, the operator not to
  act. A waiting tick blocks in `flock` without a deadline, so its own
  termination is not claimed: `LockReleased` is about the holder.
* `Ntfy`: weak fairness of the refresh, of each handler and of each timer: a
  lookup at the local server settles one way or another, ready callbacks run
  and due timers fire. Nothing is assumed of the ntfy server, of new events or
  of the terminals.

## 4. Proofs

Each `...Proofs` module proves the safety properties of the run of the same
component (`PROJECT.json` lists the theorems): for any sets of processes,
tokens, workspaces, requests, ids, slugs, sessions, handlers, ticks and
terminals, for any values of the bounds, and for every configuration file. They
follow one plan: an invariant stronger than the properties, one lemma per
action that it is kept, a lemma that combines them (`StepInv`, `NextInv`), and
the theorems by temporal logic. Where a property needs facts about one concern
only (labels, failures, subagents), these form an invariant of their own on top
of the common one, and each property's theorem names what it rests on.

* **AuthCache.** Assumptions: `NoProc` is not a process, `MaxIssue` is a
  number. `CacheCurrent` is not inductive: one has to know that the file a lock
  holder has read is still the file on disk (`ReadInv`), that tokens on their
  way to disk are alive and known to one process only (`PendingInv`), that the
  presented token stays alive when the answer has none (`AnswerInv`), and that
  serials never exceed the counter (`SerialInv`), so a new token is new. From
  it: `MutualExclusion`, `CacheStaysCurrent`, `NoReplay`, and the two action
  properties `LogoutIsFinal` and `NotLoggedInHonest`.
* **Recovery.** No assumptions. `Stages` says which rows and processes can
  exist at each step of the start, and that a table past its block has open
  rows only if its probe failed; `Collected` that what heal is about to mark
  was collected or counted as lost before, as was everything it left unmarked;
  `Justified` that whatever can be found, is unmarked, collected, queued or
  still to be ticked is owed a nudge. The last
  two are the two halves of the design: nothing is forgotten silently, and
  nobody is nudged without need.
* **WorkspaceLifecycle.** Assumptions: stable ids are ids, each has a slug,
  `None` is neither. The properties speak of quiet slugs; the invariant says
  what requests in flight may rely on: an id has one slug (`SlugFixed`), a
  create owns its row and has no clone yet (`CreateInv`), a remove meets its
  own clone or none (`RemoveInv`).

* **LoopPlugin.** Assumptions: subagent sessions are sessions, `None` is
  neither a session nor a handler slot, the caps are positive numbers. `IInv1`
  has the types, that a running handler holds an active loop of its own session
  with room for an iteration (`HandlerInv`), that map and handlers agree until
  the session is gone (`FlightInv`), and that run numbers are handed out in
  order (`RunInv`). `SingleFlight` and `StoppedStaysStopped` follow. Labels and failures need `CurrentInv`: what a
  suspended handler of the run on file still knows of the file. The delicate
  case is a prompt in flight. The file is then one iteration ahead of its
  handler and counts no failure, and no second handler of that run exists.
  This is what makes the write-back after a failed prompt harmless.
  `LabelInv` and `FailInv` compare the file with the history of the run.
* **ScheduledTick.** Assumptions: `None` is neither a tick nor a session, the
  mode is one of the three. `LockInv` says which control points are inside the
  lock; `ProgressInv` what a tick has seen and may still rely on while the
  operator acts (`Owed`), for instance that the initial prompt it is about to
  send was not sent; `PromptInv` that an initial prompt is readable or a tick
  inside the lock still waits for it, and that a user message anywhere is the
  initial prompt's doing or somebody else's (`Known`). `OneInitialPrompt` is not inductive
  without the last two, because the lock alone does not tell the next holder
  what the previous one left.
* **Ntfy.** Assumptions: subagent sessions are sessions, the plugin's own marks
  are not names of sessions or branches, a file is one the parser can meet.
  `IInv1` describes the life of a handler; `SubagentInv` follows a
  misread session from the cache through an answer to the gate, `QuietInv` an
  idle, `LabelInv` the branch updates that are still to be delivered, and
  `ConfigInv` the gates of the configuration. `ConfigSafety` combines the last
  with lemmas about every parser of `NtfyConfig`. `DebounceRefinement` shows
  that `Ntfy` implements the safety part of `Debounce`: the initial states map,
  and each step is a step of the debouncer or leaves it alone.
* **PtyLifecycle.** Assumption: the bounds are numbers. `PendingMeaning` gives
  the parser's recursive pass its meaning (on record, and no later message ends
  it). `RecordInv` says how calls and records of ends are written: ids are used
  once, an end comes after its call in message order and in time, and a
  terminal is running, ending, killed, or has its record. The two readers use
  different orders, and agree because of it (`ReadersAgree`). `MarkInv` ties
  marks to the history: a marked message's terminals are waived or nudged, and
  the message of a nudged or waived terminal is marked. The first half carries
  `KilledIsRecovered` over a restart, the second `SettledOnce`.

Induction over data. The prover cannot use the library's induction rules, so
the two recursive functions in the proofs, the parser's pass and the sum of
`parseDuration`, are treated with `NatLemmas!LeastNat`: the set of indices at
which the function differs from its closed form would have a least element,
and it cannot. `parseDuration` is characterised only as far as
`SendsAsConfigured` needs: zeros add up to no delay.

Each inductive invariant was an invariant of the run's instance in TLC before
it was proved.

Only model-checked: liveness under fairness, which is out of the prover's reach
(`EveryCommandReturns`, `TrackerReleased`, `LoopSurvivesRestart`,
`LockReleased`, `EventHookReturns`, and the fairness in `Debounced`, whose safety part is proved). The properties of
the "violation" runs are false and their counterexamples are TLC's.

## 5. Where the code and its documentation disagree

`PROJECT.json` "findings" quotes each sentence a "violation" run refutes. In
short: the loop plugin's clearing paths do not check that the loop is still
theirs, and one idle can be dropped; a table probe of heal that fails leaves
dead turns open and their workspaces without a nudge; a subagent lookup that
ends in an HTTP error is cached as "root"; and a terminal killed by a restart
suppresses its session's idle notifications for good.

Seen while modelling, in the models, and allowed for in the properties rather
than refuted by a run of their own:

* `loop-start` looks for an active loop before it awaits the session lookup and
  not again after it, so two overlapping calls both write and the second
  replaces an active loop (index.ts:498-520; the comment at 485-488 says
  "Refuse to start if a loop is already active");
* a failed transcript read counts toward the failure cap like a failed prompt
  (index.ts:304-310, `FailureBudget`), although docs/spec.md:676-679 says
  "`messages` errors are recoverable";
* any user message with text counts as a task's first run (tick.go:267), also
  the operator's or an ad-hoc tick's in a half-made workspace, whose initial
  prompt is then never sent (`others` in `ContinuationAfterFirstRun`);
  docs/spec.md:833-835 asks for the configured `initial_prompt`;
* a refresh that fails with anything but `invalid_grant` may have rotated the
  token all the same (`burned`), although auth.go:413-415 says it "leaves it
  valid";
* work that is pending only in the recovery queue is lost when the unit goes
  down before its tick (`lost`), although recovery.nix:114-117 has no pending
  work before heal runs;
* heal skips the terminals of a turn the operator interrupted (`waived`),
  because that message carries the same mark as a healed one, while
  docs/spec.md:310-311 speaks of every `pty_spawn(notifyOnExit=true)`;
* which of two overlapping events of a key is the one that waits is decided by
  the order of their lookups, not of their arrival (docs/spec.md:685-690 has
  the latest event win); `Debounce` therefore lets either take the place;
* a `vcs.get` asked before a checkout and answered after its event puts the old
  label back (`suspect`);
* a lookup without data also lets a subagent's session own a loop.

Behaviour that is promised nowhere: a delete during a create leaves a clone
without a row (and the task's next create then fails on the directory); a crash
between the insert and the clone leaves a row without a clone; a failed tick of
the sweep is not retried; a delay above 2^31 milliseconds is accepted by
`parseDuration` and more than a JavaScript timer can wait (the models have no
clock); in the terminal pass of heal, a `DELETE` that fails alone would leave
exited terminals among the abandoned ones.

## 6. Not modelled

Within the modelled parts: file-system failures of the loop plugin's
`writeState` and `unlink`; two parts of a transcript with the same millisecond
(heal compares `time_created` strictly, the model's parts have distinct times);
a single statement of heal's terminal pass failing between the two that mark
and print (see section 5); sessions opened in a workspace whose clone is not
finished, which the adapter's `target` would allow and `NewSession` does not.

The ntfy backend: templates, headers and a POST whose end is only logged. The
grammar of PTY records (`parseRecordBlock`, the SQL's `LIKE` patterns): a text
either holds the exact block or does not; `nix/replay/pty-lifecycle-contract`
tests the two matchers on concrete texts, and `HealMirrorsParser` generalises
it to every order of messages. `{env:}` and `{file:}` substitution is a field
that resolves or not. The resolution of workspace references (`findWorkspace`)
is a pure lookup over a list; list indices may shift between two commands and
the code makes no promise about it. The fetch wrapper of the TUI patch keeps a
cached bearer; only its killing of a slow refresh is modelled (`Crash`). The
CLI's reading commands, argument and config parsing, the static bearer,
oauth2-proxy and bun patches, the Nix builders, the timers that
`modules/scheduled-tasks.nix` generates (a tick may start at any time in the
model), test runners and completions keep no state that could go wrong between
two steps.

## 7. Plan

Done: seven components modelled and checked, every safety property of a passing
run proved. Left, in order of importance:

1. Positive counterparts of the "violation" runs, proved: under which condition
   on faults and overlaps a handler of the loop plugin ends only its own run,
   and until which restart what the parser reports has a message to come.
2. An abstract specification of the token cache (one owner at a time of one
   live token) and of the task lock, with the refinements proved.
3. `parseDuration` against its rounding for every duration, along the lines of
   `PendingMeaning`.
4. `BearerRefresh`: the TUI wrapper composed with `AuthCache`.
