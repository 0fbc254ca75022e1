----------------------------- MODULE AuthCache -----------------------------
(***************************************************************************)
(* The shared OIDC token cache of kfactory (cmd/kfactory/auth.go): the     *)
(* file auth.json, the flock(2) on auth.json.lock, and any number of       *)
(* kfactory processes that read, refresh, replace or delete the cache.     *)
(*                                                                         *)
(* The identity provider is external.  It issues refresh tokens, and each  *)
(* successful refresh may rotate the token that was presented: the old one *)
(* is then dead and only the answer carries the new one.                   *)
(*                                                                         *)
(* A token file is a record [at, rt]: the serial number of the access      *)
(* token and of the refresh token.  at = 0 is "no file"; rt = 0 with at >  *)
(* 0 is a file loadTokens rejects because refresh_token is empty.          *)
(***************************************************************************)
EXTENDS Naturals, FiniteSets

CONSTANTS
    Proc,      \* kfactory processes on the operator's machine
    NoProc,    \* "the lock is free"
    MaxIssue   \* bound: tokens the identity provider issues in a behaviour

ASSUME ProcAssumption == NoProc \notin Proc
ASSUME BoundAssumption == MaxIssue \in Nat

VARIABLES
    disk,         \* auth.json as every process sees it
    recoverable,  \* the contents a power loss may leave behind (unsynced renames)
    lock,         \* holder of the flock, or NoProc
    pc,           \* control point of each process
    op,           \* the command each process runs
    tok,          \* the tokenFile t a process loaded
    got,          \* the tokens the provider answered with
    out,          \* how the last command of the process ended
    valid,        \* refresh tokens the provider accepts
    fresh,        \* access tokens that are not yet within 30s of expiry
    issued,       \* tokens issued so far
    burned        \* history: rotated-away tokens whose replacement was lost

vars == <<disk, recoverable, lock, pc, op, tok, got, out,
          valid, fresh, issued, burned>>
cacheVars == <<disk, recoverable>>
idpVars == <<valid, fresh, issued>>

-----------------------------------------------------------------------------
Serial == 0..MaxIssue
File == [at : Serial, rt : Serial]
Reply == [at : Serial, rt : Serial, expiry : BOOLEAN]

NoFile == [at |-> 0, rt |-> 0]
NoReply == [at |-> 0, rt |-> 0, expiry |-> FALSE]

Commands == {"ensureFresh", "login", "logout"}
Outcomes == {"none", "ok", "notLoggedIn", "other"}

\* Control points at which the process holds the flock.
Critical == {"reload", "request", "reply", "write", "renamed", "remove"}
Points == {"idle", "load", "device", "wait"} \cup Critical

\* tokenFile.expired: within the 30s skew of expires_at.
expired(f) == f.at \notin fresh

\* loadTokens: os.IsNotExist, a file that fails validation, or a token file.
Missing(f) == f.at = 0
Unusable(f) == f.at # 0 /\ f.rt = 0
Usable(f) == f.at # 0 /\ f.rt # 0

\* Mutant: the provider's answer is written as it came.
applyRefreshedTokenWhole(t, r) == r

\* applyRefreshedToken: an answer without a refresh token keeps the old one.
applyRefreshedToken(t, r) ==
    [at |-> r.at, rt |-> IF r.rt # 0 THEN r.rt ELSE t.rt]

\* The file a process in saveTokensUnlocked is about to install.
ToSave(p) ==
    IF op[p] = "login" THEN [at |-> got[p].at, rt |-> got[p].rt]
                       ELSE applyRefreshedToken(tok[p], got[p])

\* The provider has answered a refresh and the new tokens are not durable yet.
InWindow(p) ==
    op[p] = "ensureFresh" /\ pc[p] \in {"reply", "write", "renamed"}

-----------------------------------------------------------------------------
Init ==
    /\ disk = NoFile
    /\ recoverable = {NoFile}
    /\ lock = NoProc
    /\ pc = [p \in Proc |-> "idle"]
    /\ op = [p \in Proc |-> "ensureFresh"]
    /\ tok = [p \in Proc |-> NoFile]
    /\ got = [p \in Proc |-> NoReply]
    /\ out = [p \in Proc |-> "none"]
    /\ valid = {}
    /\ fresh = {}
    /\ issued = 0
    /\ burned = {}

\* The command of p ends with outcome o; deferred releaseLock runs, and
\* process exit releases the flock in any case.
releaseLock(p) == lock' = IF lock = p THEN NoProc ELSE lock

Finish(p, o) ==
    /\ pc' = [pc EXCEPT ![p] = "idle"]
    /\ out' = [out EXCEPT ![p] = o]
    /\ tok' = [tok EXCEPT ![p] = NoFile]
    /\ got' = [got EXCEPT ![p] = NoReply]
    /\ releaseLock(p)
    /\ UNCHANGED op

Goto(p, l) ==
    /\ pc' = [pc EXCEPT ![p] = l]
    /\ UNCHANGED <<lock, op, tok, got, out>>

\* The processes of P stop now.  Lost with them: a refresh token one of them
\* presented, if the provider has replaced it and the answer is not durable.
Lose(P) ==
    burned' = burned \cup {t \in Serial : t \notin valid
                            /\ \E p \in P : InWindow(p) /\ tok[p].rt = t}

\* An operator, a timer or the TUI starts a command.
Start(p, c) ==
    /\ pc[p] = "idle"
    /\ op' = [op EXCEPT ![p] = c]
    /\ pc' = [pc EXCEPT ![p] = CASE c = "ensureFresh" -> "load"
                                 [] c = "login" -> "device"
                                 [] c = "logout" -> "wait"]
    /\ out' = [out EXCEPT ![p] = "none"]
    /\ UNCHANGED <<cacheVars, idpVars, lock, tok, got, burned>>

\* loadTokens and the checks ensureFresh makes of its result; an expired
\* token is kept and the process goes on to control point l.
loadTokens(p, l) ==
    \/ Missing(disk) /\ Finish(p, "notLoggedIn")
    \/ Unusable(disk) /\ Finish(p, "other")
    \/ Usable(disk) /\ ~expired(disk) /\ Finish(p, "ok")
    \/ /\ Usable(disk) /\ expired(disk)
       /\ pc' = [pc EXCEPT ![p] = l]
       /\ tok' = [tok EXCEPT ![p] = disk]
       /\ UNCHANGED <<lock, op, got, out>>

\* ensureFresh, before the lock.
Load(p) ==
    /\ pc[p] = "load"
    /\ loadTokens(p, "wait")
    /\ UNCHANGED <<cacheVars, idpVars, burned>>

\* acquireLock: one successful LOCK_EX|LOCK_NB of the poll loop.
AfterLock(p) == CASE op[p] = "ensureFresh" -> "reload"
                  [] op[p] = "login" -> "write"
                  [] op[p] = "logout" -> "remove"

\* Mutant: logout deletes the file without waiting for the lock.
acquireLockLogoutSkips(p) ==
    /\ pc[p] = "wait"
    /\ op[p] = "logout" \/ lock = NoProc
    /\ lock' = IF op[p] = "logout" THEN lock ELSE p
    /\ pc' = [pc EXCEPT ![p] = AfterLock(p)]
    /\ UNCHANGED <<cacheVars, idpVars, op, tok, got, out, burned>>

acquireLock(p) ==
    /\ pc[p] = "wait"
    /\ lock = NoProc
    /\ lock' = p
    /\ pc' = [pc EXCEPT ![p] = AfterLock(p)]
    /\ UNCHANGED <<cacheVars, idpVars, op, tok, got, out, burned>>

\* Mutant: a blocking flock, which no deadline interrupts.
acquireLockBlocks(p) ==
    /\ pc[p] = "wait"
    /\ FALSE
    /\ UNCHANGED vars

\* acquireLock gives up: the context's deadline passed while polling.
acquireLockTimeout(p) ==
    /\ pc[p] = "wait"
    /\ Finish(p, "other")
    /\ UNCHANGED <<cacheVars, idpVars, burned>>

\* Mutant: the token loaded before the wait is used without a second read.
ReloadStale(p) ==
    /\ pc[p] = "reload"
    /\ Goto(p, "request")
    /\ UNCHANGED <<cacheVars, idpVars, burned>>

\* Mutant: the second read is made, its expiry is not checked again.
ReloadIgnoresExpiry(p) ==
    /\ pc[p] = "reload"
    /\ Usable(disk)
    /\ pc' = [pc EXCEPT ![p] = "request"]
    /\ tok' = [tok EXCEPT ![p] = disk]
    /\ UNCHANGED <<cacheVars, idpVars, lock, op, got, out, burned>>

\* ensureFresh, under the lock: another process may have refreshed, logged in
\* or logged out during the wait.
Reload(p) ==
    /\ pc[p] = "reload"
    /\ loadTokens(p, "request")
    /\ UNCHANGED <<cacheVars, idpVars, burned>>

-----------------------------------------------------------------------------
\* The provider accepts the refresh token and issues a new access token.  It
\* may rotate the refresh token, and may leave out the expiry.
IdPRefresh(p, rotates, expiry) ==
    /\ pc[p] = "request"
    /\ tok[p].rt \in valid
    /\ issued < MaxIssue
    /\ issued' = issued + 1
    /\ got' = [got EXCEPT ![p] = [at |-> issued', expiry |-> expiry,
                                  rt |-> IF rotates THEN issued' ELSE 0]]
    /\ valid' = IF rotates THEN (valid \ {tok[p].rt}) \cup {issued'} ELSE valid
    /\ fresh' = fresh \cup {issued'}
    /\ pc' = [pc EXCEPT ![p] = "reply"]
    /\ UNCHANGED <<cacheVars, lock, op, tok, out, burned>>

\* The provider answers invalid_grant: errNotLoggedIn.
RefreshRejected(p) ==
    /\ pc[p] = "request"
    /\ tok[p].rt \notin valid
    /\ Finish(p, "notLoggedIn")
    /\ UNCHANGED <<cacheVars, idpVars, burned>>

\* Discovery or the request fails before the provider acts on it.
RefreshFails(p) ==
    /\ pc[p] = "request"
    /\ Finish(p, "other")
    /\ UNCHANGED <<cacheVars, idpVars, burned>>

\* The provider has answered, the answer does not arrive in time.
ReplyLost(p) ==
    /\ pc[p] = "reply"
    /\ Finish(p, "other")
    /\ Lose({p})
    /\ UNCHANGED <<cacheVars, idpVars>>

\* applyRefreshedToken refuses an answer without an expiry.
ReplyUnusable(p) ==
    /\ pc[p] = "reply"
    /\ ~got[p].expiry
    /\ Finish(p, "other")
    /\ Lose({p})
    /\ UNCHANGED <<cacheVars, idpVars>>

ReceiveReply(p) ==
    /\ pc[p] = "reply"
    /\ got[p].expiry
    /\ Goto(p, "write")
    /\ UNCHANGED <<cacheVars, idpVars, burned>>

-----------------------------------------------------------------------------
\* saveTokensUnlocked: the temporary file is written and synced, then renamed.
Rename(p) ==
    /\ pc[p] = "write"
    /\ disk' = ToSave(p)
    /\ recoverable' = recoverable \cup {disk'}
    /\ Goto(p, "renamed")
    /\ UNCHANGED <<idpVars, burned>>

\* saveTokensUnlocked fails before or at the rename; the old file stays.
SaveFails(p) ==
    /\ pc[p] = "write"
    /\ Finish(p, "other")
    /\ Lose({p})
    /\ UNCHANGED <<cacheVars, idpVars>>

\* Mutant: success is reported without the directory fsync.
DirSyncSkipped(p) ==
    /\ pc[p] = "renamed"
    /\ Finish(p, "ok")
    /\ UNCHANGED <<cacheVars, idpVars, burned>>

\* saveTokensUnlocked syncs the directory: the rename is durable.
DirSync(p) ==
    /\ pc[p] = "renamed"
    /\ recoverable' = {disk}
    /\ Finish(p, "ok")
    /\ UNCHANGED <<disk, idpVars, burned>>

\* The directory fsync fails: an error, with the new file already visible.
DirSyncFails(p) ==
    /\ pc[p] = "renamed"
    /\ Finish(p, "other")
    /\ Lose({p})
    /\ UNCHANGED <<cacheVars, idpVars>>

\* runLogin: the device flow ends with tokens; the provider may withhold the
\* refresh token.
DeviceAccessToken(p, offline) ==
    /\ pc[p] = "device"
    /\ issued < MaxIssue
    /\ issued' = issued + 1
    /\ got' = [got EXCEPT ![p] = [at |-> issued', expiry |-> TRUE,
                                  rt |-> IF offline THEN issued' ELSE 0]]
    /\ valid' = IF offline THEN valid \cup {issued'} ELSE valid
    /\ fresh' = fresh \cup {issued'}
    /\ pc' = [pc EXCEPT ![p] = "wait"]
    /\ UNCHANGED <<cacheVars, lock, op, tok, out, burned>>

LoginFails(p) ==
    /\ pc[p] = "device"
    /\ Finish(p, "other")
    /\ UNCHANGED <<cacheVars, idpVars, burned>>

\* deleteTokensUnlocked: the file is removed, its directory is not synced.
deleteTokens(p) ==
    /\ pc[p] = "remove"
    /\ disk' = NoFile
    /\ recoverable' = recoverable \cup {NoFile}
    /\ Finish(p, "ok")
    /\ UNCHANGED <<idpVars, burned>>

deleteTokensFails(p) ==
    /\ pc[p] = "remove"
    /\ Finish(p, "other")
    /\ UNCHANGED <<cacheVars, idpVars, burned>>

-----------------------------------------------------------------------------
\* Time passes: an access token comes within 30s of its expiry.
Expire(n) ==
    /\ n \in fresh
    /\ fresh' = fresh \ {n}
    /\ UNCHANGED <<cacheVars, lock, pc, op, tok, got, out, valid, issued, burned>>

\* A signal (the TUI sends SIGTERM after 30s) or a panic ends the process; the
\* kernel closes its descriptors and so releases the flock.
Crash(p) ==
    /\ pc[p] # "idle"
    /\ Finish(p, "none")
    /\ Lose({p})
    /\ UNCHANGED <<cacheVars, idpVars>>

\* The machine loses power: every process ends, and the file system comes back
\* with any of the contents whose replacement was not synced.
PowerLoss ==
    /\ disk' \in recoverable
    /\ recoverable' = {disk'}
    /\ lock' = NoProc
    /\ pc' = [p \in Proc |-> "idle"]
    /\ tok' = [p \in Proc |-> NoFile]
    /\ got' = [p \in Proc |-> NoReply]
    /\ out' = [p \in Proc |-> "none"]
    /\ Lose(Proc)
    /\ UNCHANGED <<idpVars, op>>

Step(p) ==
    \/ Load(p)
    \/ acquireLock(p)
    \/ acquireLockTimeout(p)
    \/ Reload(p)
    \/ \E rotates, expiry \in BOOLEAN : IdPRefresh(p, rotates, expiry)
    \/ RefreshRejected(p)
    \/ RefreshFails(p)
    \/ ReplyLost(p)
    \/ ReplyUnusable(p)
    \/ ReceiveReply(p)
    \/ Rename(p)
    \/ SaveFails(p)
    \/ DirSync(p)
    \/ DirSyncFails(p)
    \/ \E offline \in BOOLEAN : DeviceAccessToken(p, offline)
    \/ LoginFails(p)
    \/ deleteTokens(p)
    \/ deleteTokensFails(p)

Next ==
    \/ \E p \in Proc : Step(p)
    \/ \E p \in Proc, c \in Commands : Start(p, c)
    \/ \E p \in Proc : Crash(p)
    \/ \E n \in Serial : Expire(n)
    \/ PowerLoss

Spec == Init /\ [][Next]_vars

\* A started process is scheduled; every wait of it is bounded by a context
\* deadline (30s for the lock, 15min for the device flow), so it moves on.
FairSpec == Spec /\ \A p \in Proc : WF_vars(Step(p))

-----------------------------------------------------------------------------
\* Every variable has its type: serials stay below the provider's counter bound.
TypeOK ==
    /\ disk \in File
    /\ recoverable \subseteq File
    /\ lock \in Proc \cup {NoProc}
    /\ pc \in [Proc -> Points]
    /\ op \in [Proc -> Commands]
    /\ tok \in [Proc -> File]
    /\ got \in [Proc -> Reply]
    /\ out \in [Proc -> Outcomes]
    /\ valid \subseteq Serial
    /\ fresh \subseteq Serial
    /\ issued \in Serial
    /\ burned \subseteq Serial

\* At most one process is between acquireLock and the deferred releaseLock,
\* the flock is held for it, and no error path leaks the flock.
RefreshExclusive ==
    \A p \in Proc : pc[p] \in Critical <=> lock = p

\* Every content of auth.json, the visible one and each one a power loss may
\* bring back ("phantom rollback"), carries a refresh token the provider
\* accepts, unless its replacement is on its way to disk under the lock or was
\* lost by a crash, a failed save or a lost answer after the rotation.
CacheCurrent ==
    \A f \in recoverable \cup {disk} :
        \/ f.rt = 0
        \/ f.rt \in valid \cup burned
        \/ \E p \in Proc : InWindow(p) /\ f.rt = tok[p].rt

\* ensureFresh presents a refresh token only while auth.json still is the
\* expired file it re-read under the lock, so the loser of a race neither
\* replays a rotated token nor refreshes what the winner just refreshed.
RefreshesWhatItRead ==
    \A p \in Proc : pc[p] = "request" =>
        /\ tok[p] = disk
        /\ expired(disk)
        /\ disk.rt \in valid \cup burned

\* A refresh that was in flight never brings back an auth.json that logout
\* removed: only a completed device login, or the file system after a power
\* loss, makes the file reappear.
LogoutNotUndone ==
    [][(Missing(disk) /\ ~Missing(disk')) =>
          \/ \E p \in Proc : op[p] = "login" /\ pc[p] = "write"
          \/ disk' \in recoverable]_vars

\* Exit code 1 ("operator must log in again") is honest: when ensureFresh
\* reports it, the cache holds no token the provider would accept.
NotLoggedInIsHonest ==
    [][\A p \in Proc : (out[p] # "notLoggedIn" /\ out'[p] = "notLoggedIn")
            => disk.rt \notin valid]_vars

\* Every command ends, whatever the other processes do with the lock.
EveryCommandReturns ==
    \A p \in Proc : pc[p] # "idle" ~> pc[p] = "idle"
=============================================================================
