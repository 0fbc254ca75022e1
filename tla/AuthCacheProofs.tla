-------------------------- MODULE AuthCacheProofs --------------------------
(***************************************************************************)
(* Proofs about AuthCache, for any number of processes and of tokens.      *)
(*                                                                         *)
(* CacheCurrent and RefreshesWhatItRead are not inductive by themselves:   *)
(* that the file a lock holder read is still the file on disk, that tokens *)
(* on their way to disk are live and are nowhere else, and that serials do *)
(* not exceed the provider's counter have to be carried along.             *)
(***************************************************************************)
EXTENDS AuthCache, TLAPS

Contents == recoverable \cup {disk}

\* The process holds tokens that are not on disk yet.
Pending(p) ==
    \/ op[p] = "login" /\ pc[p] \in {"wait", "write"}
    \/ op[p] = "ensureFresh" /\ pc[p] \in {"reply", "write"}

\* Each control point belongs to certain commands.
CommandInv ==
    \A p \in Proc :
        /\ pc[p] \in {"load", "reload", "request", "reply"}
              => op[p] = "ensureFresh"
        /\ pc[p] = "device" => op[p] = "login"
        /\ pc[p] = "remove" => op[p] = "logout"
        /\ pc[p] \in {"write", "renamed"} => op[p] # "logout"

\* Between the read under the lock and the rename nobody changes the file.
ReadInv ==
    \A p \in Proc :
        (op[p] = "ensureFresh" /\ pc[p] \in {"request", "reply", "write"})
            => tok[p] = disk /\ Usable(disk)

\* Nothing on disk or on its way there is newer than the provider's counter,
\* and a file without an access token is no file.
SerialInv ==
    /\ \A f \in Contents : f.at <= issued /\ f.rt <= issued
    /\ \A f \in Contents : f.at = 0 => f.rt = 0
    /\ \A t \in valid : t <= issued /\ t # 0

\* Tokens on their way to disk are live and held by one process alone.
PendingInv ==
    \A p \in Proc : Pending(p) =>
        /\ got[p].at # 0 /\ got[p].at <= issued /\ got[p].rt <= issued
        /\ got[p].rt # 0 =>
              /\ got[p].rt \in valid
              /\ \A f \in Contents : f.rt # got[p].rt
              /\ \A q \in Proc : Pending(q) /\ q # p => got[q].rt # got[p].rt

\* An answer without a refresh token leaves the presented one valid; what has
\* been renamed into place is valid.
AnswerInv ==
    \A p \in Proc :
        /\ (op[p] = "ensureFresh" /\ pc[p] \in {"reply", "write"}
              /\ got[p].rt = 0) => tok[p].rt \in valid
        /\ pc[p] = "renamed" => disk.rt = 0 \/ disk.rt \in valid

IInv ==
    /\ TypeOK
    /\ RefreshExclusive
    /\ CommandInv
    /\ ReadInv
    /\ SerialInv
    /\ PendingInv
    /\ AnswerInv
    /\ CacheCurrent
    /\ RefreshesWhatItRead

-----------------------------------------------------------------------------
\* The end of a command that leaves cache and provider alone, whatever its
\* outcome, keeps the invariant if a token it may have lost counts as burned.
LEMMA FinishKeepsInv ==
    ASSUME IInv, NEW p \in Proc, NEW o \in Outcomes, Finish(p, o),
           UNCHANGED <<cacheVars, idpVars>>,
           burned \subseteq burned', burned' \subseteq Serial,
           InWindow(p) => tok[p].rt \in valid \cup burned'
    PROVE  IInv'
<1> USE ProcAssumption, BoundAssumption DEF IInv, Finish, releaseLock,
    cacheVars, idpVars
<1>1. TypeOK'
  BY DEF TypeOK, File, Reply, Serial, NoFile, NoReply, Points, Critical,
     Commands, Outcomes, SerialInv
<1>2. RefreshExclusive'
  BY DEF RefreshExclusive, TypeOK, Critical
<1>3. CommandInv'
  BY DEF CommandInv, TypeOK
<1>4. ReadInv'
  BY DEF ReadInv, TypeOK, RefreshExclusive, CommandInv, Usable, Critical
<1>5. SerialInv'
  BY DEF SerialInv, TypeOK, Contents, File, Reply, Serial, NoFile, PendingInv,
     Pending, ReadInv, Usable, CommandInv
<1>6. PendingInv'
  BY DEF PendingInv, TypeOK, Pending, Contents, RefreshExclusive, CommandInv,
     ReadInv, SerialInv, File, Reply, Serial, NoReply, Critical,
     RefreshesWhatItRead
<1>7. AnswerInv'
  BY DEF AnswerInv, TypeOK, RefreshExclusive, CommandInv, ReadInv, PendingInv,
     Pending, File, Reply, Serial, Critical, NoFile
<1>8. CacheCurrent'
  BY DEF CacheCurrent, TypeOK, InWindow, RefreshExclusive, CommandInv, ReadInv,
     PendingInv, AnswerInv, Pending, Contents, File, Reply, Serial, Critical,
     NoFile
<1>9. RefreshesWhatItRead'
  BY DEF RefreshesWhatItRead, TypeOK, RefreshExclusive, CommandInv, ReadInv,
     SerialInv, CacheCurrent, InWindow, Contents, File, Serial, Usable,
     expired, Critical
<1> QED
  BY <1>1, <1>2, <1>3, <1>4, <1>5, <1>6, <1>7, <1>8, <1>9

\* A command starts.
LEMMA StartKeepsInv ==
    ASSUME IInv, NEW p \in Proc, NEW c \in Commands, Start(p, c)
    PROVE  IInv'
<1> USE ProcAssumption, BoundAssumption DEF IInv, Start, cacheVars, idpVars,
    Commands
<1>1. TypeOK'
  BY DEF TypeOK, File, Reply, Serial, NoFile, NoReply, Points, Critical,
     Commands, Outcomes, SerialInv
<1>2. RefreshExclusive'
  BY DEF RefreshExclusive, TypeOK, Critical
<1>3. CommandInv'
  BY DEF CommandInv, TypeOK
<1>4. ReadInv'
  BY DEF ReadInv, TypeOK, RefreshExclusive, CommandInv, Usable, Critical
<1>5. SerialInv'
  BY DEF SerialInv, TypeOK, Contents, File, Reply, Serial, NoFile, PendingInv,
     Pending, ReadInv, Usable, CommandInv
<1>6. PendingInv'
  BY DEF PendingInv, TypeOK, Pending, Contents, RefreshExclusive, CommandInv,
     ReadInv, SerialInv, File, Reply, Serial, NoReply, Critical,
     RefreshesWhatItRead
<1>7. AnswerInv'
  BY DEF AnswerInv, TypeOK, RefreshExclusive, CommandInv, ReadInv, PendingInv,
     Pending, File, Reply, Serial, Critical, NoFile
<1>8. CacheCurrent'
  BY DEF CacheCurrent, TypeOK, InWindow, RefreshExclusive, CommandInv, ReadInv,
     PendingInv, AnswerInv, Pending, Contents, File, Reply, Serial, Critical,
     NoFile
<1>9. RefreshesWhatItRead'
  BY DEF RefreshesWhatItRead, TypeOK, RefreshExclusive, CommandInv, ReadInv,
     SerialInv, CacheCurrent, InWindow, Contents, File, Serial, Usable,
     expired, Critical
<1> QED
  BY <1>1, <1>2, <1>3, <1>4, <1>5, <1>6, <1>7, <1>8, <1>9

\* A process acquires the flock and becomes the only one in the critical part.
LEMMA LockKeepsInv ==
    ASSUME IInv, NEW p \in Proc, acquireLock(p)
    PROVE  IInv'
<1> USE ProcAssumption, BoundAssumption DEF IInv, acquireLock, AfterLock,
    cacheVars, idpVars, Commands
<1>1. TypeOK'
  BY DEF TypeOK, File, Reply, Serial, NoFile, NoReply, Points, Critical,
     Commands, Outcomes, SerialInv
<1>2. RefreshExclusive'
  BY DEF RefreshExclusive, TypeOK, Critical
<1>3. CommandInv'
  BY DEF CommandInv, TypeOK
<1>4. ReadInv'
  BY DEF ReadInv, TypeOK, RefreshExclusive, CommandInv, Usable, Critical
<1>5. SerialInv'
  BY DEF SerialInv, TypeOK, Contents, File, Reply, Serial, NoFile, PendingInv,
     Pending, ReadInv, Usable, CommandInv
<1>6. PendingInv'
  BY DEF PendingInv, TypeOK, Pending, Contents, RefreshExclusive, CommandInv,
     ReadInv, SerialInv, File, Reply, Serial, NoReply, Critical,
     RefreshesWhatItRead
<1>7. AnswerInv'
  BY DEF AnswerInv, TypeOK, RefreshExclusive, CommandInv, ReadInv, PendingInv,
     Pending, File, Reply, Serial, Critical, NoFile
<1>8. CacheCurrent'
  BY DEF CacheCurrent, TypeOK, InWindow, RefreshExclusive, CommandInv, ReadInv,
     PendingInv, AnswerInv, Pending, Contents, File, Reply, Serial, Critical,
     NoFile
<1>9. RefreshesWhatItRead'
  BY DEF RefreshesWhatItRead, TypeOK, RefreshExclusive, CommandInv, ReadInv,
     SerialInv, CacheCurrent, InWindow, Contents, File, Serial, Usable,
     expired, Critical
<1> QED
  BY <1>1, <1>2, <1>3, <1>4, <1>5, <1>6, <1>7, <1>8, <1>9

\* An expired file is read, before the lock or under it.
LEMMA ReadKeepsInv ==
    ASSUME IInv, NEW p \in Proc, NEW l \in {"wait", "request"},
           l = "wait" => pc[p] = "load",
           l = "request" => pc[p] = "reload",
           Usable(disk), expired(disk),
           pc' = [pc EXCEPT ![p] = l],
           tok' = [tok EXCEPT ![p] = disk],
           UNCHANGED <<cacheVars, idpVars, lock, op, got, out, burned>>
    PROVE  IInv'
<1> USE ProcAssumption, BoundAssumption DEF IInv, cacheVars, idpVars
<1>1. TypeOK'
  BY DEF TypeOK, File, Reply, Serial, NoFile, NoReply, Points, Critical,
     Commands, Outcomes, SerialInv
<1>2. RefreshExclusive'
  BY DEF RefreshExclusive, TypeOK, Critical
<1>3. CommandInv'
  BY DEF CommandInv, TypeOK
<1>4. ReadInv'
  BY DEF ReadInv, TypeOK, RefreshExclusive, CommandInv, Usable, Critical
<1>5. SerialInv'
  BY DEF SerialInv, TypeOK, Contents, File, Reply, Serial, NoFile, PendingInv,
     Pending, ReadInv, Usable, CommandInv
<1>6. PendingInv'
  BY DEF PendingInv, TypeOK, Pending, Contents, RefreshExclusive, CommandInv,
     ReadInv, SerialInv, File, Reply, Serial, NoReply, Critical,
     RefreshesWhatItRead
<1>7. AnswerInv'
  BY DEF AnswerInv, TypeOK, RefreshExclusive, CommandInv, ReadInv, PendingInv,
     Pending, File, Reply, Serial, Critical, NoFile
<1>8. CacheCurrent'
  BY DEF CacheCurrent, TypeOK, InWindow, RefreshExclusive, CommandInv, ReadInv,
     PendingInv, AnswerInv, Pending, Contents, File, Reply, Serial, Critical,
     NoFile
<1>9. RefreshesWhatItRead'
  BY DEF RefreshesWhatItRead, TypeOK, RefreshExclusive, CommandInv, ReadInv,
     SerialInv, CacheCurrent, InWindow, Contents, File, Serial, Usable,
     expired, Critical
<1> QED
  BY <1>1, <1>2, <1>3, <1>4, <1>5, <1>6, <1>7, <1>8, <1>9

\* The provider answers: the presented token enters the window.
LEMMA IdPRefreshKeepsInv ==
    ASSUME IInv, NEW p \in Proc, NEW rotates \in BOOLEAN,
       NEW expiry \in BOOLEAN,
           IdPRefresh(p, rotates, expiry)
    PROVE  IInv'
<1> USE ProcAssumption, BoundAssumption DEF IInv, IdPRefresh, cacheVars
<1>0. issued' \in Serial /\ got'[p] \in Reply /\ got' \in [Proc -> Reply]
  BY DEF TypeOK, Reply, Serial
<1>1. TypeOK'
  BY <1>0 DEF TypeOK, Serial, Points, Critical
<1>2. RefreshExclusive'
  BY DEF RefreshExclusive, TypeOK, Critical
<1>3. CommandInv'
  BY DEF CommandInv, TypeOK
<1>4. ReadInv'
  BY DEF ReadInv, TypeOK, RefreshExclusive, CommandInv, Usable, Critical
<1>5. SerialInv'
  BY DEF SerialInv, TypeOK, Contents, File, Reply, Serial, NoFile, PendingInv,
     Pending, ReadInv, Usable, CommandInv
<1>6. PendingInv'
  BY DEF PendingInv, TypeOK, Pending, Contents, RefreshExclusive, CommandInv,
     ReadInv, SerialInv, File, Reply, Serial, NoReply, Critical,
     RefreshesWhatItRead
<1>7. AnswerInv'
  BY DEF AnswerInv, TypeOK, RefreshExclusive, CommandInv, ReadInv, PendingInv,
     Pending, File, Reply, Serial, Critical, NoFile
<1>8. CacheCurrent'
  BY DEF CacheCurrent, TypeOK, InWindow, RefreshExclusive, CommandInv, ReadInv,
     PendingInv, AnswerInv, Pending, Contents, File, Reply, Serial, Critical,
     NoFile
<1>9. RefreshesWhatItRead'
  BY DEF RefreshesWhatItRead, TypeOK, RefreshExclusive, CommandInv, ReadInv,
     SerialInv, CacheCurrent, InWindow, Contents, File, Serial, Usable,
     expired, Critical
<1> QED
  BY <1>1, <1>2, <1>3, <1>4, <1>5, <1>6, <1>7, <1>8, <1>9

\* The answer arrives.
LEMMA ReceiveKeepsInv ==
    ASSUME IInv, NEW p \in Proc, ReceiveReply(p)
    PROVE  IInv'
<1> USE ProcAssumption, BoundAssumption DEF IInv, ReceiveReply, Goto,
    cacheVars, idpVars
<1>1. TypeOK'
  BY DEF TypeOK, File, Reply, Serial, NoFile, NoReply, Points, Critical,
     Commands, Outcomes, SerialInv
<1>2. RefreshExclusive'
  BY DEF RefreshExclusive, TypeOK, Critical
<1>3. CommandInv'
  BY DEF CommandInv, TypeOK
<1>4. ReadInv'
  BY DEF ReadInv, TypeOK, RefreshExclusive, CommandInv, Usable, Critical
<1>5. SerialInv'
  BY DEF SerialInv, TypeOK, Contents, File, Reply, Serial, NoFile, PendingInv,
     Pending, ReadInv, Usable, CommandInv
<1>6. PendingInv'
  BY DEF PendingInv, TypeOK, Pending, Contents, RefreshExclusive, CommandInv,
     ReadInv, SerialInv, File, Reply, Serial, NoReply, Critical,
     RefreshesWhatItRead
<1>7. AnswerInv'
  BY DEF AnswerInv, TypeOK, RefreshExclusive, CommandInv, ReadInv, PendingInv,
     Pending, File, Reply, Serial, Critical, NoFile
<1>8. CacheCurrent'
  BY DEF CacheCurrent, TypeOK, InWindow, RefreshExclusive, CommandInv, ReadInv,
     PendingInv, AnswerInv, Pending, Contents, File, Reply, Serial, Critical,
     NoFile
<1>9. RefreshesWhatItRead'
  BY DEF RefreshesWhatItRead, TypeOK, RefreshExclusive, CommandInv, ReadInv,
     SerialInv, CacheCurrent, InWindow, Contents, File, Serial, Usable,
     expired, Critical
<1> QED
  BY <1>1, <1>2, <1>3, <1>4, <1>5, <1>6, <1>7, <1>8, <1>9

\* The new file becomes visible.
LEMMA RenameKeepsInv ==
    ASSUME IInv, NEW p \in Proc, Rename(p)
    PROVE  IInv'
<1> USE ProcAssumption, BoundAssumption DEF IInv, Rename, Goto, idpVars
<1>0. PICK r \in Serial :
         /\ disk' = [at |-> got[p].at, rt |-> r]
         /\ r = got[p].rt \/ (op[p] = "ensureFresh" /\ got[p].rt = 0
                              /\ r = tok[p].rt)
  <2>1. CASE op[p] = "login"
    BY <2>1 DEF ToSave, TypeOK, Reply
  <2>2. CASE op[p] # "login"
    BY <2>2 DEF ToSave, applyRefreshedToken, TypeOK, File, Reply, CommandInv,
       Commands
  <2> QED
    BY <2>1, <2>2
<1>a. Pending(p) /\ got[p].at \in Serial
  BY DEF Pending, CommandInv, TypeOK, Commands, Reply
<1>1. TypeOK'
  BY <1>0, <1>a DEF TypeOK, File, Reply, Serial, NoFile, NoReply, Points,
     Critical, Commands, Outcomes, SerialInv
<1>2. RefreshExclusive'
  BY <1>0, <1>a DEF RefreshExclusive, TypeOK, Critical
<1>3. CommandInv'
  BY <1>0, <1>a DEF CommandInv, TypeOK
<1>4. ReadInv'
  BY <1>0, <1>a DEF ReadInv, TypeOK, RefreshExclusive, CommandInv, Usable,
     Critical
<1>5. SerialInv'
  BY <1>0, <1>a DEF SerialInv, TypeOK, Contents, File, Reply, Serial, NoFile,
     PendingInv, Pending, ReadInv, Usable, CommandInv
<1>6. PendingInv'
  BY <1>0, <1>a DEF PendingInv, TypeOK, Pending, Contents, RefreshExclusive,
     CommandInv, ReadInv, SerialInv, File, Reply, Serial, NoReply, Critical,
     RefreshesWhatItRead
<1>7. AnswerInv'
  BY <1>0, <1>a DEF AnswerInv, TypeOK, RefreshExclusive, CommandInv, ReadInv,
     PendingInv, Pending, File, Reply, Serial, Critical, NoFile
<1>8. CacheCurrent'
  BY <1>0, <1>a DEF CacheCurrent, TypeOK, InWindow, RefreshExclusive,
     CommandInv, ReadInv, PendingInv, AnswerInv, Pending, Contents, File,
     Reply, Serial, Critical, NoFile
<1>9. RefreshesWhatItRead'
  BY <1>0, <1>a DEF RefreshesWhatItRead, TypeOK, RefreshExclusive, CommandInv,
     ReadInv, SerialInv, CacheCurrent, InWindow, Contents, File, Serial,
     Usable, expired, Critical
<1> QED
  BY <1>1, <1>2, <1>3, <1>4, <1>5, <1>6, <1>7, <1>8, <1>9

\* The new file becomes durable and the window closes.
LEMMA DirSyncKeepsInv ==
    ASSUME IInv, NEW p \in Proc, DirSync(p)
    PROVE  IInv'
<1> USE ProcAssumption, BoundAssumption DEF IInv, DirSync, Finish, releaseLock,
    idpVars
<1>1. TypeOK'
  BY DEF TypeOK, File, Reply, Serial, NoFile, NoReply, Points, Critical,
     Commands, Outcomes, SerialInv
<1>2. RefreshExclusive'
  BY DEF RefreshExclusive, TypeOK, Critical
<1>3. CommandInv'
  BY DEF CommandInv, TypeOK
<1>4. ReadInv'
  BY DEF ReadInv, TypeOK, RefreshExclusive, CommandInv, Usable, Critical
<1>5. SerialInv'
  BY DEF SerialInv, TypeOK, Contents, File, Reply, Serial, NoFile, PendingInv,
     Pending, ReadInv, Usable, CommandInv
<1>6. PendingInv'
  BY DEF PendingInv, TypeOK, Pending, Contents, RefreshExclusive, CommandInv,
     ReadInv, SerialInv, File, Reply, Serial, NoReply, Critical,
     RefreshesWhatItRead
<1>7. AnswerInv'
  BY DEF AnswerInv, TypeOK, RefreshExclusive, CommandInv, ReadInv, PendingInv,
     Pending, File, Reply, Serial, Critical, NoFile
<1>8. CacheCurrent'
  BY DEF CacheCurrent, TypeOK, InWindow, RefreshExclusive, CommandInv, ReadInv,
     PendingInv, AnswerInv, Pending, Contents, File, Reply, Serial, Critical,
     NoFile
<1>9. RefreshesWhatItRead'
  BY DEF RefreshesWhatItRead, TypeOK, RefreshExclusive, CommandInv, ReadInv,
     SerialInv, CacheCurrent, InWindow, Contents, File, Serial, Usable,
     expired, Critical
<1> QED
  BY <1>1, <1>2, <1>3, <1>4, <1>5, <1>6, <1>7, <1>8, <1>9

\* A device login obtains tokens.
LEMMA DeviceKeepsInv ==
    ASSUME IInv, NEW p \in Proc, NEW offline \in BOOLEAN,
           DeviceAccessToken(p, offline)
    PROVE  IInv'
<1> USE ProcAssumption, BoundAssumption DEF IInv, DeviceAccessToken, cacheVars
<1>1. TypeOK'
  BY DEF TypeOK, File, Reply, Serial, NoFile, NoReply, Points, Critical,
     Commands, Outcomes, SerialInv
<1>2. RefreshExclusive'
  BY DEF RefreshExclusive, TypeOK, Critical
<1>3. CommandInv'
  BY DEF CommandInv, TypeOK
<1>4. ReadInv'
  BY DEF ReadInv, TypeOK, RefreshExclusive, CommandInv, Usable, Critical
<1>5. SerialInv'
  BY DEF SerialInv, TypeOK, Contents, File, Reply, Serial, NoFile, PendingInv,
     Pending, ReadInv, Usable, CommandInv
<1>6. PendingInv'
  BY DEF PendingInv, TypeOK, Pending, Contents, RefreshExclusive, CommandInv,
     ReadInv, SerialInv, File, Reply, Serial, NoReply, Critical,
     RefreshesWhatItRead
<1>7. AnswerInv'
  BY DEF AnswerInv, TypeOK, RefreshExclusive, CommandInv, ReadInv, PendingInv,
     Pending, File, Reply, Serial, Critical, NoFile
<1>8. CacheCurrent'
  BY DEF CacheCurrent, TypeOK, InWindow, RefreshExclusive, CommandInv, ReadInv,
     PendingInv, AnswerInv, Pending, Contents, File, Reply, Serial, Critical,
     NoFile
<1>9. RefreshesWhatItRead'
  BY DEF RefreshesWhatItRead, TypeOK, RefreshExclusive, CommandInv, ReadInv,
     SerialInv, CacheCurrent, InWindow, Contents, File, Serial, Usable,
     expired, Critical
<1> QED
  BY <1>1, <1>2, <1>3, <1>4, <1>5, <1>6, <1>7, <1>8, <1>9

\* Logout removes the file.
LEMMA LogoutKeepsInv ==
    ASSUME IInv, NEW p \in Proc, deleteTokens(p)
    PROVE  IInv'
<1> USE ProcAssumption, BoundAssumption DEF IInv, deleteTokens, Finish,
    releaseLock, idpVars, NoFile
<1>1. TypeOK'
  BY DEF TypeOK, File, Reply, Serial, NoFile, NoReply, Points, Critical,
     Commands, Outcomes, SerialInv
<1>2. RefreshExclusive'
  BY DEF RefreshExclusive, TypeOK, Critical
<1>3. CommandInv'
  BY DEF CommandInv, TypeOK
<1>4. ReadInv'
  BY DEF ReadInv, TypeOK, RefreshExclusive, CommandInv, Usable, Critical
<1>5. SerialInv'
  BY DEF SerialInv, TypeOK, Contents, File, Reply, Serial, NoFile, PendingInv,
     Pending, ReadInv, Usable, CommandInv
<1>6. PendingInv'
  BY DEF PendingInv, TypeOK, Pending, Contents, RefreshExclusive, CommandInv,
     ReadInv, SerialInv, File, Reply, Serial, NoReply, Critical,
     RefreshesWhatItRead
<1>7. AnswerInv'
  BY DEF AnswerInv, TypeOK, RefreshExclusive, CommandInv, ReadInv, PendingInv,
     Pending, File, Reply, Serial, Critical, NoFile
<1>8. CacheCurrent'
  BY DEF CacheCurrent, TypeOK, InWindow, RefreshExclusive, CommandInv, ReadInv,
     PendingInv, AnswerInv, Pending, Contents, File, Reply, Serial, Critical,
     NoFile
<1>9. RefreshesWhatItRead'
  BY DEF RefreshesWhatItRead, TypeOK, RefreshExclusive, CommandInv, ReadInv,
     SerialInv, CacheCurrent, InWindow, Contents, File, Serial, Usable,
     expired, Critical
<1> QED
  BY <1>1, <1>2, <1>3, <1>4, <1>5, <1>6, <1>7, <1>8, <1>9

\* An access token expires.
LEMMA ExpireKeepsInv ==
    ASSUME IInv, NEW n \in Serial, Expire(n)
    PROVE  IInv'
<1> USE ProcAssumption, BoundAssumption DEF IInv, Expire, cacheVars
<1>1. TypeOK'
  BY DEF TypeOK, File, Reply, Serial, NoFile, NoReply, Points, Critical,
     Commands, Outcomes, SerialInv
<1>2. RefreshExclusive'
  BY DEF RefreshExclusive, TypeOK, Critical
<1>3. CommandInv'
  BY DEF CommandInv, TypeOK
<1>4. ReadInv'
  BY DEF ReadInv, TypeOK, RefreshExclusive, CommandInv, Usable, Critical
<1>5. SerialInv'
  BY DEF SerialInv, TypeOK, Contents, File, Reply, Serial, NoFile, PendingInv,
     Pending, ReadInv, Usable, CommandInv
<1>6. PendingInv'
  BY DEF PendingInv, TypeOK, Pending, Contents, RefreshExclusive, CommandInv,
     ReadInv, SerialInv, File, Reply, Serial, NoReply, Critical,
     RefreshesWhatItRead
<1>7. AnswerInv'
  BY DEF AnswerInv, TypeOK, RefreshExclusive, CommandInv, ReadInv, PendingInv,
     Pending, File, Reply, Serial, Critical, NoFile
<1>8. CacheCurrent'
  BY DEF CacheCurrent, TypeOK, InWindow, RefreshExclusive, CommandInv, ReadInv,
     PendingInv, AnswerInv, Pending, Contents, File, Reply, Serial, Critical,
     NoFile
<1>9. RefreshesWhatItRead'
  BY DEF RefreshesWhatItRead, TypeOK, RefreshExclusive, CommandInv, ReadInv,
     SerialInv, CacheCurrent, InWindow, Contents, File, Serial, Usable,
     expired, Critical
<1> QED
  BY <1>1, <1>2, <1>3, <1>4, <1>5, <1>6, <1>7, <1>8, <1>9

\* All processes stop and an unsynced rename may be rolled back.
LEMMA PowerLossKeepsInv ==
    ASSUME IInv, PowerLoss
    PROVE  IInv'
<1> USE ProcAssumption, BoundAssumption DEF IInv, PowerLoss, Lose, idpVars
<1>1. TypeOK'
  <2>1. disk' \in File /\ recoverable' \subseteq File
    BY DEF TypeOK
  <2>2. /\ pc' \in [Proc -> Points] /\ out' \in [Proc -> Outcomes]
        /\ tok' \in [Proc -> File] /\ got' \in [Proc -> Reply]
    BY DEF Points, Outcomes, File, Reply, Serial, NoFile, NoReply
  <2>3. burned' \subseteq Serial
    BY DEF TypeOK
  <2> QED
    BY <2>1, <2>2, <2>3 DEF TypeOK
<1>2. RefreshExclusive'
  BY DEF RefreshExclusive, TypeOK, Critical
<1>3. CommandInv'
  BY DEF CommandInv, TypeOK
<1>4. ReadInv'
  BY DEF ReadInv, TypeOK, RefreshExclusive, CommandInv, Usable, Critical
<1>5. SerialInv'
  BY DEF SerialInv, TypeOK, Contents, File, Reply, Serial, NoFile, PendingInv,
     Pending, ReadInv, Usable, CommandInv
<1>6. PendingInv'
  BY DEF PendingInv, TypeOK, Pending, Contents, RefreshExclusive, CommandInv,
     ReadInv, SerialInv, File, Reply, Serial, NoReply, Critical,
     RefreshesWhatItRead
<1>7. AnswerInv'
  BY DEF AnswerInv, TypeOK, RefreshExclusive, CommandInv, ReadInv, PendingInv,
     Pending, File, Reply, Serial, Critical, NoFile
<1>8. CacheCurrent'
  BY DEF CacheCurrent, TypeOK, InWindow, RefreshExclusive, CommandInv, ReadInv,
     PendingInv, AnswerInv, Pending, Contents, File, Reply, Serial, Critical,
     NoFile
<1>9. RefreshesWhatItRead'
  BY DEF RefreshesWhatItRead, TypeOK, RefreshExclusive, CommandInv, ReadInv,
     SerialInv, CacheCurrent, InWindow, Contents, File, Serial, Usable,
     expired, Critical
<1> QED
  BY <1>1, <1>2, <1>3, <1>4, <1>5, <1>6, <1>7, <1>8, <1>9

-----------------------------------------------------------------------------
\* What Lose records satisfies the hypotheses of FinishKeepsInv.
LEMMA LoseRecords ==
    ASSUME TypeOK, NEW p \in Proc, Lose({p})
    PROVE  /\ burned \subseteq burned' /\ burned' \subseteq Serial
           /\ InWindow(p) => tok[p].rt \in valid \cup burned'
BY DEF TypeOK, Lose, File

\* Without a file and without commands the invariant holds.
LEMMA InitInv == Init => IInv
<1> SUFFICES ASSUME Init PROVE IInv
  OBVIOUS
<1> USE ProcAssumption, BoundAssumption DEF Init, NoFile, NoReply
<1>1. TypeOK
  BY DEF TypeOK, File, Reply, Serial, Points, Commands, Outcomes
<1>2. RefreshExclusive
  BY DEF RefreshExclusive, Critical
<1>3. CommandInv /\ ReadInv
  BY DEF CommandInv, ReadInv
<1>4. SerialInv
  BY DEF SerialInv, Contents
<1>5. PendingInv /\ AnswerInv
  BY DEF PendingInv, Pending, AnswerInv
<1>6. CacheCurrent /\ RefreshesWhatItRead
  BY DEF CacheCurrent, RefreshesWhatItRead
<1> QED
  BY <1>1, <1>2, <1>3, <1>4, <1>5, <1>6 DEF IInv

\* Every step of a command of kfactory keeps the invariant.
LEMMA StepKeepsInv ==
    ASSUME IInv, NEW p \in Proc, Step(p)
    PROVE  IInv'
<1>0. TypeOK /\ burned \subseteq Serial
  BY DEF IInv, TypeOK
<1> USE DEF Outcomes
<1>1. CASE Load(p)
  <2>1. ASSUME NEW o \in Outcomes, Finish(p, o) PROVE IInv'
    BY <1>0, <1>1, <2>1, FinishKeepsInv DEF Load, InWindow
  <2>2. CASE /\ Usable(disk) /\ expired(disk)
             /\ pc' = [pc EXCEPT ![p] = "wait"]
             /\ tok' = [tok EXCEPT ![p] = disk]
             /\ UNCHANGED <<lock, op, got, out>>
    BY <1>1, <2>2, ReadKeepsInv DEF Load
  <2> QED
    BY <1>1, <2>1, <2>2 DEF Load, loadTokens
<1>2. CASE acquireLock(p)
  BY <1>2, LockKeepsInv
<1>3. CASE acquireLockTimeout(p)
  BY <1>0, <1>3, FinishKeepsInv DEF acquireLockTimeout, InWindow
<1>4. CASE Reload(p)
  <2>1. ASSUME NEW o \in Outcomes, Finish(p, o) PROVE IInv'
    BY <1>0, <1>4, <2>1, FinishKeepsInv DEF Reload, InWindow
  <2>2. CASE /\ Usable(disk) /\ expired(disk)
             /\ pc' = [pc EXCEPT ![p] = "request"]
             /\ tok' = [tok EXCEPT ![p] = disk]
             /\ UNCHANGED <<lock, op, got, out>>
    BY <1>4, <2>2, ReadKeepsInv DEF Reload
  <2> QED
    BY <1>4, <2>1, <2>2 DEF Reload, loadTokens
<1>5. CASE \E rotates, expiry \in BOOLEAN : IdPRefresh(p, rotates, expiry)
  BY <1>5, IdPRefreshKeepsInv
<1>6. CASE RefreshRejected(p)
  BY <1>0, <1>6, FinishKeepsInv DEF RefreshRejected, InWindow
<1>7. CASE RefreshFails(p)
  BY <1>0, <1>7, FinishKeepsInv DEF RefreshFails, InWindow
<1>8. CASE ReplyLost(p)
  BY <1>0, <1>8, LoseRecords, FinishKeepsInv DEF ReplyLost
<1>9. CASE ReplyUnusable(p)
  BY <1>0, <1>9, LoseRecords, FinishKeepsInv DEF ReplyUnusable
<1>10. CASE ReceiveReply(p)
  BY <1>10, ReceiveKeepsInv
<1>11. CASE Rename(p)
  BY <1>11, RenameKeepsInv
<1>12. CASE SaveFails(p)
  BY <1>0, <1>12, LoseRecords, FinishKeepsInv DEF SaveFails
<1>13. CASE DirSync(p)
  BY <1>13, DirSyncKeepsInv
<1>14. CASE DirSyncFails(p)
  BY <1>0, <1>14, LoseRecords, FinishKeepsInv DEF DirSyncFails
<1>15. CASE \E offline \in BOOLEAN : DeviceAccessToken(p, offline)
  BY <1>15, DeviceKeepsInv
<1>16. CASE LoginFails(p)
  BY <1>0, <1>16, FinishKeepsInv DEF LoginFails, InWindow
<1>17. CASE deleteTokens(p)
  BY <1>17, LogoutKeepsInv
<1>18. CASE deleteTokensFails(p)
  BY <1>0, <1>18, FinishKeepsInv DEF deleteTokensFails, InWindow
<1> QED
  BY <1>1, <1>2, <1>3, <1>4, <1>5, <1>6, <1>7, <1>8, <1>9, <1>10, <1>11,
     <1>12, <1>13, <1>14, <1>15, <1>16, <1>17, <1>18 DEF Step

\* So does every start, crash, expiry and power loss.
LEMMA NextInv == IInv /\ [Next]_vars => IInv'
<1> SUFFICES ASSUME IInv, [Next]_vars PROVE IInv'
  OBVIOUS
<1>1. ASSUME NEW p \in Proc, Step(p) PROVE IInv'
  BY <1>1, StepKeepsInv
<1>2. ASSUME NEW p \in Proc, NEW c \in Commands, Start(p, c) PROVE IInv'
  BY <1>2, StartKeepsInv
<1>3. ASSUME NEW p \in Proc, Crash(p) PROVE IInv'
  <2>1. TypeOK /\ "none" \in Outcomes
    BY DEF IInv, Outcomes
  <2> QED
    BY <1>3, <2>1, LoseRecords, FinishKeepsInv DEF Crash
<1>4. ASSUME NEW n \in Serial, Expire(n) PROVE IInv'
  BY <1>4, ExpireKeepsInv
<1>5. CASE PowerLoss
  BY <1>5, PowerLossKeepsInv
<1>6. CASE UNCHANGED vars
  BY <1>6 DEF IInv, vars, TypeOK, RefreshExclusive, CommandInv, ReadInv,
     SerialInv, Contents, PendingInv, Pending, AnswerInv, CacheCurrent,
     InWindow, RefreshesWhatItRead, Usable, expired
<1> QED
  BY <1>1, <1>2, <1>3, <1>4, <1>5, <1>6 DEF Next

\* The inductive invariant holds in every behaviour of the cache.
LEMMA Invariance == Spec => []IInv
BY InitInv, NextInv, PTL DEF Spec

-----------------------------------------------------------------------------
\* The variables keep their types in every behaviour of the cache.
THEOREM TypeCorrect == Spec => []TypeOK
<1>1. IInv => TypeOK
  BY DEF IInv
<1> QED
  BY <1>1, Invariance, PTL

\* The flock serialises refresh, login and logout for any number of
\* processes: one process at a time is in the critical part of ensureFresh,
\* saveTokens or deleteTokens, and every exit from it gives the lock back.
THEOREM MutualExclusion == Spec => []RefreshExclusive
<1>1. IInv => RefreshExclusive
  BY DEF IInv
<1> QED
  BY <1>1, Invariance, PTL

\* auth.json, as seen now and as a power loss may bring it back, carries a
\* live refresh token unless a rotation under the lock is not finished yet or
\* was cut off before its result was durable.
THEOREM CacheStaysCurrent == Spec => []CacheCurrent
<1>1. IInv => CacheCurrent
  BY DEF IInv
<1> QED
  BY <1>1, Invariance, PTL

\* Lock-then-re-read: nobody presents a token that another process has rotated
\* away, and nobody refreshes a file that another process just refreshed.
THEOREM NoReplay == Spec => []RefreshesWhatItRead
<1>1. IInv => RefreshesWhatItRead
  BY DEF IInv
<1> QED
  BY <1>1, Invariance, PTL

-----------------------------------------------------------------------------
\* Only Rename, logout and a power loss touch the file.
LEMMA DiskWriters ==
    ASSUME Next
    PROVE  \/ disk' = disk
           \/ disk' = NoFile
           \/ disk' \in recoverable
           \/ \E p \in Proc : Rename(p)
<1>1. ASSUME NEW p \in Proc, Step(p), ~ Rename(p)
      PROVE  disk' = disk \/ disk' = NoFile
  BY <1>1 DEF Step, Load, acquireLock, acquireLockTimeout, Reload, IdPRefresh,
     RefreshRejected, RefreshFails, ReplyLost, ReplyUnusable, ReceiveReply,
     SaveFails, DirSync, DirSyncFails, DeviceAccessToken, LoginFails,
     deleteTokens, deleteTokensFails, cacheVars
<1> QED
  BY <1>1 DEF Next, Start, Crash, Expire, PowerLoss, cacheVars

\* Logout wins against every refresh that is in flight: a refresh holds the
\* lock from its second read to its rename, so it never recreates the file.
THEOREM LogoutIsFinal == Spec => LogoutNotUndone
<1> DEFINE A == (Missing(disk) /\ ~Missing(disk')) =>
          \/ \E p \in Proc : op[p] = "login" /\ pc[p] = "write"
          \/ disk' \in recoverable
<1>1. IInv /\ [Next]_vars => [A]_vars
  <2> SUFFICES ASSUME IInv, Next, Missing(disk), ~Missing(disk')
               PROVE  \/ \E p \in Proc : op[p] = "login" /\ pc[p] = "write"
                      \/ disk' \in recoverable
    OBVIOUS
  <2>1. disk' # disk /\ disk' # NoFile
    BY DEF Missing, NoFile
  <2>2. ASSUME NEW p \in Proc, Rename(p)
        PROVE  op[p] = "login" /\ pc[p] = "write"
    <3>1. pc[p] = "write" /\ op[p] # "logout" /\ op[p] # "ensureFresh"
      BY <2>2 DEF Rename, IInv, CommandInv, ReadInv, Usable, Missing
    <3> QED
      BY <3>1 DEF IInv, TypeOK, Commands
  <2> QED
    BY <2>1, <2>2, DiskWriters
<1> QED
  BY <1>1, Invariance, PTL DEF Spec, LogoutNotUndone

\* Exit code 1 is only ever reported when no live token is cached, for any
\* number of processes racing on the refresh.
THEOREM NotLoggedInHonest == Spec => NotLoggedInIsHonest
<1> DEFINE A == \A p \in Proc :
                  (out[p] # "notLoggedIn" /\ out'[p] = "notLoggedIn")
                     => disk.rt \notin valid
<1>1. IInv /\ [Next]_vars => [A]_vars
  <2> SUFFICES ASSUME IInv, Next, NEW q \in Proc,
                      out[q] # "notLoggedIn", out'[q] = "notLoggedIn"
               PROVE  disk.rt \notin valid
    OBVIOUS
  <2>0. out \in [Proc -> Outcomes] /\ 0 \notin valid
    BY DEF IInv, TypeOK, SerialInv
  <2>1. ASSUME Missing(disk) PROVE disk.rt \notin valid
    <3>1. disk.at = 0 => disk.rt = 0
      BY DEF IInv, SerialInv, Contents
    <3> QED
      BY <2>0, <2>1, <3>1 DEF Missing
  <2>2. ASSUME NEW p \in Proc, RefreshRejected(p) PROVE disk.rt \notin valid
    BY <2>2 DEF RefreshRejected, IInv, RefreshesWhatItRead
  <2>3. ASSUME NEW p \in Proc, NEW o \in Outcomes \ {"notLoggedIn"},
               Finish(p, o)
        PROVE  FALSE
    BY <2>0, <2>3 DEF Finish
  <2>4. ASSUME NEW p \in Proc, NEW l, loadTokens(p, l)
        PROVE  Missing(disk)
    BY <2>3, <2>4 DEF loadTokens, Outcomes
  <2>5. ASSUME NEW p \in Proc, Step(p) PROVE disk.rt \notin valid
    <3>1. CASE Load(p) \/ Reload(p)
      BY <2>1, <2>4, <3>1 DEF Load, Reload
    <3>2. CASE RefreshRejected(p)
      BY <2>2, <3>2
    <3>3. CASE \E o \in Outcomes \ {"notLoggedIn"} : Finish(p, o)
      BY <2>3, <3>3
    <3>4. CASE out' = out
      BY <3>4
    <3> QED
      BY <2>5, <3>1, <3>2, <3>3, <3>4 DEF Step, acquireLock,
         acquireLockTimeout, IdPRefresh, RefreshFails, ReplyLost,
         ReplyUnusable, ReceiveReply, Goto, Rename, SaveFails, DirSync,
         DirSyncFails, DeviceAccessToken, LoginFails, deleteTokens,
         deleteTokensFails, Outcomes
  <2>6. ASSUME NEW p \in Proc, NEW c \in Commands, Start(p, c) PROVE FALSE
    BY <2>0, <2>6 DEF Start
  <2>7. ASSUME NEW p \in Proc, Crash(p) PROVE FALSE
    BY <2>3, <2>7 DEF Crash, Outcomes
  <2>8. ASSUME NEW n \in Serial, Expire(n) PROVE FALSE
    BY <2>8 DEF Expire
  <2>9. CASE PowerLoss
    BY <2>9 DEF PowerLoss
  <2> QED
    BY <2>5, <2>6, <2>7, <2>8, <2>9 DEF Next
<1> QED
  BY <1>1, Invariance, PTL DEF Spec, NotLoggedInIsHonest
=============================================================================
