----------------------------- MODULE NtfyProofs -----------------------------
(***************************************************************************)
(* Proofs about Ntfy, for any sessions, branches, configuration files and  *)
(* number of events.                                                       *)
(***************************************************************************)
EXTENDS Ntfy, NatLemmas, SequenceTheorems, TLAPS

\* Nothing happens before the configuration was read and found sound.
StatusInv ==
    /\ file \in ConfigFile
    /\ status = "active" => loadConfig(file).is = "ok"
    /\ (arrived # 0 \/ cached # Undefined \/ pending # "none" \/ told # <<>>)
          => status = "active"

\* The life of a handler: which answers it can hold at each await, and that
\* only a scheduled one was sent.
HandlerInv ==
    \A n \in Num :
        /\ hnd[n].pc = "free" <=> n > arrived
        /\ hnd[n].pc # "free" =>
              hnd[n].s \in Session /\ hnd[n].e \in NOTIFICATION_EVENTS
        /\ n \in sent => hnd[n].pc = "scheduled"
        /\ hnd[n].pc = "pty" => hnd[n].e = "session.idle"

DisposeInv == disposed => \A k \in Key : timers[k] = 0

\* Past its first gate a handler has an event that is on; a scheduled one was
\* sent at once or put behind the timer as the event's delay says.
ConfigInv ==
    \A n \in Num :
        /\ hnd[n].pc \in {"subagent", "pty", "scheduled"} =>
              config.enabled /\ config.events[hnd[n].e].enabled
        /\ hnd[n].pc = "scheduled" /\ config.events[hnd[n].e].notifyAfterMs <= 0 =>
              n \in sent /\ timers[KeyOf(n)] # n

IInv1 == TypeOK /\ StatusInv /\ HandlerInv /\ DisposeInv

\* A session taken for a root is one, or was misread: in the cache, in the
\* answer a handler holds from it, and past the gate.
SubagentInv ==
    /\ \A s \in Sub : kinds[s] = "root" => s \in misread
    /\ \A n \in Num : hnd[n].s \in Sub =>
          \/ hnd[n].s \in misread
          \/ hnd[n].pc \in {"free", "waiting", "branch", "dropped"}
          \/ hnd[n].pc = "subagent" /\ hnd[n].ans \in {"unknown", "subagent"}

\* A handler is in quiet as soon as its session is seen without a pending PTY.
QuietInv ==
    \A n \in Num :
        /\ hnd[n].pc # "free" /\ hnd[n].s \notin ptys => n \in quiet
        /\ hnd[n].pc = "pty" /\ hnd[n].ans \notin {"none", "pending", "unknown"} => n \in quiet
        /\ hnd[n].pc = "scheduled" /\ hnd[n].e = "session.idle" => n \in quiet

\* The last update to deliver is about the branch of the workspace; a refresh
\* that no update has overtaken has read that branch.
LabelInv ==
    ~disposed =>
        /\ told # <<>> => told[Len(told)] = branch
        /\ told = <<>> /\ cached = Undefined /\ pending \notin {"none", "asked"} =>
              pending = normalizeBranch(branch)
        /\ told = <<>> /\ cached # Undefined /\ ~suspect => cached = normalizeBranch(branch)

\* What the proofs about handlers use of the constants.
LEMMA Constants ==
    /\ MaxEvents \in Nat /\ MaxChanges \in Nat
    /\ Sub \subseteq Session
    /\ "none" \notin Session
BY NtfyAssumption

USE Constants DEF Num


-----------------------------------------------------------------------------
\* The parts of the invariant that a step leaves alone.
LEMMA Frame ==
    /\ PluginType /\ UNCHANGED <<status, disposed, cached, pending, kinds>> => PluginType'
    /\ HandlersType /\ UNCHANGED <<hnd, arrived, sent>> => HandlersType'
    /\ TimersType /\ UNCHANGED <<timers, hnd>> => TimersType'
    /\ ServerType /\ UNCHANGED <<branch, told, ptys, changes>> => ServerType'
    /\ HistoryType /\ UNCHANGED <<quiet, misread, suspect>> => HistoryType'
    /\ StatusInv /\ UNCHANGED <<file, status, arrived, cached, pending, told>> => StatusInv'
    /\ HandlerInv /\ UNCHANGED <<hnd, arrived, sent>> => HandlerInv'
    /\ DisposeInv /\ UNCHANGED <<disposed, timers>> => DisposeInv'
<1>1. PluginType /\ UNCHANGED <<status, disposed, cached, pending, kinds>> => PluginType'
  BY DEF PluginType
<1>2. HandlersType /\ UNCHANGED <<hnd, arrived, sent>> => HandlersType'
  BY DEF HandlersType
<1>3. TimersType /\ UNCHANGED <<timers, hnd>> => TimersType'
  BY DEF TimersType, KeyOf
<1>4. ServerType /\ UNCHANGED <<branch, told, ptys, changes>> => ServerType'
  BY DEF ServerType
<1>5. HistoryType /\ UNCHANGED <<quiet, misread, suspect>> => HistoryType'
  BY DEF HistoryType
<1>6. StatusInv /\ UNCHANGED <<file, status, arrived, cached, pending, told>> => StatusInv'
  BY DEF StatusInv
<1>7. HandlerInv /\ UNCHANGED <<hnd, arrived, sent>> => HandlerInv'
  BY DEF HandlerInv
<1>8. DisposeInv /\ UNCHANGED <<disposed, timers>> => DisposeInv'
  BY DEF DisposeInv
<1> QED BY <1>1, <1>2, <1>3, <1>4, <1>5, <1>6, <1>7, <1>8

LEMMA InitInv1 == Init => IInv1
<1> SUFFICES ASSUME Init PROVE IInv1
  OBVIOUS
<1> USE DEF Init
<1>1. HandlersType
  BY DEF HandlersType, NoHandler, HandlerType
<1>2. PluginType
  BY DEF PluginType
<1>3. TimersType
  BY DEF TimersType
<1>4. told \in Seq(RawBranch)
  OBVIOUS
<1>5. ServerType
  BY <1>4 DEF ServerType
<1>6. HistoryType
  BY DEF HistoryType
<1>7. StatusInv /\ HandlerInv /\ DisposeInv
  BY DEF StatusInv, HandlerInv, NoHandler, DisposeInv
<1> QED BY <1>1, <1>2, <1>3, <1>5, <1>6, <1>7 DEF IInv1, TypeOK

\* What loadConfig can return.
LEMMA LoadResult == \A f : loadConfig(f).is \in {"ok", "absent", "bad"}
<1>1. \A c : parsePluginConfig(c).is \in {"ok", "bad"}
  BY DEF parsePluginConfig, Bad, Ok
<1> QED BY <1>1 DEF loadConfig, Absent, Bad

LEMMA LoadInv1 == ASSUME IInv1, Load PROVE IInv1'
<1> USE DEF Load, IInv1, TypeOK, resolver, server, history
<1>1. /\ status' \in {"active", "off", "failed"}
      /\ status' = "active" => loadConfig(file).is = "ok"
  BY LoadResult
<1>2. PluginType'
  BY <1>1 DEF PluginType
<1>3. StatusInv'
  BY <1>1 DEF StatusInv
<1> QED BY <1>2, <1>3, Frame

\* A new handler starts at its first await, under a notification it can send.
LEMMA EventInv1 ==
    ASSUME IInv1, NEW type \in EventType, NEW s \in Session, Event(type, s)
    PROVE  IInv1'
<1> USE DEF Event, IInv1, TypeOK, current, setup, server
<1>1. decodeEvent(type) \in NOTIFICATION_EVENTS
  BY DEF decodeEvent, EventType, NOTIFICATION_EVENTS
<1>2. PluginType' /\ HistoryType'
  BY DEF PluginType, HistoryType, HandlersType
<1>3. HandlersType'
  <2>1. [NoHandler EXCEPT !.pc = IF cached = Undefined THEN "waiting" ELSE "branch",
                          !.s = s, !.e = decodeEvent(type)] \in HandlerType
    BY <1>1 DEF HandlerType, NoHandler
  <2> QED BY <2>1 DEF HandlersType
<1>4. TimersType'
  BY DEF HandlersType, TimersType, HandlerInv, NoHandler, KeyOf
<1>5. StatusInv'
  BY DEF StatusInv
<1>6. HandlerInv'
  BY <1>1 DEF HandlerInv, NoHandler, HandlersType, HandlerType
<1> QED BY <1>2, <1>3, <1>4, <1>5, <1>6, Frame

LEMMA LabelType == \A b \in RawBranch : normalizeBranch(b) \in Label
BY DEF Label

\* The branch resolver touches only its label.
LEMMA BranchInv1 ==
    ASSUME IInv1, VcsGet \/ refresh \/ refreshFails \/ BranchUpdated
    PROVE  IInv1'
<1> USE LabelType DEF IInv1, TypeOK, setup, server
<1>1. CASE VcsGet
  <2>1. PluginType' /\ StatusInv'
    BY <1>1 DEF VcsGet, PluginType, StatusInv, ServerType
  <2> QED BY <1>1, <2>1, Frame DEF VcsGet, history
<1>2. CASE refresh
  <2>1. PluginType' /\ StatusInv' /\ HistoryType'
    BY <1>2 DEF refresh, PluginType, StatusInv, HistoryType
  <2> QED BY <1>2, <2>1, Frame DEF refresh
<1>3. CASE refreshFails
  <2>1. PluginType' /\ StatusInv' /\ HistoryType'
    BY <1>3 DEF refreshFails, PluginType, StatusInv, HistoryType, Label
  <2> QED BY <1>3, <2>1, Frame DEF refreshFails
<1>4. CASE BranchUpdated
  <2>1. Head(told) \in RawBranch /\ Tail(told) \in Seq(RawBranch)
    BY <1>4 DEF BranchUpdated, ServerType
  <2>2. ServerType'
    BY <1>4, <2>1 DEF BranchUpdated, ServerType
  <2>3. PluginType' /\ StatusInv' /\ HistoryType'
    BY <1>4, <2>1 DEF BranchUpdated, PluginType, StatusInv, HistoryType, update
  <2> QED BY <1>4, <2>2, <2>3, Frame DEF BranchUpdated
<1> QED BY <1>1, <1>2, <1>3, <1>4

-----------------------------------------------------------------------------
(* The steps of a handler, seen from the outside.                          *)

\* The handler gets its notification through: to the server, or to the timer
\* of its key.
Scheduled(n) ==
    /\ ~disposed
    /\ hnd[n].pc \in {"subagent", "pty"}
    /\ IF config.events[hnd[n].e].notifyAfterMs <= 0
       THEN timers' = [timers EXCEPT ![KeyOf(n)] = 0] /\ sent' = sent \cup {n}
       ELSE timers' = [timers EXCEPT ![KeyOf(n)] = n] /\ sent' = sent

\* What the steps of handler n have in common when they take it to p with a.
Moved(n, p, a) ==
    /\ hnd[n].pc \in {"waiting", "branch", "subagent", "pty"}
    /\ p \in {"subagent", "pty", "dropped", "scheduled"}
    /\ a \in {"none", "unknown", "root", "subagent", "pending", "clear"}
    /\ hnd' = [hnd EXCEPT ![n] = [@ EXCEPT !.pc = p, !.ans = a]]
    /\ UNCHANGED <<file, status, disposed, cached, pending, arrived, branch,
                   told, ptys, changes, quiet, suspect>>
    /\ IF p = "scheduled" THEN Scheduled(n) ELSE UNCHANGED <<timers, sent>>
    /\ p = "pty" => hnd[n].e = "session.idle"
    /\ p = "subagent" => hnd[n].pc \in {"waiting", "branch"}

\* How a step of handler n treats the cache of isSubagent.
Read(n) ==
    \/ UNCHANGED <<kinds, misread>>
    \/ /\ hnd[n].pc = "subagent"
       /\ \E data \in BOOLEAN :
             /\ kinds' = [kinds EXCEPT ![hnd[n].s] =
                            IF data /\ hnd[n].s \in Sub THEN "subagent" ELSE "root"]
             /\ misread' = IF data THEN misread ELSE misread \cup {hnd[n].s}

\* The gate that handler n passes on its way to p with a.
Gated(n, p, a) ==
    /\ p = "subagent" =>
          /\ a = kinds[hnd[n].s]
          /\ config.enabled /\ config.events[hnd[n].e].enabled
    /\ hnd[n].pc = "subagent" /\ p \in {"pty", "scheduled"} =>
          \/ hnd[n].ans \notin {"unknown", "subagent"}
          \/ hnd[n].s \notin Sub
          \/ hnd[n].s \in misread'
    /\ p = "pty" /\ a \notin {"none", "pending", "unknown"} => hnd[n].s \notin ptys
    /\ p = "scheduled" /\ hnd[n].e = "session.idle" =>
          hnd[n].pc = "pty" /\ hnd[n].ans \notin {"none", "pending", "unknown"}
    /\ hnd[n].pc \in {"waiting", "branch"} => p \in {"subagent", "dropped"}

\* Two updates of a handler are one.
LEMMA TwoFields ==
    ASSUME HandlersType, NEW n \in Num, NEW p, NEW a
    PROVE  [hnd EXCEPT ![n].pc = p, ![n].ans = a]
             = [hnd EXCEPT ![n] = [@ EXCEPT !.pc = p, !.ans = a]]
BY DEF HandlersType, HandlerType

LEMMA DropMoves ==
    ASSUME HandlersType, NEW n \in Num, Drop(n)
    PROVE  /\ hnd' = [hnd EXCEPT ![n] = [@ EXCEPT !.pc = "dropped", !.ans = "none"]]
           /\ UNCHANGED <<timers, sent>>
BY TwoFields DEF Drop

LEMMA ScheduleMoves ==
    ASSUME HandlersType, NEW n \in Num, scheduleNotification(n),
           hnd[n].pc \in {"subagent", "pty"}
    PROVE  /\ hnd' = [hnd EXCEPT ![n] = [@ EXCEPT !.pc = "scheduled", !.ans = "none"]]
           /\ Scheduled(n)
BY TwoFields DEF scheduleNotification, sendNotification, Scheduled

LEMMA RootMoves ==
    ASSUME HandlersType, NEW n \in Num, RootSession(n), hnd[n].pc = "subagent"
    PROVE  \E p \in {"dropped", "pty", "scheduled"} :
              /\ hnd' = [hnd EXCEPT ![n] = [@ EXCEPT !.pc = p, !.ans = "none"]]
              /\ IF p = "scheduled" THEN Scheduled(n) /\ hnd[n].e # "session.idle"
                 ELSE UNCHANGED <<timers, sent>>
              /\ p = "pty" => hnd[n].e = "session.idle"
<1>1. CASE disposed
  BY <1>1, DropMoves DEF RootSession
<1>2. CASE ~disposed /\ hnd[n].e = "session.idle"
  BY <1>2, TwoFields DEF RootSession
<1>3. CASE ~disposed /\ hnd[n].e # "session.idle"
  BY <1>3, ScheduleMoves DEF RootSession
<1> QED BY <1>1, <1>2, <1>3

\* Every step of a handler moves it, past the gate that was its turn.
LEMMA HandlerMoves ==
    ASSUME IInv1, NEW n \in Num, HandlerStep(n)
    PROVE  Read(n) /\ \E p, a : Moved(n, p, a) /\ Gated(n, p, a)
<1> USE DEF setup, resolver, server, history
<1>0. HandlersType /\ kinds \in [Session -> {"unknown", "root", "subagent"}]
  BY DEF IInv1, TypeOK, PluginType
<1>1. CASE dispatchNotification(n)
  <2> DEFINE go == ~disposed /\ config.enabled /\ config.events[hnd[n].e].enabled
             p == IF go THEN "subagent" ELSE "dropped"
             a == IF go THEN kinds[hnd[n].s] ELSE "none"
  <2>1. hnd[n].pc \in {"waiting", "branch"} /\ hnd[n].s \in Session
    BY <1>1 DEF dispatchNotification, IInv1, HandlerInv
  <2>2. hnd' = [hnd EXCEPT ![n] = [@ EXCEPT !.pc = p, !.ans = a]]
    BY <1>0, <1>1, TwoFields DEF dispatchNotification
  <2>3. Moved(n, p, a)
    BY <1>0, <1>1, <2>1, <2>2 DEF dispatchNotification, Moved
  <2>4. Gated(n, p, a) /\ Read(n)
    BY <1>1, <2>1 DEF dispatchNotification, Gated, Read
  <2> QED BY <2>3, <2>4
<1>2. CASE KnownSession(n) \/ isSubagentFails(n)
  <2>1. CASE Drop(n)
    BY <1>0, <1>2, <2>1, DropMoves DEF KnownSession, isSubagentFails, Moved, Gated, Read
  <2>2. CASE RootSession(n) /\ KnownSession(n) /\ hnd[n].ans # "subagent"
    BY <1>0, <1>2, <2>2, RootMoves DEF KnownSession, Moved, Gated, Read
  <2> QED BY <1>2, <2>1, <2>2 DEF KnownSession, isSubagentFails
<1>3. CASE isSubagent(n)
  <2> DEFINE Kind(data) == IF data /\ hnd[n].s \in Sub THEN "subagent" ELSE "root"
  <2>1. PICK data \in BOOLEAN :
           /\ kinds' = [kinds EXCEPT ![hnd[n].s] = Kind(data)]
           /\ misread' = IF data THEN misread ELSE misread \cup {hnd[n].s}
           /\ IF Kind(data) = "subagent" THEN Drop(n) ELSE RootSession(n)
    BY <1>3 DEF isSubagent
  <2>2. Read(n)
    BY <1>3, <2>1 DEF Read, isSubagent
  <2>3. CASE Kind(data) = "subagent"
    BY <1>0, <1>3, <2>1, <2>2, <2>3, DropMoves DEF isSubagent, Moved, Gated
  <2>4. CASE Kind(data) # "subagent"
    <3>1. hnd[n].s \notin Sub \/ hnd[n].s \in misread'
      BY <2>1, <2>4
    <3> HIDE DEF Kind
    <3> QED BY <1>0, <1>3, <2>1, <2>2, <2>4, <3>1, RootMoves DEF isSubagent, Moved, Gated
  <2> QED BY <2>3, <2>4
<1>4. CASE SessionMessages(n)
  <2>1. PICK a \in {IF hnd[n].s \in ptys THEN "pending" ELSE "clear", "unknown"} :
           hnd' = [hnd EXCEPT ![n].ans = a]
    BY <1>4 DEF SessionMessages
  <2>2. hnd' = [hnd EXCEPT ![n] = [@ EXCEPT !.pc = "pty", !.ans = a]]
    <3>1. hnd[n] \in HandlerType /\ hnd[n].pc = "pty"
      BY <1>0, <1>4 DEF SessionMessages, HandlersType
    <3>2. [hnd[n] EXCEPT !.ans = a] = [hnd[n] EXCEPT !.pc = "pty", !.ans = a]
      BY <3>1 DEF HandlerType
    <3> QED BY <2>1, <3>2
  <2>3. Moved(n, "pty", a) /\ Gated(n, "pty", a) /\ Read(n)
    BY <1>4, <2>1, <2>2 DEF SessionMessages, Moved, Gated, Read, IInv1, HandlerInv
  <2> QED BY <2>3
<1>5. CASE ptyNotifyState(n)
  <2>1. CASE Drop(n)
    BY <1>0, <1>5, <2>1, DropMoves DEF ptyNotifyState, Moved, Gated, Read
  <2>2. CASE scheduleNotification(n) /\ ~Suppresses(hnd[n].ans)
    BY <1>0, <1>5, <2>2, ScheduleMoves
    DEF ptyNotifyState, Suppresses, Moved, Gated, Read
  <2> QED BY <1>5, <2>1, <2>2 DEF ptyNotifyState
<1> QED BY <1>1, <1>2, <1>3, <1>4, <1>5 DEF HandlerStep

-----------------------------------------------------------------------------
(* The first invariant.                                                    *)

\* Where a handler that moves ends up, and that it alone moves.
LEMMA AfterMove ==
    ASSUME HandlersType, NEW n \in Num, NEW p, NEW a, Moved(n, p, a)
    PROVE  /\ hnd'[n].pc = p /\ hnd'[n].ans = a
           /\ hnd'[n].s = hnd[n].s /\ hnd'[n].e = hnd[n].e
           /\ \A m \in Num \ {n} : hnd'[m] = hnd[m]
           /\ \A m \in Num : KeyOf(m)' = KeyOf(m)
           /\ \A m \in Num : hnd[m].pc = "scheduled" => hnd'[m] = hnd[m]
BY DEF HandlersType, HandlerType, Moved, KeyOf

\* A move sends at most the notification of its own handler.
LEMMA MoveSends ==
    ASSUME NEW n \in Num, NEW p, NEW a, Moved(n, p, a)
    PROVE  /\ arrived' = arrived
           /\ sent' = sent \/ (p = "scheduled" /\ sent' = sent \cup {n})
<1>1. arrived' = arrived
  BY DEF Moved
<1>2. CASE p = "scheduled"
  <2>1. Scheduled(n)
    BY <1>2 DEF Moved
  <2> QED BY <1>1, <1>2, <2>1 DEF Scheduled
<1>3. CASE p # "scheduled"
  <2>1. sent' = sent
    BY <1>3 DEF Moved
  <2> QED BY <1>1, <2>1
<1> QED BY <1>2, <1>3

LEMMA HandlerInv1 ==
    ASSUME IInv1, NEW n \in Num, HandlerStep(n)
    PROVE  IInv1'
<1> USE DEF IInv1, TypeOK
<1>1. PICK p, a : Moved(n, p, a) /\ Gated(n, p, a)
  BY HandlerMoves
<1>2. KeyOf(n) \in Key /\ hnd[n] \in HandlerType
  BY <1>1 DEF HandlerInv, KeyOf, Key, Moved, HandlersType
<1>3. PluginType'
  BY HandlerMoves, <1>1 DEF Read, PluginType, Moved
<1>4. HandlersType'
  <2>1. [hnd[n] EXCEPT !.pc = p, !.ans = a] \in HandlerType
    BY <1>1, <1>2 DEF Moved, HandlerType
  <2> QED BY <1>1, <2>1 DEF Moved, HandlersType, Scheduled
<1>5. TimersType'
  <2>1. timers' \in [Key -> 0..MaxEvents]
    BY <1>1, <1>2 DEF Moved, Scheduled, TimersType
  <2>2. ASSUME NEW k \in Key, timers'[k] # 0
        PROVE  hnd'[timers'[k]].pc = "scheduled" /\ <<hnd'[timers'[k]].s, hnd'[timers'[k]].e>> = k
    <3>1. CASE timers'[k] = timers[k]
      <4>1. timers[k] \in Num /\ hnd[timers[k]].pc = "scheduled"
        BY <2>2, <3>1 DEF TimersType
      <4>2. hnd'[timers[k]] = hnd[timers[k]]
        BY <1>1, <4>1, AfterMove
      <4> QED BY <2>2, <3>1, <4>1, <4>2 DEF TimersType, KeyOf
    <3>2. CASE timers'[k] # timers[k]
      <4>1. p = "scheduled" /\ Scheduled(n)
        BY <1>1, <3>2 DEF Moved
      <4>2. k = KeyOf(n) /\ timers'[k] = n
        BY <1>2, <2>2, <3>2, <4>1 DEF Scheduled, TimersType
      <4> QED BY <1>1, <4>1, <4>2, AfterMove DEF KeyOf
    <3> QED BY <3>1, <3>2
  <2> QED BY <2>1, <2>2 DEF TimersType, KeyOf
<1>6. ServerType' /\ StatusInv'
  <2>1. UNCHANGED <<branch, told, ptys, changes>>
    BY <1>1 DEF Moved
  <2>2. UNCHANGED <<file, status, arrived, cached, pending, told>>
    BY <1>1 DEF Moved
  <2> QED BY <2>1, <2>2, Frame
<1>7. HistoryType'
  <2>1. quiet' = quiet /\ suspect' = suspect /\ hnd[n].s \in Session
    BY <1>1 DEF Moved, HandlerInv
  <2>2. misread' = misread \/ misread' = misread \cup {hnd[n].s}
    BY HandlerMoves DEF Read
  <2> QED BY <2>1, <2>2 DEF HistoryType
<1>8. HandlerInv'
  <2>1. arrived' = arrived /\ \A m \in sent' : m \in sent \/ (m = n /\ p = "scheduled")
    BY <1>1, MoveSends
  <2>2. p # "free" /\ hnd[n].pc \notin {"free", "scheduled"} /\ (p = "pty" => hnd[n].e = "session.idle")
    BY <1>1 DEF Moved
  <2> QED BY <1>1, <2>1, <2>2, AfterMove DEF HandlerInv
<1>9. DisposeInv'
  BY <1>1 DEF Moved, DisposeInv, Scheduled
<1> QED BY <1>3, <1>4, <1>5, <1>6, <1>7, <1>8, <1>9

LEMMA TimerInv1 ==
    ASSUME IInv1, NEW k \in Key, TimerFires(k)
    PROVE  IInv1'
<1> USE DEF IInv1, TypeOK, TimerFires, sendNotification, setup, resolver, server, history
<1>1. timers[k] \in Num /\ hnd[timers[k]].pc = "scheduled"
  BY DEF TimersType
<1>2. HandlersType'
  BY <1>1 DEF HandlersType
<1>3. TimersType'
  BY DEF TimersType, KeyOf
<1>4. HandlerInv'
  BY <1>1 DEF HandlerInv
<1>5. DisposeInv'
  BY DEF DisposeInv, TimersType
<1> QED BY <1>2, <1>3, <1>4, <1>5, Frame

LEMMA DisposeInv1 == ASSUME IInv1, dispose PROVE IInv1'
<1> USE DEF IInv1, TypeOK, dispose, resolver, server, history
<1>1. PluginType'
  BY DEF PluginType
<1>2. TimersType'
  BY DEF TimersType
<1>3. StatusInv'
  BY DEF StatusInv
<1>4. DisposeInv'
  BY DEF DisposeInv
<1> QED BY <1>1, <1>2, <1>3, <1>4, Frame

LEMMA ServerInv1 ==
    ASSUME IInv1,
           \/ \E b \in RawBranch : Checkout(b)
           \/ \E s \in Session : PtySpawned(s) \/ PtyExited(s)
    PROVE  IInv1'
<1> USE DEF IInv1, TypeOK, setup, resolver, history
<1>1. ASSUME NEW b \in RawBranch, Checkout(b) PROVE IInv1'
  <2>1. told' \in Seq(RawBranch)
    BY <1>1 DEF Checkout, ServerType
  <2>2. ServerType' /\ StatusInv'
    BY <1>1, <2>1 DEF Checkout, ServerType, StatusInv
  <2> QED BY <1>1, <2>2, Frame DEF Checkout
<1>2. ASSUME NEW s \in Session, PtySpawned(s) \/ PtyExited(s) PROVE IInv1'
  <2>1. HistoryType'
    BY <1>2 DEF PtySpawned, PtyExited, HistoryType
  <2>2. ptys' \subseteq Session /\ changes' \in 0..MaxChanges
    BY <1>2 DEF PtySpawned, PtyExited, ServerType
  <2>3. ServerType'
    BY <1>2, <2>2 DEF PtySpawned, PtyExited, ServerType
  <2> QED BY <1>2, <2>1, <2>3, Frame DEF PtySpawned, PtyExited
<1> QED BY <1>1, <1>2

LEMMA StutterInv1 == ASSUME IInv1, UNCHANGED vars PROVE IInv1'
BY Frame DEF IInv1, TypeOK, vars, setup, resolver, server, history

LEMMA StepInv1 == IInv1 /\ [Next]_vars => IInv1'
BY LoadInv1, BranchInv1, EventInv1, HandlerInv1, TimerInv1, DisposeInv1, ServerInv1,
   StutterInv1 DEF Next

\* The data of the plugin are always of their kind; above all a notification
\* that waits for its timer (index.ts, scheduleNotification) has passed every
\* gate and stands under the key of its own session and event.
THEOREM TypeCorrect == Spec => []TypeOK
<1>1. IInv1 => TypeOK
  BY DEF IInv1
<1> QED BY InitInv1, StepInv1, <1>1, PTL DEF Spec

-----------------------------------------------------------------------------
(* The gates.                                                              *)

\* The steps that neither move a handler nor answer a lookup.
LEMMA OtherSteps ==
    ASSUME [Next]_vars
    PROVE  \/ UNCHANGED <<file, hnd, kinds, misread>>
           \/ \E type \in EventType, s \in Session : Event(type, s)
           \/ \E n \in Num : HandlerStep(n)
<1> USE DEF setup, resolver, server, history
<1>1. CASE Load \/ VcsGet \/ refresh \/ refreshFails \/ BranchUpdated
  BY <1>1 DEF Load, VcsGet, refresh, refreshFails, BranchUpdated
<1>2. CASE \E k \in Key : TimerFires(k)
  BY <1>2 DEF TimerFires
<1>3. CASE dispose \/ UNCHANGED vars
  BY <1>3 DEF dispose, vars
<1>4. CASE \E b \in RawBranch : Checkout(b)
  BY <1>4 DEF Checkout
<1>5. CASE \E s \in Session : PtySpawned(s) \/ PtyExited(s)
  BY <1>5 DEF PtySpawned, PtyExited
<1> QED BY <1>1, <1>2, <1>3, <1>4, <1>5 DEF Next

\* A new handler, and the ones that were there.
LEMMA AfterEvent ==
    ASSUME IInv1, NEW type \in EventType, NEW s \in Session, Event(type, s)
    PROVE  /\ arrived + 1 \in Num
           /\ hnd[arrived + 1].pc = "free"
           /\ hnd'[arrived + 1].pc \in {"waiting", "branch"}
           /\ hnd'[arrived + 1].s = s
           /\ \A n \in Num \ {arrived + 1} : hnd'[n] = hnd[n]
BY DEF IInv1, TypeOK, HandlersType, HandlerInv, Event, NoHandler

LEMMA SubagentStep == IInv1 /\ SubagentInv /\ [Next]_vars => SubagentInv'
<1> SUFFICES ASSUME IInv1, SubagentInv, [Next]_vars PROVE SubagentInv'
  OBVIOUS
<1>1. CASE UNCHANGED <<file, hnd, kinds, misread>>
  BY <1>1 DEF SubagentInv
<1>2. ASSUME NEW type \in EventType, NEW s \in Session, Event(type, s) PROVE SubagentInv'
  <2>1. UNCHANGED <<kinds, misread>>
    BY <1>2 DEF Event
  <2> QED BY <1>2, <2>1, AfterEvent DEF SubagentInv
<1>3. ASSUME NEW n \in Num, HandlerStep(n) PROVE SubagentInv'
  <2>1. PICK p, a : Moved(n, p, a) /\ Gated(n, p, a)
    BY <1>3, HandlerMoves
  <2>2. HandlersType /\ kinds \in [Session -> {"unknown", "root", "subagent"}] /\ hnd[n].s \in Session
    BY <2>1 DEF IInv1, TypeOK, PluginType, HandlerInv, Moved
  <2>3. misread \subseteq misread' /\ \A s \in Sub : kinds'[s] = "root" => s \in misread'
    <3>1. CASE UNCHANGED <<kinds, misread>>
      BY <3>1 DEF SubagentInv
    <3>2. CASE ~UNCHANGED <<kinds, misread>>
      <4>1. PICK data \in BOOLEAN :
             /\ kinds' = [kinds EXCEPT ![hnd[n].s] =
                            IF data /\ hnd[n].s \in Sub THEN "subagent" ELSE "root"]
             /\ misread' = IF data THEN misread ELSE misread \cup {hnd[n].s}
        BY <1>3, <3>2, HandlerMoves DEF Read
      <4>2. CASE data
        BY <2>2, <4>1, <4>2 DEF SubagentInv
      <4>3. CASE ~data
        BY <2>2, <4>1, <4>3 DEF SubagentInv
      <4> QED BY <4>2, <4>3
    <3> QED BY <3>1, <3>2
  <2>4. ASSUME hnd[n].s \in Sub
        PROVE  \/ hnd[n].s \in misread'
               \/ p = "dropped"
               \/ p = "subagent" /\ a \in {"unknown", "subagent"}
    <3>1. CASE p = "subagent"
      BY <2>1, <2>2, <2>3, <2>4, <3>1 DEF Gated, SubagentInv
    <3>2. CASE p \in {"pty", "scheduled"}
      <4>1. hnd[n].pc \in {"subagent", "pty"}
        BY <2>1, <3>2 DEF Moved, Gated
      <4> QED BY <2>1, <2>3, <2>4, <3>2, <4>1 DEF Gated, SubagentInv
    <3> QED BY <2>1, <3>1, <3>2 DEF Moved
  <2> QED BY <2>1, <2>2, <2>3, <2>4, AfterMove DEF SubagentInv
<1> QED BY <1>1, <1>2, <1>3, OtherSteps

\* No interleaving of lookups lets a subagent's notification through, unless
\* session.get was answered without data (index.ts, isSubagent).
THEOREM SubagentSafety == Spec => []SubagentsSilent
<1>1. Init => SubagentInv
  BY DEF Init, SubagentInv, NoHandler
<1>2. SubagentInv => SubagentsSilent
  BY DEF SubagentInv, SubagentsSilent
<1> QED BY InitInv1, StepInv1, SubagentStep, <1>1, <1>2, PTL DEF Spec

-----------------------------------------------------------------------------
\* Handlers, transcripts and the record of quiet moments move only together.
LEMMA QuietSteps ==
    ASSUME [Next]_vars
    PROVE  \/ UNCHANGED <<hnd, ptys, quiet>>
           \/ \E type \in EventType, s \in Session : Event(type, s)
           \/ \E n \in Num : HandlerStep(n)
           \/ \E s \in Session : PtySpawned(s) \/ PtyExited(s)
<1> USE DEF setup, resolver, server, history
<1>1. CASE Load \/ VcsGet \/ refresh \/ refreshFails \/ BranchUpdated
  BY <1>1 DEF Load, VcsGet, refresh, refreshFails, BranchUpdated
<1>2. CASE \E k \in Key : TimerFires(k)
  BY <1>2 DEF TimerFires
<1>3. CASE dispose \/ UNCHANGED vars
  BY <1>3 DEF dispose, vars
<1>4. CASE \E b \in RawBranch : Checkout(b)
  BY <1>4 DEF Checkout
<1> QED BY <1>1, <1>2, <1>3, <1>4 DEF Next

LEMMA QuietStep == IInv1 /\ QuietInv /\ [Next]_vars => QuietInv'
<1> SUFFICES ASSUME IInv1, QuietInv, [Next]_vars PROVE QuietInv'
  OBVIOUS
<1>1. CASE UNCHANGED <<hnd, ptys, quiet>>
  BY <1>1 DEF QuietInv
<1>2. ASSUME NEW type \in EventType, NEW s \in Session, Event(type, s) PROVE QuietInv'
  <2>1. /\ ptys' = ptys
        /\ quiet \subseteq quiet'
        /\ s \in ptys \/ arrived + 1 \in quiet'
    BY <1>2 DEF Event, server
  <2> QED BY <1>2, <2>1, AfterEvent DEF QuietInv
<1>3. ASSUME NEW n \in Num, HandlerStep(n) PROVE QuietInv'
  <2>1. PICK p, a : Moved(n, p, a) /\ Gated(n, p, a)
    BY <1>3, HandlerMoves
  <2>2. HandlersType /\ ptys' = ptys /\ quiet' = quiet /\ hnd[n].pc # "free"
    BY <2>1 DEF IInv1, TypeOK, Moved
  <2>3. /\ p = "pty" /\ a \notin {"none", "pending", "unknown"} => n \in quiet
        /\ p = "scheduled" /\ hnd[n].e = "session.idle" => n \in quiet
    BY <2>1, <2>2 DEF Gated, QuietInv
  <2> QED BY <2>1, <2>2, <2>3, AfterMove DEF QuietInv
<1>4. ASSUME NEW s \in Session, PtySpawned(s) \/ PtyExited(s) PROVE QuietInv'
  BY <1>4 DEF QuietInv, PtySpawned, PtyExited, history
<1> QED BY <1>1, <1>2, <1>3, <1>4, QuietSteps

\* "Agent Idle" is never scheduled for a session that has had a PTY pending ever
\* since the event, whatever is spawned, exits and fails in between (index.ts,
\* ptyNotifyState and the gates after it).
THEOREM IdleSafety == Spec => []IdleOnlyWhenQuiet
<1>1. Init => QuietInv
  BY DEF Init, QuietInv, NoHandler
<1>2. QuietInv => IdleOnlyWhenQuiet
  BY DEF QuietInv, IdleOnlyWhenQuiet
<1> QED BY InitInv1, StepInv1, QuietStep, <1>1, <1>2, PTL DEF Spec

-----------------------------------------------------------------------------
\* Timers, sends and disposal move only together.
LEMMA TimerSteps ==
    ASSUME [Next]_vars
    PROVE  \/ UNCHANGED <<hnd, timers, sent, disposed>>
           \/ \E type \in EventType, s \in Session : Event(type, s)
           \/ \E n \in Num : HandlerStep(n)
           \/ \E k \in Key : TimerFires(k)
           \/ dispose
<1> USE DEF setup, resolver, server, history
<1>1. CASE Load \/ VcsGet \/ refresh \/ refreshFails \/ BranchUpdated
  BY <1>1 DEF Load, VcsGet, refresh, refreshFails, BranchUpdated
<1>2. CASE UNCHANGED vars
  BY <1>2 DEF vars
<1>3. CASE \E b \in RawBranch : Checkout(b)
  BY <1>3 DEF Checkout
<1>4. CASE \E s \in Session : PtySpawned(s) \/ PtyExited(s)
  BY <1>4 DEF PtySpawned, PtyExited
<1> QED BY <1>1, <1>2, <1>3, <1>4 DEF Next

LEMMA CoalesceStep == IInv1 /\ CoalescedNotLost /\ [Next]_vars => CoalescedNotLost'
<1> SUFFICES ASSUME IInv1, CoalescedNotLost, [Next]_vars,
                    NEW m \in Num, hnd'[m].pc = "scheduled", ~disposed'
             PROVE  \/ timers'[KeyOf(m)'] # 0
                    \/ \E j \in sent' : KeyOf(j)' = KeyOf(m)'
  BY DEF CoalescedNotLost
<1> USE DEF IInv1, TypeOK
<1>1. CASE UNCHANGED <<hnd, timers, sent, disposed>>
  BY <1>1 DEF CoalescedNotLost, KeyOf
<1>2. ASSUME NEW type \in EventType, NEW s \in Session, Event(type, s)
      PROVE  \/ timers'[KeyOf(m)'] # 0
             \/ \E j \in sent' : KeyOf(j)' = KeyOf(m)'
  <2>1. UNCHANGED <<timers, sent, disposed>>
    BY <1>2 DEF Event, setup
  <2>2. \A n \in Num : hnd[n].pc = "scheduled" => KeyOf(n)' = KeyOf(n)
    BY <1>2, AfterEvent DEF KeyOf
  <2>3. hnd[m].pc = "scheduled"
    BY <1>2, AfterEvent
  <2>4. \A n \in sent : hnd[n].pc = "scheduled" /\ n \in Num
    BY DEF HandlerInv, HandlersType
  <2> QED BY <2>1, <2>2, <2>3, <2>4 DEF CoalescedNotLost
<1>3. ASSUME NEW n \in Num, HandlerStep(n)
      PROVE  \/ timers'[KeyOf(m)'] # 0
             \/ \E j \in sent' : KeyOf(j)' = KeyOf(m)'
  <2>1. PICK p, a : Moved(n, p, a)
    BY <1>3, HandlerMoves
  <2>2. \A j \in Num : KeyOf(j)' = KeyOf(j)
    BY <2>1, AfterMove
  <2>3. KeyOf(n) \in Key /\ sent \subseteq Num /\ timers \in [Key -> 0..MaxEvents]
    BY <2>1 DEF HandlerInv, KeyOf, Key, Moved, HandlersType, TimersType
  <2>4. CASE p = "scheduled" /\ KeyOf(m) = KeyOf(n)
    <3>1. Scheduled(n)
      BY <2>1, <2>4 DEF Moved
    <3>2. timers'[KeyOf(n)] = n \/ n \in sent'
      BY <2>3, <3>1 DEF Scheduled
    <3> QED BY <2>2, <2>4, <3>2
  <2>5. CASE ~(p = "scheduled" /\ KeyOf(m) = KeyOf(n))
    <3>1. hnd[m].pc = "scheduled" /\ disposed' = disposed
      BY <2>1, <2>5, AfterMove DEF Moved
    <3>2. timers'[KeyOf(m)] = timers[KeyOf(m)]
      <4>1. CASE p = "scheduled"
        <5>1. Scheduled(n)
          BY <2>1, <4>1 DEF Moved
        <5>2. KeyOf(m) \in Key
          BY <3>1 DEF HandlerInv, KeyOf, Key
        <5> QED BY <2>3, <2>5, <4>1, <5>1, <5>2 DEF Scheduled
      <4>2. CASE p # "scheduled"
        BY <2>1, <4>2 DEF Moved
      <4> QED BY <4>1, <4>2
    <3>3. sent \subseteq sent'
      BY <2>1, MoveSends
    <3> QED BY <2>2, <2>3, <3>1, <3>2, <3>3 DEF CoalescedNotLost
  <2> QED BY <2>4, <2>5
<1>4. ASSUME NEW k \in Key, TimerFires(k)
      PROVE  \/ timers'[KeyOf(m)'] # 0
             \/ \E j \in sent' : KeyOf(j)' = KeyOf(m)'
  <2> USE <1>4 DEF TimerFires, sendNotification, setup
  <2>1. \A j : KeyOf(j)' = KeyOf(j)
    BY DEF KeyOf
  <2>2. KeyOf(timers[k]) = k /\ timers[k] \in sent' /\ sent \subseteq sent'
    BY DEF TimersType
  <2>3. KeyOf(m) # k => timers'[KeyOf(m)] = timers[KeyOf(m)]
    BY DEF TimersType
  <2> QED BY <2>1, <2>2, <2>3 DEF CoalescedNotLost
<1> QED BY <1>1, <1>2, <1>3, <1>4, TimerSteps DEF dispose

\* No order of handlers and timers loses a key (index.ts, scheduleNotification):
\* of the notifications that a later one replaced, one is sent or still waits
\* until the plugin is disposed.
THEOREM CoalescingSafety == Spec => []CoalescedNotLost
<1>1. Init => CoalescedNotLost
  BY DEF Init, CoalescedNotLost, NoHandler
<1> QED BY InitInv1, StepInv1, CoalesceStep, <1>1, PTL DEF Spec

-----------------------------------------------------------------------------
\* No label looks like one of the marks for a missing one.
LEMMA LabelMarks == \A l \in Label : l \notin {"undefined", "none", "asked"}
<1>1. \A b : normalizeBranch(b) \in {"no-git", "detached", b}
  BY DEF normalizeBranch
<1>2. \A b \in RawBranch : b \notin {"undefined", "none", "asked"}
  BY NtfyAssumption
<1> QED BY <1>1, <1>2 DEF Label

\* The last element of a sequence that grows or shrinks.
LEMMA LastAppended ==
    ASSUME NEW S, NEW q \in Seq(S), NEW x \in S
    PROVE  /\ Append(q, x) # <<>>
           /\ Append(q, x)[Len(Append(q, x))] = x
OBVIOUS

LEMMA LastOfTail ==
    ASSUME NEW S, NEW q \in Seq(S), q # <<>>
    PROVE  /\ Tail(q) = <<>> => Head(q) = q[Len(q)]
           /\ Tail(q) # <<>> => Tail(q)[Len(Tail(q))] = q[Len(q)]
<1>1. /\ Len(q) \in Nat \ {0} /\ Head(q) = q[1]
      /\ Tail(q) \in Seq(S) /\ Len(Tail(q)) = Len(q) - 1
      /\ \A i \in 1..Len(Tail(q)) : Tail(q)[i] = q[i + 1]
  BY HeadTailProperties, EmptySeq
<1>2. CASE Tail(q) = <<>>
  <2>1. Len(Tail(q)) = 0
    BY <1>2, EmptySeq
  <2>2. Len(q) = 1
    <3>1. \A x, y : x \in Nat /\ y = x - 1 /\ y = 0 => x = 1
      OBVIOUS
    <3> QED BY <1>1, <2>1, <3>1, Zenon
  <2> QED BY <1>1, <1>2, <2>2
<1>3. CASE Tail(q) # <<>>
  <2>1. Len(Tail(q)) \in Nat \ {0}
    BY <1>1, <1>3, EmptySeq
  <2> QED BY <1>1, <1>3, <2>1
<1> QED BY <1>2, <1>3

LEMMA LabelStep == IInv1 /\ LabelInv /\ [Next]_vars => LabelInv'
<1> SUFFICES ASSUME IInv1, LabelInv, [Next]_vars, ~disposed' PROVE LabelInv'
  BY DEF LabelInv
<1> USE DEF setup, resolver, server, history
<1>0. PluginType /\ ServerType /\ StatusInv
  BY DEF IInv1, TypeOK
<1>1. CASE UNCHANGED <<disposed, cached, pending, branch, told, suspect>>
  BY <1>1 DEF LabelInv
<1>2. CASE VcsGet
  BY <1>2 DEF VcsGet, LabelInv
<1>3. CASE refresh
  <2>1. cached' = pending /\ pending' = "none" /\ suspect' = (cached # Undefined)
    BY <1>3 DEF refresh
  <2> QED BY <1>3, <2>1 DEF refresh, LabelInv
<1>4. CASE refreshFails
  BY <1>4 DEF refreshFails, LabelInv, Undefined
<1>5. CASE BranchUpdated
  <2>1. Head(told) \in RawBranch /\ told' = Tail(told) /\ told # <<>> /\ branch' = branch
    BY <1>0, <1>5 DEF BranchUpdated, ServerType
  <2>2. cached' # Undefined
    BY <1>5, <2>1, LabelType, LabelMarks DEF BranchUpdated, update, Undefined
  <2>3. /\ told' = <<>> => Head(told) = branch
        /\ told' # <<>> => told'[Len(told')] = branch
    BY <1>0, <1>5, <2>1, LastOfTail DEF LabelInv, ServerType, BranchUpdated
  <2> QED BY <1>5, <2>1, <2>2, <2>3 DEF LabelInv, BranchUpdated, update
<1>6. ASSUME NEW type \in EventType, NEW s \in Session, Event(type, s) PROVE LabelInv'
  <2>1. UNCHANGED <<disposed, cached, branch, told, suspect>>
    BY <1>6 DEF Event
  <2>2. pending' \in {pending, "asked"}
    BY <1>6 DEF Event, current
  <2> QED BY <2>1, <2>2 DEF LabelInv
<1>7. ASSUME NEW b \in RawBranch, Checkout(b) PROVE LabelInv'
  <2>1. CASE status = "active" /\ ~disposed
    <3>1. told' # <<>> /\ told'[Len(told')] = b /\ branch' = b
      BY <1>0, <1>7, <2>1, LastAppended DEF Checkout, ServerType
    <3> QED BY <3>1 DEF LabelInv
  <2>2. CASE status # "active"
    <3>1. cached' = Undefined /\ pending' = "none" /\ told' = <<>>
      BY <1>0, <1>7, <2>2 DEF Checkout, StatusInv
    <3> QED BY <3>1 DEF LabelInv
  <2> QED BY <1>7, <2>1, <2>2 DEF Checkout
<1>8. ASSUME NEW n \in Num, HandlerStep(n) PROVE LabelInv'
  BY <1>1, <1>8, HandlerMoves DEF Moved
<1>9. CASE \/ Load \/ dispose \/ UNCHANGED vars
           \/ \E k \in Key : TimerFires(k)
           \/ \E s \in Session : PtySpawned(s) \/ PtyExited(s)
  <2>1. CASE Load \/ dispose \/ UNCHANGED vars
    BY <1>1, <2>1 DEF Load, dispose, vars
  <2>2. CASE \E k \in Key : TimerFires(k)
    BY <1>1, <2>2 DEF TimerFires
  <2>3. CASE \E s \in Session : PtySpawned(s) \/ PtyExited(s)
    BY <1>1, <2>3 DEF PtySpawned, PtyExited
  <2> QED BY <1>9, <2>1, <2>2, <2>3
<1> QED BY <1>2, <1>3, <1>4, <1>5, <1>6, <1>7, <1>8, <1>9 DEF Next

\* Once the updates are delivered, the label notifications carry is that of the
\* workspace's branch, unless a refresh failed or was overtaken (index.ts,
\* makeBranchResolver).
THEOREM LabelSafety == Spec => []BranchLabelCurrent
<1>1. Init => LabelInv
  BY DEF Init, LabelInv
<1>2. LabelInv => BranchLabelCurrent
  BY DEF LabelInv, BranchLabelCurrent
<1> QED BY InitInv1, StepInv1, LabelStep, <1>1, <1>2, PTL DEF Spec

-----------------------------------------------------------------------------
(* The debouncer.                                                          *)

\* What the refinement mapping makes of the notifications sent.
Out == {<<KeyOf(n), n>> : n \in sent}

\* The key of a notification sent is fixed for good.
LEMMA OutKept ==
    ASSUME IInv1, UNCHANGED sent, \A n \in Num : hnd[n].pc = "scheduled" => hnd'[n] = hnd[n]
    PROVE  Out' = Out
<1>1. \A n \in sent : KeyOf(n)' = KeyOf(n)
  BY DEF IInv1, TypeOK, HandlersType, HandlerInv, KeyOf
<1> QED BY <1>1 DEF Out

LEMMA OutGrows ==
    ASSUME IInv1, NEW m \in Num, sent' = sent \cup {m},
           \A n \in Num : hnd[n].pc = "scheduled" => hnd'[n] = hnd[n], KeyOf(m)' = KeyOf(m)
    PROVE  Out' = Out \cup {<<KeyOf(m), m>>}
<1>1. \A n \in sent' : KeyOf(n)' = KeyOf(n)
  BY DEF IInv1, TypeOK, HandlersType, HandlerInv, KeyOf
<1>2. Out' = {<<KeyOf(n), n>> : n \in sent'}
  BY <1>1 DEF Out
<1> QED BY <1>2 DEF Out

LEMMA DebounceInit == Init => D!Init
BY DEF Init, D!Init

LEMMA DebounceStep == ASSUME IInv1, [Next]_vars PROVE [D!Next]_(D!dvars)
<1> USE DEF IInv1, TypeOK
<1>0. D!dvars = <<timers, Out, disposed>>
  BY DEF D!dvars, Out
<1>1. CASE UNCHANGED <<hnd, timers, sent, disposed>>
  BY <1>0, <1>1, OutKept DEF D!dvars, Out
<1>2. ASSUME NEW type \in EventType, NEW s \in Session, Event(type, s)
      PROVE  UNCHANGED D!dvars
  <2>1. UNCHANGED <<timers, sent, disposed>>
    BY <1>2 DEF Event, setup
  <2>2. Out' = Out
    BY <1>2, <2>1, AfterEvent, OutKept
  <2> QED BY <2>1, <2>2 DEF D!dvars, Out
<1>3. ASSUME NEW n \in Num, HandlerStep(n) PROVE [D!Next]_(D!dvars)
  <2>1. PICK p, a : Moved(n, p, a)
    BY <1>3, HandlerMoves
  <2>2. KeyOf(n) \in Key /\ disposed' = disposed
    BY <2>1 DEF HandlerInv, KeyOf, Key, Moved
  <2>3. \A m \in Num : hnd[m].pc = "scheduled" => hnd'[m] = hnd[m]
    BY <2>1, AfterMove
  <2>4. CASE p # "scheduled"
    <3>1. UNCHANGED <<timers, sent>>
      BY <2>1, <2>4 DEF Moved
    <3> QED BY <2>2, <2>3, <3>1, OutKept DEF D!dvars, Out
  <2>5. CASE p = "scheduled"
    <3>1. Scheduled(n) /\ hnd[n].pc # "scheduled"
      BY <2>1, <2>5 DEF Moved
    <3>2. <<KeyOf(n), n>> \notin Out
      BY <3>1 DEF Out, HandlerInv
    <3>3. timers[KeyOf(n)] # n
      BY <2>2, <3>1 DEF TimersType
    <3>4. CASE timers' = [timers EXCEPT ![KeyOf(n)] = n] /\ sent' = sent
      <4>1. Out' = Out
        BY <2>3, <3>4, OutKept
      <4>2. D!Arm(KeyOf(n), n)
        BY <2>2, <3>1, <3>2, <3>3, <3>4, <4>1 DEF D!Arm, D!Fresh, Scheduled, Out
      <4> QED BY <2>2, <4>2 DEF D!Next
    <3>5. CASE timers' = [timers EXCEPT ![KeyOf(n)] = 0] /\ sent' = sent \cup {n}
      <4>1. Out' = Out \cup {<<KeyOf(n), n>>}
        BY <2>1, <2>3, <3>5, AfterMove, OutGrows
      <4>2. D!PassAtOnce(KeyOf(n), n)
        BY <2>2, <3>1, <3>2, <3>3, <3>5, <4>1 DEF D!PassAtOnce, D!Fresh, Scheduled, Out
      <4> QED BY <2>2, <4>2 DEF D!Next
    <3> QED BY <3>1, <3>4, <3>5 DEF Scheduled
  <2> QED BY <2>4, <2>5
<1>4. ASSUME NEW k \in Key, TimerFires(k) PROVE D!Next
  <2>1. /\ timers[k] \in Num /\ KeyOf(timers[k]) = k
        /\ ~disposed
    BY <1>4 DEF TimersType, DisposeInv, TimerFires
  <2>2. /\ sent' = sent \cup {timers[k]} /\ hnd' = hnd /\ disposed' = disposed
        /\ timers' = [timers EXCEPT ![k] = 0] /\ timers[k] # 0
    BY <1>4, <2>1 DEF TimerFires, sendNotification, setup
  <2>3. Out' = Out \cup {<<k, timers[k]>>}
    BY <2>1, <2>2, OutGrows DEF KeyOf
  <2>4. D!Fire(k)
    BY <2>2, <2>3 DEF D!Fire, Out
  <2> QED BY <2>4 DEF D!Next
<1>5. CASE dispose
  <2>1. Out' = Out
    BY <1>5, OutKept DEF dispose
  <2>2. D!Close
    BY <1>5, <2>1 DEF D!Close, dispose, Out
  <2> QED BY <2>2 DEF D!Next
<1> QED BY <1>1, <1>2, <1>3, <1>4, <1>5, TimerSteps

\* The handlers and timers implement the debouncer: whatever the order in which
\* handlers get there, every step of theirs is one it allows (index.ts,
\* scheduleNotification, sendNotification, dispose).  That what waits is passed
\* on in the end needs fairness and is left to the run.
THEOREM DebounceRefinement == Spec => D!Safety
<1>1. IInv1 /\ [Next]_vars => [D!Next]_(D!dvars)
  BY DebounceStep
<1> QED BY InitInv1, StepInv1, DebounceInit, <1>1, PTL DEF Spec, D!Safety

-----------------------------------------------------------------------------
(* The configuration.                                                      *)

\* A shorthand whose numbers are all zero is no delay: the sum of parseDuration
\* stays at zero from one segment to the next.
LEMMA NoDelay ==
    ASSUME NEW q \in Seq(Segment), q # <<>>, \A i \in 1..Len(q) : q[i].n = 0
    PROVE  parseDuration(q) = Ok(0)
<1> DEFINE F(f) == [i \in 0..Len(q) |->
                      IF i = 0 THEN 0 ELSE f[i - 1] + q[i].n * Seconds[q[i].unit]]
           total == CHOOSE f : f = F(f)
           zero == [i \in 0..Len(q) |-> 0]
<1>1. Len(q) \in Nat
  OBVIOUS
<1>2. \A i \in 1..Len(q) : q[i].n * Seconds[q[i].unit] = 0
  <2>2. Seconds["h"] \in Nat /\ Seconds["m"] \in Nat /\ Seconds["s"] \in Nat
    BY DEF Seconds
  <2>3. \A i \in 1..Len(q) : q[i].unit \in {"h", "m", "s"}
    <3>1. \A i \in 1..Len(q) : q[i] \in Segment
      OBVIOUS
    <3> QED BY <3>1 DEF Segment
  <2>1. \A i \in 1..Len(q) : Seconds[q[i].unit] \in Nat
    BY <2>2, <2>3
  <2> QED BY <2>1
<1>3. total = F(total)
  <2>1. zero = F(zero)
    BY <1>1, <1>2
  <2> QED BY <2>1
<1> HIDE DEF total
<1>4. \A i \in 0..Len(q) : total[i] = 0
  <2> DEFINE T == {i \in 0..Len(q) : total[i] # 0}
  <2> SUFFICES ASSUME T # {} PROVE FALSE
    OBVIOUS
  <2>1. T \subseteq Nat
    BY <1>1
  <2>2. PICK i \in T : \A m \in T : i <= m
    <3> HIDE DEF T
    <3> QED BY <2>1, LeastNat
  <2>3. total[i] = IF i = 0 THEN 0 ELSE total[i - 1] + q[i].n * Seconds[q[i].unit]
    BY <1>1, <1>3
  <2> QED BY <1>1, <1>2, <2>2, <2>3
<1>5. parseDuration(q) = Ok((total[Len(q)] + 5) \div 10)
  BY DEF parseDuration, total
<1> QED BY <1>1, <1>4, <1>5

\* An entry that delays its event.
Delaying(r) ==
    /\ r.notifyAfter.is = "ok"
    /\ \E i \in DOMAIN r.notifyAfter.v : r.notifyAfter.v[i].n > 0

\* The entry of a file that parseEventConfig accepts, and what comes of it.
LEMMA EventConfigSound ==
    ASSUME NEW f \in Field(EventObject), NEW e \in NOTIFICATION_EVENTS,
           ~IsBad(parseEventConfig(f, defaultEvents[e]))
    PROVE  /\ f.is = "ok" => Sound(f.v)
           /\ parseEventConfig(f, defaultEvents[e]).v.enabled /\ f.is = "ok"
                 => f.v.enabled # Ok(FALSE)
           /\ (f.is = "ok" => ~Delaying(f.v))
                 => parseEventConfig(f, defaultEvents[e]).v.notifyAfterMs <= 0
<1> DEFINE d == defaultEvents[e]
           c == parseEventConfig(f, d).v
<1>1. d.notifyAfterMs = 0
  BY DEF defaultEvents
<1> SUFFICES /\ f.is = "ok" => Sound(f.v)
             /\ c.enabled /\ f.is = "ok" => f.v.enabled # Ok(FALSE)
             /\ (f.is = "ok" => ~Delaying(f.v)) => c.notifyAfterMs <= 0
  OBVIOUS
<1>2. CASE f = Absent
  <2>1. f.is = "absent"
    BY <1>2 DEF Absent
  <2>2. c = d
    BY <2>1 DEF parseEventConfig, IsAbsent, Ok
  <2> HIDE DEF c, d
  <2> QED BY <1>1, <2>1, <2>2
<1>3. CASE f = Bad
  BY <1>3 DEF parseEventConfig, Bad, IsAbsent, IsBad
<1>4. CASE f \in [is : {"ok"}, v : EventObject]
  <2> DEFINE r == f.v
             ms == parseRequiredDurationMs(r.notifyAfter, d.notifyAfterMs)
  <2>1. f.is = "ok" /\ r \in EventObject
    BY <1>4
  <2>2. /\ ~r.unknown /\ ~IsBad(r.enabled) /\ ~IsBad(ms)
        /\ c = [enabled |-> IF IsAbsent(r.enabled) THEN d.enabled ELSE r.enabled.v,
                notifyAfterMs |-> ms.v]
    BY <2>1 DEF parseEventConfig, IsAbsent, IsBad, Ok, Bad
  <2> HIDE DEF d, r, c, ms
  <2>3. r.enabled \in Field(BOOLEAN) /\ r.notifyAfter \in Field(Seq(Segment))
    BY <2>1 DEF EventObject
  <2>4. c.enabled => r.enabled # Ok(FALSE)
    BY <2>2 DEF Ok, IsAbsent
  <2> SUFFICES Sound(r) /\ (~Delaying(r) => c.notifyAfterMs <= 0)
    BY <2>1, <2>4 DEF r
  <2>5. CASE r.notifyAfter = Absent
    <3>1. r.notifyAfter.is = "absent"
      BY <2>5 DEF Absent
    <3>2. ms = Ok(d.notifyAfterMs)
      BY <3>1 DEF ms, parseRequiredDurationMs, IsAbsent
    <3>3. c.notifyAfterMs = 0
      BY <1>1, <2>2, <3>2 DEF Ok
    <3> QED BY <2>2, <3>1, <3>3 DEF Sound, IsBad
  <2>6. CASE r.notifyAfter \in [is : {"ok"}, v : Seq(Segment)]
    <3> DEFINE q == r.notifyAfter.v
    <3>1. r.notifyAfter.is = "ok" /\ q \in Seq(Segment)
      BY <2>6
    <3>2. ms = parseDuration(q)
      BY <3>1 DEF ms, parseRequiredDurationMs, IsAbsent, IsBad
    <3>3. q # <<>>
      BY <2>2, <3>2 DEF parseDuration, IsBad, Bad
    <3>4. ASSUME ~Delaying(r)
          PROVE  ms.v = 0
      <4>1. \A i \in 1..Len(q) : q[i] \in Segment /\ i \in DOMAIN q
        BY <3>1
      <4>2. \A i \in 1..Len(q) : q[i].n = 0
        BY <3>1, <3>4, <4>1 DEF Segment, Delaying
      <4> QED BY <3>1, <3>2, <3>3, <4>2, NoDelay DEF Ok
    <3>5. Sound(r)
      BY <2>2, <3>1, <3>3 DEF Sound, IsBad
    <3> QED BY <2>2, <3>4, <3>5
  <2>7. CASE r.notifyAfter = Bad
    BY <2>2, <2>7 DEF ms, parseRequiredDurationMs, IsAbsent, IsBad, Bad
  <2> QED BY <2>3, <2>5, <2>6, <2>7 DEF Field
<1> QED BY <1>2, <1>3, <1>4 DEF Field

\* The events of a file that parseEvents accepts.
LEMMA EventsSound ==
    ASSUME NEW g \in Field(EventsObject), ~IsBad(parseEvents(g)),
           NEW e \in NOTIFICATION_EVENTS
    PROVE  /\ ~IsBad(g)
           /\ g.is = "ok" /\ g.v.of[e].is = "ok" =>
                 /\ Sound(g.v.of[e].v)
                 /\ parseEvents(g).v[e].enabled => g.v.of[e].v.enabled # Ok(FALSE)
           /\ (g.is = "ok" /\ g.v.of[e].is = "ok" => ~Delaying(g.v.of[e].v))
                 => parseEvents(g).v[e].notifyAfterMs <= 0
<1>1. CASE g = Absent
  <2>1. g.is = "absent" /\ parseEvents(g).v = defaultEvents
    BY <1>1 DEF parseEvents, IsAbsent, Absent, Ok
  <2>2. defaultEvents[e].notifyAfterMs <= 0
    BY DEF defaultEvents
  <2> QED BY <2>1, <2>2 DEF IsBad
<1>2. CASE g = Bad
  BY <1>2 DEF parseEvents, Bad, IsAbsent, IsBad
<1>3. CASE g \in [is : {"ok"}, v : EventsObject]
  <2> DEFINE parsed == [x \in NOTIFICATION_EVENTS |->
                          parseEventConfig(g.v.of[x], defaultEvents[x])]
  <2>1. g.is = "ok" /\ g.v \in EventsObject
    BY <1>3
  <2>2. /\ \A x \in NOTIFICATION_EVENTS : ~IsBad(parsed[x])
        /\ parseEvents(g) = Ok([x \in NOTIFICATION_EVENTS |-> parsed[x].v])
    BY <2>1 DEF parseEvents, IsAbsent, IsBad, Bad
  <2>3. /\ ~IsBad(parseEventConfig(g.v.of[e], defaultEvents[e]))
        /\ parseEvents(g).v[e] = parseEventConfig(g.v.of[e], defaultEvents[e]).v
    BY <2>2 DEF Ok
  <2>4. g.v.of[e] \in Field(EventObject)
    BY <2>1 DEF EventsObject
  <2> QED BY <2>1, <2>3, <2>4, EventConfigSound DEF IsBad
<1> QED BY <1>1, <1>2, <1>3 DEF Field

\* A file that loadConfig accepts, and what the operator wrote in it.
LEMMA FileSound ==
    ASSUME file \in ConfigFile, loadConfig(file).is = "ok"
    PROVE  /\ file.is = "ok" /\ ~IsBad(file.v.events)
           /\ config.enabled => file.v.enabled # Ok(FALSE)
           /\ \A e \in NOTIFICATION_EVENTS :
                 /\ \A r \in Entries(e) : Sound(r)
                 /\ config.events[e].enabled =>
                       \A r \in Entries(e) : r.enabled # Ok(FALSE)
                 /\ ~Delays(e) => config.events[e].notifyAfterMs <= 0
<1> DEFINE c == file.v
           g == c.events
<1>1. file \in [is : {"ok"}, v : ConfigObject]
  <2>1. file \in Field(ConfigObject)
    BY NtfyAssumption
  <2>2. file # Absent /\ file # Bad
    BY DEF loadConfig, Absent, Bad, IsBad
  <2> QED BY <2>1, <2>2 DEF Field
<1>2. file.is = "ok" /\ c \in ConfigObject
  BY <1>1
<1>3. loadConfig(file) = parsePluginConfig(c)
  BY <1>2 DEF loadConfig, Absent, IsBad
<1>4. /\ ~IsBad(parseEvents(g))
      /\ config.enabled <=> IsAbsent(c.enabled) \/ c.enabled = Ok(TRUE)
      /\ config.events = parseEvents(g).v
  <2>1. ~IsBad(parsePluginConfig(c)) /\ config = parsePluginConfig(c).v
    BY <1>3 DEF IsBad, config
  <2> QED BY <2>1 DEF parsePluginConfig, IsBad, Bad, Ok
<1>5. g \in Field(EventsObject)
  BY <1>2 DEF ConfigObject
<1>6. config.enabled => c.enabled # Ok(FALSE)
  BY <1>4 DEF IsAbsent, Ok
<1>7. \A e \in NOTIFICATION_EVENTS :
        /\ g.is = "ok" /\ g.v.of[e].is = "ok" => Entries(e) = {g.v.of[e].v}
        /\ ~(g.is = "ok" /\ g.v.of[e].is = "ok") => Entries(e) = {}
  BY DEF Entries
<1>8. \A e \in NOTIFICATION_EVENTS : Delays(e) <=> \E r \in Entries(e) : Delaying(r)
  BY DEF Delays, Delaying
<1> HIDE DEF c, g
<1>9. ASSUME NEW e \in NOTIFICATION_EVENTS
      PROVE  /\ \A r \in Entries(e) : Sound(r)
             /\ config.events[e].enabled => \A r \in Entries(e) : r.enabled # Ok(FALSE)
             /\ ~Delays(e) => config.events[e].notifyAfterMs <= 0
  <2>1. CASE g.is = "ok" /\ g.v.of[e].is = "ok"
    BY <1>4, <1>5, <1>7, <1>8, <2>1, EventsSound
  <2>2. CASE ~(g.is = "ok" /\ g.v.of[e].is = "ok")
    BY <1>4, <1>5, <1>7, <1>8, <2>2, EventsSound
  <2> QED BY <2>1, <2>2
<1>10. ~IsBad(g)
  BY <1>4, <1>5, EventsSound DEF NOTIFICATION_EVENTS
<1> QED BY <1>2, <1>6, <1>9, <1>10 DEF c, g

LEMMA FileKept == ASSUME IInv1, [Next]_vars PROVE file' = file
<1> USE DEF setup, resolver, server, history
<1>1. CASE Load \/ VcsGet \/ refresh \/ refreshFails \/ BranchUpdated
  BY <1>1 DEF Load, VcsGet, refresh, refreshFails, BranchUpdated
<1>2. CASE dispose \/ UNCHANGED vars \/ \E k \in Key : TimerFires(k)
  BY <1>2 DEF dispose, vars, TimerFires
<1>3. CASE \/ \E b \in RawBranch : Checkout(b)
           \/ \E s \in Session : PtySpawned(s) \/ PtyExited(s)
  BY <1>3 DEF Checkout, PtySpawned, PtyExited
<1>4. ASSUME NEW type \in EventType, NEW s \in Session, Event(type, s) PROVE file' = file
  BY <1>4 DEF Event
<1>5. ASSUME NEW n \in Num, HandlerStep(n) PROVE file' = file
  BY <1>5, HandlerMoves DEF Moved
<1> QED BY <1>1, <1>2, <1>3, <1>4, <1>5 DEF Next

LEMMA ConfigStep == IInv1 /\ ConfigInv /\ [Next]_vars => ConfigInv'
<1> SUFFICES ASSUME IInv1, ConfigInv, [Next]_vars PROVE ConfigInv'
  OBVIOUS
<1> USE DEF IInv1, TypeOK
<1>0. config' = config
  BY FileKept DEF config
<1>1. CASE UNCHANGED <<hnd, timers, sent, disposed>>
  BY <1>0, <1>1 DEF ConfigInv, KeyOf
<1>2. ASSUME NEW type \in EventType, NEW s \in Session, Event(type, s) PROVE ConfigInv'
  <2>1. UNCHANGED <<timers, sent>>
    BY <1>2 DEF Event
  <2> QED BY <1>0, <1>2, <2>1, AfterEvent DEF ConfigInv, KeyOf
<1>3. ASSUME NEW n \in Num, HandlerStep(n) PROVE ConfigInv'
  <2>1. PICK p, a : Moved(n, p, a) /\ Gated(n, p, a)
    BY <1>3, HandlerMoves
  <2>2. KeyOf(n) \in Key /\ timers \in [Key -> 0..MaxEvents]
    BY <2>1 DEF HandlerInv, KeyOf, Key, Moved, TimersType
  <2>3. p \in {"subagent", "pty", "scheduled"} =>
          config.enabled /\ config.events[hnd[n].e].enabled
    BY <2>1 DEF Gated, Moved, ConfigInv
  <2>4. ASSUME p = "scheduled", config.events[hnd[n].e].notifyAfterMs <= 0
        PROVE  n \in sent' /\ timers'[KeyOf(n)] # n
    <3>1. Scheduled(n)
      BY <2>1, <2>4 DEF Moved
    <3> QED BY <2>2, <2>4, <3>1 DEF Scheduled
  <2>5. ASSUME NEW m \in Num \ {n}, hnd[m].pc = "scheduled", timers[KeyOf(m)] # m
        PROVE  timers'[KeyOf(m)] # m
    <3>1. KeyOf(m) \in Key
      BY <2>5 DEF HandlerInv, KeyOf, Key
    <3>2. CASE p = "scheduled"
      <4>1. Scheduled(n)
        BY <2>1, <3>2 DEF Moved
      <4> QED BY <2>2, <2>5, <3>1, <4>1 DEF Scheduled
    <3>3. CASE p # "scheduled"
      BY <2>1, <2>5, <3>3 DEF Moved
    <3> QED BY <3>2, <3>3
  <2>6. sent \subseteq sent'
    BY <2>1, MoveSends
  <2>7. ASSUME NEW m \in Num
        PROVE  /\ hnd'[m].pc \in {"subagent", "pty", "scheduled"} =>
                     config.enabled /\ config.events[hnd'[m].e].enabled
               /\ hnd'[m].pc = "scheduled" /\ config.events[hnd'[m].e].notifyAfterMs <= 0 =>
                     m \in sent' /\ timers'[KeyOf(m)] # m
    <3>1. CASE m = n
      BY <2>1, <2>3, <2>4, <3>1, AfterMove
    <3>2. CASE m # n
      BY <2>1, <2>5, <2>6, <3>2, AfterMove DEF ConfigInv
    <3> QED BY <3>1, <3>2
  <2>8. \A m \in Num : KeyOf(m)' = KeyOf(m)
    BY <2>1, AfterMove
  <2> QED BY <1>0, <2>7, <2>8 DEF ConfigInv
<1>4. ASSUME NEW k \in Key, TimerFires(k) PROVE ConfigInv'
  <2>1. /\ hnd' = hnd /\ sent \subseteq sent'
        /\ timers' = [timers EXCEPT ![k] = 0]
    BY <1>4 DEF TimerFires, sendNotification
  <2>2. \A m \in Num : hnd[m].pc = "scheduled" => KeyOf(m) \in Key
    BY DEF HandlerInv, KeyOf, Key
  <2>3. \A m \in Num : KeyOf(m)' = KeyOf(m)
    BY <2>1 DEF KeyOf
  <2>4. \A m \in Num : hnd[m].pc = "scheduled" /\ timers[KeyOf(m)] # m => timers'[KeyOf(m)] # m
    BY <2>1, <2>2 DEF TimersType
  <2> QED BY <1>0, <2>1, <2>3, <2>4 DEF ConfigInv
<1>5. CASE dispose
  <2>1. hnd' = hnd /\ sent' = sent /\ timers' = [k \in Key |-> 0]
    BY <1>5 DEF dispose
  <2>2. \A m \in Num : hnd[m].pc = "scheduled" => timers'[KeyOf(m)] # m
    BY <2>1 DEF HandlerInv, KeyOf, Key
  <2>3. \A m \in Num : KeyOf(m)' = KeyOf(m)
    BY <2>1 DEF KeyOf
  <2> QED BY <1>0, <2>1, <2>2, <2>3 DEF ConfigInv
<1> QED BY <1>1, <1>2, <1>3, <1>4, <1>5, TimerSteps

\* config.ts fails loud, for every configuration file there is: a notification
\* is scheduled only under a file without a malformed entry that wants the
\* event; it waits only if the file delays it, and is sent at once otherwise.
THEOREM ConfigSafety == Spec => []SendsAsConfigured
<1>1. Init => ConfigInv
  BY DEF Init, ConfigInv, NoHandler
<1>2. ASSUME IInv1, ConfigInv PROVE SendsAsConfigured
  <2> SUFFICES ASSUME NEW n \in Num, hnd[n].pc = "scheduled"
               PROVE  /\ file.is = "ok"
                      /\ ~IsBad(file.v.events)
                      /\ \A e \in NOTIFICATION_EVENTS : \A r \in Entries(e) : Sound(r)
                      /\ Wants(hnd[n].e)
                      /\ ~Delays(hnd[n].e) => n \in sent
                      /\ timers[KeyOf(n)] = n => Delays(hnd[n].e)
    BY DEF SendsAsConfigured
  <2>1. hnd[n].e \in NOTIFICATION_EVENTS /\ arrived # 0
    BY <1>2 DEF IInv1, HandlerInv, TypeOK, HandlersType
  <2>2. file \in ConfigFile /\ loadConfig(file).is = "ok"
    BY <1>2, <2>1 DEF IInv1, StatusInv
  <2>3. config.enabled /\ config.events[hnd[n].e].enabled
    BY <1>2 DEF ConfigInv
  <2>4. config.events[hnd[n].e].notifyAfterMs <= 0 => n \in sent /\ timers[KeyOf(n)] # n
    BY <1>2 DEF ConfigInv
  <2>5. Wants(hnd[n].e)
    BY <2>1, <2>2, <2>3, FileSound DEF Wants
  <2> QED BY <2>1, <2>2, <2>4, <2>5, FileSound
<1> QED BY InitInv1, StepInv1, ConfigStep, <1>1, <1>2, PTL DEF Spec
=============================================================================
