------------------------- MODULE PtyLifecycleProofs -------------------------
(***************************************************************************)
(* Proofs about PtyLifecycle, for transcripts of any length with any       *)
(* number of terminals, mentions and restarts.                             *)
(***************************************************************************)
EXTENDS PtyLifecycle, NatLemmas, FiniteSetTheorems, SequenceTheorems, TLAPS

\* A pty_spawn call among the parts of a message, and the record of an end:
\* the exact block, in a message of the user.
CallsOf(m) == {q \in m.parts : q.type = "tool"}
EndsOf(m) == {x \in m.parts : m.role = "user" /\ x.type = "text" /\ x.block}

\* The terminals that have not ended by themselves.
Kept == live \cup exiting \cup dead

\* Calls are made by the agent, before now, under ids of their own.
CallInv ==
    \A i \in DOMAIN msgs : \A q \in CallsOf(msgs[i]) :
        /\ msgs[i].role = "assistant"
        /\ q.time < now
        /\ \A j \in DOMAIN msgs : \A r \in CallsOf(msgs[j]) : r.id = q.id => i = j

\* A record of an end is written once the terminal has ended, after its call.
EndInv ==
    \A j \in DOMAIN msgs : \A x \in EndsOf(msgs[j]) :
        /\ x.id \notin Kept
        /\ \E i \in DOMAIN msgs : \E q \in CallsOf(msgs[i]) : q.id = x.id
        /\ \A i \in DOMAIN msgs : \A q \in CallsOf(msgs[i]) :
              q.id = x.id => i < j /\ q.time < x.time

\* A terminal is in one state, has a call, and one that is to notify its end is
\* not lost sight of.
KeptInv ==
    /\ live \cap exiting = {} /\ dead \cap (live \cup exiting) = {}
    /\ \A p \in Kept : \E i \in DOMAIN msgs : \E q \in CallsOf(msgs[i]) : q.id = p
    /\ \A i \in DOMAIN msgs : \A q \in CallsOf(msgs[i]) : q.notifyOnExit =>
          \/ q.id \in Kept
          \/ \E j \in DOMAIN msgs : \E x \in EndsOf(msgs[j]) : x.id = q.id

\* A waived terminal was started in a message that carries a mark.
WaivedInv ==
    \A p \in waived : \E i \in DOMAIN msgs :
        msgs[i].aborted /\ \E q \in CallsOf(msgs[i]) : q.id = p

\* The marks: a message is marked when its terminals are waived or nudged, and
\* a terminal is nudged when its message is marked.  What the server runs was
\* not ended by a restart.
MarkInv ==
    /\ \A i \in DOMAIN msgs : \A q \in CallsOf(msgs[i]) :
          /\ msgs[i].aborted /\ q.id \in Kept => q.id \in waived \cup nudged
          /\ up /\ i \in Open => q.id \notin dead
          /\ q.notifyOnExit /\ q.status = "completed" /\ q.id \in nudged => msgs[i].aborted
    /\ WaivedInv

\* At most one turn is open, and its message carries no mark.
OpenInv == /\ \A i, j \in Open : i = j
           /\ \A i \in Open : ~msgs[i].aborted

RecordInv == CallInv /\ EndInv /\ KeptInv
IInv == TypeOK /\ OpenInv /\ RecordInv /\ MarkInv /\ KilledIsRecovered

-----------------------------------------------------------------------------
(* What the readers report.                                                *)

\* The ids of the calls on record in a message.
Spawned(m) ==
    {q.id : q \in {r \in m.parts : r.type = "tool" /\ r.notifyOnExit /\ r.status = "completed"}}

\* p is on record in one of the first n messages, with no end after it.
PendingIn(messages, n, p) ==
    \E i \in 1..n :
        /\ messages[i].role = "assistant" /\ p \in Spawned(messages[i])
        /\ \A j \in (i + 1)..n : messages[j].role # "assistant" =>
              p \notin parsePtyExitedIDs(messages[j].parts)

\* The one pass over the messages reports the terminals on record that no later
\* message ends: its set after n messages has no least n at which it is wrong.
LEMMA PendingMeaning ==
    ASSUME NEW messages, Len(messages) \in Nat, NEW p
    PROVE  p \in unfinishedNotifyOnExitPtys(messages)
             <=> PendingIn(messages, Len(messages), p)
<1> DEFINE n == Len(messages)
           spawned(m) == UNION {parsePtySpawnedID(q) :
                                  q \in {r \in m.parts : r.type = "tool" /\ r.notifyOnExit}}
           F(f) == [i \in 0..n |->
                      IF i = 0 THEN {}
                      ELSE IF messages[i].role = "assistant"
                      THEN f[i - 1] \cup spawned(messages[i])
                      ELSE f[i - 1] \ parsePtyExitedIDs(messages[i].parts)]
           pending == CHOOSE f : f = F(f)
           Ids == UNION {Spawned(messages[i]) : i \in 1..n}
           P == [k \in 0..n |-> {x \in Ids : PendingIn(messages, k, x)}]
<1>1. \A i \in 1..n : spawned(messages[i]) = Spawned(messages[i])
  BY DEF parsePtySpawnedID, Spawned
<1>2. \A k \in 0..n : \A x : PendingIn(messages, k, x) => x \in Ids
  BY DEF PendingIn
<1>3. \A x : ~PendingIn(messages, 0, x)
  BY DEF PendingIn
<1>4. ASSUME NEW k \in 1..n, messages[k].role = "assistant", NEW x
      PROVE  PendingIn(messages, k, x)
               <=> PendingIn(messages, k - 1, x) \/ x \in Spawned(messages[k])
  BY <1>4 DEF PendingIn
<1>5. ASSUME NEW k \in 1..n, messages[k].role # "assistant", NEW x
      PROVE  PendingIn(messages, k, x)
               <=> PendingIn(messages, k - 1, x) /\ x \notin parsePtyExitedIDs(messages[k].parts)
  BY <1>5 DEF PendingIn
<1> HIDE DEF spawned, Ids
<1>6. P = F(P)
  <2>1. P[0] = {}
    BY <1>3
  <2>2. ASSUME NEW k \in 1..n, messages[k].role = "assistant"
        PROVE  P[k] = P[k - 1] \cup spawned(messages[k])
    BY <1>1, <1>2, <1>4, <2>2
  <2>3. ASSUME NEW k \in 1..n, messages[k].role # "assistant"
        PROVE  P[k] = P[k - 1] \ parsePtyExitedIDs(messages[k].parts)
    BY <1>2, <1>5, <2>3
  <2> HIDE DEF P
  <2>4. \A k \in 0..n : P[k] = F(P)[k]
    <3> SUFFICES ASSUME NEW k \in 0..n PROVE P[k] = F(P)[k]
      OBVIOUS
    <3>1. CASE k = 0
      BY <2>1, <3>1
    <3>2. CASE k \in 1..n /\ messages[k].role = "assistant"
      <4>1. F(P)[k] = P[k - 1] \cup spawned(messages[k])
        BY <3>2
      <4> QED BY <2>2, <3>2, <4>1
    <3>3. CASE k \in 1..n /\ messages[k].role # "assistant"
      <4>1. F(P)[k] = P[k - 1] \ parsePtyExitedIDs(messages[k].parts)
        BY <3>3
      <4> QED BY <2>3, <3>3, <4>1
    <3> QED BY <3>1, <3>2, <3>3
  <2>5. P = [k \in 0..n |-> P[k]]
    BY DEF P
  <2>6. F(P) = [k \in 0..n |-> F(P)[k]]
    OBVIOUS
  <2> QED BY <2>4, <2>5, <2>6
<1>7. pending = F(pending)
  BY <1>6
<1>8. unfinishedNotifyOnExitPtys(messages) = pending[n]
  BY DEF unfinishedNotifyOnExitPtys, spawned
<1> HIDE DEF pending
<1>9. \A k \in 0..n : pending[k] = P[k]
  <2> DEFINE T == {k \in 0..n : pending[k] # P[k]}
  <2> SUFFICES ASSUME T # {} PROVE FALSE
    OBVIOUS
  <2>1. PICK k \in T : \A m \in T : k <= m
    <3>1. T \subseteq Nat
      OBVIOUS
    <3> HIDE DEF T
    <3> QED BY <3>1, LeastNat
  <2> HIDE DEF P
  <2>2. k # 0
    BY <1>6, <1>7
  <2>3. k - 1 \in 0..n /\ k - 1 \notin T
    BY <2>1, <2>2
  <2>4. pending[k - 1] = P[k - 1]
    BY <2>3
  <2>5. pending[k] = P[k]
    BY <1>6, <1>7, <2>2, <2>4
  <2> QED BY <2>5
<1> QED BY <1>2, <1>8, <1>9

\* The parts of a message are calls and texts.
LEMMA PartFacts ==
    ASSUME TranscriptType
    PROVE  /\ Len(msgs) \in Nat /\ DOMAIN msgs = 1..Len(msgs)
           /\ \A i \in DOMAIN msgs : msgs[i] \in MessageType /\ msgs[i].parts \subseteq PartType
<1>1. Len(msgs) \in Nat /\ DOMAIN msgs = 1..Len(msgs) /\ \A i \in DOMAIN msgs : msgs[i] \in MessageType
  BY DEF TranscriptType
<1>2. \A m \in MessageType : m.parts \subseteq PartType
  BY DEF MessageType
<1> QED BY <1>1, <1>2

\* Pending terminals of the transcript, in terms of calls and ends.
LEMMA PendingCalls ==
    ASSUME TranscriptType, CallInv, EndInv, NEW p
    PROVE  p \in unfinishedNotifyOnExitPtys(msgs) <=>
              /\ \E i \in DOMAIN msgs : \E q \in CallsOf(msgs[i]) :
                    q.notifyOnExit /\ q.status = "completed" /\ q.id = p
              /\ \A j \in DOMAIN msgs : \A x \in EndsOf(msgs[j]) : x.id # p
<1>0. Len(msgs) \in Nat /\ DOMAIN msgs = 1..Len(msgs) /\ \A i \in DOMAIN msgs : msgs[i] \in MessageType
  BY PartFacts
<1>1. \A i \in DOMAIN msgs : p \in Spawned(msgs[i]) <=>
         \E q \in CallsOf(msgs[i]) : q.notifyOnExit /\ q.status = "completed" /\ q.id = p
  BY DEF Spawned, CallsOf
<1>2. \A j \in DOMAIN msgs : msgs[j].role # "assistant" =>
         (p \in parsePtyExitedIDs(msgs[j].parts) <=> \E x \in EndsOf(msgs[j]) : x.id = p)
  BY <1>0 DEF parsePtyExitedIDs, EndsOf, MessageType
<1>3. \A j \in DOMAIN msgs : \A x \in EndsOf(msgs[j]) : msgs[j].role # "assistant"
  BY DEF EndsOf
<1>4. p \in unfinishedNotifyOnExitPtys(msgs) <=> PendingIn(msgs, Len(msgs), p)
  BY <1>0, PendingMeaning
<1>5. ASSUME NEW i \in DOMAIN msgs, p \in Spawned(msgs[i]),
             NEW j \in DOMAIN msgs, NEW x \in EndsOf(msgs[j]), x.id = p
      PROVE  j \in (i + 1)..Len(msgs)
  BY <1>0, <1>1, <1>5 DEF EndInv
<1>6. ASSUME PendingIn(msgs, Len(msgs), p)
      PROVE  /\ \E i \in DOMAIN msgs : p \in Spawned(msgs[i])
             /\ \A j \in DOMAIN msgs : \A x \in EndsOf(msgs[j]) : x.id # p
  <2>1. PICK i \in 1..Len(msgs) :
           /\ msgs[i].role = "assistant" /\ p \in Spawned(msgs[i])
           /\ \A j \in (i + 1)..Len(msgs) : msgs[j].role # "assistant" =>
                 p \notin parsePtyExitedIDs(msgs[j].parts)
    BY <1>6 DEF PendingIn
  <2> QED BY <1>0, <1>2, <1>3, <1>5, <2>1
<1>7. ASSUME NEW i \in DOMAIN msgs, p \in Spawned(msgs[i]),
             \A j \in DOMAIN msgs : \A x \in EndsOf(msgs[j]) : x.id # p
      PROVE  PendingIn(msgs, Len(msgs), p)
  <2>1. msgs[i].role = "assistant"
    BY <1>1, <1>7 DEF CallInv
  <2>2. \A j \in (i + 1)..Len(msgs) : j \in DOMAIN msgs
    BY <1>0
  <2> QED BY <1>0, <1>2, <1>7, <2>1, <2>2 DEF PendingIn
<1> QED BY <1>1, <1>4, <1>6, <1>7

\* ... and the calls heal selects, whatever messages are marked by then.
LEMMA AbandonedCalls ==
    ASSUME TranscriptType, EndInv, NEW q, NEW messages, DOMAIN messages = DOMAIN msgs,
           \A i \in DOMAIN msgs : /\ messages[i].parts = msgs[i].parts
                                  /\ messages[i].role = msgs[i].role
    PROVE  q \in abandoned(messages) <=>
              /\ \E i \in DOMAIN msgs : q \in CallsOf(msgs[i]) /\ ~messages[i].aborted
              /\ q.notifyOnExit /\ q.status = "completed"
              /\ \A j \in DOMAIN msgs : \A x \in EndsOf(msgs[j]) : x.id # q.id
<1>1. ASSUME NEW i \in DOMAIN msgs, q \in CallsOf(msgs[i])
      PROVE  (\E j \in DOMAIN messages : \E x \in messages[j].parts :
                 /\ messages[j].role = "user"
                 /\ x.type = "text" /\ x.block /\ x.id = q.id /\ x.time > q.time)
             <=> \E j \in DOMAIN msgs : \E x \in EndsOf(msgs[j]) : x.id = q.id
  <2>1. ASSUME NEW j \in DOMAIN msgs, NEW x \in EndsOf(msgs[j]), x.id = q.id
        PROVE  x.time > q.time
    <3>1. q.time < x.time
      BY <1>1, <2>1 DEF EndInv
    <3>2. q \in PartType /\ x \in PartType
      BY <1>1, PartFacts DEF CallsOf, EndsOf
    <3> QED BY <3>1, <3>2 DEF PartType
  <2> QED BY <2>1 DEF EndsOf
<1> QED BY <1>1 DEF abandoned, CallsOf

\* The two readers agree on every transcript the system writes.
LEMMA ReadersAgree ==
    ASSUME TranscriptType, CallInv, EndInv
    PROVE  HealMirrorsParser
<1> DEFINE Unmarked(p) == \A i \in DOMAIN msgs : msgs[i].aborted =>
                            \A q \in msgs[i].parts : q.type = "tool" => q.id # p
<1>1. ASSUME NEW q \in abandoned(msgs)
      PROVE  q.id \in unfinishedNotifyOnExitPtys(msgs) /\ Unmarked(q.id)
  <2>1. PICK i \in DOMAIN msgs : q \in CallsOf(msgs[i]) /\ ~msgs[i].aborted
    BY AbandonedCalls
  <2>2. q.id \in unfinishedNotifyOnExitPtys(msgs)
    BY <2>1, AbandonedCalls, PendingCalls
  <2>3. \A j \in DOMAIN msgs : \A r \in CallsOf(msgs[j]) : r.id = q.id => i = j
    BY <2>1 DEF CallInv
  <2> QED BY <2>1, <2>2, <2>3 DEF CallsOf
<1>2. ASSUME NEW p \in unfinishedNotifyOnExitPtys(msgs), Unmarked(p)
      PROVE  \E q \in abandoned(msgs) : q.id = p
  <2>0. PICK i \in DOMAIN msgs : \E q \in CallsOf(msgs[i]) :
           q.notifyOnExit /\ q.status = "completed" /\ q.id = p
    BY <1>2, PendingCalls
  <2>1. PICK q \in CallsOf(msgs[i]) :
           q.notifyOnExit /\ q.status = "completed" /\ q.id = p
    BY <2>0
  <2>2. ~msgs[i].aborted
    BY <1>2, <2>1 DEF CallsOf
  <2>3. \A j \in DOMAIN msgs : \A x \in EndsOf(msgs[j]) : x.id # q.id
    BY <1>2, <2>1, PendingCalls
  <2> QED BY <2>1, <2>2, <2>3, AbandonedCalls
<1> QED BY <1>1, <1>2 DEF HealMirrorsParser

\* A running terminal on record has no end in the transcript.
LEMMA RunningReported ==
    ASSUME TranscriptType, CallInv, EndInv
    PROVE  RunningIsPending
<1> SUFFICES ASSUME NEW p \in live \cup exiting, p \in Recorded
             PROVE  p \in unfinishedNotifyOnExitPtys(msgs)
  BY DEF RunningIsPending
<1>1. \E i \in DOMAIN msgs : \E q \in CallsOf(msgs[i]) :
         q.notifyOnExit /\ q.status = "completed" /\ q.id = p
  BY DEF Recorded, Calls, Parts, CallsOf
<1>2. \A j \in DOMAIN msgs : \A x \in EndsOf(msgs[j]) : x.id # p
  BY DEF EndInv, Kept
<1> QED BY <1>1, <1>2, PendingCalls

-----------------------------------------------------------------------------
(* How the transcript grows.                                               *)

LEMMA AppendFacts ==
    ASSUME TranscriptType, NEW m \in MessageType, msgs' = Append(msgs, m)
    PROVE  /\ msgs' \in Seq(MessageType)
           /\ DOMAIN msgs' = DOMAIN msgs \cup {Len(msgs) + 1}
           /\ Len(msgs) + 1 \notin DOMAIN msgs /\ Len(msgs) \in Nat
           /\ msgs'[Len(msgs) + 1] = m
           /\ \A i \in DOMAIN msgs : msgs'[i] = msgs[i] /\ i <= Len(msgs) /\ i \in Nat
<1>1. msgs \in Seq(MessageType) /\ Len(msgs) \in Nat /\ DOMAIN msgs = 1..Len(msgs)
  BY DEF TranscriptType
<1>2. /\ msgs' \in Seq(MessageType) /\ Len(msgs') = Len(msgs) + 1
      /\ \A i \in 1..Len(msgs) : msgs'[i] = msgs[i]
      /\ msgs'[Len(msgs) + 1] = m
  BY <1>1
<1>3. DOMAIN msgs' = 1..(Len(msgs) + 1)
  BY <1>2
<1> QED BY <1>1, <1>2, <1>3

\* Message i is replaced by m.
Put(i, m) ==
    /\ DOMAIN msgs' = DOMAIN msgs
    /\ msgs'[i] = m
    /\ \A j \in DOMAIN msgs : j # i => msgs'[j] = msgs[j]

LEMMA PutFacts ==
    ASSUME TranscriptType, NEW i \in DOMAIN msgs, NEW m \in MessageType,
           msgs' = [msgs EXCEPT ![i] = m]
    PROVE  msgs' \in Seq(MessageType) /\ Put(i, m)
<1>1. msgs \in Seq(MessageType) /\ DOMAIN msgs = 1..Len(msgs)
  BY DEF TranscriptType
<1>2. msgs' \in Seq(MessageType) /\ DOMAIN msgs' = DOMAIN msgs
  BY <1>1, ExceptSeq
<1> QED BY <1>1, <1>2 DEF Put

\* Message m with other parts.
WithParts(m, parts) == [m EXCEPT !.parts = parts]

LEMMA WithPartsFacts ==
    ASSUME NEW m \in MessageType, NEW parts \in SUBSET PartType
    PROVE  /\ WithParts(m, parts) \in MessageType
           /\ WithParts(m, parts).parts = parts
           /\ WithParts(m, parts).role = m.role
           /\ WithParts(m, parts).completed = m.completed
           /\ WithParts(m, parts).aborted = m.aborted
BY DEF WithParts, MessageType

\* The open messages.
LEMMA OpenFacts ==
    /\ \A i : i \in Open <=> i \in DOMAIN msgs /\ msgs[i].role = "assistant" /\ ~msgs[i].completed
    /\ \A i : i \in Open' <=> i \in DOMAIN msgs' /\ msgs'[i].role = "assistant" /\ ~msgs'[i].completed
BY DEF Open

LEMMA OpenCount ==
    ASSUME OpenInv PROVE Cardinality(Open) <= 1
<1>1. CASE Open = {}
  BY <1>1, FS_EmptySet
<1>2. CASE Open # {}
  <2>1. PICK i : Open = {i}
    BY <1>2 DEF OpenInv
  <2>2. Cardinality({i}) = 1
    BY FS_Singleton
  <2> QED BY <2>1, <2>2
<1> QED BY <1>1, <1>2

-----------------------------------------------------------------------------
(* Calls and ends from one state to the next.                              *)

\* No call appears or goes, whatever becomes of its status.
SameCalls ==
    /\ DOMAIN msgs \subseteq DOMAIN msgs'
    /\ \A i \in DOMAIN msgs : msgs'[i].role = msgs[i].role
    /\ \A i \in DOMAIN msgs' : \A r \in CallsOf(msgs'[i]) :
          /\ i \in DOMAIN msgs
          /\ \E q \in CallsOf(msgs[i]) :
                q.id = r.id /\ q.time = r.time /\ q.notifyOnExit = r.notifyOnExit
    /\ \A i \in DOMAIN msgs : \A q \in CallsOf(msgs[i]) :
          \E r \in CallsOf(msgs'[i]) : r.id = q.id

\* No record of an end appears or goes.
SameEnds ==
    /\ \A j \in DOMAIN msgs : EndsOf(msgs'[j]) = EndsOf(msgs[j])
    /\ \A j \in DOMAIN msgs' : j \notin DOMAIN msgs => EndsOf(msgs'[j]) = {}

LEMMA CallTyped ==
    ASSUME TranscriptType, NEW i \in DOMAIN msgs
    PROVE  /\ \A q \in CallsOf(msgs[i]) :
                 /\ q.id \in Pty /\ q.time \in Nat /\ q.notifyOnExit \in BOOLEAN
                 /\ q.status \in {"running", "completed", "error"}
           /\ \A x \in EndsOf(msgs[i]) : x.id \in Pty /\ x.time \in Nat
<1>1. msgs[i].parts \subseteq PartType
  BY PartFacts
<1>2. \A q \in PartType : q.id \in Pty /\ q.time \in Nat
  BY DEF PartType
<1>3. \A q \in PartType : q.type = "tool" =>
         q.notifyOnExit \in BOOLEAN /\ q.status \in {"running", "completed", "error"}
  BY DEF PartType
<1> QED BY <1>1, <1>2, <1>3 DEF CallsOf, EndsOf

LEMMA RecordFrame ==
    ASSUME TranscriptType, RecordInv, SameCalls, SameEnds,
           UNCHANGED <<live, exiting, dead>>, now' \in Nat, now' >= now
    PROVE  RecordInv'
<1>0. CallInv /\ EndInv /\ KeptInv /\ now \in Nat
  BY DEF RecordInv, TranscriptType
<1>1. Kept' = Kept
  BY DEF Kept
<1>2. CallInv'
  <2> SUFFICES ASSUME NEW i \in DOMAIN msgs', NEW r \in CallsOf(msgs'[i])
               PROVE  /\ msgs'[i].role = "assistant"
                      /\ r.time < now'
                      /\ \A j \in DOMAIN msgs' : \A s \in CallsOf(msgs'[j]) : s.id = r.id => i = j
    BY DEF CallInv
  <2>1. i \in DOMAIN msgs
    BY DEF SameCalls
  <2>2. PICK q \in CallsOf(msgs[i]) : q.id = r.id /\ q.time = r.time
    BY DEF SameCalls
  <2>3. msgs'[i].role = "assistant" /\ r.time < now'
    BY <1>0, <2>1, <2>2, CallTyped DEF SameCalls, CallInv
  <2>4. ASSUME NEW j \in DOMAIN msgs', NEW s \in CallsOf(msgs'[j]), s.id = r.id PROVE i = j
    <3>1. j \in DOMAIN msgs /\ \E u \in CallsOf(msgs[j]) : u.id = s.id
      BY <2>4 DEF SameCalls
    <3> QED BY <1>0, <2>1, <2>2, <2>4, <3>1 DEF CallInv
  <2> QED BY <2>3, <2>4
<1>3. EndInv'
  <2> SUFFICES ASSUME NEW j \in DOMAIN msgs', NEW x \in EndsOf(msgs'[j])
               PROVE  /\ x.id \notin Kept'
                      /\ \E i \in DOMAIN msgs' : \E q \in CallsOf(msgs'[i]) : q.id = x.id
                      /\ \A i \in DOMAIN msgs' : \A q \in CallsOf(msgs'[i]) :
                            q.id = x.id => i < j /\ q.time < x.time
    BY DEF EndInv
  <2>1. j \in DOMAIN msgs /\ x \in EndsOf(msgs[j])
    BY DEF SameEnds
  <2>2. \E i \in DOMAIN msgs : \E q \in CallsOf(msgs[i]) : q.id = x.id
    BY <1>0, <2>1 DEF EndInv
  <2>3. \E i \in DOMAIN msgs' : \E q \in CallsOf(msgs'[i]) : q.id = x.id
    BY <2>2 DEF SameCalls
  <2>4. ASSUME NEW i \in DOMAIN msgs', NEW r \in CallsOf(msgs'[i]), r.id = x.id
        PROVE  i < j /\ r.time < x.time
    <3>1. i \in DOMAIN msgs /\ \E q \in CallsOf(msgs[i]) : q.id = r.id /\ q.time = r.time
      BY DEF SameCalls
    <3> QED BY <1>0, <2>1, <2>4, <3>1 DEF EndInv
  <2> QED BY <1>0, <1>1, <2>1, <2>3, <2>4 DEF EndInv
<1>4. KeptInv'
  <2>1. (live \cap exiting = {} /\ dead \cap (live \cup exiting) = {})'
    BY <1>0 DEF KeptInv
  <2>2. ASSUME NEW p \in Kept PROVE \E i \in DOMAIN msgs' : \E q \in CallsOf(msgs'[i]) : q.id = p
    <3>1. \E i \in DOMAIN msgs : \E q \in CallsOf(msgs[i]) : q.id = p
      BY <1>0 DEF KeptInv
    <3> QED BY <3>1 DEF SameCalls
  <2>3. ASSUME NEW i \in DOMAIN msgs', NEW r \in CallsOf(msgs'[i]), r.notifyOnExit
        PROVE  r.id \in Kept \/ \E j \in DOMAIN msgs' : \E x \in EndsOf(msgs'[j]) : x.id = r.id
    <3>1. i \in DOMAIN msgs /\ \E q \in CallsOf(msgs[i]) : q.id = r.id /\ q.notifyOnExit
      BY <2>3 DEF SameCalls
    <3>2. r.id \in Kept \/ \E j \in DOMAIN msgs : \E x \in EndsOf(msgs[j]) : x.id = r.id
      BY <1>0, <3>1 DEF KeptInv
    <3> QED BY <3>2 DEF SameEnds, SameCalls
  <2> QED BY <1>1, <2>1, <2>2, <2>3 DEF KeptInv
<1> QED BY <1>2, <1>3, <1>4 DEF RecordInv

\* The calls and the marks on their messages stay as they are.
SameMarks ==
    /\ DOMAIN msgs \subseteq DOMAIN msgs'
    /\ \A i \in DOMAIN msgs :
          /\ CallsOf(msgs'[i]) = CallsOf(msgs[i])
          /\ msgs'[i].role = msgs[i].role /\ msgs'[i].aborted = msgs[i].aborted
          /\ i \in Open' => i \in Open
    /\ \A i \in DOMAIN msgs' : i \notin DOMAIN msgs => CallsOf(msgs'[i]) = {}

LEMMA SameMarksCalls == ASSUME SameMarks PROVE SameCalls
BY DEF SameMarks, SameCalls

LEMMA RecordedFacts ==
    ASSUME NEW p
    PROVE  /\ p \in Recorded <=> \E i \in DOMAIN msgs : \E q \in CallsOf(msgs[i]) :
                 q.notifyOnExit /\ q.status = "completed" /\ q.id = p
           /\ p \in Recorded' <=> \E i \in DOMAIN msgs' : \E q \in CallsOf(msgs'[i]) :
                 q.notifyOnExit /\ q.status = "completed" /\ q.id = p
BY DEF Recorded, Calls, Parts, CallsOf

\* Waived terminals stay so while their messages keep their calls and marks.
LEMMA WaivedFrame ==
    ASSUME WaivedInv, DOMAIN msgs \subseteq DOMAIN msgs',
           \A i \in DOMAIN msgs : /\ msgs[i].aborted => msgs'[i].aborted
                                  /\ \A q \in CallsOf(msgs[i]) :
                                        \E r \in CallsOf(msgs'[i]) : r.id = q.id
    PROVE  \A p \in waived : \E i \in DOMAIN msgs' :
              msgs'[i].aborted /\ \E q \in CallsOf(msgs'[i]) : q.id = p
BY DEF WaivedInv

LEMMA MarkFrame ==
    ASSUME MarkInv, KilledIsRecovered, SameMarks, UNCHANGED <<up, dead, nudged, waived>>,
           Kept' \subseteq Kept
    PROVE  MarkInv' /\ KilledIsRecovered'
<1>1. MarkInv'
  <2> SUFFICES ASSUME NEW i \in DOMAIN msgs', NEW q \in CallsOf(msgs'[i])
               PROVE  /\ msgs'[i].aborted /\ q.id \in Kept' => q.id \in waived' \cup nudged'
                      /\ up' /\ i \in Open' => q.id \notin dead'
                      /\ q.notifyOnExit /\ q.status = "completed" /\ q.id \in nudged'
                            => msgs'[i].aborted
    <3>1. WaivedInv'
      BY WaivedFrame DEF MarkInv, SameMarks, WaivedInv
    <3> QED BY <3>1 DEF MarkInv
  <2>1. /\ i \in DOMAIN msgs /\ q \in CallsOf(msgs[i])
        /\ msgs'[i].aborted = msgs[i].aborted /\ (i \in Open' => i \in Open)
    BY DEF SameMarks
  <2> QED BY <2>1 DEF MarkInv
<1>2. Recorded' \subseteq Recorded
  <2> SUFFICES ASSUME NEW p \in Recorded' PROVE p \in Recorded
    OBVIOUS
  <2>1. PICK i \in DOMAIN msgs' : \E q \in CallsOf(msgs'[i]) :
                 q.notifyOnExit /\ q.status = "completed" /\ q.id = p
    BY RecordedFacts
  <2>2. i \in DOMAIN msgs /\ CallsOf(msgs'[i]) = CallsOf(msgs[i])
    BY <2>1 DEF SameMarks
  <2> QED BY <2>1, <2>2, RecordedFacts
<1>3. KilledIsRecovered'
  BY <1>2 DEF KilledIsRecovered
<1> QED BY <1>1, <1>3

\* A running call belongs to an open or to a marked message.
RunningInv ==
    \A i \in DOMAIN msgs : \A q \in CallsOf(msgs[i]) :
        q.status = "running" => i \in Open \/ msgs[i].aborted

LEMMA TurnTyped ==
    /\ OpenInv /\ RunningInv => TurnType
    /\ TurnType => RunningInv
<1>1. (\A i \in DOMAIN msgs : \A q \in msgs[i].parts :
          q.type = "tool" /\ q.status = "running" => i \in Open \/ msgs[i].aborted) <=> RunningInv
  BY DEF RunningInv, CallsOf
<1> QED BY <1>1, OpenCount DEF TurnType

\* What has to be shown of a step.
LEMMA Assemble ==
    ASSUME msgs' \in Seq(MessageType), now' \in Nat, TerminalType', OpenInv', RunningInv',
           RecordInv', MarkInv', KilledIsRecovered'
    PROVE  IInv'
<1>1. TranscriptType'
  BY DEF TranscriptType
<1>2. TurnType'
  BY TurnTyped, PTL
<1> QED BY <1>1, <1>2 DEF IInv, TypeOK

-----------------------------------------------------------------------------
(* Steps that add a message.                                               *)

LEMMA MessageFacts ==
    ASSUME NEW role \in {"assistant", "user"}, NEW parts \in SUBSET PartType
    PROVE  /\ Message(role, parts) \in MessageType
           /\ Message(role, parts).role = role /\ Message(role, parts).parts = parts
           /\ Message(role, parts).completed <=> role = "user"
           /\ Message(role, parts).aborted = FALSE
BY DEF Message, MessageType

LEMMA TextFacts ==
    ASSUME now \in Nat, NEW p \in Pty, NEW block \in BOOLEAN
    PROVE  /\ Text(p, block) \in PartType
           /\ Text(p, block).type = "text" /\ Text(p, block).id = p
           /\ Text(p, block).block = block /\ Text(p, block).time = now
BY DEF Text, PartType

\* What the invariant says, part by part.
LEMMA Parts1 ==
    ASSUME IInv
    PROVE  /\ TranscriptType /\ TerminalType /\ RunningInv /\ OpenInv /\ RecordInv /\ MarkInv
           /\ KilledIsRecovered /\ now \in Nat
BY TurnTyped DEF IInv, TypeOK, TranscriptType

\* A message without calls is added; the turn it opens is the only one.
LEMMA AddedMessage ==
    ASSUME IInv, NEW m \in MessageType, AddMessage(m), CallsOf(m) = {}, ~m.aborted,
           m.role = "user" \/ Open = {}
    PROVE  /\ msgs' \in Seq(MessageType) /\ SameMarks
           /\ OpenInv' /\ RunningInv'
           /\ DOMAIN msgs' = DOMAIN msgs \cup {Len(msgs) + 1}
           /\ msgs'[Len(msgs) + 1] = m
           /\ \A i \in DOMAIN msgs : msgs'[i] = msgs[i] /\ i < Len(msgs) + 1
<1>0. TranscriptType /\ RunningInv /\ OpenInv
  BY Parts1
<1>1. /\ msgs' \in Seq(MessageType)
      /\ DOMAIN msgs' = DOMAIN msgs \cup {Len(msgs) + 1}
      /\ Len(msgs) + 1 \notin DOMAIN msgs /\ Len(msgs) \in Nat
      /\ msgs'[Len(msgs) + 1] = m
      /\ \A i \in DOMAIN msgs : msgs'[i] = msgs[i] /\ i <= Len(msgs) /\ i \in Nat
  BY <1>0, AppendFacts DEF AddMessage
<1>2. \A i \in DOMAIN msgs : i \in Open' <=> i \in Open
  BY <1>1, OpenFacts
<1>3. m.role = "user" => Len(msgs) + 1 \notin Open'
  BY <1>1, OpenFacts
<1>4. Open' \subseteq DOMAIN msgs \cup {Len(msgs) + 1}
  BY <1>1, OpenFacts
<1>5. OpenInv'
  BY <1>0, <1>1, <1>2, <1>3, <1>4 DEF OpenInv
<1>6. SameMarks
  BY <1>1, <1>2 DEF SameMarks
<1>7. RunningInv'
  BY <1>0, <1>1, <1>2 DEF RunningInv
<1> QED BY <1>1, <1>5, <1>6, <1>7

LEMMA TurnStartInv == ASSUME IInv, TurnStart PROVE IInv'
<1> DEFINE m == Message("assistant", {})
<1>1. m \in MessageType /\ m.role = "assistant" /\ m.parts = {} /\ ~m.aborted
  BY MessageFacts
<1> HIDE DEF m
<1>2. CallsOf(m) = {} /\ EndsOf(m) = {}
  BY <1>1 DEF CallsOf, EndsOf
<1>3. AddMessage(m) /\ Open = {}
  BY DEF TurnStart, m
<1>4. /\ msgs' \in Seq(MessageType) /\ SameMarks /\ OpenInv' /\ RunningInv'
      /\ DOMAIN msgs' = DOMAIN msgs \cup {Len(msgs) + 1}
      /\ msgs'[Len(msgs) + 1] = m
      /\ \A i \in DOMAIN msgs : msgs'[i] = msgs[i] /\ i < Len(msgs) + 1
  BY <1>1, <1>2, <1>3, AddedMessage
<1>5. now' = now
  <2>1. now' = now + Cardinality({})
    BY <1>1, <1>3 DEF AddMessage
  <2> QED BY <2>1, Parts1, FS_EmptySet
<1>6. SameEnds
  BY <1>2, <1>4 DEF SameEnds
<1>7. UNCHANGED <<up, live, exiting, queued, restarts, dead, nudged, waived>>
  BY DEF TurnStart
<1>8. RecordInv'
  BY <1>4, <1>5, <1>6, <1>7, Parts1, SameMarksCalls, RecordFrame
<1>9. MarkInv' /\ KilledIsRecovered'
  BY <1>4, <1>7, Parts1, MarkFrame DEF Kept
<1>10. TerminalType'
  BY <1>7, Parts1 DEF TerminalType
<1> QED BY <1>4, <1>5, <1>8, <1>9, <1>10, Parts1, Assemble

LEMMA UserMentionsInv == ASSUME IInv, NEW p \in Pty, UserMentions(p) PROVE IInv'
<1> DEFINE x == Text(p, FALSE)
           m == Message("user", {x})
<1>1. x \in PartType /\ x.type = "text" /\ x.block = FALSE
  BY Parts1, TextFacts
<1> HIDE DEF x
<1>2. m \in MessageType /\ m.role = "user" /\ m.parts = {x} /\ ~m.aborted
  BY <1>1, MessageFacts
<1> HIDE DEF m
<1>3. CallsOf(m) = {} /\ EndsOf(m) = {}
  BY <1>1, <1>2 DEF CallsOf, EndsOf
<1>4. AddMessage(m)
  BY DEF UserMentions, m, x
<1>5. /\ msgs' \in Seq(MessageType) /\ SameMarks /\ OpenInv' /\ RunningInv'
      /\ DOMAIN msgs' = DOMAIN msgs \cup {Len(msgs) + 1}
      /\ msgs'[Len(msgs) + 1] = m
      /\ \A i \in DOMAIN msgs : msgs'[i] = msgs[i] /\ i < Len(msgs) + 1
  BY <1>2, <1>3, <1>4, AddedMessage
<1>6. now' = now + 1
  BY <1>2, <1>4, FS_Singleton DEF AddMessage
<1>7. SameEnds
  BY <1>3, <1>5 DEF SameEnds
<1>8. UNCHANGED <<up, live, exiting, queued, restarts, dead, nudged, waived>>
  BY DEF UserMentions
<1>9. RecordInv'
  <2>1. now' \in Nat /\ now' >= now
    BY <1>6, Parts1
  <2> QED BY <1>5, <1>7, <1>8, <2>1, Parts1, SameMarksCalls, RecordFrame
<1>10. MarkInv' /\ KilledIsRecovered'
  BY <1>5, <1>8, Parts1, MarkFrame DEF Kept
<1>11. TerminalType'
  BY <1>8, Parts1 DEF TerminalType
<1> QED BY <1>5, <1>6, <1>9, <1>10, <1>11, Parts1, Assemble

\* The record of an end comes after the call, and its terminal is gone.
LEMMA PtyExitedMessageInv == ASSUME IInv, NEW p \in Pty, PtyExitedMessage(p) PROVE IInv'
<1> DEFINE x == Text(p, TRUE)
           m == Message("user", {x})
           n == Len(msgs) + 1
<1>1. x \in PartType /\ x.type = "text" /\ x.block /\ x.id = p /\ x.time = now
  BY Parts1, TextFacts
<1> HIDE DEF x
<1>2. m \in MessageType /\ m.role = "user" /\ m.parts = {x} /\ ~m.aborted
  BY <1>1, MessageFacts
<1> HIDE DEF m
<1>3. CallsOf(m) = {} /\ EndsOf(m) = {x}
  BY <1>1, <1>2 DEF CallsOf, EndsOf
<1>4. AddMessage(m)
  BY DEF PtyExitedMessage, m, x
<1>5. /\ msgs' \in Seq(MessageType) /\ SameMarks /\ OpenInv' /\ RunningInv'
      /\ DOMAIN msgs' = DOMAIN msgs \cup {n}
      /\ msgs'[n] = m
      /\ \A i \in DOMAIN msgs : msgs'[i] = msgs[i] /\ i < n
  BY <1>2, <1>3, <1>4, AddedMessage
<1> HIDE DEF n
<1>6. now' = now + 1 /\ now \in Nat
  BY <1>2, <1>4, Parts1, FS_Singleton DEF AddMessage
<1>7. /\ p \in exiting /\ exiting' = exiting \ {p}
      /\ UNCHANGED <<up, live, queued, restarts, dead, nudged, waived>>
  BY DEF PtyExitedMessage
<1>8. CallInv /\ EndInv /\ KeptInv /\ TranscriptType
  BY Parts1 DEF RecordInv
<1>9. p \in Kept /\ Kept' = Kept \ {p}
  BY <1>7, <1>8 DEF KeptInv, Kept
<1>10. \A i \in DOMAIN msgs' : \A q \in CallsOf(msgs'[i]) : i \in DOMAIN msgs /\ q \in CallsOf(msgs[i])
  BY <1>3, <1>5
<1>11. \A i \in DOMAIN msgs' : \A y \in EndsOf(msgs'[i]) :
          \/ i = n /\ y = x
          \/ i \in DOMAIN msgs /\ y \in EndsOf(msgs[i])
  BY <1>3, <1>5
<1>12. CallInv'
  <2>1. \A i \in DOMAIN msgs : \A q \in CallsOf(msgs[i]) : q.time < now'
    BY <1>6, <1>8, CallTyped DEF CallInv
  <2> QED BY <1>5, <1>8, <1>10, <2>1 DEF CallInv
<1>13. EndInv'
  <2> SUFFICES ASSUME NEW j \in DOMAIN msgs', NEW y \in EndsOf(msgs'[j])
               PROVE  /\ y.id \notin Kept'
                      /\ \E i \in DOMAIN msgs' : \E q \in CallsOf(msgs'[i]) : q.id = y.id
                      /\ \A i \in DOMAIN msgs' : \A q \in CallsOf(msgs'[i]) :
                            q.id = y.id => i < j /\ q.time < y.time
    BY DEF EndInv
  <2>1. CASE j = n /\ y = x
    <3>1. \E i \in DOMAIN msgs : \E q \in CallsOf(msgs[i]) : q.id = p
      BY <1>8, <1>9 DEF KeptInv
    <3>2. \A i \in DOMAIN msgs : \A q \in CallsOf(msgs[i]) : i < n /\ q.time < x.time
      BY <1>1, <1>5, <1>8 DEF CallInv
    <3> QED BY <1>1, <1>5, <1>9, <1>10, <2>1, <3>1, <3>2
  <2>2. CASE j \in DOMAIN msgs /\ y \in EndsOf(msgs[j])
    <3>1. /\ y.id \notin Kept
          /\ \E i \in DOMAIN msgs : \E q \in CallsOf(msgs[i]) : q.id = y.id
          /\ \A i \in DOMAIN msgs : \A q \in CallsOf(msgs[i]) : q.id = y.id => i < j /\ q.time < y.time
      BY <1>8, <2>2 DEF EndInv
    <3> QED BY <1>5, <1>9, <1>10, <3>1
  <2> QED BY <1>11, <2>1, <2>2
<1>14. KeptInv'
  <2>1. (live \cap exiting = {} /\ dead \cap (live \cup exiting) = {})'
    BY <1>7, <1>8 DEF KeptInv
  <2>2. \A r \in Kept' : \E i \in DOMAIN msgs' : \E q \in CallsOf(msgs'[i]) : q.id = r
    BY <1>5, <1>8, <1>9 DEF KeptInv
  <2>3. ASSUME NEW i \in DOMAIN msgs', NEW q \in CallsOf(msgs'[i]), q.notifyOnExit
        PROVE  q.id \in Kept' \/ \E j \in DOMAIN msgs' : \E y \in EndsOf(msgs'[j]) : y.id = q.id
    <3>1. q.id \in Kept \/ \E j \in DOMAIN msgs : \E y \in EndsOf(msgs[j]) : y.id = q.id
      BY <1>8, <1>10, <2>3 DEF KeptInv
    <3>2. n \in DOMAIN msgs' /\ x \in EndsOf(msgs'[n])
      BY <1>3, <1>5
    <3> QED BY <1>1, <1>5, <1>9, <3>1, <3>2
  <2> QED BY <2>1, <2>2, <2>3 DEF KeptInv
<1>15. MarkInv' /\ KilledIsRecovered'
  BY <1>5, <1>7, <1>9, Parts1, MarkFrame
<1>16. TerminalType'
  BY <1>7, Parts1 DEF TerminalType
<1>17. RecordInv' /\ now' \in Nat
  BY <1>6, <1>12, <1>13, <1>14 DEF RecordInv
<1> QED BY <1>5, <1>15, <1>16, <1>17, Assemble

-----------------------------------------------------------------------------
(* Steps of a terminal.                                                    *)

LEMMA PtyEndsInv == ASSUME IInv, NEW p \in Pty, PtyEnds(p) PROVE IInv'
<1>0. /\ TranscriptType /\ TerminalType /\ RunningInv /\ OpenInv /\ MarkInv
      /\ KilledIsRecovered /\ CallInv /\ EndInv /\ KeptInv
  BY Parts1 DEF RecordInv
<1>1. /\ p \in live /\ live' = live \ {p}
      /\ UNCHANGED <<msgs, now, up, queued, restarts, dead, nudged, waived>>
  BY DEF PtyEnds, transcript
<1>2. \/ exiting' = exiting \cup {p}
      \/ /\ exiting' = exiting
         /\ \A i \in DOMAIN msgs : \A q \in CallsOf(msgs[i]) : q.id = p => ~q.notifyOnExit
  BY DEF PtyEnds, Calls, Parts, CallsOf
<1>3. Kept' \subseteq Kept /\ \A r \in Kept : r \in Kept' \/ (r = p /\ exiting' = exiting)
  BY <1>1, <1>2 DEF Kept
<1>4. CallInv' /\ EndInv'
  BY <1>0, <1>1, <1>3 DEF CallInv, EndInv
<1>5. KeptInv'
  <2>1. (live \cap exiting = {} /\ dead \cap (live \cup exiting) = {})'
    BY <1>0, <1>1, <1>2 DEF KeptInv
  <2>2. \A r \in Kept' : \E i \in DOMAIN msgs' : \E q \in CallsOf(msgs'[i]) : q.id = r
    BY <1>0, <1>1, <1>3 DEF KeptInv
  <2>3. ASSUME NEW i \in DOMAIN msgs, NEW q \in CallsOf(msgs[i]), q.notifyOnExit, q.id \in Kept
        PROVE  q.id \in Kept'
    BY <1>1, <1>2, <1>3, <2>3 DEF Kept
  <2> QED BY <1>0, <1>1, <2>1, <2>2, <2>3 DEF KeptInv
<1>6. OpenInv' /\ RunningInv' /\ Open' = Open
  BY <1>0, <1>1 DEF OpenInv, RunningInv, Open
<1>7. SameMarks
  BY <1>1, <1>6 DEF SameMarks
<1>8. MarkInv' /\ KilledIsRecovered'
  BY <1>0, <1>1, <1>3, <1>7, MarkFrame
<1>9. TerminalType'
  BY <1>0, <1>1, <1>2 DEF TerminalType
<1>10. msgs' \in Seq(MessageType) /\ now' \in Nat /\ RecordInv'
  BY <1>0, <1>1, <1>4, <1>5 DEF TranscriptType, RecordInv
<1> QED BY <1>6, <1>8, <1>9, <1>10, Assemble

LEMMA CrashInv == ASSUME IInv, Crash PROVE IInv'
<1>0. /\ TranscriptType /\ TerminalType /\ RunningInv /\ OpenInv /\ MarkInv
      /\ CallInv /\ EndInv /\ KeptInv
  BY Parts1 DEF RecordInv
<1>1. /\ restarts < MaxRestarts /\ ~up' /\ restarts' = restarts + 1
      /\ live' = {} /\ exiting' = {} /\ dead' = dead \cup live \cup exiting
      /\ UNCHANGED <<msgs, now, queued, nudged, waived>>
  BY DEF Crash, transcript
<1>2. Kept' = Kept
  BY <1>1 DEF Kept
<1>3. CallInv' /\ EndInv' /\ KeptInv'
  BY <1>0, <1>1, <1>2 DEF CallInv, EndInv, KeptInv
<1>4. OpenInv' /\ RunningInv' /\ Open' = Open
  BY <1>0, <1>1 DEF OpenInv, RunningInv, Open
<1>5. MarkInv'
  BY <1>0, <1>1, <1>2 DEF MarkInv, WaivedInv
<1>6. KilledIsRecovered'
  BY <1>1 DEF KilledIsRecovered
<1>7. TerminalType'
  <2>1. restarts' \in 0..MaxRestarts
    BY <1>0, <1>1, PtyAssumption DEF TerminalType
  <2>2. up' \in BOOLEAN
    BY DEF Crash
  <2> QED BY <1>0, <1>1, <2>1, <2>2 DEF TerminalType
<1>8. msgs' \in Seq(MessageType) /\ now' \in Nat /\ RecordInv'
  BY <1>0, <1>1, <1>3 DEF TranscriptType, RecordInv
<1> QED BY <1>4, <1>5, <1>6, <1>7, <1>8, Assemble

-----------------------------------------------------------------------------
(* Steps that add a part to the open message.                              *)

LEMMA AddPartFacts ==
    ASSUME TranscriptType, NEW i \in Open, NEW part \in PartType, AddPart(i, part)
    PROVE  /\ msgs' \in Seq(MessageType) /\ DOMAIN msgs' = DOMAIN msgs
           /\ i \in DOMAIN msgs /\ msgs[i].role = "assistant"
           /\ msgs'[i].role = msgs[i].role
           /\ msgs'[i].completed = msgs[i].completed /\ msgs'[i].aborted = msgs[i].aborted
           /\ msgs'[i].parts = msgs[i].parts \cup {part}
           /\ \A j \in DOMAIN msgs : j # i => msgs'[j] = msgs[j]
           /\ Open' = Open
<1> DEFINE m == WithParts(msgs[i], msgs[i].parts \cup {part})
<1>1. i \in DOMAIN msgs /\ msgs[i].role = "assistant"
  BY OpenFacts
<1>2. msgs[i] \in MessageType /\ msgs[i].parts \cup {part} \in SUBSET PartType
  BY <1>1, PartFacts
<1>3. /\ m \in MessageType /\ m.parts = msgs[i].parts \cup {part} /\ m.role = msgs[i].role
      /\ m.completed = msgs[i].completed /\ m.aborted = msgs[i].aborted
  BY <1>2, WithPartsFacts
<1>4. msgs' = [msgs EXCEPT ![i] = m]
  BY DEF AddPart, WithParts
<1> HIDE DEF m
<1>5. msgs' \in Seq(MessageType) /\ Put(i, m)
  BY <1>1, <1>3, <1>4, PutFacts
<1>6. Open' = Open
  <2>1. \A j : j \in Open' <=> j \in Open
    BY <1>1, <1>3, <1>5, OpenFacts DEF Put
  <2> QED BY <2>1 DEF Open
<1> QED BY <1>1, <1>3, <1>5, <1>6 DEF Put

LEMMA AgentQuotesInv == ASSUME IInv, NEW p \in Pty, AgentQuotes(p) PROVE IInv'
<1> DEFINE x == Text(p, TRUE)
<1>0. /\ TranscriptType /\ TerminalType /\ RunningInv /\ OpenInv /\ MarkInv
      /\ KilledIsRecovered /\ RecordInv /\ now \in Nat
  BY Parts1
<1>1. x \in PartType /\ x.type = "text"
  BY <1>0, TextFacts
<1>2. PICK i \in Open : AddPart(i, x)
  BY DEF AgentQuotes
<1>3. UNCHANGED <<up, live, exiting, queued, restarts, dead, nudged, waived>>
  BY DEF AgentQuotes
<1> HIDE DEF x
<1>4. /\ msgs' \in Seq(MessageType) /\ DOMAIN msgs' = DOMAIN msgs
      /\ i \in DOMAIN msgs /\ msgs[i].role = "assistant"
      /\ msgs'[i].role = msgs[i].role
      /\ msgs'[i].completed = msgs[i].completed /\ msgs'[i].aborted = msgs[i].aborted
      /\ msgs'[i].parts = msgs[i].parts \cup {x}
      /\ \A j \in DOMAIN msgs : j # i => msgs'[j] = msgs[j]
      /\ Open' = Open
  BY <1>0, <1>1, <1>2, AddPartFacts
<1>5. now' = now + 1
  BY <1>2 DEF AddPart
<1>6. \A j \in DOMAIN msgs : /\ CallsOf(msgs'[j]) = CallsOf(msgs[j])
                             /\ EndsOf(msgs'[j]) = EndsOf(msgs[j])
                             /\ msgs'[j].aborted = msgs[j].aborted
                             /\ msgs'[j].role = msgs[j].role
  <2>1. CallsOf(msgs'[i]) = CallsOf(msgs[i]) /\ EndsOf(msgs'[i]) = EndsOf(msgs[i])
    BY <1>1, <1>4 DEF CallsOf, EndsOf
  <2> QED BY <1>4, <2>1
<1>7. SameMarks /\ SameEnds
  BY <1>4, <1>6 DEF SameMarks, SameEnds
<1>8. RecordInv'
  <2>1. now' \in Nat /\ now' >= now
    BY <1>0, <1>5
  <2> QED BY <1>0, <1>3, <1>7, <2>1, SameMarksCalls, RecordFrame
<1>9. MarkInv' /\ KilledIsRecovered'
  BY <1>0, <1>3, <1>7, MarkFrame DEF Kept
<1>10. TerminalType'
  BY <1>0, <1>3 DEF TerminalType
<1>11. OpenInv' /\ RunningInv'
  <2>1. \A j \in Open : j \in DOMAIN msgs
    BY OpenFacts
  <2> QED BY <1>0, <1>4, <1>6, <2>1 DEF OpenInv, RunningInv
<1> QED BY <1>0, <1>4, <1>5, <1>8, <1>9, <1>10, <1>11, Assemble

\* A call starts a terminal under an id no call, record or history knows.
LEMMA SpawnCallInv ==
    ASSUME IInv, NEW p \in Pty, NEW notify \in BOOLEAN, SpawnCall(p, notify)
    PROVE  IInv'
<1> DEFINE c == [type |-> "tool", id |-> p, notifyOnExit |-> notify,
                 status |-> "running", time |-> now]
<1>0. /\ TranscriptType /\ TerminalType /\ RunningInv /\ OpenInv /\ MarkInv
      /\ KilledIsRecovered /\ CallInv /\ EndInv /\ KeptInv /\ now \in Nat
  BY Parts1 DEF RecordInv
<1>1. /\ c \in PartType /\ c.type = "tool" /\ c.id = p /\ c.time = now
      /\ c.status = "running"
  BY <1>0 DEF PartType
<1>2. PICK i \in Open : AddPart(i, c)
  BY DEF SpawnCall
<1>3. /\ up /\ live' = live \cup {p}
      /\ UNCHANGED <<up, exiting, queued, restarts, dead, nudged, waived>>
  BY DEF SpawnCall
<1>4. \A j \in DOMAIN msgs : \A q \in CallsOf(msgs[j]) : q.id # p
  BY DEF SpawnCall, Calls, Parts, CallsOf
<1> HIDE DEF c
<1>5. /\ msgs' \in Seq(MessageType) /\ DOMAIN msgs' = DOMAIN msgs
      /\ i \in DOMAIN msgs /\ msgs[i].role = "assistant"
      /\ msgs'[i].role = msgs[i].role
      /\ msgs'[i].completed = msgs[i].completed /\ msgs'[i].aborted = msgs[i].aborted
      /\ msgs'[i].parts = msgs[i].parts \cup {c}
      /\ \A j \in DOMAIN msgs : j # i => msgs'[j] = msgs[j]
      /\ Open' = Open
  BY <1>0, <1>1, <1>2, AddPartFacts
<1>6. now' = now + 1
  BY <1>2 DEF AddPart
<1>7. CallsOf(msgs'[i]) = CallsOf(msgs[i]) \cup {c} /\ EndsOf(msgs'[i]) = EndsOf(msgs[i])
  BY <1>1, <1>5 DEF CallsOf, EndsOf
<1>8. \A j \in DOMAIN msgs : /\ EndsOf(msgs'[j]) = EndsOf(msgs[j])
                             /\ msgs'[j].aborted = msgs[j].aborted
                             /\ msgs'[j].role = msgs[j].role
                             /\ CallsOf(msgs[j]) \subseteq CallsOf(msgs'[j])
                             /\ \A q \in CallsOf(msgs'[j]) : q \in CallsOf(msgs[j]) \/ (q = c /\ j = i)
  BY <1>5, <1>7
<1>9. p \notin Kept /\ Kept' = Kept \cup {p}
  <2>1. p \notin Kept
    BY <1>0, <1>4 DEF KeptInv
  <2> QED BY <1>3, <2>1 DEF Kept
<1>10. \A j \in DOMAIN msgs : \A x \in EndsOf(msgs[j]) : x.id # p
  BY <1>0, <1>4 DEF EndInv
<1>11. CallInv'
  <2>1. \A j \in DOMAIN msgs : \A q \in CallsOf(msgs[j]) : q.time < now'
    BY <1>0, <1>6, CallTyped DEF CallInv
  <2>2. c.time < now'
    BY <1>0, <1>1, <1>6
  <2> QED BY <1>0, <1>1, <1>4, <1>5, <1>8, <2>1, <2>2 DEF CallInv
<1>12. EndInv'
  <2> SUFFICES ASSUME NEW j \in DOMAIN msgs, NEW x \in EndsOf(msgs[j])
               PROVE  /\ x.id \notin Kept'
                      /\ \E k \in DOMAIN msgs : \E q \in CallsOf(msgs'[k]) : q.id = x.id
                      /\ \A k \in DOMAIN msgs : \A q \in CallsOf(msgs'[k]) :
                            q.id = x.id => k < j /\ q.time < x.time
    BY <1>5, <1>8 DEF EndInv
  <2>1. /\ x.id \notin Kept
        /\ \E k \in DOMAIN msgs : \E q \in CallsOf(msgs[k]) : q.id = x.id
        /\ \A k \in DOMAIN msgs : \A q \in CallsOf(msgs[k]) : q.id = x.id => k < j /\ q.time < x.time
    BY <1>0 DEF EndInv
  <2> QED BY <1>1, <1>8, <1>9, <1>10, <2>1
<1>13. KeptInv'
  <2>1. (live \cap exiting = {} /\ dead \cap (live \cup exiting) = {})'
    BY <1>0, <1>3, <1>9 DEF KeptInv, Kept
  <2>2. \A r \in Kept' : \E k \in DOMAIN msgs' : \E q \in CallsOf(msgs'[k]) : q.id = r
    <3>1. c \in CallsOf(msgs'[i])
      BY <1>7
    <3>2. \A r \in Kept : \E k \in DOMAIN msgs : \E q \in CallsOf(msgs[k]) : q.id = r
      BY <1>0 DEF KeptInv
    <3> QED BY <1>1, <1>5, <1>8, <1>9, <3>1, <3>2
  <2>3. ASSUME NEW k \in DOMAIN msgs', NEW q \in CallsOf(msgs'[k]), q.notifyOnExit
        PROVE  q.id \in Kept' \/ \E j \in DOMAIN msgs' : \E y \in EndsOf(msgs'[j]) : y.id = q.id
    <3>1. CASE q \in CallsOf(msgs[k])
      <4>1. q.id \in Kept \/ \E j \in DOMAIN msgs : \E y \in EndsOf(msgs[j]) : y.id = q.id
        BY <1>0, <1>5, <2>3, <3>1 DEF KeptInv
      <4> QED BY <1>5, <1>8, <1>9, <4>1
    <3>2. CASE q = c
      BY <1>1, <1>9, <3>2
    <3> QED BY <1>5, <1>8, <3>1, <3>2
  <2> QED BY <2>1, <2>2, <2>3 DEF KeptInv
<1>14. ~msgs[i].aborted /\ p \notin dead /\ p \notin nudged
  BY <1>0, <1>9 DEF OpenInv, Kept, TerminalType
<1>15. MarkInv'
  <2> SUFFICES ASSUME NEW k \in DOMAIN msgs, NEW q \in CallsOf(msgs'[k])
               PROVE  /\ msgs'[k].aborted /\ q.id \in Kept' => q.id \in waived \cup nudged
                      /\ up /\ k \in Open => q.id \notin dead
                      /\ q.notifyOnExit /\ q.status = "completed" /\ q.id \in nudged
                            => msgs'[k].aborted
    <3>1. WaivedInv'
      BY <1>0, <1>3, <1>5, <1>8, WaivedFrame DEF MarkInv, WaivedInv
    <3> QED BY <1>3, <1>5, <3>1 DEF MarkInv
  <2>1. CASE q \in CallsOf(msgs[k])
    BY <1>0, <1>4, <1>8, <1>9, <2>1 DEF MarkInv
  <2>2. CASE q = c /\ k = i
    BY <1>1, <1>5, <1>14, <2>2
  <2> QED BY <1>8, <2>1, <2>2
<1>16. KilledIsRecovered'
  <2>1. Recorded' \subseteq Recorded
    <3> SUFFICES ASSUME NEW r \in Recorded' PROVE r \in Recorded
      OBVIOUS
    <3>1. \E k \in DOMAIN msgs' : \E q \in CallsOf(msgs'[k]) :
             q.notifyOnExit /\ q.status = "completed" /\ q.id = r
      BY RecordedFacts
    <3>2. \E k \in DOMAIN msgs : \E q \in CallsOf(msgs[k]) :
             q.notifyOnExit /\ q.status = "completed" /\ q.id = r
      BY <1>1, <1>5, <1>8, <3>1
    <3> QED BY <3>2, RecordedFacts
  <2> QED BY <1>0, <1>3, <2>1 DEF KilledIsRecovered
<1>17. TerminalType'
  BY <1>0, <1>3 DEF TerminalType
<1>18. OpenInv' /\ RunningInv'
  <2>1. \A j \in Open : j \in DOMAIN msgs
    BY OpenFacts
  <2> QED BY <1>0, <1>5, <1>8, <2>1 DEF OpenInv, RunningInv
<1>19. RecordInv' /\ now' \in Nat
  BY <1>0, <1>6, <1>11, <1>12, <1>13 DEF RecordInv
<1> QED BY <1>5, <1>15, <1>16, <1>17, <1>18, <1>19, Assemble

-----------------------------------------------------------------------------
(* Steps that settle a turn.                                               *)

\* Settle touches the status of running calls only.
LEMMA SettleFacts ==
    ASSUME NEW parts \in SUBSET PartType, NEW status \in {"completed", "error"}
    PROVE  /\ Settle(parts, status) \in SUBSET PartType
           /\ \A r \in Settle(parts, status) : r.type = "tool" =>
                 \E q \in parts : /\ q.type = "tool" /\ q.id = r.id /\ q.time = r.time
                                  /\ q.notifyOnExit = r.notifyOnExit
                                  /\ r.status # "running"
                                  /\ r.status = status \/ r.status = q.status
           /\ \A q \in parts : q.type = "tool" =>
                 \E r \in Settle(parts, status) : r.type = "tool" /\ r.id = q.id
<1> DEFINE f(q) == IF q.type = "tool" /\ q.status = "running" THEN [q EXCEPT !.status = status]
                   ELSE q
<1>1. ASSUME NEW q \in PartType, q.type = "tool"
      PROVE  /\ f(q) \in PartType /\ f(q).type = "tool" /\ f(q).id = q.id /\ f(q).time = q.time
             /\ f(q).notifyOnExit = q.notifyOnExit /\ f(q).status # "running"
             /\ f(q).status = status \/ f(q).status = q.status
  <2>1. q \in [type : {"tool"}, id : Pty, notifyOnExit : BOOLEAN,
               status : {"running", "completed", "error"}, time : Nat]
    BY <1>1 DEF PartType
  <2>2. CASE q.status = "running"
    <3>1. f(q) = [q EXCEPT !.status = status]
      BY <1>1, <2>2
    <3>2. f(q) \in [type : {"tool"}, id : Pty, notifyOnExit : BOOLEAN,
                    status : {"running", "completed", "error"}, time : Nat]
      BY <2>1, <3>1
    <3> QED BY <2>1, <3>1, <3>2 DEF PartType
  <2>3. CASE q.status # "running"
    BY <1>1, <2>1, <2>3 DEF PartType
  <2> QED BY <2>2, <2>3
<1>2. ASSUME NEW q \in PartType, q.type # "tool" PROVE f(q) = q
  BY <1>2
<1>3. Settle(parts, status) = {f(q) : q \in parts}
  BY DEF Settle
<1> HIDE DEF f
<1> QED BY <1>1, <1>2, <1>3

\* The running calls of message i are settled, whatever else becomes of it.
LEMMA SettledCalls ==
    ASSUME TranscriptType, NEW i \in Open, NEW status \in {"completed", "error"}, NEW m,
           Put(i, m), m.role = msgs[i].role, m.parts = Settle(msgs[i].parts, status)
    PROVE  /\ SameCalls /\ SameEnds
           /\ \A r \in CallsOf(msgs'[i]) : \E q \in CallsOf(msgs[i]) :
                 /\ q.id = r.id /\ q.notifyOnExit = r.notifyOnExit
                 /\ r.status # "running"
                 /\ r.status = status \/ r.status = q.status
<1>1. i \in DOMAIN msgs /\ msgs[i].role = "assistant" /\ msgs[i].parts \in SUBSET PartType
  BY OpenFacts, PartFacts
<1>2. msgs'[i] = m /\ DOMAIN msgs' = DOMAIN msgs /\ \A j \in DOMAIN msgs : j # i => msgs'[j] = msgs[j]
  BY DEF Put
<1>3. \A r \in CallsOf(msgs'[i]) : \E q \in CallsOf(msgs[i]) :
         /\ q.id = r.id /\ q.time = r.time /\ q.notifyOnExit = r.notifyOnExit
         /\ r.status # "running"
         /\ r.status = status \/ r.status = q.status
  BY <1>1, <1>2, SettleFacts DEF CallsOf
<1>4. \A q \in CallsOf(msgs[i]) : \E r \in CallsOf(msgs'[i]) : r.id = q.id
  BY <1>1, <1>2, SettleFacts DEF CallsOf
<1>5. SameCalls
  BY <1>1, <1>2, <1>3, <1>4 DEF SameCalls
<1>6. SameEnds
  BY <1>1, <1>2 DEF SameEnds, EndsOf
<1> QED BY <1>3, <1>5, <1>6

LEMMA SpawnReturnsInv == ASSUME IInv, SpawnReturns PROVE IInv'
<1>0. /\ TranscriptType /\ TerminalType /\ RunningInv /\ OpenInv /\ MarkInv
      /\ KilledIsRecovered /\ RecordInv /\ now \in Nat
  BY Parts1
<1>1. /\ up
      /\ UNCHANGED <<now, up, live, exiting, queued, restarts, dead, nudged, waived>>
  BY DEF SpawnReturns
<1>2. PICK i \in Open : msgs' = [msgs EXCEPT ![i].parts = Settle(@, "completed")]
  BY DEF SpawnReturns
<1> DEFINE m == WithParts(msgs[i], Settle(msgs[i].parts, "completed"))
<1>3. i \in DOMAIN msgs /\ msgs[i] \in MessageType /\ msgs[i].parts \in SUBSET PartType
  BY <1>0, OpenFacts, PartFacts
<1>4. /\ m \in MessageType /\ m.parts = Settle(msgs[i].parts, "completed") /\ m.role = msgs[i].role
      /\ m.completed = msgs[i].completed /\ m.aborted = msgs[i].aborted
  BY <1>3, SettleFacts, WithPartsFacts
<1>5. msgs' = [msgs EXCEPT ![i] = m]
  BY <1>2 DEF WithParts
<1> HIDE DEF m
<1>6. msgs' \in Seq(MessageType) /\ Put(i, m)
  BY <1>0, <1>3, <1>4, <1>5, PutFacts
<1>7. /\ SameCalls /\ SameEnds
      /\ \A r \in CallsOf(msgs'[i]) : \E q \in CallsOf(msgs[i]) :
            q.id = r.id /\ q.notifyOnExit = r.notifyOnExit /\ r.status # "running"
  BY <1>0, <1>4, <1>6, SettledCalls
<1>8. /\ DOMAIN msgs' = DOMAIN msgs
      /\ \A j \in DOMAIN msgs : /\ msgs'[j].aborted = msgs[j].aborted
                                /\ j # i => CallsOf(msgs'[j]) = CallsOf(msgs[j])
                                /\ j \in Open' <=> j \in Open
  BY <1>3, <1>4, <1>6, OpenFacts DEF Put
<1>9. \A r \in CallsOf(msgs'[i]) : r.id \notin dead /\ r.id \notin nudged
  BY <1>0, <1>1, <1>3, <1>7 DEF MarkInv, TerminalType
<1>10. ~msgs[i].aborted
  BY <1>0 DEF OpenInv
<1>11. RecordInv'
  BY <1>0, <1>1, <1>7, RecordFrame
<1>12. MarkInv'
  <2>1. Kept' = Kept
    BY <1>1 DEF Kept
  <2>2. WaivedInv'
    BY <1>0, <1>1, <1>7, <1>8, WaivedFrame DEF MarkInv, WaivedInv, SameCalls
  <2> QED BY <1>0, <1>1, <1>8, <1>9, <1>10, <2>1, <2>2 DEF MarkInv
<1>13. KilledIsRecovered'
  <2>1. ASSUME NEW p \in dead, p \in Recorded' PROVE p \in Recorded
    <3>1. PICK j \in DOMAIN msgs' : \E q \in CallsOf(msgs'[j]) :
             q.notifyOnExit /\ q.status = "completed" /\ q.id = p
      BY <2>1, RecordedFacts
    <3>2. j \in DOMAIN msgs /\ CallsOf(msgs'[j]) = CallsOf(msgs[j])
      BY <1>8, <1>9, <3>1
    <3> QED BY <3>1, <3>2, RecordedFacts
  <2> QED BY <1>0, <1>1, <2>1 DEF KilledIsRecovered
<1>14. OpenInv' /\ RunningInv'
  <2>1. \A j : j \in Open => j \in DOMAIN msgs
    BY OpenFacts
  <2>2. \A j : j \in Open' => j \in DOMAIN msgs
    BY <1>8, OpenFacts
  <2> QED BY <1>0, <1>7, <1>8, <2>1, <2>2 DEF OpenInv, RunningInv
<1>15. TerminalType'
  BY <1>0, <1>1 DEF TerminalType
<1> QED BY <1>0, <1>1, <1>6, <1>11, <1>12, <1>13, <1>14, <1>15, Assemble

LEMMA TurnEndInv == ASSUME IInv, TurnEnd PROVE IInv'
<1>0. /\ TranscriptType /\ TerminalType /\ RunningInv /\ OpenInv /\ MarkInv
      /\ KilledIsRecovered /\ RecordInv /\ now \in Nat
  BY Parts1
<1>1. UNCHANGED <<now, up, live, exiting, queued, restarts, dead, nudged, waived>>
  BY DEF TurnEnd
<1>2. PICK i \in Open : /\ \A q \in msgs[i].parts : q.type = "tool" => q.status # "running"
                        /\ msgs' = [msgs EXCEPT ![i].completed = TRUE]
  BY DEF TurnEnd
<1> DEFINE m == [msgs[i] EXCEPT !.completed = TRUE]
<1>3. i \in DOMAIN msgs /\ msgs[i] \in MessageType
  BY <1>0, OpenFacts, PartFacts
<1>4. /\ m \in MessageType /\ m.parts = msgs[i].parts /\ m.role = msgs[i].role
      /\ m.completed /\ m.aborted = msgs[i].aborted
  BY <1>3 DEF MessageType
<1>5. msgs' = [msgs EXCEPT ![i] = m]
  BY <1>2
<1> HIDE DEF m
<1>6. msgs' \in Seq(MessageType) /\ Put(i, m)
  BY <1>0, <1>3, <1>4, <1>5, PutFacts
<1>7. /\ DOMAIN msgs' = DOMAIN msgs
      /\ \A j \in DOMAIN msgs : /\ CallsOf(msgs'[j]) = CallsOf(msgs[j])
                                /\ EndsOf(msgs'[j]) = EndsOf(msgs[j])
                                /\ msgs'[j].aborted = msgs[j].aborted
                                /\ msgs'[j].role = msgs[j].role
                                /\ j \in Open' <=> j \in Open /\ j # i
  <2>1. CallsOf(msgs'[i]) = CallsOf(msgs[i]) /\ EndsOf(msgs'[i]) = EndsOf(msgs[i])
    BY <1>4, <1>6 DEF CallsOf, EndsOf, Put
  <2> QED BY <1>3, <1>4, <1>6, <2>1, OpenFacts DEF Put
<1>8. SameMarks /\ SameEnds
  BY <1>7 DEF SameMarks, SameEnds
<1>9. RecordInv'
  BY <1>0, <1>1, <1>8, SameMarksCalls, RecordFrame
<1>10. MarkInv' /\ KilledIsRecovered'
  BY <1>0, <1>1, <1>8, MarkFrame DEF Kept
<1>11. OpenInv' /\ RunningInv'
  <2>1. \A j : j \in Open' => j \in DOMAIN msgs
    BY <1>7, OpenFacts
  <2>2. \A q \in CallsOf(msgs[i]) : q.status # "running"
    BY <1>2 DEF CallsOf
  <2> QED BY <1>0, <1>7, <2>1, <2>2 DEF OpenInv, RunningInv
<1>12. TerminalType'
  BY <1>0, <1>1 DEF TerminalType
<1> QED BY <1>0, <1>1, <1>6, <1>9, <1>10, <1>11, <1>12, Assemble

\* The operator's interruption waives the terminals of the turn.
LEMMA TurnAbortedInv == ASSUME IInv, TurnAborted PROVE IInv'
<1>0. /\ TranscriptType /\ TerminalType /\ RunningInv /\ OpenInv /\ MarkInv
      /\ KilledIsRecovered /\ RecordInv /\ now \in Nat
  BY Parts1
<1>1. UNCHANGED <<now, up, live, exiting, queued, restarts, dead, nudged>>
  BY DEF TurnAborted
<1>2. PICK i \in Open :
        /\ msgs' = [msgs EXCEPT ![i].completed = TRUE, ![i].aborted = TRUE,
                                ![i].parts = Settle(@, "error")]
        /\ waived' = waived \cup {q.id : q \in {r \in msgs[i].parts : r.type = "tool"}}
  BY DEF TurnAborted
<1> DEFINE a == [msgs[i] EXCEPT !.completed = TRUE]
           b == [a EXCEPT !.aborted = TRUE]
           m == WithParts(b, Settle(b.parts, "error"))
<1>3. i \in DOMAIN msgs /\ msgs[i] \in MessageType /\ msgs[i].parts \in SUBSET PartType
  BY <1>0, OpenFacts, PartFacts
<1>4. a \in MessageType /\ a.parts = msgs[i].parts /\ a.role = msgs[i].role /\ a.completed
  BY <1>3 DEF MessageType
<1>5. msgs' = [msgs EXCEPT ![i] = m]
  BY <1>2, <1>3 DEF WithParts
<1> HIDE DEF a
<1>6. /\ b \in MessageType /\ b.parts = msgs[i].parts /\ b.role = msgs[i].role
      /\ b.completed /\ b.aborted
  BY <1>4 DEF MessageType
<1> HIDE DEF b
<1>7. /\ m \in MessageType /\ m.parts = Settle(msgs[i].parts, "error") /\ m.role = msgs[i].role
      /\ m.completed /\ m.aborted
  BY <1>3, <1>6, SettleFacts, WithPartsFacts
<1> HIDE DEF m
<1>8. msgs' \in Seq(MessageType) /\ Put(i, m)
  BY <1>0, <1>3, <1>5, <1>7, PutFacts
<1>9. /\ SameCalls /\ SameEnds
      /\ \A r \in CallsOf(msgs'[i]) : \E q \in CallsOf(msgs[i]) :
            /\ q.id = r.id /\ q.notifyOnExit = r.notifyOnExit /\ r.status # "running"
            /\ r.status = "error" \/ r.status = q.status
  BY <1>0, <1>7, <1>8, SettledCalls
<1>10. /\ DOMAIN msgs' = DOMAIN msgs /\ msgs'[i].aborted
       /\ \A j \in DOMAIN msgs : /\ j # i => msgs'[j] = msgs[j]
                                 /\ j \in Open' <=> j \in Open /\ j # i
  BY <1>3, <1>7, <1>8, OpenFacts DEF Put
<1>11. waived \subseteq waived' /\ \A q \in CallsOf(msgs[i]) : q.id \in waived'
  BY <1>2 DEF CallsOf
<1>12. RecordInv'
  BY <1>0, <1>1, <1>9, RecordFrame
<1>13. MarkInv'
  <2>1. Kept' = Kept
    BY <1>1 DEF Kept
  <2>2. ASSUME NEW j \in DOMAIN msgs', NEW q \in CallsOf(msgs'[j])
        PROVE  /\ msgs'[j].aborted /\ q.id \in Kept' => q.id \in waived' \cup nudged'
               /\ up' /\ j \in Open' => q.id \notin dead'
               /\ q.notifyOnExit /\ q.status = "completed" /\ q.id \in nudged' => msgs'[j].aborted
    <3>1. CASE j = i
      BY <1>9, <1>10, <1>11, <2>2, <3>1
    <3>2. CASE j # i
      BY <1>0, <1>1, <1>10, <1>11, <2>1, <2>2, <3>2 DEF MarkInv
    <3> QED BY <3>1, <3>2
  <2>3. WaivedInv'
    <3>1. \A j \in DOMAIN msgs : /\ msgs[j].aborted => msgs'[j].aborted
                                 /\ \A q \in CallsOf(msgs[j]) :
                                       \E r \in CallsOf(msgs'[j]) : r.id = q.id
      BY <1>9, <1>10 DEF SameCalls
    <3>2. \A p \in waived : \E j \in DOMAIN msgs' :
             msgs'[j].aborted /\ \E q \in CallsOf(msgs'[j]) : q.id = p
      BY <1>0, <1>10, <3>1, WaivedFrame DEF MarkInv
    <3>3. waived' = waived \cup {q.id : q \in CallsOf(msgs[i])}
      BY <1>2 DEF CallsOf
    <3>4. \A q \in CallsOf(msgs[i]) : \E r \in CallsOf(msgs'[i]) : r.id = q.id
      BY <1>3, <3>1
    <3> QED BY <1>3, <1>10, <3>2, <3>3, <3>4 DEF WaivedInv
  <2> QED BY <2>2, <2>3 DEF MarkInv
<1>14. KilledIsRecovered'
  <2>1. ASSUME NEW p \in Recorded' PROVE p \in Recorded
    <3>1. PICK j \in DOMAIN msgs' : \E q \in CallsOf(msgs'[j]) :
             q.notifyOnExit /\ q.status = "completed" /\ q.id = p
      BY <2>1, RecordedFacts
    <3>2. \E q \in CallsOf(msgs[j]) : q.notifyOnExit /\ q.status = "completed" /\ q.id = p
      BY <1>9, <1>10, <3>1
    <3> QED BY <1>10, <3>1, <3>2, RecordedFacts
  <2> QED BY <1>0, <1>1, <1>11, <2>1 DEF KilledIsRecovered
<1>15. OpenInv' /\ RunningInv'
  <2>1. \A j : j \in Open' => j \in DOMAIN msgs
    BY <1>10, OpenFacts
  <2> QED BY <1>0, <1>9, <1>10, <2>1 DEF OpenInv, RunningInv
<1>16. TerminalType'
  <2>1. waived' \subseteq Pty
    <3>1. \A q \in CallsOf(msgs[i]) : q.id \in Pty
      BY <1>0, <1>3, CallTyped
    <3>2. waived \subseteq Pty
      BY <1>0 DEF TerminalType
    <3> QED BY <1>2, <3>1, <3>2 DEF CallsOf
  <2> QED BY <1>0, <1>1, <2>1 DEF TerminalType
<1> QED BY <1>0, <1>1, <1>8, <1>12, <1>13, <1>14, <1>15, <1>16, Assemble

-----------------------------------------------------------------------------
(* The restart.                                                            *)

\* A message with a mark, and one that is completed as well.
LEMMA MarkedFacts ==
    ASSUME NEW m \in MessageType
    PROVE  /\ [m EXCEPT !.aborted = TRUE] \in MessageType
           /\ [m EXCEPT !.aborted = TRUE].parts = m.parts
           /\ [m EXCEPT !.aborted = TRUE].role = m.role
           /\ [m EXCEPT !.aborted = TRUE].completed = m.completed
           /\ [m EXCEPT !.aborted = TRUE].aborted
           /\ [m EXCEPT !.completed = TRUE, !.aborted = TRUE] \in MessageType
           /\ [m EXCEPT !.completed = TRUE, !.aborted = TRUE].parts = m.parts
           /\ [m EXCEPT !.completed = TRUE, !.aborted = TRUE].role = m.role
           /\ [m EXCEPT !.completed = TRUE, !.aborted = TRUE].completed
           /\ [m EXCEPT !.completed = TRUE, !.aborted = TRUE].aborted
BY DEF MessageType

\* The first pass completes and marks the open messages.
LEMMA StuckFacts ==
    ASSUME TranscriptType, OpenInv, NEW stuck, stuck = heal_update(msgs)
    PROVE  /\ DOMAIN stuck = DOMAIN msgs
           /\ \A i \in DOMAIN msgs :
                 /\ stuck[i] \in MessageType
                 /\ stuck[i].parts = msgs[i].parts /\ stuck[i].role = msgs[i].role
                 /\ stuck[i].completed <=> msgs[i].completed \/ i \in Open
                 /\ stuck[i].aborted <=> msgs[i].aborted \/ i \in Open
<1>1. DOMAIN stuck = DOMAIN msgs
  BY DEF heal_update
<1>2. ASSUME NEW i \in DOMAIN msgs
      PROVE  /\ stuck[i] \in MessageType
             /\ stuck[i].parts = msgs[i].parts /\ stuck[i].role = msgs[i].role
             /\ stuck[i].completed <=> msgs[i].completed \/ i \in Open
             /\ stuck[i].aborted <=> msgs[i].aborted \/ i \in Open
  <2>1. msgs[i] \in MessageType
    BY PartFacts
  <2>2. CASE i \in Open
    <3>1. stuck[i] = [msgs[i] EXCEPT !.completed = TRUE, !.aborted = TRUE]
      BY <2>2 DEF heal_update, OpenInv
    <3> QED BY <2>1, <2>2, <3>1, MarkedFacts
  <2>3. CASE i \notin Open
    <3>1. stuck[i] = msgs[i]
      BY <2>3 DEF heal_update
    <3> QED BY <2>1, <2>3, <3>1
  <2> QED BY <2>2, <2>3
<1> QED BY <1>1, <1>2

\* The second pass marks the messages of the abandoned calls.
LEMMA HealedFacts ==
    ASSUME TranscriptType, OpenInv, NEW stuck, stuck = heal_update(msgs),
           msgs' = markAbandoned(stuck)
    PROVE  /\ msgs' \in Seq(MessageType) /\ DOMAIN msgs' = DOMAIN msgs
           /\ \A i \in DOMAIN msgs :
                 /\ msgs'[i].parts = msgs[i].parts /\ msgs'[i].role = msgs[i].role
                 /\ msgs'[i].completed <=> msgs[i].completed \/ i \in Open
                 /\ msgs'[i].aborted <=> \/ msgs[i].aborted \/ i \in Open
                                         \/ msgs[i].parts \cap abandoned(stuck) # {}
<1>1. DOMAIN stuck = DOMAIN msgs /\ DOMAIN msgs' = DOMAIN msgs
  BY StuckFacts DEF markAbandoned
<1>2. ASSUME NEW i \in DOMAIN msgs
      PROVE  /\ msgs'[i] \in MessageType
             /\ msgs'[i].parts = msgs[i].parts /\ msgs'[i].role = msgs[i].role
             /\ msgs'[i].completed <=> msgs[i].completed \/ i \in Open
             /\ msgs'[i].aborted <=> \/ msgs[i].aborted \/ i \in Open
                                     \/ msgs[i].parts \cap abandoned(stuck) # {}
  <2>1. /\ stuck[i] \in MessageType
        /\ stuck[i].parts = msgs[i].parts /\ stuck[i].role = msgs[i].role
        /\ stuck[i].completed <=> msgs[i].completed \/ i \in Open
        /\ stuck[i].aborted <=> msgs[i].aborted \/ i \in Open
    BY StuckFacts
  <2>2. CASE stuck[i].parts \cap abandoned(stuck) # {}
    <3>1. msgs'[i] = [stuck[i] EXCEPT !.aborted = TRUE]
      BY <1>1, <2>2 DEF markAbandoned
    <3>2. /\ msgs'[i] \in MessageType /\ msgs'[i].parts = stuck[i].parts
          /\ msgs'[i].role = stuck[i].role /\ msgs'[i].completed = stuck[i].completed
          /\ msgs'[i].aborted
      <4> DEFINE m == stuck[i]
      <4>1. m \in MessageType /\ msgs'[i] = [m EXCEPT !.aborted = TRUE]
        BY <2>1, <3>1
      <4> HIDE DEF m
      <4>2. /\ msgs'[i] \in MessageType /\ msgs'[i].parts = m.parts /\ msgs'[i].role = m.role
            /\ msgs'[i].completed = m.completed /\ msgs'[i].aborted
        BY <4>1, MarkedFacts
      <4> QED BY <4>2 DEF m
    <3> QED BY <2>1, <2>2, <3>2
  <2>3. CASE stuck[i].parts \cap abandoned(stuck) = {}
    <3>1. msgs'[i] = stuck[i]
      BY <1>1, <2>3 DEF markAbandoned
    <3> QED BY <2>1, <2>3, <3>1
  <2> QED BY <2>2, <2>3
<1>3. msgs' \in Seq(MessageType)
  <2>1. Len(msgs) \in Nat /\ DOMAIN msgs = 1..Len(msgs)
    BY PartFacts
  <2>2. msgs' = [i \in 1..Len(msgs) |-> msgs'[i]]
    BY <1>1, <2>1 DEF markAbandoned
  <2>3. msgs' \in [1..Len(msgs) -> MessageType]
    BY <1>2, <2>1, <2>2
  <2> QED BY <2>1, <2>3, SeqDef
<1> QED BY <1>1, <1>2, <1>3

\* After the passes, the message of every terminal on record that a restart
\* ended carries a mark.
LEMMA DeadMarked ==
    ASSUME TranscriptType, OpenInv, EndInv, NEW stuck, stuck = heal_update(msgs),
           msgs' = markAbandoned(stuck), NEW i \in DOMAIN msgs, NEW q \in CallsOf(msgs[i]),
           q.notifyOnExit, q.status = "completed", q.id \in Kept
    PROVE  msgs'[i].aborted
<1>1. \A j \in DOMAIN msgs : \A x \in EndsOf(msgs[j]) : x.id # q.id
  BY DEF EndInv
<1>2. CASE stuck[i].aborted
  BY <1>2, StuckFacts, HealedFacts
<1>3. CASE ~stuck[i].aborted
  <2>1. /\ DOMAIN stuck = DOMAIN msgs
        /\ \A j \in DOMAIN msgs : /\ stuck[j].parts = msgs[j].parts
                                  /\ stuck[j].role = msgs[j].role
    BY StuckFacts
  <2>2. q \in abandoned(stuck)
    BY <1>1, <1>3, <2>1, AbandonedCalls
  <2>3. q \in msgs[i].parts
    BY DEF CallsOf
  <2> QED BY <2>2, <2>3, HealedFacts
<1> QED BY <1>2, <1>3

LEMMA HealInv == ASSUME IInv, Heal PROVE IInv'
<1>0. /\ TranscriptType /\ TerminalType /\ RunningInv /\ OpenInv /\ MarkInv
      /\ KilledIsRecovered /\ RecordInv /\ now \in Nat
  BY Parts1
<1> DEFINE stuck == heal_update(msgs)
<1>1. /\ ~up /\ up' = TRUE /\ msgs' = markAbandoned(stuck)
      /\ queued' = (Open # {} \/ abandoned(stuck) # {})
      /\ nudged' = IF queued' THEN nudged \cup dead ELSE nudged
      /\ UNCHANGED <<now, live, exiting, restarts, dead, waived>>
  BY DEF Heal
<1> HIDE DEF stuck
<1>2. /\ msgs' \in Seq(MessageType) /\ DOMAIN msgs' = DOMAIN msgs
      /\ \A i \in DOMAIN msgs :
            /\ msgs'[i].parts = msgs[i].parts /\ msgs'[i].role = msgs[i].role
            /\ msgs'[i].completed <=> msgs[i].completed \/ i \in Open
            /\ msgs'[i].aborted <=> \/ msgs[i].aborted \/ i \in Open
                                    \/ msgs[i].parts \cap abandoned(stuck) # {}
  BY <1>0, <1>1, HealedFacts DEF stuck
<1>3. \A i \in DOMAIN msgs : CallsOf(msgs'[i]) = CallsOf(msgs[i]) /\ EndsOf(msgs'[i]) = EndsOf(msgs[i])
  BY <1>2 DEF CallsOf, EndsOf
<1>4. Open' = {}
  BY <1>2, OpenFacts
<1>5. Kept = dead /\ Kept' = dead /\ nudged \subseteq dead
  BY <1>0, <1>1 DEF Kept, TerminalType
<1>6. RecordInv'
  <2>1. SameCalls
    BY <1>2, <1>3 DEF SameCalls
  <2>2. SameEnds
    BY <1>2, <1>3 DEF SameEnds
  <2>3. now' \in Nat /\ now' >= now
    BY <1>0, <1>1
  <2> QED BY <1>0, <1>1, <2>1, <2>2, <2>3, RecordFrame
<1>7. ASSUME NEW i \in DOMAIN msgs, NEW q \in CallsOf(msgs[i]),
             q.notifyOnExit, q.status = "completed", q.id \in dead
      PROVE  msgs'[i].aborted
  BY <1>0, <1>1, <1>5, <1>7, DeadMarked DEF RecordInv, stuck
<1>8. ASSUME NEW i \in DOMAIN msgs, NEW q \in CallsOf(msgs[i]), msgs'[i].aborted, q.id \in dead
      PROVE  q.id \in waived' \cup nudged'
  <2>1. CASE Open # {} \/ abandoned(stuck) # {}
    BY <1>1, <1>8, <2>1
  <2>2. CASE Open = {} /\ abandoned(stuck) = {}
    <3>1. msgs[i].aborted
      BY <1>2, <1>8, <2>2
    <3> QED BY <1>0, <1>1, <1>5, <1>8, <2>2, <3>1 DEF MarkInv
  <2> QED BY <2>1, <2>2
<1>9. nudged' \subseteq dead
  BY <1>1, <1>5
<1>10. MarkInv'
  <2>1. WaivedInv'
    BY <1>0, <1>1, <1>2, <1>3, WaivedFrame DEF MarkInv, WaivedInv
  <2> QED BY <1>1, <1>2, <1>3, <1>4, <1>5, <1>7, <1>8, <1>9, <2>1 DEF MarkInv
<1>11. KilledIsRecovered'
  <2> SUFFICES ASSUME NEW p \in dead, p \in Recorded' PROVE p \in nudged' \cup waived'
    BY <1>1 DEF KilledIsRecovered
  <2>1. PICK i \in DOMAIN msgs : \E q \in CallsOf(msgs[i]) :
           q.notifyOnExit /\ q.status = "completed" /\ q.id = p
    BY <1>2, <1>3, RecordedFacts
  <2> QED BY <1>7, <1>8, <2>1
<1>12. OpenInv' /\ RunningInv'
  BY <1>0, <1>2, <1>3, <1>4 DEF OpenInv, RunningInv
<1>13. TerminalType'
  <2>1. queued' \in BOOLEAN
    BY <1>1
  <2> QED BY <1>0, <1>1, <1>9, <2>1 DEF TerminalType
<1> QED BY <1>0, <1>1, <1>2, <1>6, <1>10, <1>11, <1>12, <1>13, Assemble

-----------------------------------------------------------------------------
LEMMA InitInv == Init => IInv
<1> SUFFICES ASSUME Init PROVE IInv
  OBVIOUS
<1>1. msgs = <<>> /\ DOMAIN msgs = {} /\ msgs \in Seq(MessageType)
  BY DEF Init
<1>2. Open = {}
  BY <1>1 DEF Open
<1>3. OpenInv /\ RecordInv /\ MarkInv /\ RunningInv
  BY <1>1, <1>2 DEF Init, OpenInv, RecordInv, CallInv, EndInv, KeptInv, Kept, MarkInv,
                    WaivedInv, RunningInv
<1>4. TerminalType /\ TranscriptType
  <2>1. MaxRestarts \in Nat
    BY PtyAssumption
  <2>2. restarts \in 0..MaxRestarts /\ now \in Nat
    BY <2>1 DEF Init
  <2>3. up \in BOOLEAN /\ queued \in BOOLEAN /\ up
    BY DEF Init
  <2>4. /\ live \subseteq Pty /\ exiting \subseteq Pty
        /\ dead \subseteq Pty /\ nudged \subseteq dead /\ waived \subseteq Pty
    BY DEF Init
  <2> QED BY <1>1, <2>2, <2>3, <2>4 DEF TerminalType, TranscriptType
<1>5. KilledIsRecovered
  BY DEF Init, KilledIsRecovered
<1> QED BY <1>3, <1>4, <1>5, TurnTyped DEF IInv, TypeOK

LEMMA StutterInv == ASSUME IInv, UNCHANGED vars PROVE IInv'
<1>1. UNCHANGED <<msgs, now, up, live, exiting, queued, restarts, dead, nudged, waived>>
  BY DEF vars, transcript
<1>2. Open' = Open /\ Kept' = Kept /\ Recorded' = Recorded
  BY <1>1 DEF Open, Kept, Recorded, Calls, Parts
<1>3. TypeOK' /\ OpenInv' /\ MarkInv' /\ KilledIsRecovered'
  BY <1>1, <1>2 DEF IInv, TypeOK, TranscriptType, TerminalType, TurnType, OpenInv, MarkInv,
                    WaivedInv, KilledIsRecovered
<1>4. RecordInv'
  BY <1>1, <1>2 DEF IInv, RecordInv, CallInv, EndInv, KeptInv
<1> QED BY <1>3, <1>4 DEF IInv

LEMMA StepInv == IInv /\ [Next]_vars => IInv'
<1> SUFFICES ASSUME IInv, [Next]_vars PROVE IInv'
  OBVIOUS
<1>1. ASSUME NEW p \in Pty, NEW notify \in BOOLEAN, SpawnCall(p, notify) PROVE IInv'
  BY <1>1, SpawnCallInv
<1>2. ASSUME NEW p \in Pty, \/ UserMentions(p) \/ AgentQuotes(p)
                            \/ PtyEnds(p) \/ PtyExitedMessage(p)
      PROVE  IInv'
  BY <1>2, UserMentionsInv, AgentQuotesInv, PtyEndsInv, PtyExitedMessageInv
<1> QED BY <1>1, <1>2, TurnStartInv, SpawnReturnsInv, TurnEndInv, TurnAbortedInv, CrashInv,
           HealInv, StutterInv DEF Next

-----------------------------------------------------------------------------
\* Every variable has its type, at most one turn is open, and a call that never
\* returned is in that turn or in one that is marked, on transcripts of any
\* length (plugins/ntfy/src/pty-lifecycle.ts reads them).
THEOREM TypeCorrect == Spec => []TypeOK
<1>1. IInv => TypeOK
  BY DEF IInv
<1> QED BY InitInv, StepInv, <1>1, PTL DEF Spec

\* The parser (pty-lifecycle.ts, unfinishedNotifyOnExitPtys) reports every
\* terminal on record that runs or whose message is still to come.
THEOREM PendingSafety == Spec => []RunningIsPending
<1>1. IInv => RunningIsPending
  BY RunningReported DEF IInv, TypeOK, RecordInv
<1> QED BY InitInv, StepInv, <1>1, PTL DEF Spec

\* opencode-heal's abandoned_pty query selects what the parser reports, up to
\* the messages with a mark, on every transcript that is ever written.
THEOREM MirrorSafety == Spec => []HealMirrorsParser
<1>1. IInv => HealMirrorsParser
  BY ReadersAgree DEF IInv, TypeOK, RecordInv
<1> QED BY InitInv, StepInv, <1>1, PTL DEF Spec

\* Once the server serves again, no terminal on record that a restart ended is
\* forgotten, unless its turn was interrupted (opencode-heal).
THEOREM RecoveredSafety == Spec => []KilledIsRecovered
<1>1. IInv => KilledIsRecovered
  BY DEF IInv
<1> QED BY InitInv, StepInv, <1>1, PTL DEF Spec

\* What an earlier run of opencode-heal settled is not queued again: every
\* dead terminal on record is nudged or waived, so its message carries the mark
\* that keeps it out of abandoned_pty.
THEOREM SettledOnceSafety == Spec => SettledOnce
<1>1. ASSUME IInv, Heal, Open = {}, dead \cap Recorded \subseteq nudged \cup waived
      PROVE  ~queued'
  <2>0. /\ TranscriptType /\ TerminalType /\ RunningInv /\ OpenInv /\ MarkInv
        /\ KilledIsRecovered /\ RecordInv /\ now \in Nat
    BY <1>1, Parts1
  <2> DEFINE stuck == heal_update(msgs)
  <2>1. ~up /\ queued' = (Open # {} \/ abandoned(stuck) # {})
    BY <1>1 DEF Heal
  <2>2. /\ DOMAIN stuck = DOMAIN msgs
        /\ \A i \in DOMAIN msgs :
              /\ stuck[i].parts = msgs[i].parts /\ stuck[i].role = msgs[i].role
              /\ stuck[i].aborted <=> msgs[i].aborted
    BY <1>1, <2>0, StuckFacts
  <2> HIDE DEF stuck
  <2>3. ASSUME NEW q \in abandoned(stuck) PROVE FALSE
    <3>1. /\ \E i \in DOMAIN msgs : q \in CallsOf(msgs[i]) /\ ~msgs[i].aborted
          /\ q.notifyOnExit /\ q.status = "completed"
          /\ \A j \in DOMAIN msgs : \A x \in EndsOf(msgs[j]) : x.id # q.id
      BY <2>0, <2>2, <2>3, AbandonedCalls DEF RecordInv
    <3>2. PICK i \in DOMAIN msgs : q \in CallsOf(msgs[i]) /\ ~msgs[i].aborted
      BY <3>1
    <3>3. q.id \in Kept
      BY <2>0, <3>1, <3>2 DEF RecordInv, KeptInv
    <3>4. q.id \in dead /\ q.id \in Recorded
      BY <2>0, <2>1, <3>1, <3>2, <3>3, RecordedFacts DEF Kept, TerminalType
    <3>5. CASE q.id \in nudged
      BY <2>0, <3>1, <3>2, <3>5 DEF MarkInv
    <3>6. CASE q.id \in waived
      <4>1. PICK j \in DOMAIN msgs : msgs[j].aborted /\ \E r \in CallsOf(msgs[j]) : r.id = q.id
        BY <2>0, <3>6 DEF MarkInv, WaivedInv
      <4> QED BY <2>0, <3>2, <4>1 DEF RecordInv, CallInv
    <3> QED BY <1>1, <3>4, <3>5, <3>6
  <2> QED BY <1>1, <2>1, <2>3
<1>2. IInv /\ [Next]_vars =>
         [Heal /\ Open = {} /\ dead \cap Recorded \subseteq nudged \cup waived => ~queued']_vars
  BY <1>1
<1> QED BY InitInv, StepInv, <1>2, PTL DEF Spec, SettledOnce
=============================================================================
