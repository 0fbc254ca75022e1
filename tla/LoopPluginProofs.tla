-------------------------- MODULE LoopPluginProofs --------------------------
(***************************************************************************)
(* Proofs about LoopPlugin, for any sessions, handlers, caps and number of *)
(* loops.                                                                  *)
(***************************************************************************)
EXTENDS LoopPlugin, FiniteSetTheorems, TLAPS

Running(h) == hnd[h].pc # "free"

\* A handler that runs has read an active loop of its session, with room for
\* the continuation it has injected.
HandlerInv ==
    \A h \in Slot :
        /\ ~Running(h) => hnd[h] = NoHandler
        /\ Running(h) =>
              /\ hnd[h].s \in Session
              /\ hnd[h].st \in LoopState
              /\ hnd[h].st.s = hnd[h].s
              /\ hnd[h].st.run <= runs
        /\ hnd[h].pc = "prompt" => hnd[h].st.iter < MaxIterations

\* The single-flight map and the handlers agree until a session is gone.
FlightInv ==
    /\ \A s \in Session : inFlight[s] # None =>
          Running(inFlight[s]) /\ hnd[inFlight[s]].s = s
    /\ \A h \in Slot : Running(h) /\ alive[hnd[h].s] # "gone" => inFlight[hnd[h].s] = h

\* Runs are numbered as they start, with room for the ones on their way.
RunInv ==
    /\ IsFiniteSet(starting)
    /\ runs + Cardinality(starting) <= MaxRuns
    /\ state.run <= runs
    /\ \A r \in ended : r <= runs
    /\ \A r \in Run : r > runs => sent[r] = 0 /\ label[r] = 0

IInv1 == DataType /\ HandlerInv /\ FlightInv /\ RunInv

\* A handler of the run on file.
Current(h) == Running(h) /\ hnd[h].st.run = state.run

\* What a handler of the run on file holds of it: the file's session and
\* iteration, or the iteration before the one it has injected.  While its
\* prompt is out it is the only one and the file counts no failure.
CurrentInv ==
    \A h \in Slot : Current(h) =>
        /\ hnd[h].s = state.s
        /\ hnd[h].pc # "prompt" => hnd[h].st.iter = state.iter
        /\ hnd[h].pc = "prompt" =>
              /\ hnd[h].st.iter + 1 = state.iter
              /\ state.fails = 0
              /\ alive[hnd[h].s] # "gone"
              /\ \A g \in Slot \ {h} : ~Current(g)

\* The labels given out so far are those up to the file's iteration.
LabelInv ==
    /\ LabelsDistinct
    /\ Active(state) => label[state.run] <= state.iter

\* Neither the file nor a handler of its run counts more failures than there
\* were.
FailInv ==
    /\ Active(state) => state.fails <= fails[state.run]
    /\ \A h \in Slot : Current(h) => hnd[h].st.fails <= fails[state.run]

-----------------------------------------------------------------------------
LEMMA Constants ==
    /\ None \notin Session /\ None \notin Slot
    /\ MaxIterations \in Nat \ {0}
    /\ MAX_CONSECUTIVE_FAILURES \in Nat \ {0}
    /\ MaxRuns \in Nat /\ MaxIdle \in Nat \ {0}
BY LoopAssumption

USE Constants

\* What the file can hold.
LEMMA FileFacts ==
    ASSUME FileType
    PROVE  /\ Active(state) <=> state \in LoopState
           /\ state.s \in Session <=> state \in LoopState
           /\ state.run \in Nat /\ state.iter \in 0..MaxIterations /\ state.fails \in Nat
           /\ state.run # 0 => state.run \in Run
BY DEF FileType, LoopState, NoLoop, Active, Run

\* The parts of the invariant that a step leaves alone.
LEMMA Frame ==
    /\ FileType /\ UNCHANGED state => FileType'
    /\ HandlersType /\ UNCHANGED <<hnd, inFlight>> => HandlersType'
    /\ ToolsType /\ UNCHANGED <<starting, init, runs>> => ToolsType'
    /\ ServerType /\ UNCHANGED <<busy, text, alive, idle>> => ServerType'
    /\ HistoryType /\ UNCHANGED <<ended, sent, label, fails>> => HistoryType'
    /\ HandlerInv /\ UNCHANGED <<hnd, runs>> => HandlerInv'
    /\ FlightInv /\ UNCHANGED <<hnd, inFlight, alive>> => FlightInv'
    /\ RunInv /\ UNCHANGED <<starting, runs, state, ended, sent, label>> => RunInv'
<1>1. FileType /\ UNCHANGED state => FileType'
  BY DEF FileType
<1>2. HandlersType /\ UNCHANGED <<hnd, inFlight>> => HandlersType'
  BY DEF HandlersType
<1>3. ToolsType /\ UNCHANGED <<starting, init, runs>> => ToolsType'
  BY DEF ToolsType
<1>4. ServerType /\ UNCHANGED <<busy, text, alive, idle>> => ServerType'
  BY DEF ServerType
<1>5. HistoryType /\ UNCHANGED <<ended, sent, label, fails>> => HistoryType'
  BY DEF HistoryType
<1>6. HandlerInv /\ UNCHANGED <<hnd, runs>> => HandlerInv'
  BY DEF HandlerInv, Running
<1>7. FlightInv /\ UNCHANGED <<hnd, inFlight, alive>> => FlightInv'
  BY DEF FlightInv, Running
<1>8. RunInv /\ UNCHANGED <<starting, runs, state, ended, sent, label>> => RunInv'
  BY DEF RunInv
<1> QED BY <1>1, <1>2, <1>3, <1>4, <1>5, <1>6, <1>7, <1>8

LEMMA InitInv1 == Init => IInv1
<1> SUFFICES ASSUME Init PROVE IInv1
  OBVIOUS
<1> USE DEF Init
<1>1. FileType
  BY DEF FileType, NoLoop
<1>2. HandlersType
  <2>1. NoHandler \in HandlerType
    BY DEF NoHandler, HandlerType
  <2> QED BY <2>1 DEF HandlersType
<1>3. ToolsType /\ ServerType
  BY DEF ToolsType, ServerType
<1>4. HistoryType
  BY DEF HistoryType
<1>5. HandlerInv /\ FlightInv
  BY DEF HandlerInv, FlightInv, Running, NoHandler
<1>6. RunInv
  <2>1. IsFiniteSet(starting) /\ Cardinality(starting) = 0
    BY FS_EmptySet
  <2> QED BY <2>1 DEF RunInv, NoLoop
<1> QED BY <1>1, <1>2, <1>3, <1>4, <1>5, <1>6 DEF IInv1, DataType

-----------------------------------------------------------------------------
(* The steps of a handler.                                                 *)

\* onFailure writes the run back with one failure more, and with the iteration
\* that was injected if the prompt was out.
Rewritten(h, d) ==
    /\ stateStillOurs(h)
    /\ hnd[h].st.fails + 1 < MAX_CONSECUTIVE_FAILURES
    /\ d \in LoopState
    /\ d.run = hnd[h].st.run /\ d.s = hnd[h].st.s
    /\ d.fails = hnd[h].st.fails + 1
    /\ d.iter = IF hnd[h].pc = "prompt" THEN hnd[h].st.iter + 1 ELSE hnd[h].st.iter

\* The ways in which handleIdle returns and what becomes of the failure count.
Left(h, d) ==
    \/ /\ d \in {state, NoLoop}
       /\ UNCHANGED fails
    \/ /\ d = state
       /\ hnd[h].pc = "prompt"
       /\ fails' = [fails EXCEPT ![hnd[h].st.run] = 0]
    \/ /\ CountFailure(h)
       /\ \/ d = state
          \/ Rewritten(h, d)
          \/ d = NoLoop /\ hnd[h].st.fails + 1 >= MAX_CONSECUTIVE_FAILURES

\* handleIdle of h returns.
Return(h, d) ==
    /\ Running(h)
    /\ Returns(h, d)
    /\ Left(h, d)
    /\ UNCHANGED <<starting, init, busy, text, alive, idle, runs, sent, label>>

LEMMA FailureLeaves ==
    ASSUME NEW h \in Slot, hnd[h].st \in LoopState, hnd[h].pc = "prompt" => hnd[h].st.iter < MaxIterations,
           NEW st, NEW d,
           st = IF hnd[h].pc = "prompt" THEN [hnd[h].st EXCEPT !.iter = @ + 1] ELSE hnd[h].st,
           d = onFailure(h, st)
    PROVE  \/ d = state
           \/ Rewritten(h, d)
           \/ d = NoLoop /\ hnd[h].st.fails + 1 >= MAX_CONSECUTIVE_FAILURES
<1>1. /\ st \in LoopState /\ st.fails = hnd[h].st.fails /\ st.run = hnd[h].st.run
      /\ st.s = hnd[h].st.s
      /\ st.iter = IF hnd[h].pc = "prompt" THEN hnd[h].st.iter + 1 ELSE hnd[h].st.iter
  BY DEF LoopState
<1>2. CASE st.fails + 1 >= MAX_CONSECUTIVE_FAILURES
  BY <1>1, <1>2 DEF onFailure
<1>3. CASE ~(st.fails + 1 >= MAX_CONSECUTIVE_FAILURES) /\ stateStillOurs(h)
  <2>1. d = [st EXCEPT !.fails = @ + 1]
    BY <1>3 DEF onFailure
  <2>2. /\ d \in LoopState /\ d.run = st.run /\ d.s = st.s /\ d.iter = st.iter
        /\ d.fails = st.fails + 1
    BY <1>1, <2>1 DEF LoopState
  <2>3. hnd[h].st.fails + 1 < MAX_CONSECUTIVE_FAILURES
    BY <1>1, <1>3 DEF LoopState
  <2> QED BY <1>1, <1>3, <2>2, <2>3 DEF Rewritten
<1>4. CASE ~(st.fails + 1 >= MAX_CONSECUTIVE_FAILURES) /\ ~stateStillOurs(h)
  BY <1>4 DEF onFailure
<1> QED BY <1>2, <1>3, <1>4

\* A step of a handler is one of three.
LEMMA HandlerCases ==
    ASSUME IInv1, NEW h \in Slot, HandlerStep(h)
    PROVE  \/ KindRoot(h)
           \/ \E reaches \in BOOLEAN : Inject(h, reaches)
           \/ \E d : Return(h, d)
<1> USE DEF server
<1>0. Running(h) => /\ hnd[h].st \in LoopState
                    /\ hnd[h].pc = "prompt" => hnd[h].st.iter < MaxIterations
  BY DEF IInv1, HandlerInv
<1>1. CASE KindMissing(h) \/ KindNotRoot(h)
  BY <1>1 DEF KindMissing, KindNotRoot, Return, Left, Running
<1>2. CASE NoAnswerYet(h) \/ SentinelSeen(h) \/ CapReached(h) \/ Superseded(h)
  BY <1>2 DEF NoAnswerYet, SentinelSeen, CapReached, Superseded, HasText, Return, Left, Running
<1>3. CASE PromptOk(h)
  BY <1>3 DEF PromptOk, Return, Left, Running
<1>4. CASE MessagesFail(h)
  BY <1>0, <1>4, FailureLeaves DEF MessagesFail, Return, Left, Running
<1>5. CASE PromptFails(h)
  BY <1>0, <1>5, FailureLeaves DEF PromptFails, Return, Left, Running
<1> QED BY <1>1, <1>2, <1>3, <1>4, <1>5 DEF HandlerStep

\* What a return leaves behind.
LEMMA ReturnFile ==
    ASSUME IInv1, NEW h \in Slot, NEW d, Return(h, d)
    PROVE  /\ state' = d
           /\ d \in LoopState \cup {NoLoop} /\ d.fails < MAX_CONSECUTIVE_FAILURES
           /\ d = NoLoop \/ d.run = state.run
           /\ d = NoLoop \/ d.s = state.s
<1> USE DEF IInv1, DataType
<1>1. state' = d /\ (d \in {state, NoLoop} \/ Rewritten(h, d))
  BY DEF Return, Returns, Left
<1>2. CASE d \in {state, NoLoop}
  BY <1>1, <1>2 DEF FileType, NoLoop
<1>3. CASE Rewritten(h, d)
  BY <1>1, <1>3 DEF Rewritten, stateStillOurs, HandlerInv, LoopState
<1> QED BY <1>1, <1>2, <1>3

\* Handler g is a fresh activation for session s that has read file d.
Fresh(g, s, d) ==
    g.pc = "kind" /\ g.s = s /\ g.st = d /\ g.answer = "none"

LEMMA ActivationFresh ==
    ASSUME NEW s, NEW d, NEW rerun PROVE Fresh(Activation(s, d, rerun), s, d)
BY DEF Activation, NoHandler, Fresh

\* The handler that returns is free, or starts over on the file it left.
LEMMA ReturnHandlers ==
    ASSUME IInv1, NEW h \in Slot, NEW d, Return(h, d)
    PROVE  /\ hnd' \in [Slot -> HandlerType]
           /\ \A g \in Slot \ {h} : hnd'[g] = hnd[g]
           /\ \/ /\ hnd'[h] = NoHandler
                 /\ inFlight' = [inFlight EXCEPT ![hnd[h].s] = None]
              \/ /\ d.s = hnd[h].s /\ d \in LoopState
                 /\ Fresh(hnd'[h], hnd[h].s, d)
                 /\ inFlight' = inFlight
<1> DEFINE s == hnd[h].s
           again == hnd[h].pending /\ ~hnd[h].rerun /\ d.s = s
<1>1. s \in Session /\ d \in LoopState \cup {NoLoop} /\ HandlersType
  BY ReturnFile DEF Return, HandlerInv, IInv1, DataType
<1>2. CASE again
  <2>1. d \in LoopState
    BY <1>1, <1>2 DEF NoLoop
  <2>2. hnd' = [hnd EXCEPT ![h] = Activation(s, d, TRUE)] /\ inFlight' = inFlight
    BY <1>1, <1>2 DEF Return, Returns, HandlersType
  <2>3. Activation(s, d, TRUE) \in HandlerType
    BY <1>1, <2>1 DEF Activation, NoHandler, HandlerType
  <2> QED BY <1>1, <1>2, <2>1, <2>2, <2>3, ActivationFresh DEF HandlersType
<1>3. CASE ~again
  <2>1. hnd' = [hnd EXCEPT ![h] = NoHandler] /\ inFlight' = [inFlight EXCEPT ![s] = None]
    BY <1>3 DEF Return, Returns
  <2>2. NoHandler \in HandlerType
    BY DEF NoHandler, HandlerType
  <2> QED BY <1>1, <1>3, <2>1, <2>2 DEF HandlersType
<1> QED BY <1>2, <1>3

\* The run that ends is the one on file.
LEMMA EndsFacts ==
    ASSUME NEW d, Ends(d), state' = d, FileType, ended \subseteq Run
    PROVE  /\ ended' \subseteq Run
           /\ \A r \in ended' : r \in ended \/ r = state.run
           /\ StoppedStaysStopped /\ d.run = state.run => StoppedStaysStopped'
<1>1. ended' = ended \/ (Active(state) /\ d.run # state.run /\ ended' = ended \cup {state.run})
  BY DEF Ends
<1>2. Active(state) => state.run \in Run
  BY FileFacts DEF Active
<1> QED BY <1>1, <1>2 DEF StoppedStaysStopped, Active

LEMMA ReturnInv1 ==
    ASSUME IInv1, NEW h \in Slot, NEW d, Return(h, d)
    PROVE  IInv1'
<1>1. FileType /\ HandlersType /\ ToolsType /\ ServerType /\ HistoryType
  BY DEF IInv1, DataType
<1>2. HandlerInv /\ FlightInv /\ RunInv
  BY DEF IInv1
<1>3. /\ hnd[h].s \in Session /\ hnd[h].st \in LoopState /\ hnd[h].st.run \in Run
      /\ hnd[h].pc # "free"
  BY <1>2 DEF Return, HandlerInv, LoopState, Running
<1>4. UNCHANGED <<starting, init, busy, text, alive, idle, runs, sent, label>>
  BY DEF Return
<1>5. state' = d /\ FileType' /\ d.run <= runs
  BY <1>1, <1>2, ReturnFile DEF FileType, RunInv, NoLoop, ToolsType
<1>6. /\ hnd' \in [Slot -> HandlerType]
      /\ \A g \in Slot \ {h} : hnd'[g] = hnd[g]
      /\ \/ /\ hnd'[h] = NoHandler
            /\ inFlight' = [inFlight EXCEPT ![hnd[h].s] = None]
         \/ /\ d.s = hnd[h].s /\ d \in LoopState
            /\ Fresh(hnd'[h], hnd[h].s, d)
            /\ inFlight' = inFlight
  BY ReturnHandlers
<1>7. ended' \subseteq Run /\ \A r \in ended' : r \in ended \/ r = state.run
  BY <1>1, <1>5, EndsFacts DEF Return, Returns, HistoryType
<1>8. HandlersType'
  BY <1>1, <1>3, <1>6 DEF HandlersType
<1>9. ToolsType' /\ ServerType'
  BY <1>1, <1>4, Frame
<1>10. HistoryType'
  <2>1. fails' \in [Run -> Nat]
    <3>1. CASE fails' = fails
      BY <1>1, <3>1 DEF HistoryType
    <3>2. CASE fails' = [fails EXCEPT ![hnd[h].st.run] = 0]
      BY <1>1, <3>2 DEF HistoryType
    <3>3. CASE CountFailure(h)
      BY <1>1, <1>3, <3>3 DEF CountFailure, HistoryType
    <3> QED BY <3>1, <3>2, <3>3 DEF Return, Left
  <2> QED BY <1>1, <1>4, <1>7, <2>1 DEF HistoryType
<1>11. NoHandler.pc = "free"
  BY DEF NoHandler
<1>12. HandlerInv'
  <2>1. hnd'[h] = NoHandler \/ /\ hnd'[h].pc = "kind" /\ hnd'[h].s \in Session
                               /\ hnd'[h].st \in LoopState /\ hnd'[h].st.s = hnd'[h].s
                               /\ hnd'[h].st.run <= runs
    BY <1>3, <1>5, <1>6 DEF Fresh
  <2> QED BY <1>2, <1>4, <1>6, <1>11, <2>1 DEF HandlerInv, Running
<1>13. FlightInv'
  <2>1. inFlight \in [Session -> Slot \cup {None}]
    BY <1>1 DEF HandlersType
  <2>2. CASE hnd'[h] = NoHandler /\ inFlight' = [inFlight EXCEPT ![hnd[h].s] = None]
    <3>1. \A s \in Session : inFlight'[s] # None => inFlight'[s] = inFlight[s] /\ inFlight[s] # h
      BY <1>2, <2>1, <2>2 DEF FlightInv
    <3>2. \A g \in Slot \ {h} : Running(g) /\ alive[hnd[g].s] # "gone" => hnd[g].s # hnd[h].s
      BY <1>2, <1>3 DEF FlightInv, Running
    <3>3. \A g \in Slot : Running(g) => hnd[g].s \in Session
      BY <1>2 DEF HandlerInv
    <3> QED BY <1>2, <1>4, <1>6, <1>11, <2>1, <2>2, <3>1, <3>2, <3>3 DEF FlightInv, Running
  <2>3. CASE Fresh(hnd'[h], hnd[h].s, d) /\ inFlight' = inFlight
    BY <1>2, <1>3, <1>4, <1>6, <2>1, <2>3 DEF FlightInv, Running, Fresh
  <2> QED BY <1>6, <2>2, <2>3
<1>14. RunInv'
  BY <1>1, <1>2, <1>4, <1>5, <1>7 DEF RunInv
<1> QED BY <1>5, <1>8, <1>9, <1>10, <1>12, <1>13, <1>14 DEF IInv1, DataType

-----------------------------------------------------------------------------
(* The other steps.                                                        *)

\* Handler g goes on with the session and the file it has.
Kept(g) ==
    /\ hnd'[g].s = hnd[g].s /\ hnd'[g].st = hnd[g].st
    /\ Running(g) <=> Running(g)'
    /\ ~Running(g) => hnd'[g] = hnd[g]
    /\ hnd'[g].pc = "prompt" => hnd[g].st.iter < MaxIterations

LEMMA KeptInv ==
    ASSUME HandlerInv, FlightInv, \A g \in Slot : Kept(g), UNCHANGED <<inFlight, runs>>,
           \A s \in Session : alive'[s] # "gone" => alive[s] # "gone",
           inFlight \in [Session -> Slot \cup {None}]
    PROVE  HandlerInv' /\ FlightInv'
<1>1. HandlerInv'
  BY DEF HandlerInv, Kept, Running
<1>2. \A s \in Session : inFlight'[s] # None =>
         hnd'[inFlight'[s]].pc # "free" /\ hnd'[inFlight'[s]].s = s
  BY DEF FlightInv, Kept, Running
<1>3. \A h \in Slot : Running(h)' /\ alive'[hnd'[h].s] # "gone" => inFlight'[hnd'[h].s] = h
  BY DEF FlightInv, HandlerInv, Kept, Running
<1> QED BY <1>1, <1>2, <1>3 DEF FlightInv, Running

LEMMA KindRootInv1 == ASSUME IInv1, NEW h \in Slot, KindRoot(h) PROVE IInv1'
<1> USE DEF IInv1, DataType, KindRoot, server, history
<1>1. HandlersType'
  <2>1. [hnd[h] EXCEPT !.pc = "text"] \in HandlerType
    BY DEF HandlersType, HandlerType
  <2> QED BY <2>1 DEF HandlersType
<1>2. \A g \in Slot : Kept(g)
  BY DEF Kept, HandlersType, HandlerType, Running, HandlerInv
<1>3. HandlerInv' /\ FlightInv'
  BY <1>2, KeptInv DEF HandlersType
<1> QED BY <1>1, <1>3, Frame

LEMMA BumpedFields ==
    ASSUME NEW st \in LoopState, st.iter < MaxIterations
    PROVE  /\ Bumped(st) \in LoopState
           /\ Bumped(st).run = st.run /\ Bumped(st).s = st.s
           /\ Bumped(st).iter = st.iter + 1 /\ Bumped(st).fails = 0
<1>1. st.iter + 1 \in 0..MaxIterations
  BY DEF LoopState
<1> DEFINE x == [st EXCEPT !.iter = @ + 1]
<1>2. x \in LoopState /\ x.run = st.run /\ x.s = st.s /\ x.iter = st.iter + 1
  BY <1>1 DEF LoopState
<1>3. Bumped(st) = [x EXCEPT !.fails = 0]
  BY DEF Bumped
<1> HIDE DEF x
<1> QED BY <1>2, <1>3 DEF LoopState

\* What the injection of a continuation does.
LEMMA InjectFacts ==
    ASSUME IInv1, NEW h \in Slot, NEW reaches \in BOOLEAN, Inject(h, reaches)
    PROVE  /\ hnd[h].pc = "text" /\ alive[hnd[h].s] = "live"
           /\ hnd[h].st \in LoopState /\ hnd[h].st.iter < MaxIterations
           /\ state.run = hnd[h].st.run /\ state.s = hnd[h].st.s
           /\ state' \in LoopState /\ state'.run = state.run /\ state'.s = state.s
           /\ state'.iter = hnd[h].st.iter + 1 /\ state'.fails = 0
           /\ hnd'[h].pc = "prompt"
           /\ \A g \in Slot \ {h} : hnd'[g] = hnd[g]
           /\ \A g \in Slot : Kept(g)
           /\ UNCHANGED <<inFlight, starting, init, text, alive, idle, runs, fails, ended>>
<1>1. hnd[h].pc = "text" /\ hnd[h].st \in LoopState /\ HandlersType /\ FileType
  BY DEF Inject, HasText, IInv1, DataType, HandlerInv, Running
<1>2. /\ alive[hnd[h].s] = "live" /\ hnd[h].st.iter < MaxIterations
      /\ state.run = hnd[h].st.run /\ state.s = hnd[h].st.s
      /\ state' = Bumped(hnd[h].st)
      /\ UNCHANGED <<inFlight, starting, init, text, alive, idle, runs, fails>>
  BY DEF Inject, HasText, stateStillOurs
<1>3. /\ state' \in LoopState /\ state'.run = state.run /\ state'.s = state.s
      /\ state'.iter = hnd[h].st.iter + 1 /\ state'.fails = 0
  BY <1>1, <1>2, BumpedFields
<1>4. ended' = ended
  BY <1>3 DEF Inject, Ends
<1>5. /\ hnd'[h].pc = "prompt" /\ hnd'[h].s = hnd[h].s /\ hnd'[h].st = hnd[h].st
      /\ \A g \in Slot \ {h} : hnd'[g] = hnd[g]
  BY <1>1 DEF Inject, HandlersType, HandlerType
<1>6. \A g \in Slot : Kept(g)
  BY <1>1, <1>2, <1>5 DEF Kept, Running, IInv1, HandlerInv
<1> QED BY <1>1, <1>2, <1>3, <1>4, <1>5, <1>6

LEMMA InjectInv1 ==
    ASSUME IInv1, NEW h \in Slot, NEW reaches \in BOOLEAN, Inject(h, reaches)
    PROVE  IInv1'
<1>1. FileType /\ HandlersType /\ ToolsType /\ ServerType /\ HistoryType
  BY DEF IInv1, DataType
<1>2. HandlerInv /\ FlightInv /\ RunInv
  BY DEF IInv1
<1>3. /\ hnd[h].pc = "text" /\ hnd[h].st \in LoopState /\ hnd[h].st.iter < MaxIterations
      /\ state.run = hnd[h].st.run
      /\ state' \in LoopState /\ state'.run = state.run /\ state'.fails = 0
      /\ \A g \in Slot : Kept(g)
      /\ UNCHANGED <<inFlight, starting, init, text, alive, idle, runs, fails, ended>>
  BY InjectFacts
<1>4. hnd[h].s \in Session /\ hnd[h].st.run \in Run /\ hnd[h].st.run <= runs
      /\ hnd[h].st.iter \in Nat
  BY <1>2, <1>3 DEF HandlerInv, Running, LoopState
<1>5. FileType'
  BY <1>3 DEF FileType
<1>6. HandlersType'
  <2> DEFINE a == IF reaches THEN "waiting" ELSE "lost"
  <2>1. hnd' = [hnd EXCEPT ![h] = [@ EXCEPT !.pc = "prompt", !.answer = a]]
    BY <1>1 DEF Inject, HandlersType, HandlerType
  <2>2. [hnd[h] EXCEPT !.pc = "prompt", !.answer = a] \in HandlerType
    BY <1>1 DEF HandlersType, HandlerType
  <2> QED BY <1>1, <1>3, <2>1, <2>2 DEF HandlersType
<1>7. ToolsType' /\ ServerType'
  <2>1. busy' \subseteq Session
    BY <1>1, <1>4 DEF Inject, ServerType
  <2> QED BY <1>1, <1>3, <2>1 DEF ToolsType, ServerType
<1>8. sent' = [sent EXCEPT ![hnd[h].st.run] = @ + 1]
      /\ label' = [label EXCEPT ![hnd[h].st.run] =
                     IF hnd[h].st.iter >= @ THEN hnd[h].st.iter + 1 ELSE @]
  BY DEF Inject
<1>9. HistoryType'
  <2>1. sent' \in [Run -> Nat]
    BY <1>1, <1>4, <1>8 DEF HistoryType
  <2>2. label' \in [Run -> 0..MaxIterations]
    BY <1>1, <1>3, <1>4, <1>8 DEF HistoryType
  <2> QED BY <1>1, <1>3, <2>1, <2>2 DEF HistoryType
<1>10. HandlerInv' /\ FlightInv'
  BY <1>1, <1>2, <1>3, KeptInv DEF HandlersType
<1>11. RunInv'
  <2>1. \A r \in Run : r > runs => sent'[r] = sent[r] /\ label'[r] = label[r]
    BY <1>1, <1>4, <1>8 DEF HistoryType, ToolsType, Run
  <2> QED BY <1>2, <1>3, <2>1 DEF RunInv
<1> QED BY <1>5, <1>6, <1>7, <1>9, <1>10, <1>11 DEF IInv1, DataType

\* processIdle marks a handler of the session or starts one on the file.
LEMMA IdleHandlers ==
    ASSUME IInv1, NEW s \in Session, processIdle(s)
    PROVE  \/ /\ \A g \in Slot : Kept(g) /\ hnd'[g].pc = hnd[g].pc
              /\ hnd' \in [Slot -> HandlerType]
              /\ inFlight' = inFlight
           \/ /\ inFlight[s] = None /\ state.s = s /\ state \in LoopState
              /\ \E h \in Slot :
                    /\ ~Running(h)
                    /\ Fresh(hnd'[h], s, state)
                    /\ \A g \in Slot \ {h} : hnd'[g] = hnd[g]
                    /\ inFlight' = [inFlight EXCEPT ![s] = h]
                    /\ hnd' \in [Slot -> HandlerType]
<1> USE DEF IInv1, DataType
<1>1. CASE inFlight[s] # None /\ hnd' = [hnd EXCEPT ![inFlight[s]].pending = TRUE]
           /\ UNCHANGED inFlight
  <2> DEFINE h == inFlight[s]
  <2>1. h \in Slot /\ hnd[h] \in HandlerType /\ Running(h)
    BY <1>1 DEF HandlersType, FlightInv
  <2>2. [hnd[h] EXCEPT !.pending = TRUE] \in HandlerType
    BY <2>1 DEF HandlerType
  <2>3. hnd' = [hnd EXCEPT ![h] = [@ EXCEPT !.pending = TRUE]]
    BY <1>1
  <2>4. hnd' \in [Slot -> HandlerType]
    BY <2>1, <2>2, <2>3 DEF HandlersType
  <2>5. \A g \in Slot : Kept(g) /\ hnd'[g].pc = hnd[g].pc
    <3>1. /\ hnd'[h].s = hnd[h].s /\ hnd'[h].st = hnd[h].st /\ hnd'[h].pc = hnd[h].pc
      BY <2>1, <2>3 DEF HandlersType, HandlerType
    <3>2. \A g \in Slot \ {h} : hnd'[g] = hnd[g]
      BY <2>3 DEF HandlersType
    <3> HIDE DEF h
    <3> QED BY <2>1, <3>1, <3>2 DEF Kept, Running, HandlerInv
  <2> QED BY <1>1, <2>4, <2>5
<1>2. CASE UNCHANGED <<hnd, inFlight>>
  BY <1>2 DEF Kept, Running, HandlerInv, HandlersType
<1>3. ASSUME inFlight[s] = None, state.s = s, NEW h \in Slot, hnd[h].pc = "free",
             hnd' = [hnd EXCEPT ![h] = Activation(s, state, FALSE)],
             inFlight' = [inFlight EXCEPT ![s] = h]
      PROVE  /\ state \in LoopState
             /\ ~Running(h)
             /\ Fresh(hnd'[h], s, state)
             /\ \A g \in Slot \ {h} : hnd'[g] = hnd[g]
             /\ hnd' \in [Slot -> HandlerType]
  <2>1. state \in LoopState
    BY <1>3, FileFacts
  <2>2. Activation(s, state, FALSE) \in HandlerType
    BY <2>1 DEF Activation, NoHandler, HandlerType
  <2> QED BY <1>3, <2>1, <2>2, ActivationFresh DEF HandlersType, Running
<1> QED BY <1>1, <1>2, <1>3 DEF processIdle

LEMMA IdleInv ==
    ASSUME IInv1, NEW s \in Session, processIdle(s), UNCHANGED <<state, runs, alive>>
    PROVE  HandlersType' /\ HandlerInv' /\ FlightInv'
<1>1. HandlersType /\ HandlerInv /\ FlightInv /\ RunInv /\ ToolsType
  BY DEF IInv1, DataType
<1>2. inFlight \in [Session -> Slot \cup {None}]
  BY <1>1 DEF HandlersType
<1>3. CASE /\ \A g \in Slot : Kept(g) /\ hnd'[g].pc = hnd[g].pc
           /\ hnd' \in [Slot -> HandlerType]
           /\ inFlight' = inFlight
  BY <1>1, <1>2, <1>3, KeptInv DEF HandlersType
<1>4. ASSUME inFlight[s] = None, state.s = s, state \in LoopState, NEW h \in Slot,
             ~Running(h), Fresh(hnd'[h], s, state),
             \A g \in Slot \ {h} : hnd'[g] = hnd[g],
             inFlight' = [inFlight EXCEPT ![s] = h],
             hnd' \in [Slot -> HandlerType]
      PROVE  HandlersType' /\ HandlerInv' /\ FlightInv'
  <2>1. HandlersType'
    BY <1>2, <1>4 DEF HandlersType
  <2>2. HandlerInv'
    BY <1>1, <1>4 DEF HandlerInv, Running, Fresh, RunInv
  <2>3. \A r \in Session : inFlight'[r] # None =>
           hnd'[inFlight'[r]].pc # "free" /\ hnd'[inFlight'[r]].s = r
    BY <1>1, <1>2, <1>4 DEF FlightInv, Running, Fresh
  <2>4. \A g \in Slot : Running(g)' /\ alive'[hnd'[g].s] # "gone" => inFlight'[hnd'[g].s] = g
    BY <1>1, <1>2, <1>4 DEF FlightInv, HandlerInv, Running, Fresh
  <2> QED BY <2>1, <2>2, <2>3, <2>4 DEF FlightInv, Running
<1> QED BY <1>3, <1>4, IdleHandlers

LEMMA DeliverIdleInv1 == ASSUME IInv1, NEW s \in Session, DeliverIdle(s) PROVE IInv1'
<1> USE DEF IInv1, DataType, DeliverIdle, history
<1>1. HandlersType' /\ HandlerInv' /\ FlightInv'
  BY IdleInv
<1>2. ServerType'
  <2>1. idle' \in [Session -> 0..MaxIdle]
    BY DEF ServerType
  <2> QED BY <2>1 DEF ServerType
<1> QED BY <1>1, <1>2, Frame

LEMMA InitStatusInv1 == ASSUME IInv1, InitStatus PROVE IInv1'
<1> USE DEF IInv1, DataType, InitStatus, server, history
<1>1. init \in Session
  BY DEF ToolsType
<1>2. ToolsType'
  BY DEF ToolsType
<1>3. HandlersType' /\ HandlerInv' /\ FlightInv'
  <2>1. CASE UNCHANGED <<hnd, inFlight>>
    BY <2>1, Frame
  <2>2. CASE processIdle(init)
    BY <1>1, <2>2, IdleInv
  <2> QED BY <2>1, <2>2
<1> QED BY <1>2, <1>3, Frame

\* loop-start: the run it will start has room among the runs.
LEMMA LoopStartInv1 == ASSUME IInv1, NEW s \in Session, LoopStart(s) PROVE IInv1'
<1> USE DEF IInv1, DataType, LoopStart, server, history
<1>1. ToolsType'
  BY DEF ToolsType
<1>2. IsFiniteSet(starting') /\ Cardinality(starting') = Cardinality(starting) + 1
  BY FS_AddElement DEF RunInv
<1>3. Cardinality(starting) \in Nat
  BY FS_CardinalityType DEF RunInv
<1>4. RunInv'
  BY <1>2, <1>3 DEF RunInv, ToolsType
<1> QED BY <1>1, <1>4, Frame

LEMMA StartRemoved ==
    ASSUME IInv1, NEW s \in starting, starting' = starting \ {s}
    PROVE  /\ IsFiniteSet(starting')
           /\ Cardinality(starting) \in Nat \ {0}
           /\ Cardinality(starting') = Cardinality(starting) - 1
<1>1. IsFiniteSet(starting)
  BY DEF IInv1, RunInv
<1>2. Cardinality(starting) \in Nat /\ Cardinality(starting) # 0
  BY <1>1, FS_CardinalityType, FS_EmptySet
<1> QED BY <1>1, <1>2, FS_RemoveElement

LEMMA NewRun ==
    ASSUME NEW s \in Session, LoopStartWrite(s)
    PROVE  /\ state'.run = runs + 1 /\ state'.iter = 0 /\ state'.fails = 0 /\ state'.s = s
           /\ runs + 1 \in Run => state' \in LoopState
<1>1. state' = [run |-> runs + 1, iter |-> 0, fails |-> 0, s |-> s]
  BY DEF LoopStartWrite
<1> QED BY <1>1 DEF LoopState

LEMMA LoopStartWriteInv1 == ASSUME IInv1, NEW s \in Session, LoopStartWrite(s) PROVE IInv1'
<1> USE DEF LoopStartWrite, server
<1>1. FileType /\ HandlersType /\ ToolsType /\ ServerType /\ HistoryType
  BY DEF IInv1, DataType
<1>2. HandlerInv /\ FlightInv /\ RunInv
  BY DEF IInv1
<1>3. /\ IsFiniteSet(starting')
      /\ Cardinality(starting) \in Nat \ {0}
      /\ Cardinality(starting') = Cardinality(starting) - 1
  BY StartRemoved
<1>4. runs' = runs + 1 /\ runs + 1 \in Run /\ runs \in Nat
  BY <1>1, <1>2, <1>3 DEF ToolsType, RunInv, Run
<1>5. state' \in LoopState /\ state'.run = runs + 1 /\ state'.fails = 0
  BY <1>4, NewRun
<1>6. FileType'
  BY <1>5 DEF FileType
<1>7. ToolsType'
  BY <1>1, <1>4 DEF ToolsType, Run
<1>8. ended' \subseteq Run /\ \A r \in ended' : r \in ended \/ r = state.run
  BY <1>1, EndsFacts DEF HistoryType
<1>9. HistoryType'
  BY <1>1, <1>8 DEF HistoryType
<1>10. HandlerInv'
  <2>1. \A h \in Slot : Running(h) => hnd[h].st.run \in Nat
    BY <1>2 DEF HandlerInv, LoopState, Run
  <2> QED BY <1>2, <1>4, <2>1 DEF HandlerInv, Running
<1>11. RunInv'
  <2>1. runs' + Cardinality(starting') <= MaxRuns
    BY <1>2, <1>3, <1>4 DEF RunInv
  <2>2. \A r \in ended' : r <= runs'
    BY <1>1, <1>2, <1>4, <1>8, FileFacts DEF RunInv, HistoryType, Run
  <2>3. \A r \in Run : r > runs' => r > runs
    BY <1>4 DEF Run
  <2> QED BY <1>2, <1>3, <1>4, <1>5, <2>1, <2>2, <2>3 DEF RunInv
<1> QED BY <1>1, <1>2, <1>6, <1>7, <1>9, <1>10, <1>11, Frame DEF IInv1, DataType

LEMMA LoopStartRefusedInv1 == ASSUME IInv1, NEW s \in Session, LoopStartRefused(s) PROVE IInv1'
<1> USE DEF IInv1, DataType, LoopStartRefused, server, history
<1>1. ToolsType'
  BY DEF ToolsType
<1>2. /\ IsFiniteSet(starting')
      /\ Cardinality(starting) \in Nat \ {0}
      /\ Cardinality(starting') = Cardinality(starting) - 1
  BY StartRemoved
<1>3. RunInv'
  BY <1>2 DEF RunInv, ToolsType
<1> QED BY <1>1, <1>3, Frame

LEMMA NoLoopInv ==
    ASSUME IInv1, state' \in {state, NoLoop}, Ends(state'),
           UNCHANGED <<starting, runs, sent, label, fails>>
    PROVE  FileType' /\ RunInv' /\ HistoryType'
<1>1. FileType /\ HistoryType /\ RunInv /\ ToolsType
  BY DEF IInv1, DataType
<1>2. FileType' /\ state'.run <= runs
  BY <1>1 DEF FileType, RunInv, NoLoop, ToolsType
<1>3. ended' \subseteq Run /\ \A r \in ended' : r \in ended \/ r = state.run
  BY <1>1, EndsFacts DEF HistoryType
<1> QED BY <1>1, <1>2, <1>3 DEF RunInv, HistoryType

LEMMA LoopStopInv1 == ASSUME IInv1, NEW s \in Session, LoopStop(s) PROVE IInv1'
<1>1. FileType' /\ RunInv' /\ HistoryType'
  BY NoLoopInv DEF LoopStop
<1> QED BY <1>1, Frame DEF IInv1, DataType, LoopStop, server

LEMMA DeliverDeletedInv1 == ASSUME IInv1, NEW s \in Session, DeliverDeleted(s) PROVE IInv1'
<1> USE DEF DeliverDeleted
<1>0. HandlersType /\ HandlerInv /\ FlightInv /\ ServerType /\ ToolsType
  BY DEF IInv1, DataType
<1>1. FileType' /\ RunInv' /\ HistoryType'
  BY NoLoopInv
<1>2. HandlersType' /\ ServerType'
  BY <1>0 DEF HandlersType, ServerType
<1>3. FlightInv'
  BY <1>0 DEF FlightInv, HandlerInv, Running, HandlersType, ServerType
<1> QED BY <1>0, <1>1, <1>2, <1>3, Frame DEF IInv1, DataType

\* The answer of a handler changes and nothing else of it.
LEMMA AnswerKept ==
    ASSUME IInv1, NEW s \in Session, NEW a \in {"ok", "lost"},
           hnd' = [h \in Slot |->
                     IF hnd[h].s = s /\ hnd[h].answer = "waiting"
                        THEN [hnd[h] EXCEPT !.answer = a] ELSE hnd[h]]
    PROVE  /\ hnd' \in [Slot -> HandlerType]
           /\ \A g \in Slot : Kept(g) /\ hnd'[g].pc = hnd[g].pc
<1>1. \A h \in Slot : hnd[h] \in HandlerType
  BY DEF IInv1, DataType, HandlersType
<1>2. \A h \in Slot : [hnd[h] EXCEPT !.answer = a] \in HandlerType
  BY <1>1 DEF HandlerType
<1>3. \A h \in Slot : hnd'[h].s = hnd[h].s /\ hnd'[h].st = hnd[h].st /\ hnd'[h].pc = hnd[h].pc
  BY <1>1 DEF HandlerType
<1>4. \A h \in Slot : ~Running(h) => hnd'[h] = hnd[h]
  BY DEF IInv1, HandlerInv, NoHandler
<1> QED BY <1>1, <1>2, <1>3, <1>4 DEF Kept, Running, IInv1, HandlerInv

LEMMA ServerInv1 ==
    ASSUME IInv1, NEW s \in Session,
           \/ TurnStart(s) \/ DeleteSession(s)
           \/ \E t \in {"plain", "done"} : TurnEnd(s, t)
    PROVE  IInv1'
<1> USE DEF IInv1, DataType, plugin, history
<1>1. CASE TurnStart(s)
  <2>1. ServerType'
    BY <1>1 DEF TurnStart, ServerType
  <2> QED BY <1>1, <2>1, Frame DEF TurnStart
<1>2. CASE DeleteSession(s)
  <2>1. hnd' \in [Slot -> HandlerType] /\ \A g \in Slot : Kept(g)
    BY <1>2, AnswerKept DEF DeleteSession
  <2>2. ServerType'
    BY <1>2 DEF DeleteSession, ServerType
  <2>3. HandlersType' /\ HandlerInv' /\ FlightInv'
    BY <1>2, <2>1, KeptInv DEF DeleteSession, HandlersType, ServerType
  <2> QED BY <1>2, <2>2, <2>3, Frame DEF DeleteSession
<1>3. ASSUME NEW t \in {"plain", "done"}, TurnEnd(s, t) PROVE IInv1'
  <2>1. hnd' \in [Slot -> HandlerType] /\ \A g \in Slot : Kept(g)
    BY <1>3, AnswerKept DEF TurnEnd
  <2>2. ServerType'
    BY <1>3 DEF TurnEnd, ServerType
  <2>3. HandlersType' /\ HandlerInv' /\ FlightInv'
    BY <1>3, <2>1, KeptInv DEF TurnEnd, HandlersType
  <2> QED BY <1>3, <2>2, <2>3, Frame DEF TurnEnd
<1> QED BY <1>1, <1>2, <1>3

LEMMA RestartInv1 == ASSUME IInv1, Restart PROVE IInv1'
<1> USE DEF IInv1, DataType, Restart, history
<1>1. HandlersType'
  <2>1. NoHandler \in HandlerType
    BY DEF NoHandler, HandlerType
  <2> QED BY <2>1 DEF HandlersType
<1>2. ToolsType'
  <2>1. state.s \in Session \cup {None}
    BY DEF FileType, LoopState, NoLoop
  <2> QED BY <2>1 DEF ToolsType
<1>3. ServerType'
  BY DEF ServerType
<1>4. HandlerInv' /\ FlightInv'
  BY DEF HandlerInv, FlightInv, Running, NoHandler
<1>5. RunInv'
  <2>1. IsFiniteSet(starting') /\ Cardinality(starting') = 0
    BY FS_EmptySet
  <2>2. Cardinality(starting) \in Nat
    BY FS_CardinalityType DEF RunInv
  <2> QED BY <2>1, <2>2 DEF RunInv, ToolsType
<1> QED BY <1>1, <1>2, <1>3, <1>4, <1>5, Frame

LEMMA StutterInv1 == ASSUME IInv1, UNCHANGED vars PROVE IInv1'
BY Frame DEF IInv1, DataType, vars, plugin, server, history

LEMMA StepInv1 == IInv1 /\ [Next]_vars => IInv1'
<1>1. ASSUME IInv1, NEW h \in Slot, HandlerStep(h) PROVE IInv1'
  BY <1>1, HandlerCases, KindRootInv1, InjectInv1, ReturnInv1
<1> QED BY <1>1, DeliverIdleInv1, InitStatusInv1, LoopStartInv1, LoopStartWriteInv1,
           LoopStartRefusedInv1, LoopStopInv1, DeliverDeletedInv1, ServerInv1,
           RestartInv1, StutterInv1 DEF Next

\* The disturbances of a behaviour are those it began with.
LEMMA FaultsFixed ==
    /\ Init => faults \subseteq Faults
    /\ faults \subseteq Faults /\ [Next]_vars => (faults \subseteq Faults)'
<1>1. Init => faults \subseteq Faults
  BY DEF Init
<1>2. ASSUME NEW h \in Slot, HandlerStep(h) PROVE faults' = faults
  BY <1>2 DEF HandlerStep, KindRoot, KindMissing, KindNotRoot, MessagesFail, NoAnswerYet,
              SentinelSeen, CapReached, Superseded, Inject, PromptOk, PromptFails
<1>3. [Next]_vars => faults' = faults
  BY <1>2 DEF Next, vars, DeliverIdle, DeliverDeleted, LoopStart, LoopStartWrite,
              LoopStartRefused, LoopStop, TurnStart, TurnEnd, DeleteSession, InitStatus, Restart
<1> QED BY <1>1, <1>3

\* The data of the plugin are always of their kind; above all the LoopState
\* file never stays on disk with its failure budget used up (index.ts,
\* onFailure), whichever of the handlers wrote it.
THEOREM TypeCorrect == Spec => []TypeOK
<1>1. IInv1 /\ faults \subseteq Faults => TypeOK
  BY DEF IInv1, TypeOK
<1> QED BY InitInv1, StepInv1, FaultsFixed, <1>1, PTL DEF Spec

\* One activation of handleIdle per live session (index.ts, processIdle and its
\* inFlight map), across re-runs, deletions and restarts.
THEOREM SingleFlightSafety == Spec => []SingleFlight
<1>1. ASSUME IInv1 PROVE SingleFlight
  <2> SUFFICES ASSUME NEW g \in Slot, NEW h \in Slot, g # h, hnd[g].pc # "free",
                      hnd[g].s = hnd[h].s
               PROVE  alive[hnd[g].s] # "live"
    BY DEF SingleFlight
  <2>1. Running(g) /\ hnd[g].s \in Session
    BY <1>1 DEF IInv1, HandlerInv, Running
  <2>2. Running(h)
    BY <1>1, <2>1 DEF IInv1, HandlerInv, NoHandler
  <2> QED BY <1>1, <2>1, <2>2 DEF IInv1, FlightInv
<1> QED BY InitInv1, StepInv1, <1>1, PTL DEF Spec

-----------------------------------------------------------------------------
(* The file and the history of its runs.                                   *)

\* Who touches the file and the history.
LEMMA FileSteps ==
    ASSUME IInv1, [Next]_vars
    PROVE  \/ UNCHANGED <<state, ended, sent, label, fails>>
           \/ \E h \in Slot : \E d : Return(h, d)
           \/ \E h \in Slot, reaches \in BOOLEAN : Inject(h, reaches)
           \/ \E s \in Session : LoopStartWrite(s)
           \/ /\ state' \in {state, NoLoop} /\ Ends(state')
              /\ UNCHANGED <<sent, label, fails>>
<1> DEFINE Quiet == UNCHANGED <<state, ended, sent, label, fails>>
<1> USE DEF plugin, server, history
<1>1. ASSUME NEW h \in Slot, HandlerStep(h)
      PROVE  \/ Quiet
             \/ \E d : Return(h, d)
             \/ \E reaches \in BOOLEAN : Inject(h, reaches)
  BY <1>1, HandlerCases DEF KindRoot
<1>2. ASSUME NEW s \in Session,
             \/ DeliverIdle(s) \/ LoopStart(s) \/ LoopStartRefused(s)
             \/ TurnStart(s) \/ DeleteSession(s)
      PROVE  Quiet
  BY <1>2 DEF DeliverIdle, LoopStart, LoopStartRefused, TurnStart, DeleteSession
<1>3. ASSUME NEW s \in Session, NEW t \in {"plain", "done"}, TurnEnd(s, t)
      PROVE  Quiet
  BY <1>3 DEF TurnEnd
<1>4. CASE InitStatus \/ Restart \/ UNCHANGED vars
  BY <1>4 DEF InitStatus, Restart, vars
<1>5. ASSUME NEW s \in Session, LoopStop(s) \/ DeliverDeleted(s)
      PROVE  /\ state' \in {state, NoLoop} /\ Ends(state')
             /\ UNCHANGED <<sent, label, fails>>
  BY <1>5 DEF LoopStop, DeliverDeleted
<1> HIDE DEF Quiet
<1>6. Quiet => UNCHANGED <<state, ended, sent, label, fails>>
  BY DEF Quiet
<1> QED BY <1>1, <1>2, <1>3, <1>4, <1>5, <1>6 DEF Next

LEMMA StoppedStep == IInv1 /\ StoppedStaysStopped /\ [Next]_vars => StoppedStaysStopped'
<1> SUFFICES ASSUME IInv1, StoppedStaysStopped, [Next]_vars PROVE StoppedStaysStopped'
  OBVIOUS
<1>0. FileType /\ ended \subseteq Run /\ RunInv /\ runs \in Nat
  BY DEF IInv1, DataType, HistoryType, ToolsType
<1>1. CASE UNCHANGED <<state, ended, sent, label, fails>>
  BY <1>1 DEF StoppedStaysStopped, Active
<1>2. ASSUME NEW d, state' = d, Ends(d), d = NoLoop \/ d.run = state.run
      PROVE  StoppedStaysStopped'
  BY <1>0, <1>2, EndsFacts DEF StoppedStaysStopped, Active, NoLoop
<1>3. ASSUME NEW h \in Slot, NEW d, Return(h, d) PROVE StoppedStaysStopped'
  <2>1. state' = d /\ (d = NoLoop \/ d.run = state.run)
    BY <1>3, ReturnFile
  <2>2. Ends(d)
    BY <1>3 DEF Return, Returns
  <2> QED BY <1>2, <2>1, <2>2
<1>4. ASSUME NEW h \in Slot, NEW reaches \in BOOLEAN, Inject(h, reaches)
      PROVE  StoppedStaysStopped'
  BY <1>2, <1>4, InjectFacts DEF StoppedStaysStopped, Active
<1>5. ASSUME NEW s \in Session, LoopStartWrite(s) PROVE StoppedStaysStopped'
  <2>1. state'.run = runs + 1
    BY <1>5, NewRun
  <2>2. \A r \in ended' : r <= runs /\ r \in Nat
    <3>1. \A r \in ended' : r \in ended \/ r = state.run
      BY <1>0, <1>5, EndsFacts DEF LoopStartWrite
    <3>2. state.run \in Nat /\ state.run <= runs
      BY <1>0, FileFacts DEF RunInv
    <3>3. \A r \in ended : r \in Nat /\ r <= runs
      BY <1>0 DEF RunInv, Run
    <3> QED BY <3>1, <3>2, <3>3
  <2> QED BY <1>0, <2>1, <2>2 DEF StoppedStaysStopped
<1>6. CASE state' \in {state, NoLoop} /\ Ends(state')
  BY <1>2, <1>6
<1> QED BY <1>1, <1>3, <1>4, <1>5, <1>6, FileSteps

\* A loop that was stopped, completed or replaced never comes back, however
\* long a handler that read it was suspended (index.ts, stateStillOurs).
THEOREM StoppedSafety == Spec => []StoppedStaysStopped
<1>1. Init => StoppedStaysStopped
  BY DEF Init, StoppedStaysStopped
<1> QED BY InitInv1, StepInv1, StoppedStep, <1>1, PTL DEF Spec

-----------------------------------------------------------------------------
(* The handlers of the run on file.                                        *)

\* The steps as the handlers of the run on file see them.
LEMMA CurrentSteps ==
    ASSUME IInv1, [Next]_vars
    PROVE  \/ /\ \A g \in Slot : Kept(g) /\ (hnd'[g].pc = "prompt" <=> hnd[g].pc = "prompt")
              /\ UNCHANGED <<state, fails>>
              /\ \A s \in Session : alive'[s] = "gone" => alive[s] = "gone"
           \/ \E h \in Slot : \E d : Return(h, d)
           \/ \E h \in Slot, reaches \in BOOLEAN : Inject(h, reaches)
           \/ \E s \in Session : /\ processIdle(s)
                                 /\ UNCHANGED <<state, alive, fails>>
           \/ \E s \in Session : LoopStartWrite(s)
           \/ \E s \in Session : LoopStop(s) \/ DeliverDeleted(s)
           \/ Restart
<1> DEFINE Quiet == /\ \A g \in Slot : Kept(g) /\ (hnd'[g].pc = "prompt" <=> hnd[g].pc = "prompt")
                    /\ UNCHANGED <<state, fails>>
                    /\ \A s \in Session : alive'[s] = "gone" => alive[s] = "gone"
<1> SUFFICES \/ Quiet
             \/ \E h \in Slot : \E d : Return(h, d)
             \/ \E h \in Slot, reaches \in BOOLEAN : Inject(h, reaches)
             \/ \E s \in Session : /\ processIdle(s)
                                   /\ UNCHANGED <<state, alive, fails>>
             \/ \E s \in Session : LoopStartWrite(s)
             \/ \E s \in Session : LoopStop(s) \/ DeliverDeleted(s)
             \/ Restart
  OBVIOUS
<1> USE DEF plugin, server, history
<1>0. HandlersType /\ HandlerInv
  BY DEF IInv1, DataType
<1>1. ASSUME UNCHANGED <<hnd, state, fails, alive>> PROVE Quiet
  BY <1>0, <1>1 DEF Kept, HandlerInv, Running
<1>2. ASSUME NEW h \in Slot, HandlerStep(h)
      PROVE  \/ Quiet
             \/ \E d : Return(h, d)
             \/ \E reaches \in BOOLEAN : Inject(h, reaches)
  <2>1. CASE KindRoot(h)
    <3>1. /\ hnd[h].pc = "kind" /\ hnd'[h].pc = "text"
          /\ hnd'[h].s = hnd[h].s /\ hnd'[h].st = hnd[h].st
          /\ \A g \in Slot \ {h} : hnd'[g] = hnd[g]
      BY <1>0, <2>1 DEF KindRoot, HandlersType, HandlerType
    <3>2. UNCHANGED <<state, fails, alive>>
      BY <2>1 DEF KindRoot
    <3> QED BY <1>0, <3>1, <3>2 DEF Kept, Running, HandlerInv
  <2> QED BY <1>2, <2>1, HandlerCases
<1>3. ASSUME NEW s \in Session, LoopStart(s) \/ LoopStartRefused(s) \/ TurnStart(s)
      PROVE  Quiet
  BY <1>1, <1>3 DEF LoopStart, LoopStartRefused, TurnStart
<1>4. ASSUME NEW s \in Session, DeliverIdle(s)
      PROVE  processIdle(s) /\ UNCHANGED <<state, alive, fails>>
  BY <1>4 DEF DeliverIdle
<1>5. ASSUME NEW s \in Session, DeleteSession(s)
      PROVE  Quiet
  <2>1. \A g \in Slot : Kept(g) /\ hnd'[g].pc = hnd[g].pc
    BY <1>5, AnswerKept DEF DeleteSession
  <2>2. \A r \in Session : alive'[r] = "gone" => alive[r] = "gone"
    BY <1>5 DEF DeleteSession, IInv1, DataType, ServerType
  <2> QED BY <1>5, <2>1, <2>2 DEF DeleteSession
<1>6. ASSUME NEW s \in Session, NEW t \in {"plain", "done"}, TurnEnd(s, t)
      PROVE  Quiet
  <2>1. \A g \in Slot : Kept(g) /\ hnd'[g].pc = hnd[g].pc
    BY <1>6, AnswerKept DEF TurnEnd
  <2> QED BY <1>6, <2>1 DEF TurnEnd
<1>7. CASE InitStatus
  <2>1. init \in Session /\ UNCHANGED <<state, alive, fails>>
    BY <1>7 DEF InitStatus, IInv1, DataType, ToolsType
  <2> QED BY <1>1, <1>7, <2>1 DEF InitStatus
<1>8. CASE UNCHANGED vars
  BY <1>1, <1>8 DEF vars
<1> HIDE DEF Quiet
<1> QED BY <1>2, <1>3, <1>4, <1>5, <1>6, <1>7, <1>8 DEF Next

\* A run that handlers hold is a real one, and holds its session's map entry
\* while the session is not gone.
LEMMA CurrentFacts ==
    ASSUME IInv1, NEW h \in Slot, Running(h)
    PROVE  /\ hnd[h].st.run \in Run /\ hnd[h].st.run # 0
           /\ hnd[h].s \in Session
           /\ alive[hnd[h].s] # "gone" => inFlight[hnd[h].s] = h
BY DEF IInv1, HandlerInv, FlightInv, LoopState, Run

LEMMA ReturnCurrent ==
    ASSUME IInv1, CurrentInv, NEW h \in Slot, NEW d, Return(h, d)
    PROVE  CurrentInv'
<1>1. IInv1'
  BY ReturnInv1
<1>2. state' = d /\ (d = NoLoop \/ (d.run = state.run /\ d.s = state.s)) /\ alive' = alive
  BY ReturnFile DEF Return
<1>3. CASE d = NoLoop
  <2>1. \A g \in Slot : ~Current(g)'
    <3>1. \A g \in Slot : Running(g)' => hnd'[g].st.run # 0
      BY <1>1 DEF IInv1, HandlerInv, LoopState, Run
    <3> QED BY <1>2, <1>3, <3>1 DEF Current, NoLoop
  <2> QED BY <2>1 DEF CurrentInv
<1>4. CASE d.run = state.run /\ d.s = state.s /\ d # NoLoop
  <2>1. d = state \/ (Rewritten(h, d) /\ Current(h))
    BY <1>4 DEF Return, Left, Rewritten, stateStillOurs, Current
  <2>2. d.iter = state.iter
    <3>1. CASE Rewritten(h, d) /\ Current(h)
      BY <3>1 DEF Rewritten, CurrentInv
    <3> QED BY <2>1, <3>1
  <2>3. /\ \A g \in Slot \ {h} : hnd'[g] = hnd[g]
        /\ hnd'[h] = NoHandler \/ (d.s = hnd[h].s /\ Fresh(hnd'[h], hnd[h].s, d))
    BY ReturnHandlers
  <2>4. NoHandler.pc = "free"
    BY DEF NoHandler
  <2>5. Current(h)' => /\ hnd'[h].s = state'.s /\ hnd'[h].pc = "kind"
                       /\ hnd'[h].st.iter = state'.iter /\ d.s = hnd[h].s
    BY <1>2, <2>3, <2>4 DEF Current, Running, Fresh
  <2>6. \A g \in Slot \ {h} : Current(g)' <=> Current(g)
    BY <1>2, <1>4, <2>3 DEF Current, Running
  <2>7. ASSUME NEW g \in Slot \ {h}, Current(g), hnd[g].pc = "prompt"
        PROVE  state'.fails = 0 /\ ~Current(h)'
    <3>1. alive[hnd[g].s] # "gone" /\ hnd[g].s = state.s /\ state.fails = 0 /\ ~Current(h)
      BY <2>7 DEF CurrentInv
    <3>2. inFlight[state.s] = g
      BY <2>7, <3>1, CurrentFacts DEF Current
    <3>3. hnd[h].s # state.s
      BY <3>1, <3>2, CurrentFacts DEF Return
    <3> QED BY <1>2, <1>4, <2>1, <2>5, <3>1, <3>3
  <2> QED BY <1>2, <1>4, <2>2, <2>3, <2>5, <2>6, <2>7 DEF CurrentInv
<1> QED BY <1>2, <1>3, <1>4

LEMMA InjectCurrent ==
    ASSUME IInv1, CurrentInv, NEW h \in Slot, NEW reaches \in BOOLEAN, Inject(h, reaches)
    PROVE  CurrentInv' /\ \A g \in Slot \ {h} : ~Current(g) /\ ~Current(g)'
<1>1. /\ hnd[h].pc = "text" /\ alive[hnd[h].s] = "live"
      /\ state.run = hnd[h].st.run /\ state.s = hnd[h].st.s
      /\ state'.run = state.run /\ state'.s = state.s
      /\ state'.iter = hnd[h].st.iter + 1 /\ state'.fails = 0
      /\ hnd'[h].pc = "prompt" /\ hnd'[h].s = hnd[h].s /\ hnd'[h].st = hnd[h].st
      /\ \A g \in Slot \ {h} : hnd'[g] = hnd[g]
      /\ alive' = alive
  BY InjectFacts DEF Kept
<1>2. Running(h) /\ hnd[h].s = state.s
  BY <1>1 DEF Running, IInv1, HandlerInv
<1>3. \A g \in Slot \ {h} : ~Current(g)
  <2> SUFFICES ASSUME NEW g \in Slot \ {h}, Current(g) PROVE FALSE
    OBVIOUS
  <2>1. hnd[g].s = hnd[h].s
    BY <1>2 DEF CurrentInv
  <2> QED BY <1>1, <1>2, <2>1, CurrentFacts DEF Current
<1>4. \A g \in Slot \ {h} : ~Current(g)'
  BY <1>1, <1>3 DEF Current, Running
<1> QED BY <1>1, <1>2, <1>3, <1>4 DEF CurrentInv

\* A loop that starts has a run of its own that no handler has read.
LEMMA NewRunFacts ==
    ASSUME IInv1, NEW s \in Session, LoopStartWrite(s)
    PROVE  /\ state' \in LoopState /\ state'.run \in Run
           /\ \A g \in Slot : ~Current(g)'
<1>1. state'.run = runs + 1 /\ hnd' = hnd /\ runs \in Nat
  BY NewRun DEF LoopStartWrite, IInv1, DataType, ToolsType
<1>2. FileType'
  BY LoopStartWriteInv1 DEF IInv1, DataType
<1>3. \A g \in Slot : Running(g) => hnd[g].st.run \in Nat /\ hnd[g].st.run <= runs
  BY DEF IInv1, HandlerInv, LoopState, Run
<1>4. \A g \in Slot : ~Current(g)'
  BY <1>1, <1>3 DEF Current, Running
<1> QED BY <1>1, <1>2, <1>4 DEF FileType, LoopState, NoLoop

LEMMA CurrentStep == IInv1 /\ CurrentInv /\ [Next]_vars => CurrentInv'
<1> SUFFICES ASSUME IInv1, CurrentInv, [Next]_vars PROVE CurrentInv'
  OBVIOUS
<1>1. ASSUME \A g \in Slot : Kept(g) /\ (hnd'[g].pc = "prompt" <=> hnd[g].pc = "prompt"),
             UNCHANGED state,
             \A s \in Session : alive'[s] = "gone" => alive[s] = "gone"
      PROVE  CurrentInv'
  <2>1. \A g \in Slot : Current(g)' <=> Current(g)
    BY <1>1 DEF Current, Kept, Running
  <2>2. \A g \in Slot : Current(g) /\ alive[hnd[g].s] # "gone" => alive'[hnd'[g].s] # "gone"
    BY <1>1, CurrentFacts DEF Kept, Current
  <2> QED BY <1>1, <2>1, <2>2 DEF CurrentInv, Kept
<1>2. ASSUME NEW s \in Session, processIdle(s), UNCHANGED <<state, alive>> PROVE CurrentInv'
  <2>1. CASE \A g \in Slot : Kept(g) /\ hnd'[g].pc = hnd[g].pc
    BY <1>1, <1>2, <2>1
  <2>2. ASSUME inFlight[s] = None, state.s = s, NEW h \in Slot, ~Running(h),
               Fresh(hnd'[h], s, state), \A g \in Slot \ {h} : hnd'[g] = hnd[g]
        PROVE  CurrentInv'
    <3>1. \A g \in Slot \ {h} : Current(g)' <=> Current(g)
      BY <1>2, <2>2 DEF Current, Running
    <3>2. \A g \in Slot \ {h} : Current(g) => hnd[g].pc # "prompt"
      <4> SUFFICES ASSUME NEW g \in Slot \ {h}, Current(g), hnd[g].pc = "prompt" PROVE FALSE
        OBVIOUS
      <4>1. hnd[g].s = s /\ alive[s] # "gone"
        BY <2>2 DEF CurrentInv
      <4> QED BY <2>2, <4>1, CurrentFacts DEF Current
    <3> QED BY <1>2, <2>2, <3>1, <3>2 DEF CurrentInv, Fresh
  <2> QED BY <1>2, <2>1, <2>2, IdleHandlers
<1>3. ASSUME NEW s \in Session, LoopStartWrite(s) PROVE CurrentInv'
  BY <1>3, NewRunFacts DEF CurrentInv
<1>4. ASSUME NEW s \in Session, LoopStop(s) \/ DeliverDeleted(s) PROVE CurrentInv'
  <2>1. hnd' = hnd
    BY <1>4 DEF LoopStop, DeliverDeleted
  <2>2. CASE state' = NoLoop
    <3>1. \A g \in Slot : ~Current(g)'
      BY <2>1, <2>2, CurrentFacts DEF Current, Running, NoLoop
    <3> QED BY <3>1 DEF CurrentInv
  <2>3. CASE state' = state /\ DeliverDeleted(s) /\ state.s # s
    <3>1. \A r \in Session \ {s} : alive'[r] = alive[r]
      BY <2>3 DEF DeliverDeleted, IInv1, DataType, ServerType
    <3>2. \A g \in Slot : Current(g) => hnd[g].s \in Session \ {s}
      BY <2>3, CurrentFacts DEF CurrentInv, Current
    <3> QED BY <2>1, <2>3, <3>1, <3>2 DEF CurrentInv, Current, Running
  <2> QED BY <1>4, <2>2, <2>3 DEF LoopStop, DeliverDeleted
<1>5. CASE Restart
  <2>1. \A g \in Slot : ~Current(g)'
    BY <1>5 DEF Restart, Current, Running, NoHandler
  <2> QED BY <2>1 DEF CurrentInv
<1> QED BY <1>1, <1>2, <1>3, <1>4, <1>5, CurrentSteps, ReturnCurrent, InjectCurrent

-----------------------------------------------------------------------------
(* Iteration labels.                                                       *)

\* A return leaves the iteration on file as it is.
LEMMA ReturnIteration ==
    ASSUME IInv1, CurrentInv, NEW h \in Slot, NEW d, Return(h, d)
    PROVE  d = NoLoop \/ (d.run = state.run /\ d.iter = state.iter)
<1>1. d \in {state, NoLoop} \/ (Rewritten(h, d) /\ Current(h))
  BY DEF Return, Left, Rewritten, stateStillOurs, Current
<1>2. CASE Rewritten(h, d) /\ Current(h)
  BY <1>2 DEF Rewritten, CurrentInv, Current
<1> QED BY <1>1, <1>2

LEMMA LabelStep == IInv1 /\ CurrentInv /\ LabelInv /\ [Next]_vars => LabelInv'
<1> SUFFICES ASSUME IInv1, CurrentInv, LabelInv, [Next]_vars PROVE LabelInv'
  OBVIOUS
<1>0. /\ FileType /\ RunInv /\ runs \in 0..MaxRuns
      /\ sent \in [Run -> Nat] /\ label \in [Run -> 0..MaxIterations]
  BY DEF IInv1, DataType, HistoryType, ToolsType
<1>1. ASSUME UNCHANGED <<sent, label>>,
             Active(state') => state'.run = state.run /\ state'.iter = state.iter
      PROVE  LabelInv'
  BY <1>1 DEF LabelInv, LabelsDistinct, Active
<1>2. ASSUME NEW h \in Slot, NEW d, Return(h, d) PROVE LabelInv'
  <2>1. state' = d /\ UNCHANGED <<sent, label>>
    BY <1>2, ReturnFile DEF Return
  <2> QED BY <1>1, <1>2, <2>1, ReturnIteration DEF Active, NoLoop
<1>3. ASSUME NEW h \in Slot, NEW reaches \in BOOLEAN, Inject(h, reaches) PROVE LabelInv'
  <2> DEFINE r == state.run
  <2>1. /\ hnd[h].pc = "text" /\ hnd[h].st \in LoopState /\ hnd[h].st.iter < MaxIterations
        /\ r = hnd[h].st.run /\ state'.run = r /\ state'.iter = hnd[h].st.iter + 1
    BY <1>3, InjectFacts
  <2>2. r \in Run /\ r # 0 /\ hnd[h].st.iter \in Nat /\ hnd[h].st.iter = state.iter
    BY <2>1 DEF LoopState, Run, CurrentInv, Current, Running
  <2>3. label[r] <= hnd[h].st.iter /\ sent[r] <= label[r] /\ sent[r] = state.iter
    BY <2>2 DEF LabelInv, LabelsDistinct, Active
  <2>4. sent' = [sent EXCEPT ![r] = @ + 1]
        /\ label' = [label EXCEPT ![r] = IF hnd[h].st.iter >= @ THEN hnd[h].st.iter + 1 ELSE @]
    BY <1>3, <2>1 DEF Inject
  <2>5. sent'[r] = sent[r] + 1 /\ label'[r] = hnd[h].st.iter + 1
        /\ \A q \in Run \ {r} : sent'[q] = sent[q] /\ label'[q] = label[q]
    BY <1>0, <2>2, <2>3, <2>4
  <2>6. LabelsDistinct'
    BY <1>0, <2>1, <2>2, <2>3, <2>5 DEF LabelInv, LabelsDistinct, Active
  <2> QED BY <2>1, <2>2, <2>5, <2>6 DEF LabelInv
<1>4. ASSUME NEW s \in Session, LoopStartWrite(s) PROVE LabelInv'
  <2>1. /\ state'.run = runs + 1 /\ state'.iter = 0 /\ state'.run \in Run
        /\ UNCHANGED <<sent, label>>
    BY <1>4, NewRun, NewRunFacts DEF LoopStartWrite
  <2>2. label[runs + 1] = 0 /\ sent[runs + 1] = 0
    BY <1>0, <2>1 DEF RunInv
  <2> QED BY <2>1, <2>2 DEF LabelInv, LabelsDistinct
<1> QED BY <1>1, <1>2, <1>3, <1>4, FileSteps DEF Active, NoLoop

LEMMA InitCurrent == Init => CurrentInv /\ LabelInv /\ FailInv
<1> SUFFICES ASSUME Init PROVE CurrentInv /\ LabelInv /\ FailInv
  OBVIOUS
<1>1. \A h \in Slot : ~Current(h)
  BY DEF Init, Current, Running, NoHandler
<1>2. ~Active(state) /\ LabelsDistinct
  BY DEF Init, Active, NoLoop, LabelsDistinct
<1> QED BY <1>1, <1>2 DEF CurrentInv, LabelInv, FailInv

\* No iteration label is injected twice for a run, none exceeds the cap, and
\* the iteration on file is the number of prompts injected (index.ts, the file
\* is bumped before session.prompt is awaited).
THEOREM LabelSafety == Spec => []LabelsDistinct
<1>1. LabelInv => LabelsDistinct
  BY DEF LabelInv
<1> QED BY InitInv1, StepInv1, InitCurrent, CurrentStep, LabelStep, <1>1, PTL DEF Spec

-----------------------------------------------------------------------------
(* The failure budget.                                                     *)

\* What a failed attempt does to the counts.
LEMMA CountFacts ==
    ASSUME NEW h \in Slot, CountFailure(h), hnd[h].st.run \in Run, fails \in [Run -> Nat]
    PROVE  /\ \A r \in Run : fails'[r] \in Nat /\ fails'[r] >= fails[r]
           /\ \A r \in Run : r # hnd[h].st.run => fails'[r] = fails[r]
           /\ fails[hnd[h].st.run] < MAX_CONSECUTIVE_FAILURES =>
                 fails'[hnd[h].st.run] = fails[hnd[h].st.run] + 1
BY DEF CountFailure

LEMMA ReturnFail ==
    ASSUME IInv1, CurrentInv, FailInv, NEW h \in Slot, NEW d, Return(h, d)
    PROVE  FailInv'
<1>1. /\ fails \in [Run -> Nat] /\ FileType /\ Running(h)
      /\ hnd[h].st \in LoopState /\ hnd[h].st.run \in Run /\ hnd[h].st.fails \in Nat
  BY DEF IInv1, DataType, HistoryType, Return, HandlerInv, LoopState
<1>2. /\ state' = d
      /\ \A g \in Slot \ {h} : hnd'[g] = hnd[g]
      /\ hnd'[h] = NoHandler \/ Fresh(hnd'[h], hnd[h].s, d)
  BY ReturnFile, ReturnHandlers
<1>3. ASSUME d # NoLoop, d.run \in Run, d.run = state.run,
             d.fails <= fails'[d.run],
             \A g \in Slot \ {h} : Current(g) => hnd[g].st.fails <= fails'[d.run]
      PROVE  FailInv'
  <2>1. \A g \in Slot \ {h} : Current(g)' => hnd'[g].st.fails <= fails'[d.run]
    BY <1>2, <1>3 DEF Current, Running
  <2>2. Current(h)' => hnd'[h].st.fails <= fails'[d.run]
    BY <1>2, <1>3 DEF Current, Running, NoHandler, Fresh
  <2> QED BY <1>2, <1>3, <2>1, <2>2 DEF FailInv
<1>4. CASE d = NoLoop
  <2>1. \A g \in Slot : ~Current(g)'
    <3>1. \A g \in Slot : Running(g)' => hnd'[g].st.run # 0
      BY ReturnInv1 DEF IInv1, HandlerInv, LoopState, Run
    <3> QED BY <1>2, <1>4, <3>1 DEF Current, NoLoop
  <2> QED BY <1>2, <1>4, <2>1 DEF FailInv, Active, NoLoop
<1>5. CASE d = state /\ d # NoLoop
  <2>1. state.run \in Run /\ Active(state) /\ state.fails \in Nat
    BY <1>1, <1>5 DEF FileType, LoopState, Run, Active
  <2>2. /\ state.fails <= fails[state.run]
        /\ \A g \in Slot : Current(g) => hnd[g].st.fails <= fails[state.run] /\ hnd[g].st.fails \in Nat
    BY <2>1 DEF FailInv, IInv1, HandlerInv, LoopState, Current
  <2>3. CASE fails' = fails
    BY <1>3, <1>5, <2>1, <2>2, <2>3
  <2>4. CASE hnd[h].pc = "prompt" /\ fails' = [fails EXCEPT ![hnd[h].st.run] = 0]
    <3>1. CASE Current(h)
      <4>1. state.fails = 0 /\ \A g \in Slot \ {h} : ~Current(g)
        BY <2>4, <3>1 DEF CurrentInv
      <4>2. fails'[state.run] = 0
        BY <1>1, <2>4, <3>1 DEF Current
      <4> QED BY <1>3, <1>5, <2>1, <4>1, <4>2
    <3>2. CASE ~Current(h)
      <4>1. fails'[state.run] = fails[state.run]
        BY <1>1, <2>1, <2>4, <3>2 DEF Current
      <4> QED BY <1>3, <1>5, <2>1, <2>2, <4>1
    <3> QED BY <3>1, <3>2
  <2>5. CASE CountFailure(h)
    <3>1. fails'[state.run] \in Nat /\ fails'[state.run] >= fails[state.run] /\ fails[state.run] \in Nat
      BY <1>1, <2>1, <2>5, CountFacts
    <3> QED BY <1>3, <1>5, <2>1, <2>2, <3>1
  <2> QED BY <1>5, <2>3, <2>4, <2>5 DEF Return, Left
<1>6. CASE Rewritten(h, d) /\ CountFailure(h) /\ d # NoLoop
  <2>1. /\ Current(h) /\ d.run = state.run /\ state.run = hnd[h].st.run
        /\ d.fails = hnd[h].st.fails + 1 /\ d.fails < MAX_CONSECUTIVE_FAILURES
    BY <1>1, <1>6 DEF Rewritten, stateStillOurs, Current
  <2>2. \A g \in Slot : Current(g) => hnd[g].st.fails <= fails[state.run] /\ hnd[g].st.fails \in Nat
    BY DEF FailInv, IInv1, HandlerInv, LoopState, Current
  <2>3. /\ fails'[state.run] \in Nat /\ fails'[state.run] >= fails[state.run]
        /\ fails[state.run] \in Nat
        /\ fails[state.run] < MAX_CONSECUTIVE_FAILURES => fails'[state.run] = fails[state.run] + 1
    BY <1>1, <1>6, <2>1, CountFacts
  <2>4. d.fails <= fails'[d.run]
    BY <1>1, <2>1, <2>2, <2>3
  <2> QED BY <1>1, <1>3, <1>6, <2>1, <2>2, <2>3, <2>4
<1> QED BY <1>4, <1>5, <1>6 DEF Return, Left

LEMMA FailStep == IInv1 /\ CurrentInv /\ FailInv /\ [Next]_vars => FailInv'
<1> SUFFICES ASSUME IInv1, CurrentInv, FailInv, [Next]_vars PROVE FailInv'
  OBVIOUS
<1>0. fails \in [Run -> Nat] /\ FileType
  BY DEF IInv1, DataType, HistoryType
<1>1. ASSUME \A g \in Slot : Kept(g), UNCHANGED <<state, fails>> PROVE FailInv'
  <2>1. \A g \in Slot : Current(g)' <=> Current(g)
    BY <1>1 DEF Current, Kept, Running
  <2> QED BY <1>1, <2>1 DEF FailInv, Kept
<1>2. ASSUME NEW s \in Session, processIdle(s), UNCHANGED <<state, fails>> PROVE FailInv'
  <2>1. ASSUME NEW h \in Slot, Fresh(hnd'[h], s, state), state \in LoopState,
               \A g \in Slot \ {h} : hnd'[g] = hnd[g]
        PROVE  FailInv'
    <3>1. \A g \in Slot \ {h} : Current(g)' <=> Current(g)
      BY <1>2, <2>1 DEF Current, Running
    <3>2. Active(state) /\ state.fails <= fails[state.run]
      BY <1>0, <2>1, FileFacts DEF FailInv
    <3> QED BY <1>2, <2>1, <3>1, <3>2 DEF FailInv, Fresh
  <2> QED BY <1>1, <1>2, <2>1, IdleHandlers
<1>3. ASSUME NEW h \in Slot, NEW reaches \in BOOLEAN, Inject(h, reaches) PROVE FailInv'
  <2>1. /\ state'.run = state.run /\ state' \in LoopState /\ state'.fails = 0
        /\ state.run = hnd[h].st.run /\ hnd[h].pc = "text"
        /\ Kept(h) /\ fails' = fails
    BY <1>3, InjectFacts
  <2>2. \A g \in Slot \ {h} : ~Current(g)'
    BY <1>3, InjectCurrent
  <2>3. hnd'[h].st = hnd[h].st /\ Current(h)
    BY <2>1 DEF Kept, Current, Running
  <2>4. state.run \in Run
    BY <2>1 DEF LoopState
  <2> QED BY <1>0, <2>1, <2>2, <2>3, <2>4 DEF FailInv
<1>4. ASSUME NEW s \in Session, LoopStartWrite(s) PROVE FailInv'
  <2>1. /\ state'.fails = 0 /\ fails' = fails
        /\ state'.run \in Run /\ \A g \in Slot : ~Current(g)'
    BY <1>4, NewRun, NewRunFacts DEF LoopStartWrite
  <2> QED BY <1>0, <2>1 DEF FailInv
<1>5. ASSUME NEW s \in Session, LoopStop(s) \/ DeliverDeleted(s) PROVE FailInv'
  <2>1. hnd' = hnd /\ fails' = fails /\ state' \in {state, NoLoop}
    BY <1>5 DEF LoopStop, DeliverDeleted
  <2>2. CASE state' = NoLoop
    <3>1. \A g \in Slot : ~Current(g)'
      BY <2>1, <2>2, CurrentFacts DEF Current, Running, NoLoop
    <3> QED BY <2>2, <3>1 DEF FailInv, Active, NoLoop
  <2>3. CASE state' = state
    BY <2>1, <2>3 DEF FailInv, Current, Running, Active
  <2> QED BY <2>1, <2>2, <2>3
<1>6. CASE Restart
  <2>1. \A g \in Slot : ~Current(g)'
    BY <1>6 DEF Restart, Current, Running, NoHandler
  <2>2. UNCHANGED <<state, fails>>
    BY <1>6 DEF Restart, history
  <2> QED BY <2>1, <2>2 DEF FailInv, Active
<1> QED BY <1>1, <1>2, <1>3, <1>4, <1>5, <1>6, CurrentSteps, ReturnFail

\* A run is given up for failures only after MAX_CONSECUTIVE_FAILURES failed
\* attempts with no successful prompt in between (index.ts, onFailure).
THEOREM FailureBudgetSafety == Spec => FailureBudget
<1> DEFINE Kept1(r) == (fails'[r] > fails[r] /\ state.run = r /\ ~Active(state'))
                          => fails'[r] >= MAX_CONSECUTIVE_FAILURES
<1>1. ASSUME IInv1, FailInv, [Next]_vars, NEW r \in Run,
             fails'[r] > fails[r], state.run = r, ~Active(state')
      PROVE  fails'[r] >= MAX_CONSECUTIVE_FAILURES
  <2>0. fails \in [Run -> Nat] /\ fails[r] \in Nat /\ Active(state)
    BY <1>1 DEF IInv1, DataType, HistoryType, Active, Run
  <2>1. ASSUME fails'[r] = fails[r] PROVE FALSE
    BY <1>1, <2>0, <2>1
  <2>2. ASSUME NEW h \in Slot, NEW d, Return(h, d)
        PROVE  fails'[r] >= MAX_CONSECUTIVE_FAILURES
    <3>0. /\ state' = d /\ Running(h)
          /\ hnd[h].st.run \in Run /\ hnd[h].st.fails \in Nat
      BY <1>1, <2>2, ReturnFile DEF Return, IInv1, HandlerInv, LoopState
    <3>1. CASE hnd[h].st.run # r
      <4>1. fails'[r] = fails[r]
        BY <2>0, <2>2, <3>0, <3>1, CountFacts DEF Return, Left
      <4> QED BY <2>1, <4>1
    <3>2. CASE hnd[h].st.run = r
      <4>1. hnd[h].st.fails <= fails[r]
        BY <1>1, <3>0, <3>2 DEF FailInv, Current
      <4>2. CASE fails' = fails
        BY <2>1, <4>2
      <4>3. CASE fails' = [fails EXCEPT ![hnd[h].st.run] = 0]
        BY <1>1, <2>0, <3>2, <4>3
      <4>4. CASE CountFailure(h)
        <5>1. fails'[r] = fails[r] + 1
          BY <1>1, <2>0, <3>0, <3>2, <4>4 DEF CountFailure
        <5>2. d # state /\ ~Rewritten(h, d)
          BY <1>1, <2>0, <3>0 DEF Rewritten, Active, LoopState, Run
        <5>3. hnd[h].st.fails + 1 >= MAX_CONSECUTIVE_FAILURES \/ fails' = fails
          BY <2>2, <5>2 DEF Return, Left, Rewritten
        <5> QED BY <2>0, <2>1, <3>0, <4>1, <5>1, <5>3
      <4> QED BY <2>2, <4>2, <4>3, <4>4 DEF Return, Left
    <3> QED BY <3>1, <3>2
  <2>3. ASSUME NEW h \in Slot, NEW reaches \in BOOLEAN, Inject(h, reaches) PROVE FALSE
    BY <1>1, <2>1, <2>3, InjectFacts
  <2>4. ASSUME NEW s \in Session, LoopStartWrite(s) PROVE FALSE
    BY <2>1, <2>4 DEF LoopStartWrite
  <2> QED BY <1>1, <2>1, <2>2, <2>3, <2>4, FileSteps
<1>2. IInv1 /\ FailInv /\ [Next]_vars => [\A r \in Run : Kept1(r)]_vars
  BY <1>1
<1> QED BY InitInv1, StepInv1, InitCurrent, CurrentStep, FailStep, <1>2, PTL
        DEF Spec, FailureBudget
=============================================================================
