------------------------ MODULE GeckoSession_proofs -------------------------
(***************************************************************************)
(* For any scripts, views and number of sessions: the counter that         *)
(* GeckoInit and GeckoTerm poll is the number of UI threads that run, and  *)
(* a view never gets a second window, unless sessions overlap.  When one   *)
(* script alone starts and ends the sessions, a session it has started is  *)
(* served, and one it has ended leaves no loop behind.                     *)
(***************************************************************************)
EXTENDS GeckoSession, TLAPS, FiniteSetTheorems

(* The UI threads that have counted themselves.                            *)
CountedPCs == LoopPCs \union GcPCs \union {"ending"}
Counted == {u \in UIs : pc[u] \in CountedPCs}
CounterExact == threadInitialized = Cardinality(Counted)

ThreadKinds ==
  /\ \A u \in UIs : pc[u] \in UIPCs /\ (pc[u] = "making" => arg[u] \in Views)
  /\ \A s \in Scripts : pc[s] \in ScriptPCs

(* While no two sessions overlap one UI thread at most has set up the lock *)
(* and not yet deleted it, and a window without a mark is being made.      *)
OutsideLock == {"none", "unborn", "gre", "context", "dead"}

OneUiThread ==
  \A u, o \in UIs : pc[u] \notin OutsideLock /\ pc[o] \notin OutsideLock => u = o

WindowsMarked ==
  \A v \in Views :
    /\ view[v].windows <= 1
    /\ view[v].windows = 1 /\ ~view[v].initialized =>
         \E u \in UIs : pc[u] = "making" /\ arg[u] = v

WindowInv ==
  /\ TypeOK /\ CounterExact /\ ThreadKinds
  /\ ~overlap => OneUiThread /\ WindowsMarked
-----------------------------------------------------------------------------
(* The counter follows the UI threads, whatever a step does with them.     *)
LEMMA CountedFinite ==
  /\ IsFiniteSet(Counted) /\ Cardinality(Counted) \in Nat
  /\ Cardinality(Counted) \in 0..Cardinality(UIs)
<1>1. IsFiniteSet(UIs) /\ Counted \subseteq UIs
  BY GeckoSessionAssumption DEF Counted
<1>2. IsFiniteSet(Counted) /\ Cardinality(Counted) <= Cardinality(UIs)
  BY <1>1, FS_Subset
<1> QED
  BY <1>1, <1>2, FS_CardinalityType

LEMMA CountKept ==
  ASSUME CounterExact, threadInitialized' = threadInitialized,
         \A u \in UIs : pc'[u] \in CountedPCs <=> pc[u] \in CountedPCs
  PROVE  CounterExact'
<1>1. Counted' = Counted
  BY DEF Counted, CountedPCs, GcPCs, LoopPCs
<1> QED
  BY <1>1 DEF CounterExact

LEMMA CountRaised ==
  ASSUME CounterExact, threadInitialized' = threadInitialized + 1, NEW u \in UIs,
         pc[u] \notin CountedPCs, pc'[u] \in CountedPCs,
         \A o \in UIs : o # u => pc'[o] = pc[o]
  PROVE  CounterExact'
<1>1. Counted' = Counted \union {u} /\ u \notin Counted
  BY DEF Counted, CountedPCs, GcPCs, LoopPCs
<1>2. Cardinality(Counted \union {u}) = Cardinality(Counted) + 1
  BY <1>1, CountedFinite, FS_AddElement
<1> QED
  BY <1>1, <1>2 DEF CounterExact

LEMMA CountLowered ==
  ASSUME CounterExact, threadInitialized' = threadInitialized - 1, NEW u \in UIs,
         pc[u] \in CountedPCs, pc'[u] \notin CountedPCs,
         \A o \in UIs : o # u => pc'[o] = pc[o]
  PROVE  CounterExact'
<1>1. Counted' = Counted \ {u} /\ u \in Counted
  BY DEF Counted, CountedPCs, GcPCs, LoopPCs
<1>2. Cardinality(Counted \ {u}) = Cardinality(Counted) - 1
  BY <1>1, CountedFinite, FS_RemoveElement
<1> QED
  BY <1>1, <1>2 DEF CounterExact
-----------------------------------------------------------------------------
LEMMA InitWindows == Init => WindowInv
<1> SUFFICES ASSUME Init PROVE WindowInv
  OBVIOUS
<1> USE GeckoSessionAssumption
<1>1. /\ \A u \in UIs : pc[u] = "none"
      /\ \A s \in Scripts : pc[s] \in {"script", "out"}
  BY DEF Init
<1>2. CounterExact
  <2>1. Counted = {}
    BY <1>1 DEF Counted, CountedPCs, GcPCs, LoopPCs
  <2> QED
    BY <2>1, FS_EmptySet DEF CounterExact, Init
<1>3. threadInitialized \in 0..Cardinality(UIs)
  BY <1>2, CountedFinite DEF CounterExact
<1>4. TypeOK
  <2>1. pc \in [Threads -> UIPCs \union ScriptPCs]
    BY DEF Init, UIPCs, IdlePCs, ScriptPCs
  <2>2. /\ view \in [Views -> [initialized : BOOLEAN, destroying : BOOLEAN, windows : Nat]]
        /\ viewsHead \in Seq(Views)
    BY DEF Init
  <2>3. RequestsTypeOK
    BY DEF Init, RequestsInit, RequestsTypeOK
  <2> QED
    BY <1>3, <2>1, <2>2, <2>3 DEF TypeOK, Init
<1>5. ThreadKinds
  BY <1>1 DEF ThreadKinds, UIPCs, IdlePCs, ScriptPCs
<1>6. OneUiThread
  BY <1>1 DEF OneUiThread, OutsideLock
<1>7. WindowsMarked
  BY DEF Init, WindowsMarked
<1> QED
  BY <1>2, <1>4, <1>5, <1>6, <1>7 DEF WindowInv
-----------------------------------------------------------------------------
(* Steps in between: the collector, the lock of dispatching, and the calls *)
(* of scripts' functions.  They leave the session and the views alone.     *)
UiInner(u) ==
  \/ UiWakes(u) \/ UiEntersDom(u) \/ UiLeavesDom(u) \/ CollectGarbage(u) \/ Collects(u)
  \/ UiHandlesEvent(u) \/ UiBeginsRequest(u) \/ UiEndsRequest(u)

ScriptInner(s) ==
  \/ SeesView(s) \/ ViewIsShown(s) \/ ProxyAnswers(s) \/ Repaint(s)
  \/ CollectGarbage(s) \/ Collects(s) \/ GcReturns(s)

LEMMA UiSteps ==
  ASSUME NEW u \in UIs, UiStep(u)
  PROVE  \/ InitGRE(u) \/ UiReady(u) \/ UiChecksKeepGoing(u) \/ UiMakesWindow(u)
         \/ UiInitView(u) \/ UiDestroyWindow(u) \/ UiLeavesLock(u) \/ UiUncounts(u)
         \/ UiDeletesLock(u) \/ UiInner(u)
BY DEF UiStep, UiGoesOn, UiInner

LEMMA ScriptSteps ==
  ASSUME NEW s \in Scripts, ScriptStep(s)
  PROVE  \/ ScriptStarts(s) \/ ScriptEnds(s) \/ CallInitFails(s) \/ CallInit(s)
         \/ InitReturns(s) \/ CallTerm(s) \/ TermReturns(s) \/ CallCreateView(s)
         \/ PushView(s) \/ CreateViewReturns(s) \/ DestroyView(s) \/ ScriptInner(s)
BY DEF ScriptStep, ScriptGoesOn, ScriptInner

SameSession ==
  UNCHANGED <<arg, useCx, lock, owner, keepUIGoing, threadInitialized, session, overlap,
              viewsHead, view>>

(* Where a thread goes in the collector.                                   *)
GcMove(t) ==
  \/ pc[t] = "gc" /\ pc'[t] \in {"sweep", "swept"}
  \/ pc[t] = "sweep" /\ pc'[t] = "swept"
  \/ pc[t] = "swept" /\ pc'[t] = "gc"

LEMMA GotoMoves ==
  ASSUME TypeOK, NEW t \in Threads, NEW l, Goto(t, l)
  PROVE  pc'[t] = l /\ \A o \in Threads : o # t => pc'[o] = pc[o]
BY DEF Goto, TypeOK

LEMMA CollectorStep ==
  ASSUME TypeOK, NEW t \in Threads, Collects(t)
  PROVE  SameSession /\ GcMove(t) /\ \A o \in Threads : o # t => pc'[o] = pc[o]
<1>1. CASE Marks(t)
  BY <1>1, GotoMoves DEF Marks, SameSession, GcMove, lockVars, sessionVars, viewVars
<1>2. CASE Finalizes(t)
  BY <1>2, GotoMoves DEF Finalizes, SameSession, GcMove, lockVars, sessionVars, viewVars
<1>3. CASE Swept(t)
  BY <1>3, GotoMoves DEF Swept, SameSession, GcMove, lockVars, sessionVars, viewVars
<1> QED
  BY <1>1, <1>2, <1>3 DEF Collects

LEMMA UiInnerStep ==
  ASSUME TypeOK, NEW u \in UIs, UiInner(u)
  PROVE  /\ UNCHANGED <<arg, useCx, lock, owner, keepUIGoing, threadInitialized, session,
                        overlap, viewsHead, view>>
         /\ \A t \in Threads : t # u => pc'[t] = pc[t]
         /\ \/ pc'[u] = pc[u]
            \/ pc[u] = "pump" /\ pc'[u] = "wake"
            \/ pc[u] = "wake" /\ pc'[u] = "dispatch"
            \/ pc[u] = "dispatch" /\ pc'[u] = "top"
            \/ pc[u] = "ending" /\ pc'[u] = "gc"
            \/ GcMove(u)
<1> USE GeckoSessionAssumption DEF SameSession
<1>1. CASE UiWakes(u)
  BY <1>1, GotoMoves DEF UiWakes, domVars, lockVars, sessionVars, viewVars
<1>2. CASE UiEntersDom(u)
  BY <1>2, GotoMoves DEF UiEntersDom, lockVars, sessionVars, viewVars
<1>3. CASE UiLeavesDom(u)
  BY <1>3, GotoMoves DEF UiLeavesDom, domVars, lockVars, sessionVars, viewVars
<1>4. CASE CollectGarbage(u)
  BY <1>4, GotoMoves DEF CollectGarbage, lockVars, sessionVars, viewVars
<1>5. CASE Collects(u)
  BY <1>5, CollectorStep
<1>6. CASE UiHandlesEvent(u)
  BY <1>6 DEF UiHandlesEvent, lockVars, sessionVars, viewVars
<1>7. CASE UiBeginsRequest(u)
  BY <1>7 DEF UiBeginsRequest, lockVars, sessionVars, viewVars
<1>8. CASE UiEndsRequest(u)
  BY <1>8 DEF UiEndsRequest, lockVars, sessionVars, viewVars
<1> QED
  BY <1>1, <1>2, <1>3, <1>4, <1>5, <1>6, <1>7, <1>8 DEF UiInner

LEMMA ScriptInnerStep ==
  ASSUME TypeOK, NEW s \in Scripts, ScriptInner(s)
  PROVE  /\ UNCHANGED <<arg, useCx, lock, owner, keepUIGoing, threadInitialized, session,
                        overlap, viewsHead, view>>
         /\ \A t \in Threads : t # s => pc'[t] = pc[t]
         /\ \/ pc[s] = "poll" /\ view[arg[s]].initialized /\ pc'[s] = "show"
            \/ pc[s] = "show" /\ pc'[s] = "call"
            \/ pc[s] = "call" /\ pc'[s] = "answered"
            \/ pc[s] = "script" /\ pc'[s] = "repaint"
            \/ pc[s] \in {"script", "out"} /\ pc'[s] = "gc"
            \/ pc[s] = "gc" /\ pc'[s] \in {"script", "out"}
            \/ GcMove(s)
<1> USE GeckoSessionAssumption DEF SameSession
<1>1. CASE SeesView(s)
  BY <1>1, GotoMoves DEF SeesView, lockVars, sessionVars, viewVars
<1>2. CASE ViewIsShown(s)
  BY <1>2, GotoMoves DEF ViewIsShown, domVars, lockVars, sessionVars, viewVars
<1>3. CASE ProxyAnswers(s)
  BY <1>3, GotoMoves DEF ProxyAnswers, lockVars, sessionVars, viewVars
<1>4. CASE Repaint(s)
  BY <1>4, GotoMoves DEF Repaint, lockVars, sessionVars, viewVars
<1>5. CASE CollectGarbage(s)
  <2>1. pc[s] \in {"script", "out"}
    BY <1>5 DEF CollectGarbage
  <2> QED
    BY <1>5, <2>1, GotoMoves DEF CollectGarbage, lockVars, sessionVars, viewVars
<1>6. CASE Collects(s)
  BY <1>6, CollectorStep
<1>7. CASE GcReturns(s)
  BY <1>7, GotoMoves DEF GcReturns, lockVars, sessionVars, viewVars
<1> QED
  BY <1>1, <1>2, <1>3, <1>4, <1>5, <1>6, <1>7 DEF ScriptInner

(* The places stay places: a step has left pc a function.                  *)
LEMMA PlacesKept ==
  ASSUME TypeOK, NEW t \in Threads, UiInner(t) \/ ScriptInner(t),
         pc'[t] \in UIPCs \union ScriptPCs
  PROVE  pc' \in [Threads -> UIPCs \union ScriptPCs]
<1>1. pc' = pc \/ \E l : Goto(t, l)
  BY DEF UiInner, ScriptInner, UiWakes, UiEntersDom, UiLeavesDom, CollectGarbage, Collects,
         Marks, Finalizes, Swept, UiHandlesEvent, UiBeginsRequest, UiEndsRequest, SeesView,
         ViewIsShown, ProxyAnswers, Repaint, GcReturns
<1>2. CASE pc' = pc
  BY <1>2 DEF TypeOK
<1>3. CASE \E l : Goto(t, l)
  <2>1. PICK l : pc' = [pc EXCEPT ![t] = l]
    BY <1>3 DEF Goto
  <2>2. l = pc'[t]
    BY <2>1 DEF TypeOK
  <2> QED
    BY <2>1, <2>2 DEF TypeOK
<1> QED
  BY <1>1, <1>2, <1>3

(* A step moves one thread, and GeckoInit a UI thread besides.             *)
LEMMA ScriptMoves ==
  ASSUME TypeOK, ThreadKinds, NEW s \in Scripts, ScriptStep(s)
  PROVE  /\ \A t \in Threads : t # s /\ pc'[t] # pc[t] =>
              t \in UIs /\ pc[t] = "none" /\ pc'[t] \in {"gre", "unborn", "dead"}
         /\ pc'[s] \in ScriptPCs /\ pc' \in [Threads -> UIPCs \union ScriptPCs]
         /\ arg' \in [Threads -> Views \union UIs \union {NoThread}]
         /\ \A t \in UIs : arg'[t] = arg[t]
         /\ threadInitialized' = threadInitialized
<1> USE GeckoSessionAssumption DEF UIPCs, ScriptPCs, IdlePCs, LoopPCs
<1>1. CASE ScriptStarts(s) \/ ScriptEnds(s) \/ InitReturns(s) \/ CallTerm(s) \/ TermReturns(s)
           \/ CallCreateView(s) \/ CreateViewReturns(s)
  BY <1>1 DEF TypeOK, ThreadKinds, Goto, ScriptStarts, ScriptEnds, InitReturns, CallTerm,
              TermReturns, CallCreateView, CreateViewReturns, sessionVars
<1>2. CASE DestroyView(s)
  BY <1>2 DEF TypeOK, ThreadKinds, DestroyView, sessionVars
<1>3. CASE PushView(s)
  <2>1. \E v \in Views : arg' = [arg EXCEPT ![s] = v]
    BY <1>3 DEF PushView
  <2>2. pc' = [pc EXCEPT ![s] = "poll"] /\ threadInitialized' = threadInitialized
    BY <1>3 DEF PushView, Goto, sessionVars
  <2> QED
    BY <2>1, <2>2 DEF TypeOK, ThreadKinds
<1>4. CASE CallInit(s)
  <2>1. PICK u \in UIs, l \in {"gre", "unborn", "dead"} :
          /\ pc[u] = "none" /\ pc' = [pc EXCEPT ![s] = "initPoll", ![u] = l]
          /\ arg' = [arg EXCEPT ![s] = u]
    BY <1>4 DEF CallInit
  <2>2. threadInitialized' = threadInitialized
    BY <1>4 DEF CallInit
  <2> QED
    BY <2>1, <2>2 DEF TypeOK, ThreadKinds
<1>5. CASE ScriptInner(s)
  <2>1. pc'[s] \in ScriptPCs
    BY <1>5, ScriptInnerStep DEF ThreadKinds, GcMove, GcPCs, MadePCs
  <2>2. pc' \in [Threads -> UIPCs \union ScriptPCs]
    BY <1>5, <2>1, PlacesKept
  <2> QED
    BY <1>5, <2>1, <2>2, ScriptInnerStep DEF TypeOK
<1>6. CASE CallInitFails(s)
  BY <1>6 DEF CallInitFails, TypeOK, ThreadKinds
<1> QED
  BY <1>1, <1>2, <1>3, <1>4, <1>5, <1>6, ScriptSteps

LEMMA UiMoves ==
  ASSUME TypeOK, ThreadKinds, NEW u \in UIs, UiStep(u)
  PROVE  /\ \A t \in Threads : t # u => pc'[t] = pc[t] /\ arg'[t] = arg[t]
         /\ pc'[u] \in UIPCs /\ pc' \in [Threads -> UIPCs \union ScriptPCs]
         /\ arg' \in [Threads -> Views \union UIs \union {NoThread}]
         /\ pc'[u] = "making" => arg'[u] \in Views
<1> USE GeckoSessionAssumption DEF UIPCs, ScriptPCs, IdlePCs, LoopPCs
<1>1. CASE InitGRE(u) \/ UiReady(u) \/ UiInitView(u) \/ UiDestroyWindow(u) \/ UiLeavesLock(u)
  BY <1>1 DEF TypeOK, ThreadKinds, Goto, InitGRE, UiReady, UiInitView, UiDestroyWindow,
              UiLeavesLock
<1>2. CASE UiChecksKeepGoing(u)
  <2>1. PICK l \in {"scan", "ending"} : Goto(u, l)
    BY <1>2 DEF UiChecksKeepGoing
  <2>2. arg' = arg
    BY <1>2 DEF UiChecksKeepGoing
  <2> QED
    BY <2>1, <2>2 DEF TypeOK, ThreadKinds, Goto
<1>3. CASE UiUncounts(u) \/ UiDeletesLock(u)
  BY <1>3 DEF TypeOK, ThreadKinds, Goto, UiUncounts, UiDeletesLock
<1>4. CASE UiMakesWindow(u)
  <2>1. PICK v \in Listed : arg' = [arg EXCEPT ![u] = v]
    BY <1>4 DEF UiMakesWindow
  <2>2. v \in Views
    BY DEF Listed, TypeOK
  <2> QED
    BY <1>4, <2>1, <2>2 DEF TypeOK, ThreadKinds, Goto, UiMakesWindow
<1>5. CASE UiInner(u)
  <2>1. pc'[u] \in UIPCs /\ (pc'[u] = "making" => pc[u] = "making")
    BY <1>5, UiInnerStep DEF ThreadKinds, GcMove, GcPCs
  <2>2. pc' \in [Threads -> UIPCs \union ScriptPCs]
    BY <1>5, <2>1, PlacesKept
  <2> QED
    BY <1>5, <2>1, <2>2, UiInnerStep DEF TypeOK, ThreadKinds
<1> QED
  BY <1>1, <1>2, <1>3, <1>4, <1>5, UiSteps

LEMMA KindsStep ==
  ASSUME TypeOK, ThreadKinds, [Next]_vars
  PROVE  /\ ThreadKinds' /\ pc' \in [Threads -> UIPCs \union ScriptPCs]
         /\ arg' \in [Threads -> Views \union UIs \union {NoThread}]
<1> USE GeckoSessionAssumption
<1>1. ASSUME NEW s \in Scripts, ScriptStep(s)
      PROVE  ThreadKinds'
  <2>1. \A t \in UIs : pc'[t] \in UIPCs /\ (pc'[t] = "making" => arg'[t] \in Views)
    BY <1>1, ScriptMoves DEF ThreadKinds, UIPCs, IdlePCs
  <2>2. \A t \in Scripts : pc'[t] \in ScriptPCs
    BY <1>1, ScriptMoves DEF ThreadKinds
  <2> QED
    BY <2>1, <2>2 DEF ThreadKinds, UIPCs, ScriptPCs, IdlePCs, LoopPCs
<1>2. ASSUME NEW u \in UIs, UiStep(u)
      PROVE  ThreadKinds'
  <2>1. \A t \in UIs : pc'[t] \in UIPCs /\ (pc'[t] = "making" => arg'[t] \in Views)
    BY <1>2, UiMoves DEF ThreadKinds
  <2>2. \A t \in Scripts : pc'[t] \in ScriptPCs
    BY <1>2, UiMoves DEF ThreadKinds
  <2> QED
    BY <2>1, <2>2 DEF ThreadKinds, UIPCs, ScriptPCs, IdlePCs, LoopPCs
<1>3. CASE UNCHANGED vars
  BY <1>3 DEF TypeOK, ThreadKinds, vars, UIPCs, ScriptPCs, IdlePCs, LoopPCs
<1> QED
  BY <1>1, <1>2, <1>3, ScriptMoves, UiMoves DEF Next

LEMMA CounterStep ==
  ASSUME TypeOK, CounterExact, ThreadKinds, [Next]_vars
  PROVE  CounterExact'
<1> USE GeckoSessionAssumption
<1>1. ASSUME NEW s \in Scripts, ScriptStep(s)
      PROVE  CounterExact'
  <2>1. \A u \in UIs : pc'[u] \in CountedPCs <=> pc[u] \in CountedPCs
    BY <1>1, ScriptMoves DEF CountedPCs, GcPCs, LoopPCs
  <2> QED
    BY <1>1, <2>1, ScriptMoves, CountKept
<1>2. ASSUME NEW u \in UIs, UiStep(u)
      PROVE  CounterExact'
  <2>1. \A o \in UIs : o # u => pc'[o] = pc[o]
    BY <1>2, UiMoves
  <2>2. CASE UiReady(u)
    <3>1. /\ pc[u] = "context" /\ pc'[u] = "top"
          /\ threadInitialized' = threadInitialized + 1
      BY <2>2 DEF UiReady, Goto, TypeOK
    <3> QED
      BY <2>1, <3>1, CountRaised DEF CountedPCs, GcPCs, LoopPCs
  <2>3. CASE UiUncounts(u)
    <3>1. /\ pc[u] = "gc" /\ pc'[u] = "deleting"
          /\ threadInitialized' = threadInitialized - 1
      BY <2>3 DEF UiUncounts, Goto, TypeOK
    <3> QED
      BY <2>1, <3>1, CountLowered DEF CountedPCs, GcPCs, LoopPCs
  <2>4. CASE ~UiReady(u) /\ ~UiUncounts(u)
    <3>1. threadInitialized' = threadInitialized
      BY <1>2, <2>4, UiSteps, UiInnerStep
      DEF InitGRE, UiChecksKeepGoing, UiMakesWindow, UiInitView, UiDestroyWindow, UiLeavesLock,
          UiDeletesLock, sessionVars
    <3>2. pc'[u] \in CountedPCs <=> pc[u] \in CountedPCs
      <4>1. CASE UiInner(u)
        BY <4>1, UiInnerStep DEF CountedPCs, GcPCs, LoopPCs, GcMove
      <4>2. CASE ~UiInner(u)
        BY <1>2, <2>4, <4>2, UiSteps
        DEF InitGRE, UiChecksKeepGoing, UiMakesWindow, UiInitView, UiDestroyWindow, UiLeavesLock,
            UiDeletesLock, CountedPCs, GcPCs, LoopPCs, Goto, TypeOK
      <4> QED
        BY <4>1, <4>2
    <3> QED
      BY <2>1, <3>1, <3>2, CountKept
  <2> QED
    BY <2>2, <2>3, <2>4
<1>3. CASE UNCHANGED vars
  BY <1>3, CountKept DEF vars, sessionVars
<1> QED
  BY <1>1, <1>2, <1>3 DEF Next
-----------------------------------------------------------------------------
(* The types of what is not a place, an argument or the counter.           *)
LEMMA RequestSteps ==
  ASSUME RequestsTypeOK, NEW t \in Threads,
         \/ UNCHANGED requestVars \/ BeginRequest(t) \/ EndRequest(t)
         \/ MarkGC(t) \/ DoneGC(t)
         \/ CallGC(t) /\ UNCHANGED depth
  PROVE  RequestsTypeOK'
<1> USE DEF RequestsTypeOK
<1>1. CASE UNCHANGED requestVars
  BY <1>1 DEF requestVars
<1>2. CASE BeginRequest(t)
  BY <1>2 DEF BeginRequest
<1>3. CASE EndRequest(t)
  BY <1>3 DEF EndRequest
<1>4. CASE CallGC(t) /\ UNCHANGED depth
  BY <1>4 DEF CallGC
<1>5. CASE MarkGC(t)
  BY <1>5 DEF MarkGC
<1>6. CASE DoneGC(t)
  BY <1>6 DEF DoneGC
<1> QED
  BY <1>1, <1>2, <1>3, <1>4, <1>5, <1>6

LEMMA RequestsKept ==
  ASSUME TypeOK, [Next]_vars
  PROVE  RequestsTypeOK'
<1> USE GeckoSessionAssumption DEF TypeOK
<1>a. ASSUME NEW t \in Threads, Collects(t)
      PROVE  MarkGC(t) \/ DoneGC(t) \/ UNCHANGED requestVars
  BY <1>a DEF Collects, Marks, Finalizes, Swept
<1>1. ASSUME NEW s \in Scripts, ScriptStep(s)
      PROVE  RequestsTypeOK'
  <2>1. CASE ScriptInner(s)
    <3>1. \/ UNCHANGED requestVars \/ MarkGC(s) \/ DoneGC(s)
          \/ CallGC(s) /\ UNCHANGED depth
      BY <1>a, <2>1 DEF ScriptInner, SeesView, ViewIsShown, ProxyAnswers, Repaint,
         CollectGarbage, GcReturns, requestVars
    <3> QED
      BY <3>1, RequestSteps
  <2>2. CASE ~ScriptInner(s)
    <3>1. BeginRequest(s) \/ EndRequest(s) \/ UNCHANGED requestVars
      BY <1>1, <2>2, ScriptSteps
      DEF CallInitFails, ScriptStarts, ScriptEnds, CallInit, InitReturns, CallTerm,
          TermReturns, CallCreateView, PushView, CreateViewReturns, DestroyView
    <3> QED
      BY <3>1, RequestSteps
  <2> QED
    BY <2>1, <2>2
<1>2. ASSUME NEW u \in UIs, UiStep(u)
      PROVE  RequestsTypeOK'
  <2>1. CASE UiInner(u)
    <3>1. \/ UNCHANGED requestVars \/ BeginRequest(u) \/ EndRequest(u)
          \/ MarkGC(u) \/ DoneGC(u)
          \/ CallGC(u) /\ UNCHANGED depth
      BY <1>a, <2>1 DEF UiInner, UiWakes, UiEntersDom, UiLeavesDom, UiHandlesEvent,
         UiBeginsRequest, UiEndsRequest, CollectGarbage, requestVars
    <3> QED
      BY <3>1, RequestSteps
  <2>2. CASE ~UiInner(u)
    <3>1. UNCHANGED requestVars
      BY <1>2, <2>2, UiSteps
      DEF InitGRE, UiReady, UiChecksKeepGoing, UiMakesWindow, UiInitView,
          UiDestroyWindow, UiLeavesLock, UiUncounts, UiDeletesLock
    <3> QED
      BY <3>1, RequestSteps
  <2> QED
    BY <2>1, <2>2
<1>3. CASE UNCHANGED vars
  BY <1>3 DEF vars, requestVars, RequestsTypeOK
<1> QED
  BY <1>1, <1>2, <1>3 DEF Next

LEMMA DispatchKept ==
  ASSUME TypeOK, [Next]_vars
  PROVE  dom' \in Threads \union {NoThread} /\ handling' \in SUBSET UIs
<1> USE GeckoSessionAssumption DEF TypeOK
<1>a. ASSUME NEW t \in Threads, Collects(t)
      PROVE  UNCHANGED domVars
  BY <1>a DEF Collects, Marks, Finalizes, Swept
<1>1. ASSUME NEW s \in Scripts, ScriptStep(s)
      PROVE  UNCHANGED domVars \/ (dom' = s /\ handling' = handling)
  <2>1. CASE ScriptInner(s)
    BY <1>a, <2>1 DEF ScriptInner, SeesView, ViewIsShown, ProxyAnswers, Repaint,
       CollectGarbage, GcReturns, domVars
  <2>2. CASE ~ScriptInner(s)
    BY <1>1, <2>2, ScriptSteps
    DEF CallInitFails, ScriptStarts, ScriptEnds, CallInit, InitReturns, CallTerm,
        TermReturns, CallCreateView, PushView, CreateViewReturns, DestroyView, domVars
  <2> QED
    BY <2>1, <2>2
<1>2. ASSUME NEW u \in UIs, UiStep(u)
      PROVE  /\ dom' \in {dom, u, NoThread}
             /\ handling' \in {handling, handling \union {u}, handling \ {u}}
  <2>1. CASE UiInner(u)
    BY <1>a, <2>1 DEF UiInner, UiWakes, UiEntersDom, UiLeavesDom, UiHandlesEvent,
       UiBeginsRequest, UiEndsRequest, CollectGarbage, domVars
  <2>2. CASE ~UiInner(u)
    BY <1>2, <2>2, UiSteps
    DEF InitGRE, UiReady, UiChecksKeepGoing, UiMakesWindow, UiInitView,
        UiDestroyWindow, UiLeavesLock, UiUncounts, UiDeletesLock, domVars
  <2> QED
    BY <2>1, <2>2
<1>3. CASE UNCHANGED vars
  BY <1>3 DEF vars, domVars
<1> QED
  BY <1>1, <1>2, <1>3 DEF Next, domVars

LEMMA ContextKept ==
  ASSUME TypeOK, [Next]_vars
  PROVE  useCx' \in Threads \union {NoThread}
<1> USE GeckoSessionAssumption DEF TypeOK
<1>1. ASSUME NEW s \in Scripts, ScriptStep(s)
      PROVE  useCx' \in {useCx, s}
  BY <1>1, ScriptSteps, ScriptInnerStep
  DEF CallInitFails, ScriptStarts, ScriptEnds, CallInit, InitReturns, CallTerm, TermReturns,
      CallCreateView, PushView, CreateViewReturns, DestroyView
<1>2. ASSUME NEW u \in UIs, UiStep(u)
      PROVE  useCx' = useCx
  BY <1>2, UiSteps, UiInnerStep
  DEF InitGRE, UiReady, UiChecksKeepGoing, UiMakesWindow, UiInitView, UiDestroyWindow,
      UiLeavesLock, UiUncounts, UiDeletesLock
<1>3. CASE UNCHANGED vars
  BY <1>3 DEF vars
<1> QED
  BY <1>1, <1>2, <1>3 DEF Next

LEMMA ViewsKept ==
  ASSUME TypeOK, ThreadKinds, [Next]_vars
  PROVE  /\ viewsHead' \in Seq(Views)
         /\ view' \in [Views -> [initialized : BOOLEAN, destroying : BOOLEAN, windows : Nat]]
<1>a. ASSUME NEW v \in Views, NEW b \in BOOLEAN, Set(v, "destroying", b)
      PROVE  view' \in [Views -> [initialized : BOOLEAN, destroying : BOOLEAN, windows : Nat]]
  BY <1>a DEF Set, TypeOK
<1>1. ASSUME NEW s \in Scripts, PushView(s)
      PROVE  /\ viewsHead' \in Seq(Views)
             /\ view' \in [Views -> [initialized : BOOLEAN, destroying : BOOLEAN, windows : Nat]]
  <2>1. PICK v \in Views : /\ viewsHead' = <<v>> \o viewsHead
                           /\ \E b \in BOOLEAN : Set(v, "destroying", b)
    <3> DEFINE w == CHOOSE w \in Views : w \notin Listed
    <3>1. w \in Views
      BY <1>1 DEF PushView
    <3>2. viewsHead' = <<w>> \o viewsHead /\ \E b \in BOOLEAN : Set(w, "destroying", b)
      BY <1>1 DEF PushView
    <3> QED
      BY <3>1, <3>2
  <2>2. viewsHead' \in Seq(Views)
    BY <2>1 DEF TypeOK
  <2> QED
    BY <1>a, <2>1, <2>2
<1>2. ASSUME NEW s \in Scripts, DestroyView(s)
      PROVE  /\ viewsHead' = viewsHead
             /\ view' \in [Views -> [initialized : BOOLEAN, destroying : BOOLEAN, windows : Nat]]
  BY <1>a, <1>2 DEF DestroyView
<1>3. ASSUME NEW u \in UIs, UiMakesWindow(u)
      PROVE  /\ viewsHead' = viewsHead
             /\ view' \in [Views -> [initialized : BOOLEAN, destroying : BOOLEAN, windows : Nat]]
  <2>1. PICK v \in Listed : Set(v, "windows", view[v].windows + 1)
    BY <1>3 DEF UiMakesWindow
  <2>2. v \in Views
    BY DEF Listed, TypeOK
  <2>3. view[v].windows + 1 \in Nat
    BY <2>2 DEF TypeOK
  <2>4. view' = [view EXCEPT ![v].windows = view[v].windows + 1]
    BY <2>1 DEF Set
  <2>5. view \in [Views -> [initialized : BOOLEAN, destroying : BOOLEAN, windows : Nat]]
    BY DEF TypeOK
  <2> QED
    BY <1>3, <2>2, <2>3, <2>4, <2>5 DEF UiMakesWindow
<1>4. ASSUME NEW u \in UIs, UiInitView(u)
      PROVE  /\ viewsHead' = viewsHead
             /\ view' \in [Views -> [initialized : BOOLEAN, destroying : BOOLEAN, windows : Nat]]
  <2>1. arg[u] \in Views
    BY <1>4 DEF UiInitView, ThreadKinds
  <2> QED
    BY <1>4, <2>1 DEF UiInitView, Set, TypeOK
<1>5. ASSUME NEW u \in UIs, UiDestroyWindow(u)
      PROVE  /\ viewsHead' = viewsHead
             /\ view' \in [Views -> [initialized : BOOLEAN, destroying : BOOLEAN, windows : Nat]]
  <2>1. PICK v \in Listed : Set(v, "destroying", FALSE)
    BY <1>5 DEF UiDestroyWindow
  <2>2. v \in Views
    BY DEF Listed, TypeOK
  <2> QED
    BY <1>a, <1>5, <2>1, <2>2 DEF UiDestroyWindow
<1>6. ASSUME NEW s \in Scripts, ScriptStep(s), ~PushView(s), ~DestroyView(s)
      PROVE  UNCHANGED <<viewsHead, view>>
  BY <1>6, ScriptSteps, ScriptInnerStep
  DEF CallInitFails, ScriptStarts, ScriptEnds, CallInit, InitReturns, CallTerm, TermReturns,
      CallCreateView, CreateViewReturns, viewVars
<1>7. ASSUME NEW u \in UIs, UiStep(u), ~UiMakesWindow(u), ~UiInitView(u), ~UiDestroyWindow(u)
      PROVE  UNCHANGED <<viewsHead, view>>
  BY <1>7, UiSteps, UiInnerStep
  DEF InitGRE, UiReady, UiChecksKeepGoing, UiLeavesLock, UiUncounts, UiDeletesLock, viewVars
<1>8. CASE UNCHANGED vars
  BY <1>8 DEF vars, viewVars, TypeOK
<1>9. /\ viewsHead \in Seq(Views)
      /\ view \in [Views -> [initialized : BOOLEAN, destroying : BOOLEAN, windows : Nat]]
  BY DEF TypeOK
<1> QED
  BY <1>1, <1>2, <1>3, <1>4, <1>5, <1>6, <1>7, <1>8, <1>9 DEF Next

LEMMA SessionKept ==
  ASSUME TypeOK, [Next]_vars
  PROVE  /\ keepUIGoing' \in BOOLEAN /\ overlap' \in BOOLEAN
         /\ lock' \in {"raw", "up", "deleted"}
         /\ owner' \in Threads \union {NoThread}
         /\ session' \in {"off", "on", "doubled"}
<1> USE GeckoSessionAssumption
<1>1. ASSUME NEW s \in Scripts, ScriptStep(s)
      PROVE  /\ keepUIGoing' \in BOOLEAN /\ UNCHANGED <<overlap, lock, owner>>
             /\ session' \in {"off", "on", "doubled"}
  BY <1>1, ScriptSteps, ScriptInnerStep
  DEF TypeOK, CallInitFails, ScriptStarts, ScriptEnds, CallInit, InitReturns, CallTerm,
      TermReturns, CallCreateView, PushView, CreateViewReturns, DestroyView, lockVars,
      sessionVars
<1>2. ASSUME NEW u \in UIs, UiStep(u)
      PROVE  /\ UNCHANGED <<keepUIGoing, session>> /\ overlap' \in BOOLEAN
             /\ lock' \in {"raw", "up", "deleted"}
             /\ owner' \in Threads \union {NoThread}
  <2>1. UNCHANGED <<keepUIGoing, session>> /\ overlap' \in BOOLEAN
    BY <1>2, UiSteps, UiInnerStep
    DEF TypeOK, InitGRE, UiReady, UiChecksKeepGoing, UiMakesWindow, UiInitView,
        UiDestroyWindow, UiLeavesLock, UiUncounts, UiDeletesLock, sessionVars
  <2>2. lock' \in {"raw", "up", "deleted"} /\ owner' \in Threads \union {NoThread}
    BY <1>2, UiSteps, UiInnerStep
    DEF TypeOK, InitGRE, UiReady, UiChecksKeepGoing, UiMakesWindow, UiInitView,
        UiDestroyWindow, UiLeavesLock, UiUncounts, UiDeletesLock, lockVars
  <2> QED
    BY <2>1, <2>2
<1>3. CASE UNCHANGED vars
  BY <1>3 DEF TypeOK, vars, sessionVars, lockVars
<1> QED
  BY <1>1, <1>2, <1>3 DEF Next, TypeOK

LEMMA TypeOKStep ==
  ASSUME TypeOK, CounterExact, ThreadKinds, [Next]_vars
  PROVE  TypeOK' /\ CounterExact' /\ ThreadKinds'
<1>1. CounterExact' /\ ThreadKinds'
  BY CounterStep, KindsStep
<1>2. threadInitialized' \in 0..Cardinality(UIs)
  <2>1. IsFiniteSet(UIs) /\ Counted' \subseteq UIs
    BY GeckoSessionAssumption DEF Counted
  <2>2. /\ Cardinality(Counted') \in Nat /\ Cardinality(UIs) \in Nat
        /\ Cardinality(Counted') <= Cardinality(UIs)
    BY <2>1, FS_Subset, FS_CardinalityType
  <2> QED
    BY <1>1, <2>2 DEF CounterExact
<1> QED
  BY <1>1, <1>2, KindsStep, RequestsKept, DispatchKept, ContextKept, ViewsKept, SessionKept
  DEF TypeOK
-----------------------------------------------------------------------------
(* A second UI thread comes to the lock with overlap, or not at all.       *)
LEMMA OneThreadStep ==
  ASSUME WindowInv, [Next]_vars, ~overlap'
  PROVE  ~overlap /\ OneUiThread'
<1> USE GeckoSessionAssumption
<1>1. TypeOK /\ ThreadKinds
  BY DEF WindowInv
<1>2. ~overlap
  <2>1. CASE \E s \in Scripts : ScriptStep(s)
    BY <1>1, <2>1, ScriptSteps, ScriptInnerStep
    DEF CallInitFails, ScriptStarts, ScriptEnds, CallInit, InitReturns, CallTerm, TermReturns,
        CallCreateView, PushView, CreateViewReturns, DestroyView, sessionVars
  <2>2. CASE \E u \in UIs : UiReady(u)
    BY <2>2 DEF UiReady
  <2>3. CASE \E u \in UIs : UiStep(u) /\ ~UiReady(u)
    BY <1>1, <2>3, UiSteps, UiInnerStep
    DEF InitGRE, UiChecksKeepGoing, UiMakesWindow, UiInitView, UiDestroyWindow, UiLeavesLock,
        UiUncounts, UiDeletesLock, sessionVars
  <2>4. CASE UNCHANGED vars
    BY <2>4 DEF vars, sessionVars
  <2> QED
    BY <2>1, <2>2, <2>3, <2>4 DEF Next
<1>3. OneUiThread
  BY <1>2 DEF WindowInv
<1>4. ASSUME NEW s \in Scripts, ScriptStep(s)
      PROVE  OneUiThread'
  <2>1. \A u \in UIs : pc'[u] \notin OutsideLock => pc[u] \notin OutsideLock
    BY <1>1, <1>4, ScriptMoves DEF OutsideLock
  <2> QED
    BY <1>3, <2>1 DEF OneUiThread, OutsideLock
<1>5. ASSUME NEW u \in UIs, UiStep(u)
      PROVE  OneUiThread'
  <2>1. \A o \in UIs : o # u => pc'[o] = pc[o]
    BY <1>1, <1>5, UiMoves
  <2>2. CASE UiReady(u)
    <3>1. \A o \in UIs : o # u => pc[o] \in OutsideLock
      BY <2>2 DEF UiReady, OutsideLock
    <3> QED
      BY <2>1, <3>1 DEF OneUiThread, OutsideLock
  <2>3. CASE ~UiReady(u)
    <3>1. pc'[u] \notin OutsideLock => pc[u] \notin OutsideLock
      BY <1>1, <1>5, <2>3, UiSteps, UiInnerStep
      DEF OutsideLock, GcMove, InitGRE, UiChecksKeepGoing, UiMakesWindow, UiInitView,
          UiDestroyWindow, UiLeavesLock, UiUncounts, UiDeletesLock, Goto, TypeOK
    <3>2. \A o \in UIs : pc'[o] \notin OutsideLock => pc[o] \notin OutsideLock
      BY <2>1, <3>1
    <3> QED
      BY <1>3, <3>2 DEF OneUiThread, OutsideLock
  <2> QED
    BY <2>2, <2>3
<1>6. CASE UNCHANGED vars
  BY <1>2, <1>3, <1>6 DEF OneUiThread, OutsideLock, vars
<1>7. OneUiThread'
  BY <1>4, <1>5, <1>6 DEF Next
<1> QED
  BY <1>2, <1>7

LEMMA WindowsStep ==
  ASSUME WindowInv, [Next]_vars, ~overlap'
  PROVE  WindowsMarked'
<1> USE GeckoSessionAssumption
<1>1. TypeOK /\ ThreadKinds /\ OneUiThread /\ WindowsMarked
  BY OneThreadStep DEF WindowInv
<1>t. view \in [Views -> [initialized : BOOLEAN, destroying : BOOLEAN, windows : Nat]]
  BY <1>1 DEF TypeOK
<1>a. ASSUME \A v \in Views : /\ view'[v].windows = view[v].windows
                              /\ view'[v].initialized = view[v].initialized,
             \A u \in UIs : pc[u] = "making" => pc'[u] = "making" /\ arg'[u] = arg[u]
      PROVE  WindowsMarked'
  BY <1>1, <1>a DEF WindowsMarked
<1>b. ASSUME NEW v \in Views, NEW b \in BOOLEAN, Set(v, "destroying", b)
      PROVE  \A w \in Views : /\ view'[w].windows = view[w].windows
                              /\ view'[w].initialized = view[w].initialized
  <2>1. view' = [view EXCEPT ![v].destroying = b]
    BY <1>b DEF Set
  <2> QED
    BY <1>t, <2>1
<1>2. ASSUME NEW s \in Scripts, ScriptStep(s)
      PROVE  WindowsMarked'
  <2>1. \A u \in UIs : pc[u] = "making" => pc'[u] = "making" /\ arg'[u] = arg[u]
    BY <1>1, <1>2, ScriptMoves
  <2>2. CASE PushView(s)
    <3> DEFINE w == CHOOSE w \in Views : w \notin Listed
    <3>1. w \in Views
      BY <2>2 DEF PushView
    <3>2. \E b \in BOOLEAN : Set(w, "destroying", b)
      BY <2>2 DEF PushView
    <3> QED
      BY <1>a, <1>b, <2>1, <3>1, <3>2
  <2>3. CASE DestroyView(s)
    BY <1>a, <1>b, <2>1, <2>3 DEF DestroyView
  <2>4. CASE ~PushView(s) /\ ~DestroyView(s)
    <3>1. view' = view
      BY <1>1, <1>2, <2>4, ScriptSteps, ScriptInnerStep
      DEF CallInitFails, ScriptStarts, ScriptEnds, CallInit, InitReturns, CallTerm,
          TermReturns, CallCreateView, CreateViewReturns, viewVars
    <3> QED
      BY <1>a, <2>1, <3>1
  <2> QED
    BY <2>2, <2>3, <2>4
<1>3. ASSUME NEW u \in UIs, UiStep(u)
      PROVE  WindowsMarked'
  <2>1. \A o \in UIs : o # u => pc'[o] = pc[o] /\ arg'[o] = arg[o]
    BY <1>1, <1>3, UiMoves
  <2>2. CASE UiMakesWindow(u)
    <3>1. PICK v \in Listed : /\ ~view[v].initialized /\ arg' = [arg EXCEPT ![u] = v]
                              /\ Set(v, "windows", view[v].windows + 1)
      BY <2>2 DEF UiMakesWindow
    <3>2. v \in Views /\ pc[u] = "scan" /\ pc'[u] = "making" /\ arg'[u] = v
      BY <1>1, <2>2, <3>1 DEF Listed, TypeOK, UiMakesWindow, Goto
    <3>3. view' = [view EXCEPT ![v].windows = view[v].windows + 1]
      BY <3>1 DEF Set
    <3>4. /\ view'[v].windows = view[v].windows + 1
          /\ \A w \in Views : w # v => view'[w] = view[w]
      BY <1>t, <3>2, <3>3
    <3>5. \A o \in UIs : pc[o] # "making"
      BY <1>1, <3>2 DEF OneUiThread, OutsideLock
    <3>6. \A w \in Views : view[w].windows = 1 => view[w].initialized
      BY <1>1, <3>5 DEF WindowsMarked
    <3>7. view[v].windows = 0
      BY <1>1, <1>t, <3>1, <3>2, <3>6 DEF WindowsMarked
    <3> QED
      BY <1>1, <3>2, <3>4, <3>6, <3>7 DEF WindowsMarked
  <2>3. CASE UiInitView(u)
    <3>1. pc[u] = "making" /\ arg[u] \in Views /\ Set(arg[u], "initialized", TRUE)
      BY <1>1, <2>3 DEF UiInitView, ThreadKinds
    <3>2. view' = [view EXCEPT ![arg[u]].initialized = TRUE]
      BY <3>1 DEF Set
    <3>3. /\ \A w \in Views : view'[w].windows = view[w].windows
          /\ view'[arg[u]].initialized = TRUE
          /\ \A w \in Views : w # arg[u] => view'[w].initialized = view[w].initialized
      BY <1>t, <3>1, <3>2
    <3>4. \A o \in UIs : pc[o] = "making" => o = u
      BY <1>1, <3>1 DEF OneUiThread, OutsideLock
    <3>5. ASSUME NEW v \in Views
          PROVE  /\ view'[v].windows <= 1
                 /\ view'[v].windows = 1 => view'[v].initialized
      BY <1>1, <3>3, <3>4 DEF WindowsMarked
    <3> QED
      BY <3>5 DEF WindowsMarked
  <2>4. CASE ~UiMakesWindow(u) /\ ~UiInitView(u)
    <3>1. pc[u] = "making" => pc'[u] = "making" /\ arg'[u] = arg[u]
      BY <1>1, <1>3, <2>4, UiSteps, UiInnerStep
      DEF GcMove, InitGRE, UiReady, UiChecksKeepGoing, UiDestroyWindow, UiLeavesLock,
          UiUncounts, UiDeletesLock
    <3>2. CASE UiDestroyWindow(u)
      <4>1. PICK v \in Listed : Set(v, "destroying", FALSE)
        BY <3>2 DEF UiDestroyWindow
      <4>2. v \in Views
        BY <1>1 DEF Listed, TypeOK
      <4> QED
        BY <1>a, <1>b, <2>1, <3>1, <4>1, <4>2
    <3>3. CASE ~UiDestroyWindow(u)
      <4>1. view' = view
        BY <1>1, <1>3, <2>4, <3>3, UiSteps, UiInnerStep
        DEF InitGRE, UiReady, UiChecksKeepGoing, UiLeavesLock, UiUncounts, UiDeletesLock,
            viewVars
      <4> QED
        BY <1>a, <2>1, <3>1, <4>1
    <3> QED
      BY <3>2, <3>3
  <2> QED
    BY <2>2, <2>3, <2>4
<1>4. CASE UNCHANGED vars
  BY <1>a, <1>4 DEF vars, viewVars
<1> QED
  BY <1>2, <1>3, <1>4 DEF Next

LEMMA WindowAlways == Spec => []WindowInv
<1>1. WindowInv /\ [Next]_vars => WindowInv'
  BY TypeOKStep, OneThreadStep, WindowsStep DEF WindowInv
<1> QED
  BY <1>1, InitWindows, PTL DEF Spec
-----------------------------------------------------------------------------
(* Every variable of the session keeps its type; the counter stays between *)
(* zero and the number of UI threads.                                      *)
THEOREM TypeCorrect == Spec => []TypeOK
<1>1. WindowInv => TypeOK
  BY DEF WindowInv
<1> QED
  BY <1>1, WindowAlways, PTL

(* A view never gets a second window in whatever sequence of sessions,     *)
(* unless two of them overlap: the list is scanned again and again, and a  *)
(* session finds the views of the one before (uiwndthread.cpp:326-363).    *)
THEOREM OneWindowPerViewAlways == Spec => []OneWindowPerView
<1>1. WindowInv => OneWindowPerView
  BY DEF WindowInv, WindowsMarked, OneWindowPerView
<1> QED
  BY <1>1, WindowAlways, PTL
-----------------------------------------------------------------------------
(* One script alone starts and ends sessions.                              *)
OneDriver == \A d, e \in Drivers : d = e

Waiting == {"initPoll", "termPoll"}
AllIdle == \A u \in UIs : pc[u] \in IdlePCs
OthersIdle(u) == \A o \in UIs : o # u => pc[o] \in IdlePCs

(* What the driver may rely on outside GeckoInit and GeckoTerm, inside     *)
(* GeckoInit, and inside GeckoTerm.                                        *)
Served ==
  session = "on" =>
    /\ keepUIGoing = TRUE /\ \A d \in Drivers : pc[d] \notin Waiting
    /\ \E u \in UIs : pc[u] \in LoopPCs /\ OthersIdle(u)

Starting ==
  \A d \in Drivers : pc[d] = "initPoll" =>
    /\ keepUIGoing = TRUE /\ session # "on" /\ arg[d] \in UIs
    /\ session = "off" =>
         pc[arg[d]] \in {"gre", "context", "unborn", "dead"} \union LoopPCs /\ OthersIdle(arg[d])

Ending ==
  \A d \in Drivers : session = "off" /\ pc[d] = "termPoll" =>
    \A u \in UIs : pc[u] \notin {"gre", "context"}

Resting ==
  session = "off" /\ (\A d \in Drivers : pc[d] \notin Waiting) => AllIdle

LoopHasLock == \A u \in UIs : pc[u] \in LoopPCs => lock = "up" \/ overlap

SessionInv ==
  /\ Served /\ Starting /\ Ending /\ Resting /\ LoopHasLock
  /\ \A s \in Scripts : pc[s] \in Waiting => s \in Drivers
-----------------------------------------------------------------------------
LEMMA InitSession == Init => SessionInv
<1> SUFFICES ASSUME Init PROVE SessionInv
  OBVIOUS
<1>1. /\ \A u \in UIs : pc[u] = "none"
      /\ \A s \in Scripts : pc[s] \in {"script", "out"}
      /\ session = "off"
  BY GeckoSessionAssumption DEF Init
<1> QED
  BY <1>1, GeckoSessionAssumption
     DEF SessionInv, Served, Starting, Ending, Resting, LoopHasLock, AllIdle, IdlePCs, LoopPCs,
         Waiting

(* A UI thread alone takes the session no further than it is.              *)
LEMMA UiSession ==
  ASSUME WindowInv, SessionInv, NEW u \in UIs, UiStep(u)
  PROVE  SessionInv'
<1> USE GeckoSessionAssumption
<1>1. TypeOK /\ ThreadKinds
  BY DEF WindowInv
<1>2. /\ \A t \in Threads : t # u => pc'[t] = pc[t] /\ arg'[t] = arg[t]
      /\ \A s \in Scripts : pc'[s] = pc[s] /\ arg'[s] = arg[s]
      /\ UNCHANGED <<session, keepUIGoing>>
  <2>1. UNCHANGED <<session, keepUIGoing>>
    BY <1>1, UiSteps, UiInnerStep
    DEF InitGRE, UiReady, UiChecksKeepGoing, UiMakesWindow, UiInitView, UiDestroyWindow,
        UiLeavesLock, UiUncounts, UiDeletesLock, sessionVars
  <2> QED
    BY <1>1, <2>1, UiMoves
<1>3. /\ pc[u] \in IdlePCs => pc'[u] \in IdlePCs
      /\ pc[u] \in LoopPCs /\ keepUIGoing = TRUE => pc'[u] \in LoopPCs
      /\ pc[u] \in {"gre", "context"} => pc'[u] \in {"gre", "context", "dead"} \union LoopPCs
      /\ pc[u] \notin {"gre", "context"} => pc'[u] \notin {"gre", "context"}
      /\ pc[u] \in {"unborn", "dead"} => pc'[u] = pc[u]
  <2>1. CASE UiInner(u)
    BY <1>1, <2>1, UiInnerStep DEF GcMove, IdlePCs, LoopPCs
  <2>2. CASE UiChecksKeepGoing(u)
    BY <1>1, <2>2 DEF UiChecksKeepGoing, Goto, TypeOK, IdlePCs, LoopPCs
  <2>3. CASE ~UiInner(u) /\ ~UiChecksKeepGoing(u)
    BY <1>1, <2>3, UiSteps
    DEF InitGRE, UiReady, UiMakesWindow, UiInitView, UiDestroyWindow, UiLeavesLock, UiUncounts,
        UiDeletesLock, Goto, TypeOK, IdlePCs, LoopPCs
  <2> QED
    BY <2>1, <2>2, <2>3
<1>4. Served' /\ Resting'
  <2>1. ASSUME NEW o \in UIs, OthersIdle(o)
        PROVE  \A q \in UIs : q # o => pc'[q] \in IdlePCs
    BY <1>2, <1>3, <2>1 DEF OthersIdle
  <2>2. Served'
    <3> SUFFICES ASSUME session' = "on"
                 PROVE  /\ keepUIGoing' = TRUE /\ \A d \in Drivers : pc'[d] \notin Waiting
                        /\ \E o \in UIs : pc'[o] \in LoopPCs
                                          /\ \A q \in UIs : q # o => pc'[q] \in IdlePCs
      BY DEF Served, Waiting, LoopPCs, IdlePCs, OthersIdle
    <3>1. PICK o \in UIs : pc[o] \in LoopPCs /\ OthersIdle(o)
      BY <1>2 DEF SessionInv, Served
    <3>2. keepUIGoing = TRUE /\ \A d \in Drivers : pc[d] \notin Waiting
      BY <1>2 DEF SessionInv, Served
    <3>3. pc'[o] \in LoopPCs
      BY <1>2, <1>3, <3>1, <3>2
    <3> QED
      BY <1>2, <2>1, <3>1, <3>2, <3>3
  <2>3. Resting'
    BY <1>2, <1>3 DEF SessionInv, Resting, AllIdle, Waiting, IdlePCs
  <2> QED
    BY <2>2, <2>3
<1>5. Starting'
  <2> SUFFICES ASSUME NEW d \in Drivers, pc'[d] = "initPoll"
               PROVE  /\ keepUIGoing' = TRUE /\ session' # "on" /\ arg'[d] \in UIs
                      /\ session' = "off" =>
                           /\ pc'[arg'[d]] \in {"gre", "context", "unborn", "dead"} \union LoopPCs
                           /\ \A q \in UIs : q # arg'[d] => pc'[q] \in IdlePCs
    BY DEF Starting, OthersIdle, LoopPCs, IdlePCs
  <2>1. pc[d] = "initPoll" /\ arg'[d] = arg[d]
    BY <1>2
  <2>2. /\ keepUIGoing = TRUE /\ session # "on" /\ arg[d] \in UIs
        /\ session = "off" =>
             /\ pc[arg[d]] \in {"gre", "context", "unborn", "dead"} \union LoopPCs
             /\ OthersIdle(arg[d])
    BY <2>1 DEF SessionInv, Starting
  <2>3. session = "off" => pc'[arg[d]] \in {"gre", "context", "unborn", "dead"} \union LoopPCs
    <3>2. CASE arg[d] = u
      BY <1>3, <2>2, <3>2
    <3>3. CASE arg[d] # u
      BY <1>2, <2>2, <3>3
    <3> QED
      BY <3>2, <3>3
  <2>4. session = "off" => \A q \in UIs : q # arg[d] => pc'[q] \in IdlePCs
    BY <1>2, <1>3, <2>2 DEF OthersIdle
  <2> QED
    BY <1>2, <2>1, <2>2, <2>3, <2>4
<1>6. Ending'
  BY <1>2, <1>3 DEF SessionInv, Ending
<1>7. LoopHasLock'
  <2>1. CASE UiDeletesLock(u)
    <3>1. pc[u] = "deleting" /\ overlap' = overlap /\ pc'[u] = "dead"
      BY <1>1, <2>1 DEF UiDeletesLock, sessionVars, Goto, TypeOK
    <3>2. \A o \in UIs : pc'[o] \in LoopPCs => o # u /\ pc[o] \in LoopPCs
      BY <1>2, <3>1 DEF LoopPCs
    <3>3. \A o \in UIs : pc'[o] \in LoopPCs => overlap
      BY <3>1, <3>2 DEF WindowInv, OneUiThread, OutsideLock, LoopPCs
    <3>4. \A o \in UIs : pc'[o] \in LoopPCs => overlap'
      BY <3>1, <3>3
    <3> QED
      BY <3>4 DEF LoopHasLock, LoopPCs
  <2>2. CASE UiReady(u)
    BY <2>2 DEF UiReady, LoopHasLock
  <2>3. CASE ~UiDeletesLock(u) /\ ~UiReady(u)
    <3>1. lock' = lock /\ overlap' = overlap
      BY <1>1, <2>3, UiSteps, UiInnerStep
      DEF InitGRE, UiChecksKeepGoing, UiMakesWindow, UiInitView, UiDestroyWindow, UiLeavesLock,
          UiUncounts, lockVars, sessionVars
    <3>2. pc'[u] \in LoopPCs => pc[u] \in LoopPCs
      BY <1>1, <2>3, UiSteps, UiInnerStep
      DEF InitGRE, UiChecksKeepGoing, UiMakesWindow, UiInitView, UiDestroyWindow, UiLeavesLock,
          UiUncounts, Goto, TypeOK, LoopPCs, GcMove
    <3>3. \A o \in UIs : pc'[o] \in LoopPCs => pc[o] \in LoopPCs
      BY <1>2, <3>2
    <3> QED
      BY <3>1, <3>3 DEF SessionInv, LoopHasLock, LoopPCs
  <2> QED
    BY <2>1, <2>2, <2>3
<1>8. \A s \in Scripts : pc'[s] \in Waiting => s \in Drivers
  BY <1>2 DEF SessionInv
<1> QED
  BY <1>4, <1>5, <1>6, <1>7, <1>8 DEF SessionInv, Waiting

(* What a script other than the driver does, and the driver outside its    *)
(* two calls, leaves the session as it is.                                 *)
LEMMA ViewSession ==
  ASSUME WindowInv, SessionInv, NEW s \in Scripts, ScriptStep(s),
         ~CallInitFails(s), ~CallInit(s), ~InitReturns(s), ~CallTerm(s), ~TermReturns(s)
  PROVE  SessionInv'
<1> USE GeckoSessionAssumption
<1>1. TypeOK
  BY DEF WindowInv
<1>2. /\ UNCHANGED <<session, keepUIGoing, overlap, lock>>
      /\ pc[s] \notin Waiting /\ pc'[s] \notin Waiting
      /\ \A t \in Threads : t # s => pc'[t] = pc[t] /\ arg'[t] = arg[t]
  <2>1. CASE ScriptStarts(s) \/ ScriptEnds(s) \/ CallCreateView(s) \/ CreateViewReturns(s)
    BY <1>1, <2>1 DEF TypeOK, Goto, ScriptStarts, ScriptEnds, CallCreateView,
       CreateViewReturns, sessionVars, lockVars, Waiting
  <2>2. CASE DestroyView(s)
    BY <1>1, <2>2 DEF TypeOK, DestroyView, sessionVars, lockVars, Waiting
  <2>3. CASE PushView(s)
    <3>1. \E v \in Views : arg' = [arg EXCEPT ![s] = v]
      BY <2>3 DEF PushView
    <3>2. /\ pc[s] = "push" /\ pc' = [pc EXCEPT ![s] = "poll"]
          /\ UNCHANGED <<session, keepUIGoing, overlap, lock>>
      BY <2>3 DEF PushView, Goto, sessionVars, lockVars
    <3> QED
      BY <1>1, <3>1, <3>2 DEF TypeOK, Waiting
  <2>4. CASE ScriptInner(s)
    BY <1>1, <2>4, ScriptInnerStep DEF Waiting, GcMove
  <2> QED
    BY <2>1, <2>2, <2>3, <2>4, ScriptSteps
<1>3. \A u \in UIs : pc'[u] = pc[u]
  BY <1>2
<1>4. \A d \in Drivers : /\ pc'[d] \in Waiting => d # s
                         /\ d # s => pc'[d] = pc[d] /\ arg'[d] = arg[d]
                         /\ pc'[d] \in Waiting <=> pc[d] \in Waiting
  BY <1>2
<1>5. Served' /\ LoopHasLock'
  BY <1>2, <1>3, <1>4 DEF SessionInv, Served, LoopHasLock, LoopPCs, IdlePCs, OthersIdle, Waiting
<1>6. Starting'
  BY <1>2, <1>3, <1>4 DEF SessionInv, Starting, LoopPCs, IdlePCs, OthersIdle, Waiting
<1>7. Ending' /\ Resting'
  BY <1>2, <1>3, <1>4 DEF SessionInv, Ending, Resting, AllIdle, IdlePCs, Waiting
<1>8. \A t \in Scripts : pc'[t] \in Waiting => t \in Drivers
  BY <1>2 DEF SessionInv
<1> QED
  BY <1>5, <1>6, <1>7, <1>8 DEF SessionInv, Waiting

LEMMA DriverSession ==
  ASSUME OneDriver, WindowInv, SessionInv, NEW d \in Scripts,
         CallInitFails(d) \/ CallInit(d) \/ InitReturns(d) \/ CallTerm(d) \/ TermReturns(d)
  PROVE  SessionInv'
<1> USE GeckoSessionAssumption
<1>1. TypeOK /\ ThreadKinds /\ CounterExact
  BY DEF WindowInv
<1>2. d \in Drivers /\ \A e \in Drivers : e = d
  BY DEF OneDriver, CallInitFails, CallInit, InitReturns, CallTerm, TermReturns, SessionInv,
     Waiting
<1>3. UNCHANGED <<overlap, lock, threadInitialized>>
  BY DEF CallInitFails, CallInit, InitReturns, CallTerm, TermReturns, lockVars, sessionVars
<1>4. ASSUME pc' = [pc EXCEPT ![d] = pc'[d]]
      PROVE  /\ \A u \in UIs : pc'[u] = pc[u]
             /\ \A t \in Scripts : t # d => pc'[t] = pc[t]
  BY <1>1, <1>4 DEF TypeOK
<1>5. CASE CallInit(d)
  <2>1. PICK u \in UIs, l \in {"gre", "unborn", "dead"} :
          /\ pc[u] = "none" /\ pc' = [pc EXCEPT ![d] = "initPoll", ![u] = l]
          /\ arg' = [arg EXCEPT ![d] = u]
          /\ session' = IF \A o \in UIs \ {u} : pc[o] \in IdlePCs THEN "off" ELSE "doubled"
    BY <1>5 DEF CallInit
  <2>2. /\ pc'[d] = "initPoll" /\ arg'[d] = u /\ pc'[u] = l /\ keepUIGoing' = TRUE
        /\ \A o \in UIs : o # u => pc'[o] = pc[o]
        /\ \A t \in Scripts : t # d => pc'[t] = pc[t]
    BY <1>1, <1>5, <2>1 DEF TypeOK, CallInit
  <2>3. session' # "on" /\ (session' = "off" => \A o \in UIs : o # u => pc'[o] \in IdlePCs)
    BY <2>1, <2>2
  <2>4. Served' /\ Ending' /\ Resting'
    BY <1>2, <2>2, <2>3 DEF Served, Ending, Resting, Waiting
  <2>5. Starting'
    BY <1>2, <2>2, <2>3 DEF Starting, OthersIdle, LoopPCs, IdlePCs
  <2>6. LoopHasLock'
    BY <1>3, <2>2 DEF SessionInv, LoopHasLock, LoopPCs
  <2> QED
    BY <1>2, <2>2, <2>4, <2>5, <2>6 DEF SessionInv, Waiting
<1>6. CASE InitReturns(d)
  <2>1. /\ pc[d] = "initPoll" /\ pc'[d] = "script" /\ keepUIGoing' = keepUIGoing
        /\ threadInitialized = 1 \/ pc[arg[d]] = "dead"
        /\ session' = IF session = "off" /\ pc[arg[d]] # "dead" THEN "on" ELSE session
        /\ pc' = [pc EXCEPT ![d] = pc'[d]]
    BY <1>1, <1>6 DEF InitReturns, Goto, TypeOK
  <2>2. /\ \A u \in UIs : pc'[u] = pc[u]
        /\ \A t \in Scripts : t # d => pc'[t] = pc[t]
    BY <1>4, <2>1
  <2>3. /\ keepUIGoing = TRUE /\ session # "on" /\ arg[d] \in UIs
        /\ session = "off" =>
             /\ pc[arg[d]] \in {"gre", "context", "unborn", "dead"} \union LoopPCs
             /\ OthersIdle(arg[d])
    BY <1>2, <2>1 DEF SessionInv, Starting
  <2>4. session = "off" /\ threadInitialized = 1 => pc[arg[d]] \in LoopPCs \union {"dead"}
    <3> SUFFICES ASSUME session = "off", threadInitialized = 1,
                        pc[arg[d]] \in {"gre", "context", "unborn"}
                 PROVE  FALSE
      BY <2>3
    <3>1. Counted = {}
      BY <2>3 DEF Counted, CountedPCs, GcPCs, LoopPCs, IdlePCs, OthersIdle
    <3>2. threadInitialized = 0
      BY <1>1, <3>1, FS_EmptySet DEF CounterExact
    <3> QED
      BY <3>2
  <2>5. Served'
    <3>1. session' = "on" => pc[arg[d]] \in LoopPCs /\ OthersIdle(arg[d])
      BY <2>1, <2>3, <2>4
    <3> QED
      BY <1>2, <2>1, <2>2, <2>3, <3>1 DEF Served, Waiting, OthersIdle, LoopPCs, IdlePCs
  <2>6. Resting'
    <3>1. session' = "off" => pc[arg[d]] = "dead" /\ OthersIdle(arg[d])
      BY <2>1, <2>3
    <3>2. session' = "off" => \A u \in UIs : pc[u] \in IdlePCs
      BY <3>1 DEF OthersIdle, IdlePCs
    <3> QED
      BY <2>2, <3>2 DEF Resting, AllIdle, IdlePCs
  <2>7. Starting' /\ Ending'
    BY <1>2, <2>1 DEF Starting, Ending
  <2>8. LoopHasLock'
    BY <1>3, <2>2 DEF SessionInv, LoopHasLock, LoopPCs
  <2> QED
    BY <1>2, <2>2, <2>5, <2>6, <2>7, <2>8 DEF SessionInv, Waiting
<1>7. CASE CallTerm(d)
  <2>1. /\ pc[d] = "script" /\ pc'[d] = "termPoll"
        /\ session' = IF session = "on" THEN "off" ELSE session
        /\ pc' = [pc EXCEPT ![d] = pc'[d]]
    BY <1>1, <1>7 DEF CallTerm, Goto, TypeOK
  <2>2. /\ \A u \in UIs : pc'[u] = pc[u]
        /\ \A t \in Scripts : t # d => pc'[t] = pc[t]
    BY <1>4, <2>1
  <2>3. session' # "on"
    BY <2>1
  <2>4. Ending'
    <3>1. session = "on" => \A u \in UIs : pc[u] \notin {"gre", "context"}
      BY DEF SessionInv, Served, OthersIdle, IdlePCs, LoopPCs
    <3>2. session = "off" => \A u \in UIs : pc[u] \notin {"gre", "context"}
      BY <1>2, <2>1 DEF SessionInv, Resting, AllIdle, IdlePCs, Waiting
    <3> QED
      BY <2>1, <2>2, <3>1, <3>2 DEF Ending
  <2>5. Served' /\ Starting' /\ Resting'
    BY <1>2, <2>1, <2>3 DEF Served, Starting, Resting, Waiting
  <2>6. LoopHasLock'
    BY <1>3, <2>2 DEF SessionInv, LoopHasLock, LoopPCs
  <2> QED
    BY <1>2, <2>2, <2>4, <2>5, <2>6 DEF SessionInv, Waiting
<1>8. CASE TermReturns(d)
  <2>1. /\ pc[d] = "termPoll" /\ pc'[d] = "script" /\ threadInitialized = 0
        /\ UNCHANGED <<session, keepUIGoing>> /\ pc' = [pc EXCEPT ![d] = pc'[d]]
    BY <1>1, <1>8 DEF TermReturns, Goto, TypeOK, sessionVars
  <2>2. /\ \A u \in UIs : pc'[u] = pc[u]
        /\ \A t \in Scripts : t # d => pc'[t] = pc[t]
    BY <1>4, <2>1
  <2>3. session # "on"
    BY <1>2, <2>1 DEF SessionInv, Served, Waiting
  <2>4. \A u \in UIs : pc[u] \notin CountedPCs
    <3>1. IsFiniteSet(Counted) /\ Cardinality(Counted) = 0
      BY <1>1, <2>1, CountedFinite DEF CounterExact
    <3>2. Counted = {}
      BY <3>1, FS_EmptySet
    <3> QED
      BY <3>2 DEF Counted
  <2>5. Resting'
    <3>1. session = "off" => \A u \in UIs : pc[u] \notin {"gre", "context"}
      BY <1>2, <2>1 DEF SessionInv, Ending
    <3>2. session = "off" => \A u \in UIs : pc[u] \in IdlePCs
      BY <1>1, <2>4, <3>1 DEF ThreadKinds, UIPCs, CountedPCs
    <3> QED
      BY <2>1, <2>2, <3>2 DEF Resting, AllIdle, IdlePCs
  <2>6. Served' /\ Starting' /\ Ending'
    BY <1>2, <2>1, <2>3 DEF Served, Starting, Ending
  <2>7. LoopHasLock'
    BY <1>3, <2>2 DEF SessionInv, LoopHasLock, LoopPCs
  <2> QED
    BY <1>2, <2>2, <2>5, <2>6, <2>7 DEF SessionInv, Waiting
<1>9. CASE CallInitFails(d)
  <2>1. /\ pc[d] = "script" /\ keepUIGoing' = TRUE /\ UNCHANGED <<pc, arg, session>>
    BY <1>9 DEF CallInitFails
  <2>2. Served' /\ Starting' /\ LoopHasLock'
    BY <1>3, <2>1 DEF SessionInv, Served, Starting, LoopHasLock, OthersIdle, LoopPCs, IdlePCs,
       Waiting
  <2>3. Ending' /\ Resting'
    BY <2>1 DEF SessionInv, Ending, Resting, AllIdle, IdlePCs, Waiting
  <2> QED
    BY <2>1, <2>2, <2>3 DEF SessionInv, Waiting
<1> QED
  BY <1>5, <1>6, <1>7, <1>8, <1>9

LEMMA SessionAlways == ASSUME OneDriver PROVE Spec => [](WindowInv /\ SessionInv)
<1>1. WindowInv /\ SessionInv /\ [Next]_vars => WindowInv' /\ SessionInv'
  <2> SUFFICES ASSUME WindowInv, SessionInv, [Next]_vars PROVE WindowInv' /\ SessionInv'
    OBVIOUS
  <2>1. WindowInv'
    BY TypeOKStep, OneThreadStep, WindowsStep DEF WindowInv
  <2>2. CASE UNCHANGED vars
    <3>1. SessionInv'
      BY <2>2 DEF vars, sessionVars, lockVars, SessionInv, Served, Starting, Ending, Resting,
         LoopHasLock, AllIdle, OthersIdle, IdlePCs, LoopPCs, Waiting
    <3> QED
      BY <2>1, <3>1
  <2>3. CASE Next
    BY <2>1, <2>3, UiSession, ViewSession, DriverSession DEF Next
  <2> QED
    BY <2>2, <2>3
<1> QED
  BY <1>1, InitWindows, InitSession, PTL DEF Spec
-----------------------------------------------------------------------------
(* When one script starts and ends the sessions, a session that GeckoInit  *)
(* reported as started has exactly one UI thread in its loop, the counter  *)
(* reads one, and the lock of the views is usable (399-412, 317-323).      *)
THEOREM SessionServed == ASSUME OneDriver PROVE Spec => []SessionIsServed
<1>1. WindowInv /\ SessionInv => SessionIsServed
  <2> SUFFICES ASSUME WindowInv, SessionInv, session = "on"
               PROVE  /\ Cardinality(InLoop) = 1 /\ threadInitialized = 1
                      /\ lock = "up" \/ overlap
    BY DEF SessionIsServed
  <2>1. PICK u \in UIs : pc[u] \in LoopPCs /\ OthersIdle(u)
    BY DEF SessionInv, Served
  <2>2. InLoop = {u} /\ Counted = {u}
    BY <2>1 DEF InLoop, Counted, CountedPCs, GcPCs, LoopPCs, IdlePCs, OthersIdle
  <2>3. Cardinality({u}) = 1
    BY FS_Singleton
  <2> QED
    BY <2>1, <2>2, <2>3 DEF SessionInv, LoopHasLock, WindowInv, CounterExact
<1> QED
  BY <1>1, SessionAlways, PTL

(* When one script starts and ends the sessions, a GeckoTerm that returned *)
(* leaves no UI thread that runs its loop or is about to (417-424).        *)
THEOREM TermLeavesNoLoopAlways == ASSUME OneDriver PROVE Spec => []TermLeavesNoLoop
<1>1. WindowInv /\ SessionInv => TermLeavesNoLoop
  BY DEF SessionInv, Resting, AllIdle, Waiting, TermLeavesNoLoop
<1> QED
  BY <1>1, SessionAlways, PTL
-----------------------------------------------------------------------------
(* Sessions is implemented.  A view that is not listed is as it was made,  *)
(* one that a UI thread is making is listed and has a window, and a script *)
(* waits for a listed view that no other script waits for.                 *)
AskedInv ==
  /\ \A v \in Views : v \notin Listed => view[v].initialized = FALSE /\ view[v].windows = 0
  /\ \A u \in UIs : pc[u] = "making" => arg[u] \in Listed /\ view[arg[u]].windows > 0
  /\ \A s \in Scripts : Creating(s) => arg[s] \in Listed
  /\ \A s \in Scripts : pc[s] \in MadePCs => view[arg[s]].initialized = TRUE
  /\ \A s, t \in Scripts : Creating(s) /\ Creating(t) /\ arg[s] = arg[t] => s = t

(* Nothing happens to a view but to its mark for destruction.              *)
SameViews ==
  \A v \in Views : /\ view'[v].initialized = view[v].initialized
                   /\ view'[v].windows = view[v].windows

LEMMA MarkSame ==
  ASSUME TypeOK, NEW v \in Views, NEW b \in BOOLEAN, Set(v, "destroying", b)
  PROVE  SameViews
<1>1. view' = [view EXCEPT ![v].destroying = b]
  BY DEF Set
<1>2. view \in [Views -> [initialized : BOOLEAN, destroying : BOOLEAN, windows : Nat]]
  BY DEF TypeOK
<1> QED
  BY <1>1, <1>2 DEF SameViews

LEMMA ListedViews == TypeOK => Listed \subseteq Views
BY DEF TypeOK, Listed

LEMMA PushLists ==
  ASSUME TypeOK, NEW v \in Views, viewsHead' = <<v>> \o viewsHead
  PROVE  Listed' = Listed \union {v}
<1>1. viewsHead \in Seq(Views) /\ viewsHead' \in Seq(Views)
  BY DEF TypeOK
<1>2. /\ Len(viewsHead') = Len(viewsHead) + 1 /\ viewsHead'[1] = v
      /\ \A i \in 1..Len(viewsHead) : viewsHead'[i + 1] = viewsHead[i]
  BY <1>1
<1>3. \A i \in 2..Len(viewsHead') : i - 1 \in 1..Len(viewsHead) /\ viewsHead'[i] = viewsHead[i - 1]
  <2> SUFFICES ASSUME NEW i \in 2..Len(viewsHead')
               PROVE  i - 1 \in 1..Len(viewsHead) /\ viewsHead'[i] = viewsHead[i - 1]
    OBVIOUS
  <2>1. i - 1 \in 1..Len(viewsHead) /\ (i - 1) + 1 = i
    BY <1>1, <1>2
  <2> QED
    BY <1>2, <2>1
<1>4. DOMAIN viewsHead = 1..Len(viewsHead) /\ DOMAIN viewsHead' = 1..Len(viewsHead')
  BY <1>1
<1>5. ASSUME NEW w, w \in Listed \union {v} PROVE w \in Listed'
  <2>1. CASE w = v
    <3>1. 1 \in DOMAIN viewsHead'
      BY <1>1, <1>2, <1>4
    <3> QED
      BY <1>2, <2>1, <3>1 DEF Listed
  <2>2. CASE w \in Listed
    <3>1. PICK i \in 1..Len(viewsHead) : w = viewsHead[i]
      BY <1>4, <2>2 DEF Listed
    <3>2. i + 1 \in DOMAIN viewsHead' /\ viewsHead'[i + 1] = w
      BY <1>1, <1>2, <1>4, <3>1
    <3> QED
      BY <3>2 DEF Listed
  <2> QED
    BY <1>5, <2>1, <2>2
<1>6. ASSUME NEW w, w \in Listed' PROVE w \in Listed \union {v}
  <2>1. PICK i \in 1..Len(viewsHead') : w = viewsHead'[i]
    BY <1>4, <1>6 DEF Listed
  <2>2. CASE i = 1
    BY <1>2, <2>1, <2>2
  <2>3. CASE i # 1
    <3>1. i \in 2..Len(viewsHead')
      BY <1>1, <2>1, <2>3
    <3> QED
      BY <1>3, <1>4, <2>1, <3>1 DEF Listed
  <2> QED
    BY <2>2, <2>3
<1> QED
  BY <1>5, <1>6

(* A script step changes the argument of that script alone, and only where *)
(* it starts to wait.                                                      *)
LEMMA ScriptArgs ==
  ASSUME TypeOK, NEW s \in Scripts, ScriptStep(s)
  PROVE  /\ \A t \in Threads : t # s => arg'[t] = arg[t]
         /\ ~PushView(s) /\ Creating(s)' => Creating(s) /\ arg'[s] = arg[s]
         /\ pc'[s] \in MadePCs => pc[s] \in MadePCs \/ SeesView(s)
<1> USE GeckoSessionAssumption DEF Creating, MadePCs
<1>1. CASE PushView(s)
  <2>1. \E v \in Views : arg' = [arg EXCEPT ![s] = v]
    BY <1>1 DEF PushView
  <2>2. pc'[s] = "poll"
    BY <1>1 DEF PushView, Goto, TypeOK
  <2> QED
    BY <1>1, <2>1, <2>2 DEF TypeOK
<1>2. CASE CallInit(s)
  <2>1. PICK u \in UIs, l \in {"gre", "unborn", "dead"} :
          pc' = [pc EXCEPT ![s] = "initPoll", ![u] = l] /\ arg' = [arg EXCEPT ![s] = u]
    BY <1>2 DEF CallInit
  <2> QED
    BY <1>2, <2>1 DEF TypeOK, CallInit
<1>3. CASE ScriptInner(s)
  <2>1. pc[s] = "poll" /\ pc'[s] = "show" => SeesView(s)
    BY <1>3 DEF TypeOK, Goto, ScriptInner, ViewIsShown, ProxyAnswers, Repaint, CollectGarbage,
       Collects, Marks, Finalizes, Swept, GcReturns
  <2> QED
    BY <1>3, <2>1, ScriptInnerStep DEF GcMove
<1>4. CASE ~PushView(s) /\ ~CallInit(s) /\ ~ScriptInner(s)
  BY <1>4, ScriptSteps
  DEF TypeOK, Goto, CallInitFails, ScriptStarts, ScriptEnds, InitReturns, CallTerm,
      TermReturns, CallCreateView, CreateViewReturns, DestroyView
<1> QED
  BY <1>1, <1>2, <1>3, <1>4

LEMMA SeenView ==
  ASSUME TypeOK, NEW s \in Scripts, SeesView(s), arg[s] \in Views
  PROVE  view[arg[s]].initialized = TRUE
<1>1. view[arg[s]].initialized \in BOOLEAN
  BY DEF TypeOK
<1>2. view[arg[s]].initialized
  BY DEF SeesView
<1> QED
  BY <1>1, <1>2, Zenon

(* Steps that neither list, make nor initialise a view.                    *)
LEMMA SameAsked ==
  ASSUME AskedInv, SameViews, viewsHead' = viewsHead,
         \A u \in UIs : pc'[u] = "making" => pc[u] = "making" /\ arg'[u] = arg[u],
         \A s \in Scripts : Creating(s)' => Creating(s) /\ arg'[s] = arg[s],
         \A s \in Scripts : pc'[s] \in MadePCs => pc[s] \in MadePCs \/ SeesView(s),
         TypeOK, ThreadKinds
  PROVE  AskedInv'
<1>1. Listed' = Listed /\ Listed \subseteq Views
  BY ListedViews DEF Listed
<1>2. \A u \in UIs : pc'[u] = "making" => arg'[u] \in Listed /\ view'[arg'[u]].windows > 0
  BY <1>1 DEF AskedInv, SameViews
<1>3. \A v \in Views : v \notin Listed => view'[v].initialized = FALSE /\ view'[v].windows = 0
  BY DEF AskedInv, SameViews
<1>4. /\ \A s \in Scripts : Creating(s)' => arg'[s] \in Listed
      /\ \A s, t \in Scripts : Creating(s)' /\ Creating(t)' /\ arg'[s] = arg'[t] => s = t
  BY DEF AskedInv
<1>5. ASSUME NEW s \in Scripts, pc'[s] \in MadePCs
      PROVE  view'[arg'[s]].initialized = TRUE
  <2>1. Creating(s) /\ arg'[s] = arg[s]
    BY <1>5 DEF Creating
  <2>2. arg[s] \in Listed
    BY <2>1 DEF AskedInv
  <2>3. arg[s] \in Views
    BY <1>1, <2>2
  <2>4. view[arg[s]].initialized = TRUE
    <3>1. CASE pc[s] \in MadePCs
      BY <3>1 DEF AskedInv
    <3>2. CASE SeesView(s)
      BY <2>3, <3>2, SeenView
    <3> QED
      BY <1>5, <3>1, <3>2
  <2> QED
    BY <2>1, <2>3, <2>4 DEF SameViews
<1> QED
  BY <1>1, <1>2, <1>3, <1>4, <1>5 DEF AskedInv, MadePCs

LEMMA ViewSteps ==
  ASSUME TypeOK, ThreadKinds, [Next]_vars
  PROVE  \/ \E s \in Scripts : PushView(s)
         \/ \E u \in UIs : UiMakesWindow(u) \/ UiInitView(u)
         \/ SameViews /\ viewsHead' = viewsHead
<1> USE GeckoSessionAssumption
<1>1. ASSUME NEW s \in Scripts, ScriptStep(s), ~PushView(s)
      PROVE  SameViews /\ viewsHead' = viewsHead
  <2>1. CASE DestroyView(s)
    BY <2>1, MarkSame DEF DestroyView
  <2>2. CASE ~DestroyView(s)
    <3>1. view' = view /\ viewsHead' = viewsHead
      BY <1>1, <2>2, ScriptSteps, ScriptInnerStep
      DEF CallInitFails, ScriptStarts, ScriptEnds, CallInit, InitReturns, CallTerm,
          TermReturns, CallCreateView, CreateViewReturns, viewVars
    <3> QED
      BY <3>1 DEF SameViews
  <2> QED
    BY <2>1, <2>2
<1>2. ASSUME NEW u \in UIs, UiStep(u), ~UiMakesWindow(u), ~UiInitView(u)
      PROVE  SameViews /\ viewsHead' = viewsHead
  <2>1. CASE UiDestroyWindow(u)
    <3>1. \E v \in Listed : Set(v, "destroying", FALSE)
      BY <2>1 DEF UiDestroyWindow
    <3> QED
      BY <2>1, <3>1, MarkSame, ListedViews DEF UiDestroyWindow
  <2>2. CASE ~UiDestroyWindow(u)
    <3>1. view' = view /\ viewsHead' = viewsHead
      BY <1>2, <2>2, UiSteps, UiInnerStep
      DEF InitGRE, UiReady, UiChecksKeepGoing, UiLeavesLock, UiUncounts, UiDeletesLock,
          viewVars
    <3> QED
      BY <3>1 DEF SameViews
  <2> QED
    BY <2>1, <2>2
<1>3. CASE UNCHANGED vars
  BY <1>3 DEF vars, viewVars, SameViews
<1> QED
  BY <1>1, <1>2, <1>3 DEF Next

LEMMA PushedView ==
  ASSUME TypeOK, NEW s \in Scripts, PushView(s)
  PROVE  \E v \in Views :
           /\ v \notin Listed /\ Listed' = Listed \union {v} /\ SameViews
           /\ pc[s] = "push" /\ pc'[s] = "poll" /\ arg'[s] = v
           /\ \A t \in Threads : t # s => pc'[t] = pc[t] /\ arg'[t] = arg[t]
<1> USE GeckoSessionAssumption
<1> DEFINE w == CHOOSE w \in Views : w \notin Listed
<1>1. w \in Views /\ w \notin Listed
  BY DEF PushView
<1>2. /\ viewsHead' = <<w>> \o viewsHead /\ arg' = [arg EXCEPT ![s] = w]
      /\ \E b \in BOOLEAN : Set(w, "destroying", b)
  BY DEF PushView
<1>3. pc[s] = "push" /\ pc' = [pc EXCEPT ![s] = "poll"]
  BY DEF PushView, Goto
<1> HIDE DEF w
<1>4. Listed' = Listed \union {w} /\ SameViews
  BY <1>1, <1>2, PushLists, MarkSame
<1>5. /\ pc'[s] = "poll" /\ arg'[s] = w
      /\ \A t \in Threads : t # s => pc'[t] = pc[t] /\ arg'[t] = arg[t]
  BY <1>2, <1>3 DEF TypeOK
<1> QED
  BY <1>1, <1>3, <1>4, <1>5

LEMMA MadeWindow ==
  ASSUME TypeOK, NEW u \in UIs, UiMakesWindow(u)
  PROVE  \E v \in Listed :
           /\ v \in Views /\ view[v].initialized = FALSE /\ viewsHead' = viewsHead
           /\ view'[v].initialized = FALSE /\ view'[v].windows = view[v].windows + 1
           /\ \A w \in Views : w # v => view'[w] = view[w]
           /\ pc[u] = "scan" /\ pc'[u] = "making" /\ arg'[u] = v
           /\ \A t \in Threads : t # u => pc'[t] = pc[t] /\ arg'[t] = arg[t]
<1> USE GeckoSessionAssumption
<1>1. PICK v \in Listed : /\ ~view[v].initialized /\ arg' = [arg EXCEPT ![u] = v]
                          /\ Set(v, "windows", view[v].windows + 1)
  BY DEF UiMakesWindow
<1>2. v \in Views
  BY ListedViews
<1>3. /\ view' = [view EXCEPT ![v].windows = view[v].windows + 1]
      /\ view \in [Views -> [initialized : BOOLEAN, destroying : BOOLEAN, windows : Nat]]
  BY <1>1 DEF Set, TypeOK
<1>4. view[v].initialized = FALSE
  <2>1. view[v].initialized \in BOOLEAN
    BY <1>2, <1>3
  <2> QED
    BY <1>1, <2>1, Zenon
<1>5. /\ view'[v].initialized = view[v].initialized /\ view'[v].windows = view[v].windows + 1
      /\ \A w \in Views : w # v => view'[w] = view[w]
  BY <1>2, <1>3
<1>6. /\ pc[u] = "scan" /\ pc'[u] = "making" /\ arg'[u] = v /\ viewsHead' = viewsHead
      /\ \A t \in Threads : t # u => pc'[t] = pc[t] /\ arg'[t] = arg[t]
  BY <1>1 DEF UiMakesWindow, Goto, TypeOK
<1> QED
  BY <1>1, <1>2, <1>4, <1>5, <1>6

LEMMA InitialisedView ==
  ASSUME TypeOK, ThreadKinds, NEW u \in UIs, UiInitView(u)
  PROVE  /\ arg[u] \in Views /\ viewsHead' = viewsHead
         /\ view'[arg[u]].initialized = TRUE /\ view'[arg[u]].windows = view[arg[u]].windows
         /\ \A w \in Views : w # arg[u] => view'[w] = view[w]
         /\ pc[u] = "making" /\ pc'[u] = "scan"
         /\ \A t \in Threads : arg'[t] = arg[t] /\ (t # u => pc'[t] = pc[t])
<1> USE GeckoSessionAssumption
<1>1. arg[u] \in Views /\ pc[u] = "making"
  BY DEF UiInitView, ThreadKinds
<1>2. /\ view' = [view EXCEPT ![arg[u]].initialized = TRUE]
      /\ view \in [Views -> [initialized : BOOLEAN, destroying : BOOLEAN, windows : Nat]]
  BY DEF UiInitView, Set, TypeOK
<1>3. /\ view'[arg[u]].initialized = TRUE /\ view'[arg[u]].windows = view[arg[u]].windows
      /\ \A w \in Views : w # arg[u] => view'[w] = view[w]
  BY <1>1, <1>2
<1>4. /\ pc'[u] = "scan" /\ viewsHead' = viewsHead
      /\ \A t \in Threads : arg'[t] = arg[t] /\ (t # u => pc'[t] = pc[t])
  BY DEF UiInitView, Goto, TypeOK
<1> QED
  BY <1>1, <1>3, <1>4

LEMMA InitAsked == Init => AskedInv
<1> SUFFICES ASSUME Init PROVE AskedInv
  OBVIOUS
<1>1. /\ \A u \in UIs : pc[u] = "none"
      /\ \A s \in Scripts : pc[s] \in {"script", "out"}
      /\ \A v \in Views : view[v].initialized = FALSE /\ view[v].windows = 0
  BY GeckoSessionAssumption DEF Init
<1> QED
  BY <1>1 DEF AskedInv, Creating, MadePCs

LEMMA AskedStep ==
  ASSUME TypeOK, ThreadKinds, AskedInv, [Next]_vars
  PROVE  AskedInv'
<1> USE GeckoSessionAssumption
<1>0. Listed \subseteq Views
  BY ListedViews
<1>1. ASSUME NEW s \in Scripts, PushView(s)
      PROVE  AskedInv'
  <2>1. PICK v \in Views :
           /\ v \notin Listed /\ Listed' = Listed \union {v} /\ SameViews
           /\ pc[s] = "push" /\ pc'[s] = "poll" /\ arg'[s] = v
           /\ \A t \in Threads : t # s => pc'[t] = pc[t] /\ arg'[t] = arg[t]
    BY <1>1, PushedView
  <2>2. \A u \in UIs : pc'[u] = pc[u] /\ arg'[u] = arg[u]
    BY <2>1
  <2>3. \A w \in Views : w \notin Listed' => view'[w].initialized = FALSE /\ view'[w].windows = 0
    BY <2>1 DEF AskedInv, SameViews
  <2>4. \A u \in UIs : pc'[u] = "making" => arg'[u] \in Listed' /\ view'[arg'[u]].windows > 0
    BY <1>0, <2>1, <2>2 DEF AskedInv, SameViews
  <2>5. \A t \in Scripts : t # s => (Creating(t)' <=> Creating(t))
    BY <2>1 DEF Creating
  <2>6. \A t \in Scripts : Creating(t)' => arg'[t] \in Listed'
    BY <2>1, <2>5 DEF AskedInv
  <2>7. \A t, o \in Scripts : Creating(t)' /\ Creating(o)' /\ arg'[t] = arg'[o] => t = o
    BY <2>1, <2>5 DEF AskedInv
  <2>8. ASSUME NEW t \in Scripts, pc'[t] \in MadePCs
        PROVE  view'[arg'[t]].initialized = TRUE
    <3>1. t # s /\ pc[t] \in MadePCs /\ arg'[t] = arg[t]
      BY <2>1, <2>8 DEF MadePCs
    <3>2. arg[t] \in Listed /\ view[arg[t]].initialized = TRUE
      BY <3>1 DEF AskedInv, Creating
    <3> QED
      BY <1>0, <2>1, <3>1, <3>2 DEF SameViews
  <2> QED
    BY <2>3, <2>4, <2>6, <2>7, <2>8 DEF AskedInv, MadePCs
<1>2. ASSUME NEW u \in UIs, UiMakesWindow(u)
      PROVE  AskedInv'
  <2>1. PICK v \in Listed :
           /\ v \in Views /\ view[v].initialized = FALSE /\ viewsHead' = viewsHead
           /\ view'[v].initialized = FALSE /\ view'[v].windows = view[v].windows + 1
           /\ \A w \in Views : w # v => view'[w] = view[w]
           /\ pc[u] = "scan" /\ pc'[u] = "making" /\ arg'[u] = v
           /\ \A t \in Threads : t # u => pc'[t] = pc[t] /\ arg'[t] = arg[t]
    BY <1>2, MadeWindow
  <2>2. Listed' = Listed /\ view[v].windows \in Nat
    BY <2>1 DEF Listed, TypeOK
  <2>3. \A w \in Views : w \notin Listed' => view'[w].initialized = FALSE /\ view'[w].windows = 0
    BY <2>1, <2>2 DEF AskedInv
  <2>4. \A o \in UIs : pc'[o] = "making" => arg'[o] \in Listed' /\ view'[arg'[o]].windows > 0
    <3> SUFFICES ASSUME NEW o \in UIs, pc'[o] = "making"
                 PROVE  arg'[o] \in Listed' /\ view'[arg'[o]].windows > 0
      OBVIOUS
    <3>1. CASE arg'[o] = v
      BY <2>1, <2>2, <3>1
    <3>2. CASE arg'[o] # v
      <4>1. o # u /\ pc[o] = "making" /\ arg'[o] = arg[o]
        BY <2>1, <3>2
      <4>2. arg[o] \in Listed /\ view[arg[o]].windows > 0
        BY <4>1 DEF AskedInv
      <4> QED
        BY <1>0, <2>1, <2>2, <3>2, <4>1, <4>2
    <3> QED
      BY <3>1, <3>2
  <2>5. \A t \in Scripts : pc'[t] = pc[t] /\ arg'[t] = arg[t] /\ (Creating(t)' <=> Creating(t))
    BY <2>1 DEF Creating
  <2>6. ASSUME NEW t \in Scripts, pc'[t] \in MadePCs
        PROVE  view'[arg'[t]].initialized = TRUE
    <3>1. arg[t] \in Listed /\ view[arg[t]].initialized = TRUE /\ arg'[t] = arg[t]
      BY <2>5, <2>6 DEF AskedInv, Creating
    <3> QED
      BY <1>0, <2>1, <3>1
  <2>7. \A t \in Scripts : Creating(t)' => arg'[t] \in Listed'
    BY <2>2, <2>5 DEF AskedInv
  <2>8. \A t, o \in Scripts : Creating(t)' /\ Creating(o)' /\ arg'[t] = arg'[o] => t = o
    BY <2>5 DEF AskedInv
  <2> QED
    BY <2>3, <2>4, <2>6, <2>7, <2>8 DEF AskedInv, MadePCs
<1>3. ASSUME NEW u \in UIs, UiInitView(u)
      PROVE  AskedInv'
  <2>1. /\ arg[u] \in Views /\ viewsHead' = viewsHead
        /\ view'[arg[u]].initialized = TRUE /\ view'[arg[u]].windows = view[arg[u]].windows
        /\ \A w \in Views : w # arg[u] => view'[w] = view[w]
        /\ pc[u] = "making" /\ pc'[u] = "scan"
        /\ \A t \in Threads : arg'[t] = arg[t] /\ (t # u => pc'[t] = pc[t])
    BY <1>3, InitialisedView
  <2>2. Listed' = Listed /\ arg[u] \in Listed
    BY <2>1 DEF Listed, AskedInv
  <2>3. \A w \in Views : w \notin Listed' => view'[w].initialized = FALSE /\ view'[w].windows = 0
    BY <2>1, <2>2 DEF AskedInv
  <2>4. \A w \in Views : view'[w].windows = view[w].windows
    BY <2>1
  <2>5. \A o \in UIs : pc'[o] = "making" => arg'[o] \in Listed' /\ view'[arg'[o]].windows > 0
    BY <1>0, <2>1, <2>2, <2>4 DEF AskedInv
  <2>6. \A t \in Scripts : pc'[t] = pc[t] /\ arg'[t] = arg[t] /\ (Creating(t)' <=> Creating(t))
    BY <2>1 DEF Creating
  <2>7. ASSUME NEW t \in Scripts, pc'[t] \in MadePCs
        PROVE  view'[arg'[t]].initialized = TRUE
    <3>1. arg[t] \in Listed /\ view[arg[t]].initialized = TRUE /\ arg'[t] = arg[t]
      BY <2>6, <2>7 DEF AskedInv, Creating
    <3> QED
      BY <1>0, <2>1, <3>1
  <2>8. \A t \in Scripts : Creating(t)' => arg'[t] \in Listed'
    BY <2>2, <2>6 DEF AskedInv
  <2>9. \A t, o \in Scripts : Creating(t)' /\ Creating(o)' /\ arg'[t] = arg'[o] => t = o
    BY <2>6 DEF AskedInv
  <2> QED
    BY <2>3, <2>5, <2>7, <2>8, <2>9 DEF AskedInv, MadePCs
<1>4. ASSUME NEW s \in Scripts, ScriptStep(s), ~PushView(s), SameViews, viewsHead' = viewsHead
      PROVE  AskedInv'
  <2>1. \A u \in UIs : pc'[u] = "making" => pc[u] = "making" /\ arg'[u] = arg[u]
    BY <1>4, ScriptMoves
  <2>2. \A t \in Scripts : t # s => pc'[t] = pc[t] /\ arg'[t] = arg[t]
    BY <1>4, ScriptMoves, ScriptArgs
  <2>3. \A t \in Scripts : Creating(t)' => Creating(t) /\ arg'[t] = arg[t]
    BY <1>4, <2>2, ScriptArgs DEF Creating, MadePCs
  <2>4. \A t \in Scripts : pc'[t] \in MadePCs => pc[t] \in MadePCs \/ SeesView(t)
    BY <1>4, <2>2, ScriptArgs
  <2> QED
    BY <1>4, <2>1, <2>3, <2>4, SameAsked
<1>5. ASSUME NEW u \in UIs, UiStep(u), ~UiMakesWindow(u), SameViews, viewsHead' = viewsHead
      PROVE  AskedInv'
  <2>1. pc'[u] # "making" \/ (pc[u] = "making" /\ arg'[u] = arg[u])
    BY <1>5, UiSteps, UiInnerStep
    DEF GcMove, InitGRE, UiReady, UiChecksKeepGoing, UiInitView, UiDestroyWindow, UiLeavesLock,
        UiUncounts, UiDeletesLock, Goto, TypeOK
  <2>2. \A o \in UIs : pc'[o] = "making" => pc[o] = "making" /\ arg'[o] = arg[o]
    BY <1>5, <2>1, UiMoves
  <2>3. \A s \in Scripts : pc'[s] = pc[s] /\ arg'[s] = arg[s]
    BY <1>5, UiMoves
  <2> QED
    BY <1>5, <2>2, <2>3, SameAsked DEF Creating, MadePCs
<1>6. CASE UNCHANGED vars
  <2>1. SameViews /\ UNCHANGED <<viewsHead, pc, arg>>
    BY <1>6 DEF vars, viewVars, SameViews
  <2> QED
    BY <2>1, SameAsked DEF Creating, MadePCs
<1> QED
  BY <1>1, <1>2, <1>3, <1>4, <1>5, <1>6, ViewSteps DEF Next
-----------------------------------------------------------------------------
(* What Sessions sees of a state, and what leaves each part of it alone.   *)
Seen == <<Phase, InLoop, Stages, Waiters>>

LEMMA PhaseSame ==
  ASSUME session' = session,
         \A d \in Drivers : /\ pc'[d] = "initPoll" <=> pc[d] = "initPoll"
                            /\ pc'[d] = "termPoll" <=> pc[d] = "termPoll"
  PROVE  Phase' = Phase
BY DEF Phase

LEMMA LoopSame ==
  ASSUME \A u \in UIs : pc'[u] \in LoopPCs <=> pc[u] \in LoopPCs
  PROVE  InLoop' = InLoop
BY DEF InLoop, LoopPCs

LEMMA StagesSame ==
  ASSUME SameViews, viewsHead' = viewsHead
  PROVE  Stages' = Stages
<1>1. Listed' = Listed
  BY DEF Listed
<1>2. \A v \in Views : Stage(v)' = Stage(v)
  BY <1>1 DEF SameViews, Stage
<1> QED
  BY <1>2 DEF Stages

LEMMA WaitersSame ==
  ASSUME \A s \in Scripts : /\ Creating(s)' <=> Creating(s)
                            /\ Creating(s) => arg'[s] = arg[s]
  PROVE  Waiters' = Waiters
BY DEF Waiters

LEMMA PhaseOfDriver ==
  ASSUME OneDriver, NEW d \in Drivers
  PROVE  /\ Phase = IF session # "off" THEN session
                    ELSE IF pc[d] = "initPoll" THEN "starting"
                    ELSE IF pc[d] = "termPoll" THEN "ending" ELSE "off"
         /\ Phase' = IF session' # "off" THEN session'
                     ELSE IF pc'[d] = "initPoll" THEN "starting"
                     ELSE IF pc'[d] = "termPoll" THEN "ending" ELSE "off"
BY DEF OneDriver, Phase

LEMMA InitSeen == Init => Service!Init
<1> SUFFICES ASSUME Init PROVE Service!Init
  OBVIOUS
<1> USE GeckoSessionAssumption
<1>1. /\ \A u \in UIs : pc[u] = "none"
      /\ \A s \in Scripts : pc[s] \in {"script", "out"}
      /\ session = "off" /\ Listed = {}
      /\ \A v \in Views : view[v].initialized = FALSE /\ view[v].windows = 0
  BY DEF Init, Listed
<1>2. Phase = "off" /\ InLoop = {}
  BY <1>1 DEF Phase, InLoop, LoopPCs
<1>3. Stages = [v \in Views |-> "none"] /\ Waiters = [v \in Views |-> {}]
  BY <1>1 DEF Stages, Stage, Waiters, Creating, MadePCs
<1> QED
  BY <1>2, <1>3 DEF Service!Init
-----------------------------------------------------------------------------
(* Steps of scripts that Sessions does not see.                            *)
LEMMA ScriptUnseen ==
  ASSUME TypeOK, ThreadKinds, NEW s \in Scripts,
         \/ ScriptStarts(s) \/ ScriptEnds(s) \/ CallInitFails(s)
         \/ CallCreateView(s) \/ DestroyView(s)
  PROVE  Seen' = Seen
<1> USE GeckoSessionAssumption
<1>1. /\ viewsHead' = viewsHead /\ SameViews
  <2>1. CASE DestroyView(s)
    BY <2>1, MarkSame DEF DestroyView
  <2>2. CASE ~DestroyView(s)
    BY <2>2 DEF CallInitFails, ScriptStarts, ScriptEnds, CallCreateView, viewVars, SameViews
  <2> QED
    BY <2>1, <2>2
<1>2. /\ session' = session /\ arg' = arg
      /\ \A t \in Threads : t # s => pc'[t] = pc[t]
      /\ pc[s] \in {"out", "script"} /\ pc'[s] \in {"out", "script", "push"}
  BY DEF CallInitFails, ScriptStarts, ScriptEnds, CallCreateView, DestroyView, sessionVars, Goto,
     TypeOK
<1>3. Phase' = Phase
  BY <1>2, PhaseSame
<1>4. InLoop' = InLoop
  BY <1>2, LoopSame
<1>5. Waiters' = Waiters
  BY <1>2, WaitersSame DEF Creating, MadePCs
<1> QED
  BY <1>1, <1>3, <1>4, <1>5, StagesSame DEF Seen

LEMMA InnerUnseen ==
  ASSUME TypeOK, ThreadKinds, NEW s \in Scripts, ScriptInner(s)
  PROVE  Seen' = Seen
<1> USE GeckoSessionAssumption
<1>1. /\ viewsHead' = viewsHead /\ SameViews /\ session' = session /\ arg' = arg
      /\ \A t \in Threads : t # s => pc'[t] = pc[t]
  BY ScriptInnerStep DEF SameViews
<1>2. /\ Creating(s)' <=> Creating(s)
      /\ pc[s] \notin {"initPoll", "termPoll"} /\ pc'[s] \notin {"initPoll", "termPoll"}
  BY ScriptInnerStep DEF GcMove, Creating, MadePCs
<1>3. Phase' = Phase
  BY <1>1, <1>2, PhaseSame
<1>4. InLoop' = InLoop
  BY <1>1, LoopSame
<1>5. \A t \in Scripts : Creating(t)' <=> Creating(t)
  BY <1>1, <1>2 DEF Creating, MadePCs
<1>6. Waiters' = Waiters
  BY <1>1, <1>5, WaitersSame
<1> QED
  BY <1>1, <1>3, <1>4, <1>6, StagesSame DEF Seen

LEMMA PushAsks ==
  ASSUME TypeOK, ThreadKinds, AskedInv, NEW s \in Scripts, PushView(s)
  PROVE  \E v \in Views : Service!Ask(s, v)
<1> USE GeckoSessionAssumption
<1>1. PICK v \in Views :
           /\ v \notin Listed /\ Listed' = Listed \union {v} /\ SameViews
           /\ pc[s] = "push" /\ pc'[s] = "poll" /\ arg'[s] = v
           /\ \A t \in Threads : t # s => pc'[t] = pc[t] /\ arg'[t] = arg[t]
  BY PushedView
<1>2. view[v].initialized = FALSE /\ view[v].windows = 0
  BY <1>1 DEF AskedInv
<1>3. Stage(v) = "none" /\ Stage(v)' = "asked"
  BY <1>1, <1>2 DEF Stage, SameViews
<1>4. \A w \in Views : w # v => Stage(w)' = Stage(w)
  BY <1>1 DEF Stage, SameViews
<1>5. Stages[v] = "none" /\ Stages' = [Stages EXCEPT ![v] = "asked"]
  BY <1>3, <1>4 DEF Stages
<1>6. /\ ~Creating(s) /\ Creating(s)'
      /\ \A t \in Scripts : t # s => arg'[t] = arg[t] /\ (Creating(t)' <=> Creating(t))
  BY <1>1 DEF Creating, MadePCs
<1>7. \A w \in Views : s \notin Waiters[w]
  BY <1>6 DEF Waiters
<1>8. \A w \in Views :
        {t \in Scripts : Creating(t)' /\ arg'[t] = w} =
          IF w = v THEN {s} ELSE {t \in Scripts : Creating(t) /\ arg[t] = w}
  <2>1. {t \in Scripts : Creating(t)' /\ arg'[t] = v} = {s}
    BY <1>1, <1>6 DEF AskedInv
  <2>2. \A w \in Views : w # v =>
          {t \in Scripts : Creating(t)' /\ arg'[t] = w}
            = {t \in Scripts : Creating(t) /\ arg[t] = w}
    BY <1>1, <1>6
  <2> QED
    BY <2>1, <2>2
<1>9. Waiters' = [Waiters EXCEPT ![v] = {s}]
  BY <1>8 DEF Waiters
<1>10. Phase' = Phase
  <2>1. session' = session
    BY DEF PushView, sessionVars
  <2> QED
    BY <1>1, <2>1, PhaseSame
<1>11. InLoop' = InLoop
  BY <1>1, LoopSame
<1> QED
  BY <1>5, <1>7, <1>9, <1>10, <1>11 DEF Service!Ask

LEMMA ReturnAnswers ==
  ASSUME TypeOK, ThreadKinds, AskedInv, NEW s \in Scripts, CreateViewReturns(s)
  PROVE  \E v \in Views : Service!Answer(s, v)
<1> USE GeckoSessionAssumption
<1> DEFINE v == arg[s]
<1>1. /\ pc[s] = "answered" /\ pc'[s] = "script" /\ arg' = arg
      /\ \A t \in Threads : t # s => pc'[t] = pc[t]
      /\ session' = session /\ view' = view /\ viewsHead' = viewsHead
  BY DEF CreateViewReturns, Goto, TypeOK, sessionVars, viewVars
<1>2. /\ Creating(s) /\ ~Creating(s)' /\ pc[s] \in MadePCs
      /\ \A t \in Scripts : t # s => (Creating(t)' <=> Creating(t))
  BY <1>1 DEF Creating, MadePCs
<1>3. v \in Views /\ view[v].initialized = TRUE
  BY <1>2, ListedViews DEF AskedInv
<1>4. Stages[v] = "shown" /\ s \in Waiters[v]
  BY <1>2, <1>3 DEF Stages, Stage, Waiters
<1>5. Stages' = Stages
  BY <1>1, StagesSame DEF SameViews
<1>6. \A w \in Views :
        {t \in Scripts : Creating(t)' /\ arg'[t] = w} =
          IF w = v THEN {} ELSE {t \in Scripts : Creating(t) /\ arg[t] = w}
  <2>1. {t \in Scripts : Creating(t)' /\ arg'[t] = v} = {}
    BY <1>1, <1>2 DEF AskedInv
  <2>2. \A w \in Views : w # v =>
          {t \in Scripts : Creating(t)' /\ arg'[t] = w}
            = {t \in Scripts : Creating(t) /\ arg[t] = w}
    BY <1>1, <1>2
  <2> QED
    BY <2>1, <2>2
<1>7. Waiters' = [Waiters EXCEPT ![v] = {}]
  <2> HIDE DEF v
  <2> QED
    BY <1>6 DEF Waiters
<1>8. Phase' = Phase
  BY <1>1, PhaseSame
<1>9. InLoop' = InLoop
  BY <1>1, LoopSame
<1> QED
  BY <1>3, <1>4, <1>5, <1>7, <1>8, <1>9 DEF Service!Answer
-----------------------------------------------------------------------------
(* Steps of the driver.                                                    *)
LEMMA DriverUnseen ==
  ASSUME TypeOK, ThreadKinds, NEW d \in Scripts,
         CallInit(d) \/ InitReturns(d) \/ CallTerm(d) \/ TermReturns(d)
  PROVE  InLoop' = InLoop /\ Stages' = Stages /\ Waiters' = Waiters
<1> USE GeckoSessionAssumption
<1>1. viewsHead' = viewsHead /\ SameViews
  BY DEF CallInit, InitReturns, CallTerm, TermReturns, viewVars, SameViews
<1>2. ~Creating(d) /\ ~Creating(d)'
  BY DEF CallInit, InitReturns, CallTerm, TermReturns, Goto, TypeOK, Creating, MadePCs
<1>3. ScriptStep(d) /\ ~PushView(d)
  BY DEF CallInit, InitReturns, CallTerm, TermReturns, PushView, ScriptStep, ScriptGoesOn
<1>4. \A t \in Threads : t # d => arg'[t] = arg[t]
  BY <1>3, ScriptArgs
<1>5. \A t \in Threads : t # d /\ pc'[t] # pc[t] =>
        t \in UIs /\ pc[t] = "none" /\ pc'[t] \in {"gre", "unborn", "dead"}
  BY <1>3, ScriptMoves
<1>6. \A u \in UIs : pc'[u] \in LoopPCs <=> pc[u] \in LoopPCs
  BY <1>5 DEF LoopPCs
<1>7. \A s \in Scripts : s # d => pc'[s] = pc[s]
  BY <1>5
<1>8. \A s \in Scripts : /\ Creating(s)' <=> Creating(s)
                         /\ Creating(s) => arg'[s] = arg[s]
  BY <1>2, <1>4, <1>7 DEF Creating, MadePCs
<1> QED
  BY <1>1, <1>6, <1>8, LoopSame, StagesSame, WaitersSame

LEMMA InitStarts ==
  ASSUME OneDriver, WindowInv, SessionInv, NEW d \in Scripts, CallInit(d)
  PROVE  Service!Start \/ Service!StartAgain
<1> USE GeckoSessionAssumption
<1>1. TypeOK /\ ThreadKinds /\ d \in Drivers /\ \A e \in Drivers : e = d
  BY DEF WindowInv, CallInit, OneDriver
<1>2. PICK u \in UIs, l \in {"gre", "unborn", "dead"} :
        /\ pc[u] = "none" /\ pc' = [pc EXCEPT ![d] = "initPoll", ![u] = l]
        /\ session' = IF \A o \in UIs \ {u} : pc[o] \in IdlePCs THEN "off" ELSE "doubled"
  BY DEF CallInit
<1>3. pc[d] = "script" /\ pc'[d] = "initPoll"
  BY <1>1, <1>2 DEF CallInit, TypeOK
<1>4. session = "on" => session' = "doubled"
  BY <1>2 DEF SessionInv, Served, LoopPCs, IdlePCs
<1>5. session = "off" => session' = "off"
  BY <1>1, <1>2, <1>3 DEF SessionInv, Resting, AllIdle, Waiting
<1>6. session' = "off" => InLoop = {}
  BY <1>2 DEF InLoop, LoopPCs, IdlePCs
<1>7. /\ Phase = session
      /\ Phase' = IF session' = "off" THEN "starting" ELSE "doubled"
  BY <1>1, <1>2, <1>3, PhaseOfDriver
<1>8. session \in {"off", "on", "doubled"} /\ session' \in {"off", "doubled"}
  BY <1>1, <1>2 DEF TypeOK
<1>9. InLoop' = InLoop /\ Stages' = Stages /\ Waiters' = Waiters
  BY <1>1, DriverUnseen
<1> QED
  BY <1>4, <1>5, <1>6, <1>7, <1>8, <1>9 DEF Service!Start, Service!StartAgain, Service!Move

LEMMA InitAnswers ==
  ASSUME OneDriver, WindowInv, SessionInv, SessionInv', NEW d \in Scripts, InitReturns(d)
  PROVE  Service!Started \/ Service!Failed \/ Seen' = Seen
<1> USE GeckoSessionAssumption
<1>1. TypeOK /\ ThreadKinds
  BY DEF WindowInv
<1>2. /\ pc[d] = "initPoll" /\ pc'[d] = "script"
      /\ session' = IF session = "off" /\ pc[arg[d]] # "dead" THEN "on" ELSE session
  BY <1>1 DEF InitReturns, Goto, TypeOK
<1>3. d \in Drivers /\ \A e \in Drivers : e = d
  BY <1>2 DEF SessionInv, Waiting, OneDriver
<1>4. InLoop' = InLoop /\ Stages' = Stages /\ Waiters' = Waiters
  BY <1>1, DriverUnseen
<1>5. /\ Phase = IF session = "off" THEN "starting" ELSE session
      /\ Phase' = session'
  BY <1>2, <1>3, PhaseOfDriver
<1>6. session # "on" /\ session \in {"off", "on", "doubled"}
  BY <1>1, <1>2, <1>3 DEF SessionInv, Starting, TypeOK
<1>7. session' = "on" => InLoop' # {}
  BY DEF SessionInv, Served, InLoop, LoopPCs
<1>8. session' = "off" => InLoop' = {}
  BY <1>2, <1>3 DEF SessionInv, Resting, AllIdle, Waiting, InLoop, LoopPCs, IdlePCs
<1> QED
  BY <1>2, <1>4, <1>5, <1>6, <1>7, <1>8
     DEF Service!Started, Service!Failed, Service!Move, Seen

LEMMA TermEnds ==
  ASSUME OneDriver, WindowInv, SessionInv, NEW d \in Scripts, CallTerm(d)
  PROVE  Service!End \/ Seen' = Seen
<1> USE GeckoSessionAssumption
<1>1. TypeOK /\ ThreadKinds /\ d \in Drivers
  BY DEF WindowInv, CallTerm
<1>2. /\ pc[d] = "script" /\ pc'[d] = "termPoll"
      /\ session' = IF session = "on" THEN "off" ELSE session
      /\ session \in {"off", "on", "doubled"}
  BY <1>1 DEF CallTerm, Goto, TypeOK
<1>3. InLoop' = InLoop /\ Stages' = Stages /\ Waiters' = Waiters
  BY <1>1, DriverUnseen
<1>4. /\ Phase = session
      /\ Phase' = IF session = "doubled" THEN "doubled" ELSE "ending"
  BY <1>1, <1>2, PhaseOfDriver
<1> QED
  BY <1>2, <1>3, <1>4 DEF Service!End, Service!Move, Seen

LEMMA TermAnswers ==
  ASSUME OneDriver, WindowInv, SessionInv, SessionInv', NEW d \in Scripts, TermReturns(d)
  PROVE  Service!Ended \/ Seen' = Seen
<1> USE GeckoSessionAssumption
<1>1. TypeOK /\ ThreadKinds
  BY DEF WindowInv
<1>2. /\ pc[d] = "termPoll" /\ pc'[d] = "script" /\ session' = session
      /\ session \in {"off", "on", "doubled"}
  BY <1>1 DEF TermReturns, Goto, TypeOK, sessionVars
<1>3. d \in Drivers /\ \A e \in Drivers : e = d
  BY <1>2 DEF SessionInv, Waiting, OneDriver
<1>4. InLoop' = InLoop /\ Stages' = Stages /\ Waiters' = Waiters
  BY <1>1, DriverUnseen
<1>5. /\ Phase = IF session = "off" THEN "ending" ELSE session
      /\ Phase' = session
  BY <1>2, <1>3, PhaseOfDriver
<1>6. session' = "off" => InLoop' = {}
  BY <1>2, <1>3 DEF SessionInv, Resting, AllIdle, Waiting, InLoop, LoopPCs, IdlePCs
<1> QED
  BY <1>2, <1>4, <1>5, <1>6 DEF Service!Ended, Service!Move, Seen
-----------------------------------------------------------------------------
(* Steps of UI threads.                                                    *)
LEMMA UiUnseen ==
  ASSUME TypeOK, ThreadKinds, NEW u \in UIs, UiStep(u)
  PROVE  Phase' = Phase /\ Waiters' = Waiters
<1> USE GeckoSessionAssumption
<1>1. \A s \in Scripts : pc'[s] = pc[s] /\ arg'[s] = arg[s]
  BY UiMoves
<1>2. session' = session
  BY UiSteps, UiInnerStep
  DEF InitGRE, UiReady, UiChecksKeepGoing, UiMakesWindow, UiInitView, UiDestroyWindow,
      UiLeavesLock, UiUncounts, UiDeletesLock, sessionVars
<1> QED
  BY <1>1, <1>2, PhaseSame, WaitersSame DEF Creating, MadePCs

LEMMA ReadyEnters ==
  ASSUME OneDriver, WindowInv, SessionInv, NEW u \in UIs, UiStep(u), UiReady(u)
  PROVE  Service!Enter(u)
<1> USE GeckoSessionAssumption
<1>1. TypeOK /\ ThreadKinds
  BY DEF WindowInv
<1>2. /\ pc[u] = "context" /\ pc'[u] = "top"
      /\ \A o \in UIs : o # u => pc'[o] = pc[o]
      /\ viewsHead' = viewsHead /\ SameViews
  BY <1>1 DEF UiReady, Goto, TypeOK, viewVars, SameViews
<1>3. InLoop' = InLoop \union {u}
  BY <1>2 DEF InLoop, LoopPCs
<1>4. Stages' = Stages /\ Phase' = Phase /\ Waiters' = Waiters
  BY <1>1, <1>2, StagesSame, UiUnseen
<1>5. session # "on"
  BY <1>2 DEF SessionInv, Served, OthersIdle, LoopPCs, IdlePCs
<1>6. CASE session = "doubled"
  <2>1. Phase = "doubled"
    BY <1>6 DEF Phase
  <2> QED
    BY <1>3, <1>4, <2>1 DEF Service!Enter
<1>7. CASE session = "off"
  <2>1. PICK d \in Drivers : pc[d] \in Waiting
    BY <1>2, <1>7 DEF SessionInv, Resting, AllIdle, IdlePCs
  <2>2. pc[d] = "initPoll"
    BY <1>2, <1>7, <2>1 DEF SessionInv, Ending, Waiting
  <2>3. OthersIdle(arg[d])
    BY <1>7, <2>2 DEF SessionInv, Starting
  <2>4. InLoop = {}
    BY <1>2, <2>3 DEF InLoop, OthersIdle, LoopPCs, IdlePCs
  <2>5. Phase = "starting"
    BY <1>7, <2>2, PhaseOfDriver
  <2> QED
    BY <1>3, <1>4, <2>4, <2>5 DEF Service!Enter
<1> QED
  BY <1>1, <1>5, <1>6, <1>7 DEF TypeOK

LEMMA CheckLeaves ==
  ASSUME OneDriver, WindowInv, SessionInv, NEW u \in UIs, UiStep(u), UiChecksKeepGoing(u)
  PROVE  Service!Leave(u) \/ Seen' = Seen
<1> USE GeckoSessionAssumption
<1>1. TypeOK /\ ThreadKinds
  BY DEF WindowInv
<1>2. /\ pc[u] = "top" /\ pc'[u] = IF keepUIGoing THEN "scan" ELSE "ending"
      /\ \A o \in UIs : o # u => pc'[o] = pc[o]
      /\ viewsHead' = viewsHead /\ SameViews
  BY <1>1 DEF UiChecksKeepGoing, Goto, TypeOK, viewVars, SameViews
<1>3. Stages' = Stages /\ Phase' = Phase /\ Waiters' = Waiters
  BY <1>1, <1>2, StagesSame, UiUnseen
<1>4. CASE keepUIGoing
  <2>1. InLoop' = InLoop
    BY <1>2, <1>4 DEF InLoop, LoopPCs
  <2> QED
    BY <1>3, <2>1 DEF Seen
<1>5. CASE ~keepUIGoing
  <2>1. InLoop' = InLoop \ {u} /\ u \in InLoop
    BY <1>2, <1>5 DEF InLoop, LoopPCs
  <2>2. session # "on"
    BY <1>5 DEF SessionInv, Served
  <2>3. CASE session = "doubled"
    <3>1. Phase = "doubled"
      BY <2>3 DEF Phase
    <3> QED
      BY <1>3, <2>1, <3>1 DEF Service!Leave
  <2>4. CASE session = "off"
    <3>1. PICK d \in Drivers : pc[d] \in Waiting
      BY <1>2, <2>4 DEF SessionInv, Resting, AllIdle, IdlePCs
    <3>2. pc[d] = "termPoll"
      BY <1>5, <3>1 DEF SessionInv, Starting, Waiting
    <3>3. Phase = "ending"
      BY <2>4, <3>2, PhaseOfDriver
    <3> QED
      BY <1>3, <2>1, <3>3 DEF Service!Leave
  <2> QED
    BY <1>1, <2>2, <2>3, <2>4 DEF TypeOK
<1> QED
  BY <1>4, <1>5

LEMMA WindowMakes ==
  ASSUME TypeOK, ThreadKinds, NEW u \in UIs, UiStep(u), UiMakesWindow(u)
  PROVE  (\E v \in Views : Service!Make(v)) \/ Seen' = Seen
<1> USE GeckoSessionAssumption
<1>1. PICK v \in Listed :
           /\ v \in Views /\ view[v].initialized = FALSE /\ viewsHead' = viewsHead
           /\ view'[v].initialized = FALSE /\ view'[v].windows = view[v].windows + 1
           /\ \A w \in Views : w # v => view'[w] = view[w]
           /\ pc[u] = "scan" /\ pc'[u] = "making" /\ arg'[u] = v
           /\ \A t \in Threads : t # u => pc'[t] = pc[t] /\ arg'[t] = arg[t]
  BY MadeWindow
<1>2. Phase' = Phase /\ Waiters' = Waiters
  BY UiUnseen
<1>3. InLoop' = InLoop /\ InLoop # {}
  BY <1>1 DEF InLoop, LoopPCs
<1>4. Listed' = Listed /\ view[v].windows \in Nat
  BY <1>1 DEF Listed, TypeOK
<1>5. /\ Stage(v) = IF view[v].windows = 0 THEN "asked" ELSE "made"
      /\ Stage(v)' = "made"
  BY <1>1, <1>4 DEF Stage
<1>6. \A w \in Views : w # v => Stage(w)' = Stage(w)
  BY <1>1, <1>4 DEF Stage
<1>7. CASE view[v].windows = 0
  <2>1. Stages[v] = "asked" /\ Stages' = [Stages EXCEPT ![v] = "made"]
    BY <1>1, <1>5, <1>6, <1>7 DEF Stages
  <2> QED
    BY <1>1, <1>2, <1>3, <2>1 DEF Service!Make, Service!Advance
<1>8. CASE view[v].windows # 0
  <2>1. Stages' = Stages
    BY <1>5, <1>6, <1>8 DEF Stages
  <2> QED
    BY <1>2, <1>3, <2>1 DEF Seen
<1> QED
  BY <1>7, <1>8

LEMMA ViewShows ==
  ASSUME TypeOK, ThreadKinds, AskedInv, NEW u \in UIs, UiStep(u), UiInitView(u)
  PROVE  (\E v \in Views : Service!Show(v)) \/ Seen' = Seen
<1> USE GeckoSessionAssumption
<1> DEFINE v == arg[u]
<1>1. /\ v \in Views /\ viewsHead' = viewsHead
      /\ view'[v].initialized = TRUE /\ view'[v].windows = view[v].windows
      /\ \A w \in Views : w # v => view'[w] = view[w]
      /\ pc[u] = "making" /\ pc'[u] = "scan"
      /\ \A t \in Threads : arg'[t] = arg[t] /\ (t # u => pc'[t] = pc[t])
  BY InitialisedView
<1>2. Phase' = Phase /\ Waiters' = Waiters
  BY UiUnseen
<1>3. InLoop' = InLoop /\ InLoop # {}
  BY <1>1 DEF InLoop, LoopPCs
<1>4. Listed' = Listed /\ view[v].windows > 0
  BY <1>1 DEF Listed, AskedInv
<1>5. Stage(v) \in {"made", "shown"} /\ arg'[u] = v
  BY <1>1, <1>4 DEF Stage
<1>6. Stages' = [Stages EXCEPT ![v] = "shown"]
  <2>1. Stages' = [w \in Views |-> IF w = v THEN "shown" ELSE Stage(w)]
    BY <1>1, <1>4 DEF Stages, Stage
  <2> QED
    BY <1>1, <2>1 DEF Stages
<1>7. CASE Stage(v) = "made"
  <2>1. Stages[v] = "made"
    BY <1>1, <1>7 DEF Stages
  <2> QED
    BY <1>1, <1>2, <1>3, <1>6, <2>1 DEF Service!Show, Service!Advance
<1>8. CASE Stage(v) = "shown"
  <2>1. Stages' = Stages
    BY <1>1, <1>6, <1>8 DEF Stages
  <2> QED
    BY <1>2, <1>3, <2>1 DEF Seen
<1> QED
  BY <1>5, <1>7, <1>8

LEMMA UiRestUnseen ==
  ASSUME TypeOK, ThreadKinds, NEW u \in UIs, UiStep(u), ~UiReady(u),
         ~UiChecksKeepGoing(u), ~UiMakesWindow(u), ~UiInitView(u)
  PROVE  Seen' = Seen
<1> USE GeckoSessionAssumption
<1>1. viewsHead' = viewsHead /\ SameViews
  <2>1. CASE UiDestroyWindow(u)
    <3>1. \E v \in Listed : Set(v, "destroying", FALSE)
      BY <2>1 DEF UiDestroyWindow
    <3> QED
      BY <2>1, <3>1, MarkSame, ListedViews DEF UiDestroyWindow
  <2>2. CASE ~UiDestroyWindow(u)
    BY <2>2, UiSteps, UiInnerStep
    DEF InitGRE, UiLeavesLock, UiUncounts, UiDeletesLock, viewVars, SameViews
  <2> QED
    BY <2>1, <2>2
<1>2. pc'[u] \in LoopPCs <=> pc[u] \in LoopPCs
  BY UiSteps, UiInnerStep
  DEF InitGRE, UiDestroyWindow, UiLeavesLock, UiUncounts, UiDeletesLock, Goto, TypeOK, LoopPCs,
      GcMove
<1>3. InLoop' = InLoop
  BY <1>2, UiMoves, LoopSame
<1> QED
  BY <1>1, <1>3, StagesSame, UiUnseen DEF Seen
-----------------------------------------------------------------------------
(* When one script starts and ends the sessions, GeckoInit, GeckoTerm and  *)
(* CreateView keep what Sessions promises, for any number of scripts, of   *)
(* views and of sessions, doubled ones and overlapping ones included.      *)
THEOREM ServesSessionsAlways == ASSUME OneDriver PROVE Spec => ServesSessions
<1>1. WindowInv /\ AskedInv /\ [Next]_vars => AskedInv'
  BY AskedStep DEF WindowInv
<1>2. WindowInv /\ SessionInv /\ SessionInv' /\ AskedInv /\ [Next]_vars => [Service!Next]_Seen
  <2> SUFFICES ASSUME WindowInv, SessionInv, SessionInv', AskedInv, [Next]_vars
               PROVE  Service!Next \/ Seen' = Seen
    OBVIOUS
  <2>0. TypeOK /\ ThreadKinds
    BY DEF WindowInv
  <2>1. ASSUME NEW s \in Scripts, ScriptStep(s)
        PROVE  Service!Next \/ Seen' = Seen
    <3>1. CASE \/ ScriptStarts(s) \/ ScriptEnds(s) \/ CallInitFails(s)
               \/ CallCreateView(s) \/ DestroyView(s)
      BY <2>0, <3>1, ScriptUnseen
    <3>2. CASE CallInit(s)
      BY <3>2, InitStarts DEF Service!Next
    <3>3. CASE InitReturns(s)
      BY <3>3, InitAnswers DEF Service!Next
    <3>4. CASE CallTerm(s)
      BY <3>4, TermEnds DEF Service!Next
    <3>5. CASE TermReturns(s)
      BY <3>5, TermAnswers DEF Service!Next
    <3>6. CASE PushView(s)
      BY <2>0, <3>6, PushAsks DEF Service!Next
    <3>7. CASE CreateViewReturns(s)
      BY <2>0, <3>7, ReturnAnswers DEF Service!Next
    <3>8. CASE ScriptInner(s)
      BY <2>0, <3>8, InnerUnseen
    <3> QED
      BY <2>1, <3>1, <3>2, <3>3, <3>4, <3>5, <3>6, <3>7, <3>8, ScriptSteps
  <2>2. ASSUME NEW u \in UIs, UiStep(u)
        PROVE  Service!Next \/ Seen' = Seen
    <3>1. CASE UiReady(u)
      BY <2>2, <3>1, ReadyEnters DEF Service!Next
    <3>2. CASE UiChecksKeepGoing(u)
      BY <2>2, <3>2, CheckLeaves DEF Service!Next
    <3>3. CASE UiMakesWindow(u)
      BY <2>0, <2>2, <3>3, WindowMakes DEF Service!Next
    <3>4. CASE UiInitView(u)
      BY <2>0, <2>2, <3>4, ViewShows DEF Service!Next
    <3> QED
      BY <2>0, <2>2, <3>1, <3>2, <3>3, <3>4, UiRestUnseen
  <2>3. CASE UNCHANGED vars
    BY <2>3 DEF vars, sessionVars, viewVars, Seen, Phase, InLoop, LoopPCs, Stages, Stage,
       Listed, Waiters, Creating, MadePCs
  <2> QED
    BY <2>1, <2>2, <2>3 DEF Next
<1> QED
  BY InitSeen, InitAsked, SessionAlways, <1>1, <1>2, PTL
  DEF Spec, ServesSessions, Service!Spec, Seen, Service!vars
=============================================================================
