------------------------ MODULE ScriptThreads_proofs ------------------------
(***************************************************************************)
(* The safety properties of ScriptThreads hold for any number of script    *)
(* threads and any depth of nested evaluations.  The inductive invariant   *)
(* IInv has one lemma per part: the type invariant, the rendezvous of a    *)
(* new thread with its caller, the requests a thread holds, the collector, *)
(* Exit, and the function on its way from stack to stack.                  *)
(* From it follows that the host keeps the promise of HandOver.            *)
(***************************************************************************)
EXTENDS ScriptThreads, TLAPS

-----------------------------------------------------------------------------
(* The type invariant is inductive by itself.                              *)

(* Every step keeps every variable in its type. *)
LEMMA TypeOKStep ==
  ASSUME TypeOK, [Next]_vars
  PROVE  TypeOK'
<1> USE ScriptThreadsAssumption, NoThreadAssumption DEF TypeOK,
        RequestsTypeOK, PCs
(* Scripts: synchronous Eval and collections.                              *)
<1>1. ASSUME NEW t \in Threads, EvalBegin(t)
      PROVE  TypeOK'
  BY <1>1 DEF EvalBegin, BeginRequest, threadVars
<1>2. ASSUME NEW t \in Threads, EvalEnd(t)
      PROVE  TypeOK'
  BY <1>2 DEF EvalEnd, EndRequest, threadVars
<1>3. ASSUME NEW t \in Threads, BranchCallback(t)
      PROVE  TypeOK'
  BY <1>3 DEF BranchCallback, CallGC, GCPCs, Goto, exitVars, handVars
(* The caller of CreateThread or of an asynchronous Eval.                  *)
<1>4. ASSUME NEW t \in Threads, CreateThread(t)
      PROVE  TypeOK'
  BY <1>4 DEF CreateThread, BeginRequest, Goto, Runs, Spawn, SpawnFails,
         StartPCs, WaitPCs, exitVars, handVars
<1>5. ASSUME NEW t \in Threads, EvalAsync(t)
      PROVE  TypeOK'
  BY <1>5 DEF EvalAsync, Goto, Spawn, SpawnFails, StartPCs, WaitPCs, exitVars,
         handVars, requestVars
<1>6. ASSUME NEW t \in Threads, CallerReturns(t)
      PROVE  TypeOK'
  BY <1>6 DEF CallerReturns, EndRequest, Goto, exitVars, handVars, requestVars
(* The new thread.                                                         *)
<1>7. ASSUME NEW w \in Workers, NewContext(w)
      PROVE  TypeOK'
  BY <1>7 DEF NewContext, Goto, StartPCs, exitVars, handVars, requestVars
<1>8. ASSUME NEW w \in Workers, AddRoot(w)
      PROVE  TypeOK'
  BY <1>8 DEF AddRoot, Goto, StartPCs, exitVars, requestVars
<1>9. ASSUME NEW w \in Workers, SetRunningEvent(w)
      PROVE  TypeOK'
  BY <1>9 DEF SetRunningEvent, Goto, exitVars, requestVars
<1>10. ASSUME NEW w \in Workers, WorkerRequest(w)
      PROVE  TypeOK'
  BY <1>10 DEF WorkerRequest, BeginRequest, Goto, exitVars, handVars
<1>11. ASSUME NEW w \in Workers, TakeScript(w)
      PROVE  TypeOK'
  BY <1>11 DEF TakeScript, EndRequest, Goto, exitVars, requestVars
<1>12. ASSUME NEW w \in Workers, CallScript(w)
      PROVE  TypeOK'
  BY <1>12 DEF CallScript, Goto, exitVars, handVars, requestVars
<1>13. ASSUME NEW w \in Workers, ScriptReturns(w)
      PROVE  TypeOK'
  BY <1>13 DEF ScriptReturns, EndRequest, Goto, exitVars, handVars
<1>14. ASSUME NEW w \in Workers, ReuseStack(w)
      PROVE  TypeOK'
  BY <1>14 DEF ReuseStack, FrameLive, exitVars, requestVars
(* The collector.                                                          *)
<1>15. ASSUME NEW t \in Threads, DestroyContext(t)
      PROVE  TypeOK'
  BY <1>15 DEF DestroyContext, CallGC, GCPCs, Goto, exitVars, handVars
<1>16. ASSUME NEW t \in Threads, StartMarking(t)
      PROVE  TypeOK'
  BY <1>16 DEF StartMarking, MarkGC, threadVars
<1>17. ASSUME NEW t \in Threads, Sweep(t)
      PROVE  TypeOK'
  BY <1>17 DEF Sweep, Alive, DoneGC, FrameLive, Reachable, exitVars
<1>18. ASSUME NEW t \in Threads, LeaveGC(t)
      PROVE  TypeOK'
  BY <1>18 DEF LeaveGC, AfterGC, ExitPCs, GCPCs, GonePCs, Goto, LeavesGC,
         exitVars, handVars, requestVars
(* The two ways out.                                                       *)
<1>19. ASSUME NEW t \in Threads, DestroyRuntime(t)
      PROVE  TypeOK'
  BY <1>19 DEF DestroyRuntime, Goto, handVars, requestVars
<1>20. ASSUME NEW t \in Threads, ProcessEnds(t)
      PROVE  TypeOK'
  BY <1>20 DEF ProcessEnds, Alive, GonePCs, exitVars, handVars, requestVars
<1>21. ASSUME NEW t \in Threads, ExitSnapshot(t)
      PROVE  TypeOK'
  BY <1>21 DEF ExitSnapshot, Alive, ExitPCs, Goto, handVars, requestVars
<1>22. ASSUME NEW t \in Threads, NEW u \in Threads, ExitKill(t, u)
      PROVE  TypeOK'
  BY <1>22 DEF ExitKill, Alive, GonePCs, handVars, requestVars
<1>23. ASSUME NEW t \in Threads, ExitKilledAll(t)
      PROVE  TypeOK'
  BY <1>23 DEF ExitKilledAll, ExitPCs, Goto, exitVars, handVars, requestVars
<1>24. ASSUME NEW t \in Threads, NEW u \in Threads, ExitFreeContext(t, u)
      PROVE  TypeOK'
  BY <1>24 DEF ExitFreeContext, EndAllRequests, exitVars, handVars
<1>25. ASSUME NEW t \in Threads, ExitCollect(t)
      PROVE  TypeOK'
  BY <1>25 DEF ExitCollect, CallGC, ExitPCs, Goto, exitVars, handVars
<1>26. ASSUME NEW t \in Threads, ExitDestroyContext(t)
      PROVE  TypeOK'
  BY <1>26 DEF ExitDestroyContext, CallGC, EndAllRequests, ExitPCs, Goto,
         exitVars, handVars
<1>27. CASE UNCHANGED vars
  BY <1>27 DEF vars, threadVars, requestVars
<1> QED
  BY <1>1, <1>2, <1>3, <1>4, <1>5, <1>6, <1>7, <1>8, <1>9, <1>10, <1>11,
     <1>12, <1>13, <1>14, <1>15, <1>16, <1>17, <1>18, <1>19, <1>20, <1>21,
     <1>22, <1>23, <1>24, <1>25, <1>26, <1>27
  DEF Next, HostStep, WorkerStep
-----------------------------------------------------------------------------
(* The parts of the inductive invariant.                                   *)

(* A starting thread is awaited: only SetRunningEvent adds to evt, and it   *)
(* takes the thread out of StartPCs; only CallerReturns ends a wait, and    *)
(* only for a thread in evt; only a thread that waits for nobody spawns.    *)
LEMMA StartInvStep ==
  ASSUME TypeOK, StartInv, [Next]_vars
  PROVE  StartInv'
<1> USE ScriptThreadsAssumption, NoThreadAssumption DEF StartInv, TypeOK,
        StartPCs, WaitPCs
(* Scripts: synchronous Eval and collections.                              *)
<1>1. ASSUME NEW t \in Threads, EvalBegin(t)
      PROVE  StartInv'
  BY <1>1 DEF EvalBegin, BeginRequest, threadVars
<1>2. ASSUME NEW t \in Threads, EvalEnd(t)
      PROVE  StartInv'
  BY <1>2 DEF EvalEnd, EndRequest, threadVars
<1>3. ASSUME NEW t \in Threads, BranchCallback(t)
      PROVE  StartInv'
  BY <1>3 DEF BranchCallback, CallGC, Goto, exitVars, handVars
(* The caller of CreateThread or of an asynchronous Eval.                  *)
<1>4. ASSUME NEW t \in Threads, CreateThread(t)
      PROVE  StartInv'
  BY <1>4 DEF CreateThread, BeginRequest, Goto, Spawn, SpawnFails, exitVars,
         handVars
<1>5. ASSUME NEW t \in Threads, EvalAsync(t)
      PROVE  StartInv'
  BY <1>5 DEF EvalAsync, Goto, Spawn, SpawnFails, exitVars, handVars,
         requestVars
<1>6. ASSUME NEW t \in Threads, CallerReturns(t)
      PROVE  StartInv'
  BY <1>6 DEF CallerReturns, EndRequest, Goto, exitVars, handVars, requestVars
(* The new thread.                                                         *)
<1>7. ASSUME NEW w \in Workers, NewContext(w)
      PROVE  StartInv'
  BY <1>7 DEF NewContext, Goto, exitVars, handVars, requestVars
<1>8. ASSUME NEW w \in Workers, AddRoot(w)
      PROVE  StartInv'
  BY <1>8 DEF AddRoot, Goto, exitVars, requestVars
<1>9. ASSUME NEW w \in Workers, SetRunningEvent(w)
      PROVE  StartInv'
  BY <1>9 DEF SetRunningEvent, Goto, exitVars, requestVars
<1>10. ASSUME NEW w \in Workers, WorkerRequest(w)
      PROVE  StartInv'
  BY <1>10 DEF WorkerRequest, BeginRequest, Goto, exitVars, handVars
<1>11. ASSUME NEW w \in Workers, TakeScript(w)
      PROVE  StartInv'
  BY <1>11 DEF TakeScript, EndRequest, Goto, exitVars, requestVars
<1>12. ASSUME NEW w \in Workers, CallScript(w)
      PROVE  StartInv'
  BY <1>12 DEF CallScript, Goto, exitVars, handVars, requestVars
<1>13. ASSUME NEW w \in Workers, ScriptReturns(w)
      PROVE  StartInv'
  BY <1>13 DEF ScriptReturns, EndRequest, Goto, exitVars, handVars
<1>14. ASSUME NEW w \in Workers, ReuseStack(w)
      PROVE  StartInv'
  BY <1>14 DEF ReuseStack, FrameLive, exitVars, requestVars
(* The collector.                                                          *)
<1>15. ASSUME NEW t \in Threads, DestroyContext(t)
      PROVE  StartInv'
  BY <1>15 DEF DestroyContext, CallGC, Goto, exitVars, handVars
<1>16. ASSUME NEW t \in Threads, StartMarking(t)
      PROVE  StartInv'
  BY <1>16 DEF StartMarking, MarkGC, threadVars
<1>17. ASSUME NEW t \in Threads, Sweep(t)
      PROVE  StartInv'
  BY <1>17 DEF Sweep, Alive, DoneGC, FrameLive, Reachable, exitVars
<1>18. ASSUME NEW t \in Threads, LeaveGC(t)
      PROVE  StartInv'
  BY <1>18 DEF LeaveGC, AfterGC, GCPCs, Goto, LeavesGC, exitVars, handVars,
         requestVars
(* The two ways out.                                                       *)
<1>19. ASSUME NEW t \in Threads, DestroyRuntime(t)
      PROVE  StartInv'
  BY <1>19 DEF DestroyRuntime, Goto, handVars, requestVars
<1>20. ASSUME NEW t \in Threads, ProcessEnds(t)
      PROVE  StartInv'
  BY <1>20 DEF ProcessEnds, Alive, exitVars, handVars, requestVars
<1>21. ASSUME NEW t \in Threads, ExitSnapshot(t)
      PROVE  StartInv'
  BY <1>21 DEF ExitSnapshot, Alive, Goto, handVars, requestVars
<1>22. ASSUME NEW t \in Threads, NEW u \in Threads, ExitKill(t, u)
      PROVE  StartInv'
  BY <1>22 DEF ExitKill, Alive, handVars, requestVars
<1>23. ASSUME NEW t \in Threads, ExitKilledAll(t)
      PROVE  StartInv'
  BY <1>23 DEF ExitKilledAll, Goto, exitVars, handVars, requestVars
<1>24. ASSUME NEW t \in Threads, NEW u \in Threads, ExitFreeContext(t, u)
      PROVE  StartInv'
  BY <1>24 DEF ExitFreeContext, EndAllRequests, exitVars, handVars
<1>25. ASSUME NEW t \in Threads, ExitCollect(t)
      PROVE  StartInv'
  BY <1>25 DEF ExitCollect, CallGC, Goto, exitVars, handVars
<1>26. ASSUME NEW t \in Threads, ExitDestroyContext(t)
      PROVE  StartInv'
  BY <1>26 DEF ExitDestroyContext, CallGC, EndAllRequests, Goto, exitVars,
         handVars
<1>27. CASE UNCHANGED vars
  BY <1>27 DEF vars, threadVars, requestVars
<1> QED
  BY <1>1, <1>2, <1>3, <1>4, <1>5, <1>6, <1>7, <1>8, <1>9, <1>10, <1>11,
     <1>12, <1>13, <1>14, <1>15, <1>16, <1>17, <1>18, <1>19, <1>20, <1>21,
     <1>22, <1>23, <1>24, <1>25, <1>26, <1>27
  DEF Next, HostStep, WorkerStep

(* A worker holds the request it took before it read its slot until its     *)
(* script has returned, and the native CreateThread one more.               *)
LEMMA RequestInvStep ==
  ASSUME TypeOK, RequestInv, [Next]_vars
  PROVE  RequestInv'
<1> USE ScriptThreadsAssumption, NoThreadAssumption DEF RequestInv, TypeOK
(* Scripts: synchronous Eval and collections.                              *)
<1>1. ASSUME NEW t \in Threads, EvalBegin(t)
      PROVE  RequestInv'
  BY <1>1 DEF EvalBegin, BeginRequest, RequestsTypeOK, threadVars
<1>2. ASSUME NEW t \in Threads, EvalEnd(t)
      PROVE  RequestInv'
  BY <1>2 DEF EvalEnd, BaseDepth, EndRequest, RequestsTypeOK, threadVars
<1>3. ASSUME NEW t \in Threads, BranchCallback(t)
      PROVE  RequestInv'
  BY <1>3 DEF BranchCallback, CallGC, Goto, exitVars, handVars
(* The caller of CreateThread or of an asynchronous Eval.                  *)
<1>4. ASSUME NEW t \in Threads, CreateThread(t)
      PROVE  RequestInv'
  BY <1>4 DEF CreateThread, BeginRequest, Goto, RequestsTypeOK, Spawn,
         SpawnFails, exitVars, handVars
<1>5. ASSUME NEW t \in Threads, EvalAsync(t)
      PROVE  RequestInv'
  BY <1>5 DEF EvalAsync, Goto, Spawn, SpawnFails, exitVars, handVars,
         requestVars
<1>6. ASSUME NEW t \in Threads, CallerReturns(t)
      PROVE  RequestInv'
  BY <1>6 DEF CallerReturns, EndRequest, Goto, RequestsTypeOK, WaitPCs,
         exitVars, handVars, requestVars
(* The new thread.                                                         *)
<1>7. ASSUME NEW w \in Workers, NewContext(w)
      PROVE  RequestInv'
  BY <1>7 DEF NewContext, Goto, exitVars, handVars, requestVars
<1>8. ASSUME NEW w \in Workers, AddRoot(w)
      PROVE  RequestInv'
  BY <1>8 DEF AddRoot, Goto, exitVars, requestVars
<1>9. ASSUME NEW w \in Workers, SetRunningEvent(w)
      PROVE  RequestInv'
  BY <1>9 DEF SetRunningEvent, Goto, exitVars, requestVars
<1>10. ASSUME NEW w \in Workers, WorkerRequest(w)
      PROVE  RequestInv'
  BY <1>10 DEF WorkerRequest, BeginRequest, Goto, RequestsTypeOK, exitVars,
         handVars
<1>11. ASSUME NEW w \in Workers, TakeScript(w)
      PROVE  RequestInv'
  BY <1>11 DEF TakeScript, EndRequest, Goto, RequestsTypeOK, exitVars,
         requestVars
<1>12. ASSUME NEW w \in Workers, CallScript(w)
      PROVE  RequestInv'
  BY <1>12 DEF CallScript, Goto, exitVars, handVars, requestVars
<1>13. ASSUME NEW w \in Workers, ScriptReturns(w)
      PROVE  RequestInv'
  BY <1>13 DEF ScriptReturns, EndRequest, Goto, exitVars, handVars
<1>14. ASSUME NEW w \in Workers, ReuseStack(w)
      PROVE  RequestInv'
  BY <1>14 DEF ReuseStack, FrameLive, exitVars, requestVars
(* The collector.                                                          *)
<1>15. ASSUME NEW t \in Threads, DestroyContext(t)
      PROVE  RequestInv'
  BY <1>15 DEF DestroyContext, CallGC, Goto, exitVars, handVars
<1>16. ASSUME NEW t \in Threads, StartMarking(t)
      PROVE  RequestInv'
  BY <1>16 DEF StartMarking, MarkGC, threadVars
<1>17. ASSUME NEW t \in Threads, Sweep(t)
      PROVE  RequestInv'
  BY <1>17 DEF Sweep, Alive, DoneGC, FrameLive, Reachable, exitVars
<1>18. ASSUME NEW t \in Threads, LeaveGC(t)
      PROVE  RequestInv'
  BY <1>18 DEF LeaveGC, AfterGC, GCPCs, Goto, LeavesGC, exitVars, handVars,
         requestVars
(* The two ways out.                                                       *)
<1>19. ASSUME NEW t \in Threads, DestroyRuntime(t)
      PROVE  RequestInv'
  BY <1>19 DEF DestroyRuntime, Goto, handVars, requestVars
<1>20. ASSUME NEW t \in Threads, ProcessEnds(t)
      PROVE  RequestInv'
  BY <1>20 DEF ProcessEnds, Alive, exitVars, handVars, requestVars
<1>21. ASSUME NEW t \in Threads, ExitSnapshot(t)
      PROVE  RequestInv'
  BY <1>21 DEF ExitSnapshot, Alive, Goto, handVars, requestVars
<1>22. ASSUME NEW t \in Threads, NEW u \in Threads, ExitKill(t, u)
      PROVE  RequestInv'
  BY <1>22 DEF ExitKill, Alive, handVars, requestVars
<1>23. ASSUME NEW t \in Threads, ExitKilledAll(t)
      PROVE  RequestInv'
  BY <1>23 DEF ExitKilledAll, Goto, exitVars, handVars, requestVars
<1>24. ASSUME NEW t \in Threads, NEW u \in Threads, ExitFreeContext(t, u)
      PROVE  RequestInv'
  BY <1>24 DEF ExitFreeContext, EndAllRequests, exitVars, handVars
<1>25. ASSUME NEW t \in Threads, ExitCollect(t)
      PROVE  RequestInv'
  BY <1>25 DEF ExitCollect, CallGC, Goto, exitVars, handVars
<1>26. ASSUME NEW t \in Threads, ExitDestroyContext(t)
      PROVE  RequestInv'
  BY <1>26 DEF ExitDestroyContext, CallGC, EndAllRequests, Goto, exitVars,
         handVars
<1>27. CASE UNCHANGED vars
  BY <1>27 DEF vars, threadVars, requestVars
<1> QED
  BY <1>1, <1>2, <1>3, <1>4, <1>5, <1>6, <1>7, <1>8, <1>9, <1>10, <1>11,
     <1>12, <1>13, <1>14, <1>15, <1>16, <1>17, <1>18, <1>19, <1>20, <1>21,
     <1>22, <1>23, <1>24, <1>25, <1>26, <1>27
  DEF Next, HostStep, WorkerStep

(* Only StartMarking makes gcRunning true, with every other request drained *)
(* (MarkGC); from then to Sweep nobody begins an outermost request.         *)
LEMMA CollectorInvStep ==
  ASSUME TypeOK, CollectorInv, [Next]_vars
  PROVE  CollectorInv'
<1> USE ScriptThreadsAssumption, NoThreadAssumption DEF CollectorInv, TypeOK,
        GCPCs
(* Scripts: synchronous Eval and collections.                              *)
<1>1. ASSUME NEW t \in Threads, EvalBegin(t)
      PROVE  CollectorInv'
  BY <1>1 DEF EvalBegin, BeginRequest, CanBegin, threadVars
<1>2. ASSUME NEW t \in Threads, EvalEnd(t)
      PROVE  CollectorInv'
  BY <1>2 DEF EvalEnd, EndRequest, threadVars
<1>3. ASSUME NEW t \in Threads, BranchCallback(t)
      PROVE  CollectorInv'
  BY <1>3 DEF BranchCallback, CallGC, Goto, exitVars, handVars
(* The caller of CreateThread or of an asynchronous Eval.                  *)
<1>4. ASSUME NEW t \in Threads, CreateThread(t)
      PROVE  CollectorInv'
  BY <1>4 DEF CreateThread, BeginRequest, CanBegin, Goto, Spawn, SpawnFails,
         exitVars, handVars
<1>5. ASSUME NEW t \in Threads, EvalAsync(t)
      PROVE  CollectorInv'
  BY <1>5 DEF EvalAsync, Goto, Spawn, SpawnFails, exitVars, handVars,
         requestVars
<1>6. ASSUME NEW t \in Threads, CallerReturns(t)
      PROVE  CollectorInv'
  BY <1>6 DEF CallerReturns, EndRequest, Goto, WaitPCs, exitVars, handVars,
         requestVars
(* The new thread.                                                         *)
<1>7. ASSUME NEW w \in Workers, NewContext(w)
      PROVE  CollectorInv'
  BY <1>7 DEF NewContext, Goto, exitVars, handVars, requestVars
<1>8. ASSUME NEW w \in Workers, AddRoot(w)
      PROVE  CollectorInv'
  BY <1>8 DEF AddRoot, Goto, exitVars, requestVars
<1>9. ASSUME NEW w \in Workers, SetRunningEvent(w)
      PROVE  CollectorInv'
  BY <1>9 DEF SetRunningEvent, Goto, exitVars, requestVars
<1>10. ASSUME NEW w \in Workers, WorkerRequest(w)
      PROVE  CollectorInv'
  BY <1>10 DEF WorkerRequest, BeginRequest, CanBegin, Goto, exitVars, handVars
<1>11. ASSUME NEW w \in Workers, TakeScript(w)
      PROVE  CollectorInv'
  BY <1>11 DEF TakeScript, EndRequest, Goto, exitVars, requestVars
<1>12. ASSUME NEW w \in Workers, CallScript(w)
      PROVE  CollectorInv'
  BY <1>12 DEF CallScript, Goto, exitVars, handVars, requestVars
<1>13. ASSUME NEW w \in Workers, ScriptReturns(w)
      PROVE  CollectorInv'
  BY <1>13 DEF ScriptReturns, EndRequest, Goto, exitVars, handVars
<1>14. ASSUME NEW w \in Workers, ReuseStack(w)
      PROVE  CollectorInv'
  BY <1>14 DEF ReuseStack, FrameLive, exitVars, requestVars
(* The collector.                                                          *)
<1>15. ASSUME NEW t \in Threads, DestroyContext(t)
      PROVE  CollectorInv'
  BY <1>15 DEF DestroyContext, CallGC, Goto, exitVars, handVars
<1>16. ASSUME NEW t \in Threads, StartMarking(t)
      PROVE  CollectorInv'
  BY <1>16 DEF StartMarking, MarkGC, RequestsDrained, threadVars
<1>17. ASSUME NEW t \in Threads, Sweep(t)
      PROVE  CollectorInv'
  BY <1>17 DEF Sweep, Alive, DoneGC, FrameLive, Reachable, exitVars
<1>18. ASSUME NEW t \in Threads, LeaveGC(t)
      PROVE  CollectorInv'
  BY <1>18 DEF LeaveGC, AfterGC, Goto, LeavesGC, exitVars, handVars,
         requestVars
(* The two ways out.                                                       *)
<1>19. ASSUME NEW t \in Threads, DestroyRuntime(t)
      PROVE  CollectorInv'
  BY <1>19 DEF DestroyRuntime, Goto, handVars, requestVars
<1>20. ASSUME NEW t \in Threads, ProcessEnds(t)
      PROVE  CollectorInv'
  BY <1>20 DEF ProcessEnds, Alive, exitVars, handVars, requestVars
<1>21. ASSUME NEW t \in Threads, ExitSnapshot(t)
      PROVE  CollectorInv'
  BY <1>21 DEF ExitSnapshot, Alive, Goto, handVars, requestVars
<1>22. ASSUME NEW t \in Threads, NEW u \in Threads, ExitKill(t, u)
      PROVE  CollectorInv'
  BY <1>22 DEF ExitKill, Alive, handVars, requestVars
<1>23. ASSUME NEW t \in Threads, ExitKilledAll(t)
      PROVE  CollectorInv'
  BY <1>23 DEF ExitKilledAll, Goto, exitVars, handVars, requestVars
<1>24. ASSUME NEW t \in Threads, NEW u \in Threads, ExitFreeContext(t, u)
      PROVE  CollectorInv'
  BY <1>24 DEF ExitFreeContext, EndAllRequests, exitVars, handVars
<1>25. ASSUME NEW t \in Threads, ExitCollect(t)
      PROVE  CollectorInv'
  BY <1>25 DEF ExitCollect, CallGC, Goto, exitVars, handVars
<1>26. ASSUME NEW t \in Threads, ExitDestroyContext(t)
      PROVE  CollectorInv'
  BY <1>26 DEF ExitDestroyContext, CallGC, EndAllRequests, Goto, exitVars,
         handVars
<1>27. CASE UNCHANGED vars
  BY <1>27 DEF vars, threadVars, requestVars
<1> QED
  BY <1>1, <1>2, <1>3, <1>4, <1>5, <1>6, <1>7, <1>8, <1>9, <1>10, <1>11,
     <1>12, <1>13, <1>14, <1>15, <1>16, <1>17, <1>18, <1>19, <1>20, <1>21,
     <1>22, <1>23, <1>24, <1>25, <1>26, <1>27
  DEF Next, HostStep, WorkerStep

(* ExitSnapshot lists everybody alive, ExitKill removes from the list only  *)
(* whom it has killed, and Spawn marks whom it creates meanwhile as late.   *)
LEMMA ExitInvStep ==
  ASSUME TypeOK, ExitInv, [Next]_vars
  PROVE  ExitInv'
<1> USE ScriptThreadsAssumption, NoThreadAssumption DEF ExitInv, Alive,
        TypeOK, ExitPCs, GonePCs
(* Scripts: synchronous Eval and collections.                              *)
<1>1. ASSUME NEW t \in Threads, EvalBegin(t)
      PROVE  ExitInv'
  BY <1>1 DEF EvalBegin, BeginRequest, threadVars
<1>2. ASSUME NEW t \in Threads, EvalEnd(t)
      PROVE  ExitInv'
  BY <1>2 DEF EvalEnd, EndRequest, threadVars
<1>3. ASSUME NEW t \in Threads, BranchCallback(t)
      PROVE  ExitInv'
  BY <1>3 DEF BranchCallback, CallGC, Goto, exitVars, handVars
(* The caller of CreateThread or of an asynchronous Eval.                  *)
<1>4. ASSUME NEW t \in Threads, CreateThread(t)
      PROVE  ExitInv'
  BY <1>4 DEF CreateThread, BeginRequest, Goto, Spawn, SpawnFails, exitVars,
         handVars
<1>5. ASSUME NEW t \in Threads, EvalAsync(t)
      PROVE  ExitInv'
  BY <1>5 DEF EvalAsync, Goto, Spawn, SpawnFails, exitVars, handVars,
         requestVars
<1>6. ASSUME NEW t \in Threads, CallerReturns(t)
      PROVE  ExitInv'
  BY <1>6 DEF CallerReturns, EndRequest, Goto, WaitPCs, exitVars, handVars,
         requestVars
(* The new thread.                                                         *)
<1>7. ASSUME NEW w \in Workers, NewContext(w)
      PROVE  ExitInv'
  BY <1>7 DEF NewContext, Goto, exitVars, handVars, requestVars
<1>8. ASSUME NEW w \in Workers, AddRoot(w)
      PROVE  ExitInv'
  BY <1>8 DEF AddRoot, Goto, exitVars, requestVars
<1>9. ASSUME NEW w \in Workers, SetRunningEvent(w)
      PROVE  ExitInv'
  BY <1>9 DEF SetRunningEvent, Goto, exitVars, requestVars
<1>10. ASSUME NEW w \in Workers, WorkerRequest(w)
      PROVE  ExitInv'
  BY <1>10 DEF WorkerRequest, BeginRequest, Goto, exitVars, handVars
<1>11. ASSUME NEW w \in Workers, TakeScript(w)
      PROVE  ExitInv'
  BY <1>11 DEF TakeScript, EndRequest, Goto, exitVars, requestVars
<1>12. ASSUME NEW w \in Workers, CallScript(w)
      PROVE  ExitInv'
  BY <1>12 DEF CallScript, Goto, exitVars, handVars, requestVars
<1>13. ASSUME NEW w \in Workers, ScriptReturns(w)
      PROVE  ExitInv'
  BY <1>13 DEF ScriptReturns, EndRequest, Goto, exitVars, handVars
<1>14. ASSUME NEW w \in Workers, ReuseStack(w)
      PROVE  ExitInv'
  BY <1>14 DEF ReuseStack, FrameLive, exitVars, requestVars
(* The collector.                                                          *)
<1>15. ASSUME NEW t \in Threads, DestroyContext(t)
      PROVE  ExitInv'
  BY <1>15 DEF DestroyContext, CallGC, Goto, exitVars, handVars
<1>16. ASSUME NEW t \in Threads, StartMarking(t)
      PROVE  ExitInv'
  BY <1>16 DEF StartMarking, MarkGC, threadVars
<1>17. ASSUME NEW t \in Threads, Sweep(t)
      PROVE  ExitInv'
  BY <1>17 DEF Sweep, DoneGC, FrameLive, Reachable, exitVars
<1>18. ASSUME NEW t \in Threads, LeaveGC(t)
      PROVE  ExitInv'
  BY <1>18 DEF LeaveGC, AfterGC, GCPCs, Goto, LeavesGC, exitVars, handVars,
         requestVars
(* The two ways out.                                                       *)
<1>19. ASSUME NEW t \in Threads, DestroyRuntime(t)
      PROVE  ExitInv'
  BY <1>19 DEF DestroyRuntime, Goto, handVars, requestVars
<1>20. ASSUME NEW t \in Threads, ProcessEnds(t)
      PROVE  ExitInv'
  BY <1>20 DEF ProcessEnds, exitVars, handVars, requestVars
<1>21. ASSUME NEW t \in Threads, ExitSnapshot(t)
      PROVE  ExitInv'
  BY <1>21 DEF ExitSnapshot, Goto, handVars, requestVars
<1>22. ASSUME NEW t \in Threads, NEW u \in Threads, ExitKill(t, u)
      PROVE  ExitInv'
  BY <1>22 DEF ExitKill, handVars, requestVars
<1>23. ASSUME NEW t \in Threads, ExitKilledAll(t)
      PROVE  ExitInv'
  BY <1>23 DEF ExitKilledAll, Goto, exitVars, handVars, requestVars
<1>24. ASSUME NEW t \in Threads, NEW u \in Threads, ExitFreeContext(t, u)
      PROVE  ExitInv'
  BY <1>24 DEF ExitFreeContext, EndAllRequests, exitVars, handVars
<1>25. ASSUME NEW t \in Threads, ExitCollect(t)
      PROVE  ExitInv'
  BY <1>25 DEF ExitCollect, CallGC, Goto, exitVars, handVars
<1>26. ASSUME NEW t \in Threads, ExitDestroyContext(t)
      PROVE  ExitInv'
  BY <1>26 DEF ExitDestroyContext, CallGC, EndAllRequests, Goto, exitVars,
         handVars
<1>27. CASE UNCHANGED vars
  BY <1>27 DEF vars, threadVars, requestVars
<1> QED
  BY <1>1, <1>2, <1>3, <1>4, <1>5, <1>6, <1>7, <1>8, <1>9, <1>10, <1>11,
     <1>12, <1>13, <1>14, <1>15, <1>16, <1>17, <1>18, <1>19, <1>20, <1>21,
     <1>22, <1>23, <1>24, <1>25, <1>26, <1>27
  DEF Next, HostStep, WorkerStep

(* The function stays reachable from the spawn to the call: Sweep, which    *)
(* frees, ExitFreeContext, which frees the context of the stack the slot    *)
(* lies on, and TakeScript, which drops the root, are the steps to fear.    *)
LEMMA SlotInvStep ==
  ASSUME IInv, [Next]_vars
  PROVE  SlotInv'
<1> USE ScriptThreadsAssumption, NoThreadAssumption DEF SlotInv, StartInv,
        RequestInv, CollectorInv, ExitInv, Alive, IInv, TypeOK, StartPCs
(* Scripts: synchronous Eval and collections.                              *)
<1>1. ASSUME NEW t \in Threads, EvalBegin(t)
      PROVE  SlotInv'
  BY <1>1 DEF EvalBegin, BeginRequest, threadVars
<1>2. ASSUME NEW t \in Threads, EvalEnd(t)
      PROVE  SlotInv'
  BY <1>2 DEF EvalEnd, EndRequest, threadVars
<1>3. ASSUME NEW t \in Threads, BranchCallback(t)
      PROVE  SlotInv'
  BY <1>3 DEF BranchCallback, CallGC, Goto, exitVars, handVars
(* The caller of CreateThread or of an asynchronous Eval.                  *)
<1>4. ASSUME NEW t \in Threads, CreateThread(t)
      PROVE  SlotInv'
  BY <1>4 DEF CreateThread, BeginRequest, Goto, Runs, Spawn, SpawnFails,
         exitVars, handVars
<1>5. ASSUME NEW t \in Threads, EvalAsync(t)
      PROVE  SlotInv'
  BY <1>5 DEF EvalAsync, Goto, Runs, Spawn, SpawnFails, exitVars, handVars,
         requestVars
<1>6. ASSUME NEW t \in Threads, CallerReturns(t)
      PROVE  SlotInv'
  BY <1>6 DEF CallerReturns, EndRequest, Goto, WaitPCs, exitVars, handVars,
         requestVars
(* The new thread.                                                         *)
<1>7. ASSUME NEW w \in Workers, NewContext(w)
      PROVE  SlotInv'
  BY <1>7 DEF NewContext, Goto, exitVars, handVars, requestVars
<1>8. ASSUME NEW w \in Workers, AddRoot(w)
      PROVE  SlotInv'
  BY <1>8 DEF AddRoot, Goto, exitVars, requestVars
<1>9. ASSUME NEW w \in Workers, SetRunningEvent(w)
      PROVE  SlotInv'
  BY <1>9 DEF SetRunningEvent, Goto, exitVars, requestVars
<1>10. ASSUME NEW w \in Workers, WorkerRequest(w)
      PROVE  SlotInv'
  BY <1>10 DEF WorkerRequest, BeginRequest, Goto, exitVars, handVars
<1>11. ASSUME NEW w \in Workers, TakeScript(w)
      PROVE  SlotInv'
  <2>1. PICK g \in {"mine", "other", "neither"} :
          /\ got' = [got EXCEPT ![w] = g]
          /\ g = "mine" => slot[w] = "intact"
          /\ pc' = [pc EXCEPT ![w] = IF g = "neither" THEN "ended" ELSE "loaded"]
          /\ rooted' = IF g = "neither" THEN rooted ELSE rooted \ {w}
    BY <1>11 DEF TakeScript, Goto
  <2>2. pc[w] = "reading" /\ UNCHANGED <<ctx, slot, parent, collected, late>>
    BY <1>11 DEF TakeScript, exitVars
  <2> QED BY <2>1, <2>2
<1>12. ASSUME NEW w \in Workers, CallScript(w)
      PROVE  SlotInv'
  BY <1>12 DEF CallScript, Goto, exitVars, handVars, requestVars
<1>13. ASSUME NEW w \in Workers, ScriptReturns(w)
      PROVE  SlotInv'
  BY <1>13 DEF ScriptReturns, EndRequest, Goto, exitVars, handVars
<1>14. ASSUME NEW w \in Workers, ReuseStack(w)
      PROVE  SlotInv'
  BY <1>14 DEF ReuseStack, FrameLive, exitVars, requestVars
(* The collector.                                                          *)
<1>15. ASSUME NEW t \in Threads, DestroyContext(t)
      PROVE  SlotInv'
  BY <1>15 DEF DestroyContext, CallGC, Goto, exitVars, handVars
<1>16. ASSUME NEW t \in Threads, StartMarking(t)
      PROVE  SlotInv'
  BY <1>16 DEF StartMarking, MarkGC, threadVars
<1>17. ASSUME NEW t \in Threads, Sweep(t)
      PROVE  SlotInv'
  <2> DEFINE freed == {w \in Workers : Alive(w) /\ ~Reachable(w)}
  <2>1. /\ collected' = collected \union freed
        /\ UNCHANGED <<pc, ctx, slot, parent, rooted, got, late>>
        /\ gcRunning /\ gcThread = t
    BY <1>17 DEF Sweep, DoneGC, exitVars
  <2>2. ASSUME NEW w \in Workers \ late, pc[w] \in StartPCs
        PROVE  w \notin freed
    (* Its slot lies on the stack of a caller that cannot have returned. *)
    BY <2>2 DEF Reachable, FrameLive
  <2>3. ASSUME NEW w \in Workers \ late, slot[w] = "intact",
               pc[w] \in {"signalled", "reading"}
        PROVE  w \notin freed
    (* Its slot is a root. *)
    BY <2>3 DEF Reachable
  <2>4. ASSUME NEW w \in Workers \ late, pc[w] = "loaded", ctx[w] = "live"
        PROVE  FALSE
    (* It is in a request, and the collector has waited for those. *)
    <3>1. depth[w] >= 1 /\ w \in Threads
      BY <2>4
    <3>2. w \notin joined \union {gcThread}
      BY <2>4, <3>1 DEF GCPCs
    <3> QED BY <2>1, <3>1, <3>2
  <2>5. ASSUME NEW w \in Workers \ late, got[w] = "mine",
               pc[w] \in {"run", "waitFn", "waitStr", "gcRun"}
        PROVE  w \notin freed
    (* Its frame refers to the function it runs. *)
    BY <2>5 DEF Reachable, WaitPCs, GCPCs
  <2>6. \A w \in Workers : pc[w] = "none" => w \notin freed
    BY DEF GonePCs
  <2> QED BY <2>1, <2>2, <2>3, <2>4, <2>5, <2>6
<1>18. ASSUME NEW t \in Threads, LeaveGC(t)
      PROVE  SlotInv'
  BY <1>18 DEF LeaveGC, AfterGC, GCPCs, Goto, LeavesGC, WaitPCs, exitVars,
         handVars, requestVars
(* The two ways out.                                                       *)
<1>19. ASSUME NEW t \in Threads, DestroyRuntime(t)
      PROVE  SlotInv'
  BY <1>19 DEF DestroyRuntime, Goto, handVars, requestVars
<1>20. ASSUME NEW t \in Threads, ProcessEnds(t)
      PROVE  SlotInv'
  BY <1>20 DEF ProcessEnds, exitVars, handVars, requestVars
<1>21. ASSUME NEW t \in Threads, ExitSnapshot(t)
      PROVE  SlotInv'
  BY <1>21 DEF ExitSnapshot, Goto, handVars, requestVars
<1>22. ASSUME NEW t \in Threads, NEW u \in Threads, ExitKill(t, u)
      PROVE  SlotInv'
  BY <1>22 DEF ExitKill, handVars, requestVars
<1>23. ASSUME NEW t \in Threads, ExitKilledAll(t)
      PROVE  SlotInv'
  BY <1>23 DEF ExitKilledAll, Goto, exitVars, handVars, requestVars
<1>24. ASSUME NEW t \in Threads, NEW u \in Threads, ExitFreeContext(t, u)
      PROVE  SlotInv'
  <2>1. /\ ctx' = [ctx EXCEPT ![u] = "freed"] /\ t # u /\ pc[t] \in ExitPCs \ {"exKill"}
        /\ UNCHANGED <<pc, slot, parent, rooted, got, collected, late>>
    BY <1>24 DEF ExitFreeContext, exitVars, handVars, ExitPCs
  <2>2. ASSUME NEW w \in Workers \ late, pc[w] \in StartPCs
        PROVE  FALSE
    (* Exit has killed every starting thread whose caller's context it frees. *)
    <3>1. w \in Threads /\ w # t /\ Alive(w)
      BY <2>1, <2>2 DEF ExitPCs, GonePCs
    <3> QED BY <2>1, <2>2, <3>1
  <2> QED BY <2>1, <2>2
<1>25. ASSUME NEW t \in Threads, ExitCollect(t)
      PROVE  SlotInv'
  BY <1>25 DEF ExitCollect, CallGC, Goto, exitVars, handVars
<1>26. ASSUME NEW t \in Threads, ExitDestroyContext(t)
      PROVE  SlotInv'
  BY <1>26 DEF ExitDestroyContext, CallGC, EndAllRequests, Goto, exitVars,
         handVars
<1>27. CASE UNCHANGED vars
  BY <1>27 DEF vars, threadVars, requestVars
<1> QED
  BY <1>1, <1>2, <1>3, <1>4, <1>5, <1>6, <1>7, <1>8, <1>9, <1>10, <1>11,
     <1>12, <1>13, <1>14, <1>15, <1>16, <1>17, <1>18, <1>19, <1>20, <1>21,
     <1>22, <1>23, <1>24, <1>25, <1>26, <1>27
  DEF Next, HostStep, WorkerStep
-----------------------------------------------------------------------------
(* The theorems.                                                           *)

(* Initially only the main thread runs, and nothing is shared yet.         *)
LEMMA InitIInv == Init => IInv
<1> SUFFICES ASSUME Init PROVE IInv
  OBVIOUS
<1> USE ScriptThreadsAssumption, NoThreadAssumption
    DEF Init, RequestsInit, StartPCs, WaitPCs, GCPCs, ExitPCs, GonePCs
<1>1. TypeOK
  BY DEF TypeOK, RequestsTypeOK, PCs
<1>2. StartInv
  BY DEF StartInv
<1>3. RequestInv
  BY DEF RequestInv
<1>4. CollectorInv
  BY DEF CollectorInv
<1>5. ExitInv
  BY DEF ExitInv, Alive
<1>6. SlotInv
  BY DEF SlotInv
<1> QED
  BY <1>1, <1>2, <1>3, <1>4, <1>5, <1>6 DEF IInv

(* Type correctness of the whole model: njord.cpp's threads, their contexts *)
(* and slots, and the request counters never leave their ranges, however    *)
(* many threads there are.                                                  *)
THEOREM TypeCorrect == Spec => []TypeOK
<1>1. Init => TypeOK
  BY InitIInv DEF IInv
<1>2. TypeOK /\ [Next]_vars => TypeOK'
  BY TypeOKStep
<1> QED
  BY <1>1, <1>2, PTL DEF Spec

(* The invariant is inductive.                                             *)
LEMMA StepIInv ==
  ASSUME IInv, [Next]_vars
  PROVE  IInv'
<1>1. TypeOK'
  BY TypeOKStep DEF IInv
<1>2. StartInv'
  BY StartInvStep DEF IInv
<1>3. RequestInv'
  BY RequestInvStep DEF IInv
<1>4. CollectorInv'
  BY CollectorInvStep DEF IInv
<1>5. ExitInv'
  BY ExitInvStep DEF IInv
<1>6. SlotInv'
  BY SlotInvStep
<1> QED
  BY <1>1, <1>2, <1>3, <1>4, <1>5, <1>6 DEF IInv

(* The inductive invariant holds of every behaviour of the host.           *)
THEOREM Invariance == Spec => []IInv
<1>1. Init => IInv
  BY InitIInv
<1>2. IInv /\ [Next]_vars => IInv'
  BY StepIInv
<1> QED
  BY <1>1, <1>2, PTL DEF Spec

(* No thread calls a function the collector has freed, though nothing but  *)
(* the slot on the caller's stack refers to it (njord.cpp:172-192).        *)
THEOREM NoCollectedFunctionRuns == Spec => []NeverRunsCollected
<1>1. IInv => NeverRunsCollected
  BY DEF IInv, SlotInv, NeverRunsCollected
<1> QED
  BY <1>1, Invariance, PTL

(* The params array on the caller's stack outlives its reader              *)
(* (njord.cpp:166-175, 200-217).                                           *)
THEOREM ParamsStayValid == Spec => []ParamsOutliveReads
<1>1. IInv => ParamsOutliveReads
  BY DEF IInv, StartInv, ParamsOutliveReads
<1> QED
  BY <1>1, Invariance, PTL

(* The collector runs alone, but for the top-level script (njord.cpp:346). *)
THEOREM CollectorRunsAlone == Spec => []OnlyMainRunsUnderGC
<1>1. IInv => OnlyMainRunsUnderGC
  <2> SUFFICES ASSUME IInv, gcRunning,
                      NEW t \in Threads \ {gcThread}, Executing(t), Runs(t)
               PROVE  t = Main /\ depth[t] = 0
    BY DEF OnlyMainRunsUnderGC
  <2>1. pc[t] \in {"run", "reading", "loaded"} /\ ctx[t] = "live"
    BY DEF Executing, Runs
  <2>2. depth[t] = 0
    BY <2>1 DEF IInv, CollectorInv, GCPCs
  <2>3. t \notin Workers
    BY <2>1, <2>2 DEF IInv, RequestInv
  <2> QED
    BY <2>2, <2>3, ScriptThreadsAssumption
<1> QED
  BY <1>1, Invariance, PTL

(* Exit frees no context under a thread it had the chance to kill          *)
(* (njord.cpp:63-99).                                                      *)
THEOREM ExitFreesNoOther == Spec => []ExitFreesOnlyTheKilled
<1>1. IInv => ExitFreesOnlyTheKilled
  BY DEF IInv, ExitInv, ExitFreesOnlyTheKilled, Alive, GonePCs
<1> QED
  BY <1>1, Invariance, PTL

(* Of two threads that call Exit one tears the runtime down                *)
(* (njord.cpp:51-107).                                                     *)
THEOREM ExitIsExclusive == Spec => []OneExitTearsDown
<1>1. IInv => OneExitTearsDown
  <2> SUFFICES ASSUME IInv, NEW t \in Threads, NEW u \in Threads, t # u,
                      {pc[t], pc[u]} \subseteq ExitPCs \ {"exKill"}
               PROVE  t \in late \/ u \in late
    BY DEF OneExitTearsDown
  <2>1. Alive(u)
    BY DEF Alive, GonePCs, ExitPCs
  <2> QED
    BY <2>1 DEF IInv, ExitInv
<1> QED
  BY <1>1, Invariance, PTL
-----------------------------------------------------------------------------
(* The refinement.  It needs two facts more: a caller waits for a thread   *)
(* it has created itself, and a thread that has started has accepted.      *)
HandInv ==
  /\ \A t \in Threads : waits[t] # NoThread =>
       parent[waits[t]] = t /\ pc[waits[t]] # "none"
  /\ \A w \in Workers : Alive(w) /\ pc[w] \notin StartPCs => w \in evt

LEMMA HandInvStep ==
  ASSUME TypeOK, StartInv, HandInv, [Next]_vars
  PROVE  HandInv'
<1> USE ScriptThreadsAssumption, NoThreadAssumption DEF HandInv, TypeOK,
        StartPCs, GonePCs, Alive
(* Scripts: synchronous Eval and collections.                              *)
<1>1. ASSUME NEW t \in Threads, EvalBegin(t)
      PROVE  HandInv'
  BY <1>1 DEF EvalBegin, BeginRequest, threadVars
<1>2. ASSUME NEW t \in Threads, EvalEnd(t)
      PROVE  HandInv'
  BY <1>2 DEF EvalEnd, EndRequest, threadVars
<1>3. ASSUME NEW t \in Threads, BranchCallback(t)
      PROVE  HandInv'
  BY <1>3 DEF BranchCallback, CallGC, Goto, exitVars, handVars
(* The caller of CreateThread or of an asynchronous Eval.                  *)
<1>4. ASSUME NEW t \in Threads, CreateThread(t)
      PROVE  HandInv'
  BY <1>4 DEF CreateThread, BeginRequest, Goto, Spawn, SpawnFails, exitVars,
         handVars
<1>5. ASSUME NEW t \in Threads, EvalAsync(t)
      PROVE  HandInv'
  BY <1>5 DEF EvalAsync, Goto, Spawn, SpawnFails, exitVars, handVars,
         requestVars
<1>6. ASSUME NEW t \in Threads, CallerReturns(t)
      PROVE  HandInv'
  BY <1>6 DEF CallerReturns, WaitPCs, EndRequest, Goto, exitVars, handVars,
         requestVars
(* The new thread.                                                         *)
<1>7. ASSUME NEW w \in Workers, NewContext(w)
      PROVE  HandInv'
  BY <1>7 DEF NewContext, Goto, exitVars, handVars, requestVars
<1>8. ASSUME NEW w \in Workers, AddRoot(w)
      PROVE  HandInv'
  BY <1>8 DEF AddRoot, Goto, exitVars, requestVars
<1>9. ASSUME NEW w \in Workers, SetRunningEvent(w)
      PROVE  HandInv'
  BY <1>9 DEF SetRunningEvent, Goto, exitVars, requestVars
<1>10. ASSUME NEW w \in Workers, WorkerRequest(w)
      PROVE  HandInv'
  BY <1>10 DEF WorkerRequest, BeginRequest, Goto, exitVars, handVars
<1>11. ASSUME NEW w \in Workers, TakeScript(w)
      PROVE  HandInv'
  BY <1>11 DEF TakeScript, EndRequest, Goto, exitVars, requestVars
<1>12. ASSUME NEW w \in Workers, CallScript(w)
      PROVE  HandInv'
  BY <1>12 DEF CallScript, Goto, exitVars, handVars, requestVars
<1>13. ASSUME NEW w \in Workers, ScriptReturns(w)
      PROVE  HandInv'
  BY <1>13 DEF ScriptReturns, EndRequest, Goto, exitVars, handVars
<1>14. ASSUME NEW w \in Workers, ReuseStack(w)
      PROVE  HandInv'
  BY <1>14 DEF ReuseStack, FrameLive, exitVars, requestVars
(* The collector.                                                          *)
<1>15. ASSUME NEW t \in Threads, DestroyContext(t)
      PROVE  HandInv'
  BY <1>15 DEF DestroyContext, CallGC, Goto, exitVars, handVars
<1>16. ASSUME NEW t \in Threads, StartMarking(t)
      PROVE  HandInv'
  BY <1>16 DEF StartMarking, MarkGC, threadVars
<1>17. ASSUME NEW t \in Threads, Sweep(t)
      PROVE  HandInv'
  BY <1>17 DEF Sweep, Alive, DoneGC, FrameLive, Reachable, exitVars
<1>18. ASSUME NEW t \in Threads, LeaveGC(t)
      PROVE  HandInv'
  BY <1>18 DEF LeaveGC, AfterGC, GCPCs, Goto, LeavesGC, exitVars, handVars,
         requestVars
(* The two ways out.                                                       *)
<1>19. ASSUME NEW t \in Threads, DestroyRuntime(t)
      PROVE  HandInv'
  BY <1>19 DEF DestroyRuntime, Goto, handVars, requestVars
<1>20. ASSUME NEW t \in Threads, ProcessEnds(t)
      PROVE  HandInv'
  BY <1>20 DEF ProcessEnds, Alive, exitVars, handVars, requestVars
<1>21. ASSUME NEW t \in Threads, ExitSnapshot(t)
      PROVE  HandInv'
  BY <1>21 DEF ExitSnapshot, Alive, Goto, handVars, requestVars
<1>22. ASSUME NEW t \in Threads, NEW u \in Threads, ExitKill(t, u)
      PROVE  HandInv'
  BY <1>22 DEF ExitKill, Alive, handVars, requestVars
<1>23. ASSUME NEW t \in Threads, ExitKilledAll(t)
      PROVE  HandInv'
  BY <1>23 DEF ExitKilledAll, Goto, exitVars, handVars, requestVars
<1>24. ASSUME NEW t \in Threads, NEW u \in Threads, ExitFreeContext(t, u)
      PROVE  HandInv'
  BY <1>24 DEF ExitFreeContext, EndAllRequests, exitVars, handVars
<1>25. ASSUME NEW t \in Threads, ExitCollect(t)
      PROVE  HandInv'
  BY <1>25 DEF ExitCollect, CallGC, Goto, exitVars, handVars
<1>26. ASSUME NEW t \in Threads, ExitDestroyContext(t)
      PROVE  HandInv'
  BY <1>26 DEF ExitDestroyContext, CallGC, EndAllRequests, Goto, exitVars,
         handVars
<1>27. CASE UNCHANGED vars
  BY <1>27 DEF vars, threadVars, requestVars
<1> QED
  BY <1>1, <1>2, <1>3, <1>4, <1>5, <1>6, <1>7, <1>8, <1>9, <1>10, <1>11,
     <1>12, <1>13, <1>14, <1>15, <1>16, <1>17, <1>18, <1>19, <1>20, <1>21,
     <1>22, <1>23, <1>24, <1>25, <1>26, <1>27
  DEF Next, HostStep, WorkerStep

THEOREM HandAlways == Spec => [](IInv /\ HandInv)
<1>1. Init => HandInv
  BY ScriptThreadsAssumption, NoThreadAssumption DEF Init, HandInv, Alive, GonePCs
<1>2. IInv /\ HandInv /\ [Next]_vars => HandInv'
  BY HandInvStep DEF IInv
<1> QED
  BY Invariance, <1>1, <1>2, PTL DEF Spec
-----------------------------------------------------------------------------
(* All that scripts and their threads see of a function handed over.       *)
Handed == <<Given, Callers, evt \ late, collected \ late>>

LEMMA InitHands == Init => Service!Init
<1> SUFFICES ASSUME Init PROVE Service!Init
  OBVIOUS
<1> USE ScriptThreadsAssumption, NoThreadAssumption
<1>1. Given = [w \in Workers |-> "none"]
  BY DEF Init, Given, Function
<1>2. Callers = [t \in Threads |-> NoThread]
  BY DEF Init, Callers, Waiting
<1> QED
  BY <1>1, <1>2 DEF Service!Init, Init

(* What a step may do to the function of w without the promise knowing:    *)
(* nothing, or the thread is done with it.                                 *)
Settles(w) == Function(w)' = Function(w) \/ (Function(w) # "none" /\ Function(w)' = "left")

LEMMA Leaves ==
  ASSUME \A w \in Workers : Settles(w), UNCHANGED <<Callers, evt, late, collected>>
  PROVE  Service!Next
<1> DEFINE W == {w \in Workers : Function(w)' # Function(w)}
<1>1. Given' = [w \in Workers |-> IF w \in W THEN "left" ELSE Given[w]]
  BY DEF Given, Settles
<1>2. \A w \in W : Given[w] # "none"
  BY DEF Given, Settles
<1>3. Service!Leave(W)
  BY <1>1, <1>2 DEF Service!Leave
<1> QED
  BY <1>3 DEF Service!Next

(* The steps that move one thread, or kill some, and hand nothing over.    *)
LEMMA HostLeaves ==
  ASSUME IInv, NEW t \in Threads,
         \/ EvalBegin(t) \/ EvalEnd(t) \/ BranchCallback(t) \/ DestroyContext(t)
         \/ StartMarking(t) \/ DestroyRuntime(t) \/ ProcessEnds(t)
         \/ ExitSnapshot(t) \/ ExitKilledAll(t) \/ ExitCollect(t)
         \/ ExitDestroyContext(t)
         \/ \E u \in Threads : ExitKill(t, u)
  PROVE  Service!Next
<1> USE ScriptThreadsAssumption, NoThreadAssumption
<1>1. UNCHANGED <<ctx, waits, slot, evt, got, collected, late>>
  BY DEF EvalBegin, EvalEnd, BranchCallback, DestroyContext, StartMarking,
         DestroyRuntime, ProcessEnds, ExitSnapshot, ExitKilledAll, ExitCollect,
         ExitDestroyContext, ExitKill, threadVars, handVars, exitVars
<1>2. Callers' = Callers
  BY <1>1 DEF Callers, Waiting
<1>3. ASSUME NEW w \in Workers PROVE Settles(w)
  <2>0. TypeOK /\ w \in Threads
    BY DEF IInv
  <2>1. \/ pc'[w] = pc[w]
        \/ pc[w] # "none" /\ pc'[w] \in GonePCs \ {"none"}
        \/ pc[w] = "run" /\ pc'[w] \in {"gcRun", "exKill"}
        \/ pc[w] \in {"ended", "rtDown", "exKill", "exContexts", "exFree"}
           /\ pc'[w] \in {"gcDestroy", "leave", "exContexts", "gcExit", "gcLast"}
    <3>1. CASE EvalBegin(t) \/ EvalEnd(t) \/ StartMarking(t)
      BY <3>1 DEF EvalBegin, EvalEnd, StartMarking, threadVars
    <3>2. CASE BranchCallback(t) \/ DestroyRuntime(t) \/ ExitSnapshot(t)
               \/ ExitKilledAll(t) \/ ExitCollect(t) \/ ExitDestroyContext(t)
      BY <2>0, <3>2 DEF BranchCallback, DestroyRuntime, ExitSnapshot, ExitKilledAll,
                  ExitCollect, ExitDestroyContext, Goto, TypeOK
    <3>3. CASE DestroyContext(t)
      BY <2>0, <3>3 DEF DestroyContext, Goto, TypeOK
    <3>4. CASE ProcessEnds(t) \/ \E u \in Threads : ExitKill(t, u)
      BY <2>0, <3>4 DEF ProcessEnds, ExitKill, Alive, GonePCs, TypeOK
    <3> QED
      BY <3>1, <3>2, <3>3, <3>4
  <2> QED
    BY <1>1, <2>1 DEF Settles, Function, StartPCs, WaitPCs, GonePCs
<1> QED
  BY <1>1, <1>2, <1>3, Leaves

(* A context that is freed after its collection: nobody waits any more.    *)
LEMMA LeaveGCLeaves ==
  ASSUME IInv, NEW t \in Threads, LeaveGC(t)
  PROVE  Service!Next
<1> USE ScriptThreadsAssumption, NoThreadAssumption
<1>0. TypeOK
  BY DEF IInv
<1>1. UNCHANGED <<waits, slot, evt, got, collected, late>>
  BY DEF LeaveGC, handVars, exitVars
<1>2. /\ pc[t] \in GCPCs /\ pc' = [pc EXCEPT ![t] = AfterGC(t)]
      /\ ctx' = ctx \/ ctx' = [ctx EXCEPT ![t] = "freed"]
      /\ pc[t] = "gcRun" => ctx' = ctx
  BY DEF LeaveGC, Goto
<1>3. waits[t] = NoThread
  BY <1>2 DEF IInv, StartInv, GCPCs, WaitPCs
<1>4. Callers' = Callers
  <2>1. \A u \in Threads : Waiting(u)' = Waiting(u)
    BY <1>0, <1>1, <1>2, <1>3 DEF Waiting, TypeOK
  <2> QED
    BY <2>1 DEF Callers
<1>5. ASSUME NEW w \in Workers PROVE Settles(w)
  <2>1. CASE w # t
    BY <1>0, <1>1, <1>2, <2>1 DEF Settles, Function, TypeOK
  <2>2. CASE w = t
    <3>1. pc'[w] = AfterGC(w)
      BY <1>0, <1>2, <2>2 DEF TypeOK
    <3>2. CASE pc[w] = "gcRun"
      BY <1>1, <1>2, <2>2, <3>1, <3>2
         DEF Settles, Function, AfterGC, StartPCs, WaitPCs
    <3>3. CASE pc[w] # "gcRun"
      BY <1>1, <1>2, <2>2, <3>1, <3>3
         DEF Settles, Function, AfterGC, StartPCs, WaitPCs, GCPCs
    <3> QED
      BY <3>2, <3>3
  <2> QED
    BY <2>1, <2>2
<1> QED
  BY <1>1, <1>4, <1>5, Leaves

(* The new thread, before it signals and when it calls its function.       *)
LEMMA WorkerLeaves ==
  ASSUME IInv, NEW w \in Workers,
         \/ NewContext(w) \/ AddRoot(w) \/ WorkerRequest(w) \/ CallScript(w)
         \/ ScriptReturns(w)
  PROVE  Service!Next
<1> USE ScriptThreadsAssumption, NoThreadAssumption
<1>0. TypeOK
  BY DEF IInv
<1>1. UNCHANGED <<waits, slot, evt, got, collected, late>>
  BY DEF NewContext, AddRoot, WorkerRequest, CallScript, ScriptReturns,
         handVars, exitVars
<1>2. /\ pc[w] \in {"born", "context", "signalled", "loaded", "run"}
      /\ ctx' = ctx \/ (pc[w] = "born" /\ ctx' = [ctx EXCEPT ![w] = "live"])
      /\ \A v \in Workers \ {w} : pc'[v] = pc[v]
      /\ pc'[w] = CASE pc[w] = "born" -> "context"
                    [] pc[w] = "context" -> "rooted"
                    [] pc[w] = "signalled" -> "reading"
                    [] pc[w] = "loaded" -> "run"
                    [] pc[w] = "run" -> "ended"
  BY <1>0 DEF NewContext, AddRoot, WorkerRequest, CallScript, ScriptReturns, Goto, TypeOK
<1>3. waits[w] = NoThread
  BY <1>2 DEF IInv, StartInv, WaitPCs
<1>4. Callers' = Callers
  <2>1. \A u \in Threads : Waiting(u)' = Waiting(u)
    BY <1>0, <1>1, <1>2, <1>3 DEF Waiting, TypeOK
  <2> QED
    BY <2>1 DEF Callers
<1>5. ASSUME NEW v \in Workers PROVE Settles(v)
  BY <1>0, <1>1, <1>2 DEF Settles, Function, StartPCs, WaitPCs, TypeOK
<1> QED
  BY <1>1, <1>4, <1>5, Leaves
-----------------------------------------------------------------------------
(* A thread that is created while somebody exits is not part of the        *)
(* promise; every other has been given a function.                         *)
LEMMA SpawnGives ==
  ASSUME IInv, HandInv, NEW t \in Threads, NEW w \in Workers, NEW l \in WaitPCs,
         pc[t] = "run", Runs(t), Spawn(t, w, l)
  PROVE  Service!Next \/ Handed' = Handed
<1> USE ScriptThreadsAssumption, NoThreadAssumption
<1>0. TypeOK /\ t # w /\ waits[t] = NoThread
  BY DEF IInv, StartInv, Spawn, WaitPCs
<1>1. /\ UNCHANGED <<ctx, evt, got, collected>>
      /\ pc[w] = "none" /\ pc'[w] = "born" /\ pc'[t] = l
      /\ \A u \in Threads \ {t, w} : pc'[u] = pc[u]
      /\ waits' = [waits EXCEPT ![t] = w] /\ slot' = [slot EXCEPT ![w] = "intact"]
      /\ late' = late \/ late' = late \union {w}
      /\ ctx[t] = "live"
  BY <1>0 DEF Spawn, TypeOK, Runs
<1>2. \A v \in Workers \ {w} : Function(v)' = Function(v)
  BY <1>0, <1>1 DEF Function, StartPCs, WaitPCs, TypeOK
<1>3. \A u \in Threads \ {t} : Waiting(u)' = Waiting(u)
  BY <1>0, <1>1 DEF HandInv, Waiting, TypeOK
<1>4. w \notin evt /\ w \notin collected
  BY <1>1 DEF IInv, StartInv, SlotInv
<1>5. (evt \ late)' = evt \ late /\ (collected \ late)' = collected \ late
  BY <1>1, <1>4
<1>6. Function(w) = "none" /\ Waiting(t) = NoThread
  BY <1>0, <1>1 DEF Function, Waiting
<1>7. CASE w \in late'
  <2>1. Function(w)' = "none" /\ Waiting(t)' = NoThread
    BY <1>0, <1>1, <1>7 DEF Function, Waiting, TypeOK
  <2>2. Given' = Given /\ Callers' = Callers
    BY <1>2, <1>3, <1>6, <2>1 DEF Given, Callers
  <2> QED
    BY <1>5, <2>2 DEF Handed
<1>8. CASE w \notin late'
  <2>1. Function(w)' = "given" /\ Waiting(t)' = w
    BY <1>0, <1>1, <1>8 DEF Function, Waiting, StartPCs, TypeOK
  <2>2. Given' = [Given EXCEPT ![w] = "given"] /\ Callers' = [Callers EXCEPT ![t] = w]
    BY <1>2, <1>3, <2>1 DEF Given, Callers
  <2>3. Given[w] = "none" /\ Callers[t] = NoThread
    BY <1>6 DEF Given, Callers
  <2> QED
    BY <1>5, <2>2, <2>3 DEF Service!Next, Service!Give
<1> QED
  BY <1>7, <1>8

LEMMA CallerGives ==
  ASSUME IInv, HandInv, NEW t \in Threads, CreateThread(t) \/ EvalAsync(t)
  PROVE  Service!Next \/ Handed' = Handed
<1> USE ScriptThreadsAssumption, NoThreadAssumption
<1>1. Runs(t) /\ pc[t] = "run"
  BY DEF CreateThread, EvalAsync
<1>2. \/ \E l \in WaitPCs, w \in Workers : Spawn(t, w, l)
      \/ \E l \in WaitPCs : SpawnFails(t, l)
  BY DEF CreateThread, EvalAsync, WaitPCs
<1>3. CASE \E l \in WaitPCs, w \in Workers : Spawn(t, w, l)
  BY <1>1, <1>3, SpawnGives
<1>4. ASSUME NEW l \in WaitPCs, SpawnFails(t, l) PROVE Service!Next
  <2>0. TypeOK
    BY DEF IInv
  <2>1. UNCHANGED <<ctx, waits, slot, evt, got, collected, late>>
    BY <1>4 DEF SpawnFails, handVars, exitVars
  <2>2. Callers' = Callers
    BY <2>1 DEF Callers, Waiting
  <2>3. ASSUME NEW w \in Workers PROVE Settles(w)
    <3>1. pc'[w] = pc[w] \/ (pc[w] = "run" /\ pc'[w] = l)
      BY <1>1, <1>4, <2>0 DEF SpawnFails, Goto, TypeOK
    <3> QED
      BY <2>1, <3>1 DEF Settles, Function, StartPCs, WaitPCs
  <2> QED
    BY <2>1, <2>2, <2>3, Leaves
<1> QED
  BY <1>2, <1>3, <1>4

(* The caller is let go by the event.                                      *)
LEMMA CallerServed ==
  ASSUME IInv, NEW t \in Threads, CallerReturns(t)
  PROVE  Service!Next \/ Handed' = Handed
<1> USE ScriptThreadsAssumption, NoThreadAssumption
<1>0. TypeOK
  BY DEF IInv
<1>1. /\ UNCHANGED <<ctx, slot, evt, got, collected, late>>
      /\ ctx[t] = "live" /\ waits[t] \in evt /\ waits' = [waits EXCEPT ![t] = NoThread]
      /\ pc[t] \in WaitPCs /\ pc' = [pc EXCEPT ![t] = "run"]
  BY DEF CallerReturns, Runs, Goto, handVars, exitVars
<1>2. Given' = Given
  <2>1. ASSUME NEW v \in Workers PROVE Function(v)' = Function(v)
    <3>1. pc'[v] = pc[v] \/ (pc[v] \in WaitPCs /\ pc'[v] = "run")
      BY <1>0, <1>1 DEF TypeOK
    <3> QED
      BY <1>1, <3>1 DEF Function, StartPCs, WaitPCs
  <2> QED
    BY <2>1 DEF Given
<1>3. /\ \A u \in Threads \ {t} : Waiting(u)' = Waiting(u)
      /\ Waiting(t)' = NoThread
  BY <1>0, <1>1 DEF Waiting, TypeOK
<1>4. Callers' = [Callers EXCEPT ![t] = NoThread]
  BY <1>3 DEF Callers
<1>5. CASE waits[t] \in late
  <2>1. Waiting(t) = NoThread
    BY <1>5 DEF Waiting
  <2>2. Callers' = Callers
    BY <1>3, <2>1 DEF Callers
  <2> QED
    BY <1>1, <1>2, <2>2 DEF Handed
<1>6. CASE waits[t] \notin late
  <2>1. Callers[t] = waits[t] /\ waits[t] \in Workers
    BY <1>0, <1>1, <1>6 DEF Callers, Waiting, TypeOK
  <2>2. waits[t] \in evt \ late
    BY <1>1, <1>6
  <2> QED
    BY <1>1, <1>2, <1>4, <2>1, <2>2 DEF Service!Next, Service!Return
<1> QED
  BY <1>5, <1>6

(* The event is set by a thread that a caller on a living frame awaits.    *)
LEMMA EventAccepts ==
  ASSUME IInv, NEW w \in Workers, SetRunningEvent(w)
  PROVE  Service!Next \/ Handed' = Handed
<1> USE ScriptThreadsAssumption, NoThreadAssumption
<1>0. TypeOK
  BY DEF IInv
<1>1. /\ UNCHANGED <<ctx, waits, slot, got, collected, late>>
      /\ pc[w] = "rooted" /\ pc' = [pc EXCEPT ![w] = "signalled"] /\ evt' = evt \union {w}
  BY DEF SetRunningEvent, Goto, exitVars
<1>2. Given' = Given
  <2>1. ASSUME NEW v \in Workers PROVE Function(v)' = Function(v)
    BY <1>0, <1>1 DEF Function, StartPCs, WaitPCs, TypeOK
  <2> QED
    BY <2>1 DEF Given
<1>3. Callers' = Callers
  BY <1>1 DEF Callers, Waiting
<1>4. CASE w \in late
  <2>1. (evt \ late)' = evt \ late
    BY <1>1, <1>4
  <2> QED
    BY <1>1, <1>2, <1>3, <2>1 DEF Handed
<1>5. CASE w \notin late
  <2>1. /\ parent[w] \in Threads /\ waits[parent[w]] = w
        /\ ctx[parent[w]] = "live" /\ slot[w] = "intact"
    BY <1>1, <1>5 DEF IInv, StartInv, SlotInv, StartPCs
  <2>2. Given[w] = "given" /\ Callers[parent[w]] = w
    BY <1>1, <1>5, <2>1 DEF Given, Function, Callers, Waiting, StartPCs
  <2>3. (evt \ late)' = (evt \ late) \union {w}
    BY <1>1, <1>5
  <2> QED
    BY <1>1, <1>2, <1>3, <2>1, <2>2, <2>3 DEF Service!Next, Service!Accept
<1> QED
  BY <1>4, <1>5
-----------------------------------------------------------------------------
(* The thread takes its function, or finds it lost.                        *)
LEMMA ThreadTakes ==
  ASSUME IInv, HandInv, NEW w \in Workers, TakeScript(w)
  PROVE  Service!Next
<1> USE ScriptThreadsAssumption, NoThreadAssumption
<1>0. TypeOK
  BY DEF IInv
<1>1. /\ UNCHANGED <<ctx, waits, slot, evt, collected, late>>
      /\ pc[w] = "reading" /\ ctx[w] = "live"
      /\ \A v \in Workers \ {w} : pc'[v] = pc[v] /\ got'[v] = got[v]
  BY <1>0 DEF TakeScript, Runs, Goto, exitVars, TypeOK
<1>2. Callers' = Callers
  BY <1>1 DEF Callers, Waiting
<1>3. \A v \in Workers \ {w} : Function(v)' = Function(v)
  BY <1>1 DEF Function
<1>4. CASE slot[w] = "intact" /\ w \notin late
  <2>1. got'[w] = "mine" /\ pc'[w] = "loaded"
    BY <1>0, <1>4 DEF TakeScript, Goto, TypeOK
  <2>2. Function(w) = "given" /\ Function(w)' = "taken"
    BY <1>1, <1>4, <2>1 DEF Function, StartPCs
  <2>3. w \in evt \ late
    BY <1>1, <1>4 DEF HandInv, Alive, GonePCs, StartPCs
  <2>4. Given' = [Given EXCEPT ![w] = "taken"] /\ Given[w] = "given"
    BY <1>3, <2>2 DEF Given
  <2> QED
    BY <1>1, <1>2, <2>3, <2>4 DEF Service!Next, Service!Take
<1>5. CASE w \in late
  <2>1. Settles(w)
    BY <1>1, <1>5 DEF Settles, Function
  <2> QED
    BY <1>1, <1>2, <1>3, <2>1, Leaves DEF Settles
<1>6. CASE slot[w] # "intact" /\ w \notin late
  <2>1. got'[w] # "mine" /\ pc'[w] \in {"loaded", "ended"}
    BY <1>0, <1>6 DEF TakeScript, Goto, TypeOK
  <2>2. Function(w) = "lost" /\ Function(w)' = "left"
    BY <1>1, <1>6, <2>1 DEF Function, StartPCs, WaitPCs
  <2> QED
    BY <1>1, <1>2, <1>3, <2>2, Leaves DEF Settles
<1> QED
  BY <1>4, <1>5, <1>6

(* A slot is overwritten only when the frame of its caller has returned.   *)
LEMMA StackLoses ==
  ASSUME IInv, HandInv, NEW w \in Workers, ReuseStack(w)
  PROVE  Service!Next \/ Handed' = Handed
<1> USE ScriptThreadsAssumption, NoThreadAssumption
<1>0. TypeOK
  BY DEF IInv
<1>1. /\ UNCHANGED <<pc, ctx, waits, evt, got, collected, late>>
      /\ slot[w] = "intact" /\ slot' = [slot EXCEPT ![w] = "overwritten"]
      /\ pc[w] \in StartPCs \union {"signalled", "reading"} /\ ~FrameLive(w)
  BY DEF ReuseStack, exitVars
<1>2. Callers' = Callers
  BY <1>1 DEF Callers, Waiting
<1>3. \A v \in Workers \ {w} : Function(v)' = Function(v)
  BY <1>0, <1>1 DEF Function, TypeOK
<1>4. CASE w \in late
  <2>1. Given' = Given
    BY <1>1, <1>3, <1>4 DEF Given, Function
  <2> QED
    BY <1>1, <1>2, <2>1 DEF Handed
<1>5. CASE w \notin late
  <2>1. pc[w] \notin StartPCs
    BY <1>1, <1>5 DEF IInv, StartInv, SlotInv, FrameLive
  <2>2. w \in evt \ late
    BY <1>1, <1>5, <2>1 DEF HandInv, Alive, GonePCs
  <2>3. \A t \in Threads : Callers[t] # w
    BY <1>1 DEF Callers, Waiting, HandInv, FrameLive
  <2>4. Function(w) = "given" /\ Function(w)' = "lost"
    BY <1>0, <1>1, <1>5 DEF Function, TypeOK, StartPCs
  <2>5. Given' = [Given EXCEPT ![w] = "lost"] /\ Given[w] = "given"
    BY <1>3, <2>4 DEF Given
  <2> QED
    BY <1>1, <1>2, <2>2, <2>3, <2>5 DEF Service!Next, Service!Lose
<1> QED
  BY <1>4, <1>5
-----------------------------------------------------------------------------
(* What the collector frees is lost or left: the invariant after the sweep *)
(* says so of every function that is given or taken.                       *)
LEMMA SweepCollects ==
  ASSUME IInv, IInv', NEW t \in Threads, Sweep(t)
  PROVE  Service!Next
<1> USE ScriptThreadsAssumption, NoThreadAssumption
<1> DEFINE W == (collected' \ late) \ (collected \ late)
<1>0. TypeOK
  BY DEF IInv
<1>1. /\ UNCHANGED <<pc, ctx, waits, slot, evt, got, late>>
      /\ collected' = collected \union {w \in Workers : Alive(w) /\ ~Reachable(w)}
  BY DEF Sweep, exitVars
<1>2. Given' = Given /\ Callers' = Callers
  BY <1>1 DEF Given, Function, Callers, Waiting
<1>3. ASSUME NEW w \in W PROVE w \in Workers /\ Given[w] \in {"lost", "left"}
  <2>1. w \in Workers /\ w \in collected' /\ w \notin late /\ Alive(w)
    BY <1>1
  <2>2. pc[w] # "none"
    BY <2>1 DEF Alive, GonePCs
  <2>3. pc[w] \in {"signalled", "reading"} => slot[w] # "intact"
    BY <1>1, <2>1 DEF IInv, SlotInv
  <2>4. pc[w] \notin StartPCs
    BY <1>1, <2>1 DEF IInv, SlotInv
  <2>5. ~(pc[w] \in {"loaded", "run", "gcRun"} \union WaitPCs
            /\ got[w] = "mine" /\ ctx[w] = "live")
    BY <1>1, <2>1 DEF IInv, SlotInv, WaitPCs
  <2>6. Function(w) \in {"lost", "left"}
    BY <2>1, <2>2, <2>3, <2>4, <2>5 DEF Function
  <2> QED
    BY <2>1, <2>6 DEF Given
<1>4. (collected \ late)' = (collected \ late) \union W
  BY <1>1
<1>5. Service!Collect(W)
  BY <1>1, <1>2, <1>3, <1>4 DEF Service!Collect
<1>6. W \in SUBSET Workers
  BY <1>3
<1> QED
  BY <1>5, <1>6 DEF Service!Next

(* Exit frees the context of a caller only when the thread it waits for    *)
(* has accepted its function, or is gone.                                  *)
LEMMA ExitReturns ==
  ASSUME IInv, IInv', HandInv, NEW t \in Threads, NEW u \in Threads,
         ExitFreeContext(t, u)
  PROVE  Service!Next \/ Handed' = Handed
<1> USE ScriptThreadsAssumption, NoThreadAssumption
<1>0. TypeOK
  BY DEF IInv
<1>1. /\ UNCHANGED <<pc, waits, parent, slot, evt, got, collected, late>>
      /\ pc[t] = "exContexts" /\ u # t /\ ctx[u] = "live"
      /\ ctx' = [ctx EXCEPT ![u] = "freed"]
  BY DEF ExitFreeContext, exitVars, handVars
<1>2. Given' = Given
  <2>1. u \in late \/ ~Alive(u)
    BY <1>1 DEF IInv, ExitInv, ExitPCs
  <2>2. ASSUME NEW w \in Workers PROVE Function(w)' = Function(w)
    <3>1. CASE w # u
      BY <1>0, <1>1, <3>1 DEF Function, TypeOK
    <3>2. CASE w = u
      BY <1>1, <2>1, <3>2 DEF Function, Alive, GonePCs, StartPCs, WaitPCs
    <3> QED
      BY <3>1, <3>2
  <2> QED
    BY <2>2 DEF Given
<1>3. /\ \A v \in Threads \ {u} : Waiting(v)' = Waiting(v)
      /\ Waiting(u)' = NoThread
  BY <1>0, <1>1 DEF Waiting, TypeOK
<1>4. CASE Waiting(u) = NoThread
  <2>1. Callers' = Callers
    BY <1>3, <1>4 DEF Callers
  <2> QED
    BY <1>1, <1>2, <2>1 DEF Handed
<1>5. CASE Waiting(u) # NoThread
  <2> DEFINE w == waits[u]
  <2>1. Callers[u] = w /\ w \in Workers /\ w \notin late
    BY <1>0, <1>1, <1>5 DEF Callers, Waiting, TypeOK
  <2>2. parent[w] = u /\ pc[w] # "none"
    BY <2>1 DEF HandInv
  <2>3. pc[w] \notin StartPCs
    BY <1>0, <1>1, <2>1, <2>2 DEF IInv, SlotInv, TypeOK
  <2>4. w \in evt \ late \/ Given[w] = "left"
    BY <2>1, <2>2, <2>3 DEF HandInv, Alive, GonePCs, Given, Function, WaitPCs
  <2>5. Callers' = [Callers EXCEPT ![u] = NoThread]
    BY <1>3 DEF Callers
  <2> HIDE DEF w
  <2> QED
    BY <1>1, <1>2, <2>1, <2>4, <2>5 DEF Service!Next, Service!Return
<1> QED
  BY <1>4, <1>5
-----------------------------------------------------------------------------
(* CreateThread and the asynchronous Eval keep the promise of HandOver,    *)
(* for any number of threads that create, collect and exit.                *)
THEOREM HandsOverAlways == Spec => HandsOver
<1>1. IInv /\ IInv' /\ HandInv /\ [Next]_vars => [Service!Next]_Handed
  <2> SUFFICES ASSUME IInv, IInv', HandInv, [Next]_vars
               PROVE  Service!Next \/ Handed' = Handed
    OBVIOUS
  <2>1. ASSUME NEW t \in Threads, HostStep(t) PROVE Service!Next \/ Handed' = Handed
    BY <2>1, HostLeaves, LeaveGCLeaves, CallerGives, CallerServed, SweepCollects,
       ExitReturns DEF HostStep
  <2>2. ASSUME NEW w \in Workers, WorkerStep(w) PROVE Service!Next \/ Handed' = Handed
    BY <2>2, WorkerLeaves, EventAccepts, ThreadTakes, StackLoses DEF WorkerStep
  <2>3. CASE UNCHANGED vars
    BY <2>3 DEF vars, threadVars, Handed, Given, Function, Callers, Waiting
  <2> QED
    BY <2>1, <2>2, <2>3 DEF Next
<1> QED
  BY InitHands, HandAlways, <1>1, PTL
  DEF Spec, HandsOver, Service!Spec, Handed, Service!vars
=============================================================================
