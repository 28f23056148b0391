---------------------------- MODULE ScriptThreads ---------------------------
(***************************************************************************)
(* The script threads of the nJord host (xprep/njord.cpp): the top-level   *)
(* script of _tWinMain, the threads CreateThread and Eval(.., true) start, *)
(* the hand-over of the function to run through a slot of the caller's     *)
(* operand stack, the requests each native takes, the collections scripts  *)
(* provoke, and the two ways out: the top-level script returns, or any     *)
(* script calls Exit.                                                      *)
(*                                                                         *)
(* A destroyed runtime or context has no defined behaviour: a thread that  *)
(* would go on with one takes no further step here.                        *)
(***************************************************************************)
EXTENDS Requests, FiniteSets

CONSTANTS Main,     \* the thread of _tWinMain
          Workers,  \* names for the threads a script may create
          MaxNest   \* bound: [Threads -> Nat], nested synchronous Eval calls

ASSUME ScriptThreadsAssumption ==
  /\ Threads = {Main} \union Workers
  /\ Main \notin Workers
  /\ MaxNest \in [Threads -> Nat]

VARIABLES
  pc,         \* [Threads -> PCs], where each thread is
  ctx,        \* [Threads -> ..], its JSContext
  waits,      \* [Threads -> ..], the child a caller waits for
  parent,     \* [Workers -> ..], the thread that created a worker
  slot,       \* [Workers -> ..], contents of the argv slot it was given
  evt,        \* workers that have set the runningEvent of their caller
  rooted,     \* workers whose slot address is in the root table
  got,        \* [Workers -> ..], what the worker read from its slot
  collected,  \* workers whose function the collector has freed
  snap,       \* [Threads -> SUBSET Threads], left to kill in njord_exit
  late,       \* workers created after some Exit took its snapshot
  rt          \* the JSRuntime

threadVars == <<pc, ctx, waits, parent, slot, evt, rooted, got, collected,
                snap, late, rt>>
handVars == <<parent, slot, evt, rooted, got, collected>>
exitVars == <<snap, late, rt>>
vars == <<requestVars, threadVars>>
-----------------------------------------------------------------------------
StartPCs == {"born", "context", "rooted"}       \* before SetEvent
WaitPCs  == {"waitFn", "waitStr"}                \* CreateThread, Eval(.., true)
GCPCs    == {"gcRun", "gcDestroy", "gcExit", "gcLast"}
ExitPCs  == {"exKill", "exContexts", "gcExit", "exFree", "gcLast"}
GonePCs  == {"none", "dead", "killed"}
PCs == StartPCs \union WaitPCs \union GCPCs \union ExitPCs \union GonePCs
         \union {"signalled", "reading", "loaded", "run", "ended", "rtDown",
                 "leave"}

Alive(t) == pc[t] \notin GonePCs
Over == \A t \in Threads : ~Alive(t)

(* A thread can go on: the runtime exists and so does its context.         *)
Runs(t) == rt = "up" /\ ctx[t] = "live"

(* The native frame that owns the slot of w has not returned.              *)
FrameLive(w) ==
  parent[w] # NoThread /\ waits[parent[w]] = w /\ ctx[parent[w]] = "live"

(* The interpreter of t is inside a script.                                *)
Executing(t) == pc[t] \in {"run", "reading", "loaded"}

Goto(t, l) == pc' = [pc EXCEPT ![t] = l]

TypeOK ==
  /\ RequestsTypeOK
  /\ pc \in [Threads -> PCs]
  /\ ctx \in [Threads -> {"none", "live", "freed"}]
  /\ waits \in [Threads -> Workers \union {NoThread}]
  /\ parent \in [Workers -> Threads \union {NoThread}]
  /\ slot \in [Workers -> {"none", "intact", "overwritten"}]
  /\ evt \in SUBSET Workers
  /\ rooted \in SUBSET Workers
  /\ got \in [Workers -> {"none", "mine", "other", "neither"}]
  /\ collected \in SUBSET Workers
  /\ snap \in [Threads -> SUBSET Threads]
  /\ late \in SUBSET Workers
  /\ rt \in {"up", "gone"}

Init ==
  /\ RequestsInit
  /\ pc = [t \in Threads |-> IF t = Main THEN "run" ELSE "none"]
  /\ ctx = [t \in Threads |-> IF t = Main THEN "live" ELSE "none"]
  /\ waits = [t \in Threads |-> NoThread]
  /\ parent = [w \in Workers |-> NoThread]
  /\ slot = [w \in Workers |-> "none"]
  /\ evt = {}
  /\ rooted = {}
  /\ got = [w \in Workers |-> "none"]
  /\ collected = {}
  /\ snap = [t \in Threads |-> {}]
  /\ late = {}
  /\ rt = "up"
-----------------------------------------------------------------------------
(* Scripts: synchronous Eval, collections from the branch callback, and    *)
(* the reuse of operand stack that a returned native has given back, as    *)
(* long as somebody may still read it.                                     *)

BaseDepth(t) == IF t = Main THEN 0 ELSE 1

EvalBegin(t) ==
  /\ Runs(t) /\ pc[t] = "run"
  /\ depth[t] < BaseDepth(t) + MaxNest[t]
  /\ BeginRequest(t)
  /\ UNCHANGED threadVars

EvalEnd(t) ==
  /\ Runs(t) /\ pc[t] = "run"
  /\ depth[t] > BaseDepth(t)
  /\ EndRequest(t)
  /\ UNCHANGED threadVars

BranchCallback(t) ==
  /\ Runs(t) /\ pc[t] = "run"
  /\ CallGC(t)
  /\ Goto(t, "gcRun")
  /\ UNCHANGED <<depth, ctx, waits, handVars, exitVars>>

ReuseStack(w) ==
  /\ pc[w] \in StartPCs \union {"signalled", "reading"}
  /\ slot[w] = "intact" /\ ~FrameLive(w)
  /\ \/ pc[parent[w]] = "run"
     \/ ctx[parent[w]] # "live"
  /\ slot' = [slot EXCEPT ![w] = "overwritten"]
  /\ UNCHANGED <<requestVars, pc, ctx, waits, parent, evt, rooted, got,
                 collected, exitVars>>
-----------------------------------------------------------------------------
(* njord_create_thread and the asynchronous half of njord_eval.  The new   *)
(* thread gets a pointer to the caller's params array, whose first element *)
(* points at argv[0] on the caller's operand stack.                        *)

Spawn(t, w, l) ==
  /\ pc[w] = "none"
  /\ pc' = [pc EXCEPT ![t] = l, ![w] = "born"]
  /\ waits' = [waits EXCEPT ![t] = w]
  /\ parent' = [parent EXCEPT ![w] = t]
  /\ slot' = [slot EXCEPT ![w] = "intact"]
  /\ late' = IF \E u \in Threads : pc[u] \in ExitPCs THEN late \union {w}
             ELSE late
  /\ UNCHANGED <<ctx, evt, rooted, got, collected, snap, rt>>

(* CreateThread returns NULL when it fails, the code compares with         *)
(* INVALID_HANDLE_VALUE, and so waits for an event nobody will set.        *)
SpawnFails(t, l) == Goto(t, l) /\ UNCHANGED <<ctx, waits, handVars, exitVars>>

CreateThread(t) ==
  /\ Runs(t) /\ pc[t] = "run"
  /\ BeginRequest(t)
  /\ \/ \E w \in Workers : Spawn(t, w, "waitFn")
     \/ SpawnFails(t, "waitFn")

EvalAsync(t) ==
  /\ Runs(t) /\ pc[t] = "run"
  /\ CanBegin(t)
  /\ \/ \E w \in Workers : Spawn(t, w, "waitStr")
     \/ SpawnFails(t, "waitStr")
  /\ UNCHANGED requestVars

(* Mutant: the caller does not wait for the event.                         *)
CallerReturnsAtOnce(t) ==
  /\ Runs(t) /\ pc[t] \in WaitPCs /\ waits[t] # NoThread
  /\ IF pc[t] = "waitFn" THEN EndRequest(t) ELSE UNCHANGED requestVars
  /\ Goto(t, "run")
  /\ waits' = [waits EXCEPT ![t] = NoThread]
  /\ UNCHANGED <<ctx, handVars, exitVars>>

CallerReturns(t) ==
  /\ Runs(t) /\ pc[t] \in WaitPCs /\ waits[t] \in evt
  /\ IF pc[t] = "waitFn" THEN EndRequest(t) ELSE UNCHANGED requestVars
  /\ Goto(t, "run")
  /\ waits' = [waits EXCEPT ![t] = NoThread]
  /\ UNCHANGED <<ctx, handVars, exitVars>>
-----------------------------------------------------------------------------
(* njord_async_eval_thread.                                                *)

NewContext(w) ==
  /\ rt = "up" /\ pc[w] = "born"
  /\ ctx' = [ctx EXCEPT ![w] = "live"]
  /\ Goto(w, "context")
  /\ UNCHANGED <<requestVars, waits, handVars, exitVars>>

(* Mutant: the thread does not root the slot.                              *)
AddRootOmitted(w) ==
  /\ Runs(w) /\ pc[w] = "context"
  /\ Goto(w, "rooted")
  /\ UNCHANGED <<requestVars, ctx, waits, handVars, exitVars>>

(* Mutant: the thread takes its request before it roots and signals.       *)
AddRootInRequest(w) ==
  /\ Runs(w) /\ pc[w] = "context"
  /\ CanBegin(w)
  /\ rooted' = rooted \union {w}
  /\ Goto(w, "rooted")
  /\ UNCHANGED <<requestVars, ctx, waits, parent, slot, evt, got, collected,
                 exitVars>>

AddRoot(w) ==
  /\ Runs(w) /\ pc[w] = "context"
  /\ RootTableFree(w)
  /\ rooted' = rooted \union {w}
  /\ Goto(w, "rooted")
  /\ UNCHANGED <<requestVars, ctx, waits, parent, slot, evt, got, collected,
                 exitVars>>

(* Mutant: the thread sets the event of another thread.                    *)
SetWrongEvent(w) ==
  /\ Runs(w) /\ pc[w] = "rooted"
  /\ evt' = evt \union {parent[w]}
  /\ Goto(w, "signalled")
  /\ UNCHANGED <<requestVars, ctx, waits, parent, slot, rooted, got,
                 collected, exitVars>>

SetRunningEvent(w) ==
  /\ Runs(w) /\ pc[w] = "rooted"
  /\ evt' = evt \union {w}
  /\ Goto(w, "signalled")
  /\ UNCHANGED <<requestVars, ctx, waits, parent, slot, rooted, got,
                 collected, exitVars>>

(* Mutant: the thread reads and runs its function outside a request.       *)
WorkerWithoutRequest(w) ==
  /\ Runs(w) /\ pc[w] = "signalled"
  /\ Goto(w, "reading")
  /\ UNCHANGED <<requestVars, ctx, waits, handVars, exitVars>>

WorkerRequest(w) ==
  /\ Runs(w) /\ pc[w] = "signalled"
  /\ BeginRequest(w)
  /\ Goto(w, "reading")
  /\ UNCHANGED <<ctx, waits, handVars, exitVars>>

(* The slot holds the function or string it was given, or whatever the     *)
(* caller has pushed there since: another callable value, or neither a     *)
(* string nor a function, in which case the root is never removed.         *)
TakeScript(w) ==
  /\ Runs(w) /\ pc[w] = "reading"
  /\ \E g \in IF slot[w] = "intact" THEN {"mine"} ELSE {"other", "neither"} :
       /\ got' = [got EXCEPT ![w] = g]
       /\ IF g = "neither" THEN UNCHANGED rooted
          ELSE RootTableFree(w) /\ rooted' = rooted \ {w}
       /\ Goto(w, IF g = "neither" THEN "ended" ELSE "loaded")
       /\ IF g = "neither" THEN EndRequest(w) ELSE UNCHANGED requestVars
  /\ UNCHANGED <<ctx, waits, parent, slot, evt, collected, exitVars>>

CallScript(w) ==
  /\ Runs(w) /\ pc[w] = "loaded"
  /\ Goto(w, "run")
  /\ UNCHANGED <<requestVars, ctx, waits, handVars, exitVars>>

ScriptReturns(w) ==
  /\ Runs(w) /\ pc[w] = "run" /\ depth[w] = BaseDepth(w)
  /\ EndRequest(w)
  /\ Goto(w, "ended")
  /\ UNCHANGED <<ctx, waits, handVars, exitVars>>

(* JS_DestroyContext forces a collection before it frees the context.      *)
DestroyContext(t) ==
  /\ Runs(t)
  /\ \/ t \in Workers /\ pc[t] = "ended"
     \/ t = Main /\ pc[t] = "run" /\ depth[t] = 0
  /\ CallGC(t)
  /\ Goto(t, "gcDestroy")
  /\ UNCHANGED <<depth, ctx, waits, handVars, exitVars>>
-----------------------------------------------------------------------------
(* Inside the collector.                                                   *)

StartMarking(t) ==
  /\ Runs(t) /\ pc[t] \in GCPCs
  /\ MarkGC(t)
  /\ UNCHANGED threadVars

(* Nothing but the slot refers to the function: the worst case, a function *)
(* expression written as the argument.  The slot counts while it is on     *)
(* the caller's stack or in the root table; so does a running frame.  What *)
(* becomes of the function of a thread that is gone is not recorded.       *)
Reachable(w) ==
  \/ slot[w] = "intact" /\ (FrameLive(w) \/ w \in rooted)
  \/ got[w] = "mine" /\ pc[w] \in {"run"} \union WaitPCs \union GCPCs
                                     \union ExitPCs

Sweep(t) ==
  /\ Runs(t) /\ pc[t] \in GCPCs
  /\ DoneGC(t)
  /\ collected' = collected \union
       {w \in Workers : Alive(w) /\ ~Reachable(w)}
  /\ UNCHANGED <<pc, ctx, waits, parent, slot, evt, rooted, got, exitVars>>

(* Where the thread goes on when the collector returns.                    *)
AfterGC(t) ==
  CASE pc[t] = "gcRun"     -> "run"
    [] pc[t] = "gcDestroy" -> IF t = Main THEN "rtDown" ELSE "dead"
    [] pc[t] = "gcExit"    -> "exFree"
    [] pc[t] = "gcLast"    -> "rtDown"

LeaveGC(t) ==
  /\ Runs(t) /\ pc[t] \in GCPCs
  /\ LeavesGC(t)
  /\ Goto(t, AfterGC(t))
  /\ ctx' = IF pc[t] \in {"gcDestroy", "gcLast"}
            THEN [ctx EXCEPT ![t] = "freed"] ELSE ctx
  /\ UNCHANGED <<requestVars, waits, handVars, exitVars>>
-----------------------------------------------------------------------------
(* The end of _tWinMain, and njord_exit.                                   *)

DestroyRuntime(t) ==
  /\ rt = "up" /\ pc[t] = "rtDown"
  /\ rt' = "gone"
  /\ Goto(t, "leave")
  /\ UNCHANGED <<requestVars, ctx, waits, handVars, snap, late>>

ProcessEnds(t) ==
  /\ pc[t] = "leave"
  /\ pc' = [u \in Threads |-> IF Alive(u) THEN "dead" ELSE pc[u]]
  /\ UNCHANGED <<requestVars, ctx, waits, handVars, exitVars>>

ExitSnapshot(t) ==
  /\ Runs(t) /\ pc[t] = "run"
  /\ Goto(t, "exKill")
  /\ snap' = [snap EXCEPT ![t] = {u \in Threads \ {t} : Alive(u)}]
  /\ UNCHANGED <<requestVars, ctx, waits, handVars, late, rt>>

(* A killed thread leaves its requests, its place in the collector and its *)
(* context behind.                                                         *)
ExitKill(t, u) ==
  /\ Runs(t) /\ pc[t] = "exKill" /\ u \in snap[t]
  /\ pc' = [pc EXCEPT ![u] = IF Alive(u) THEN "killed" ELSE @]
  /\ snap' = [snap EXCEPT ![t] = @ \ {u}]
  /\ UNCHANGED <<requestVars, ctx, waits, handVars, late, rt>>

(* Mutant: Exit stops killing at the first thread it could not open.       *)
ExitKilledSome(t) ==
  /\ Runs(t) /\ pc[t] = "exKill"
  /\ Goto(t, "exContexts")
  /\ UNCHANGED <<requestVars, ctx, waits, handVars, exitVars>>

ExitKilledAll(t) ==
  /\ Runs(t) /\ pc[t] = "exKill" /\ snap[t] = {}
  /\ Goto(t, "exContexts")
  /\ UNCHANGED <<requestVars, ctx, waits, handVars, exitVars>>

(* JS_DestroyContextNoGC on every context the iterator finds.              *)
ExitFreeContext(t, u) ==
  /\ Runs(t) /\ pc[t] = "exContexts" /\ u # t /\ ctx[u] = "live"
  /\ ctx' = [ctx EXCEPT ![u] = "freed"]
  /\ EndAllRequests(u)
  /\ UNCHANGED <<gcThread, gcRunning, joined, pc, waits, handVars, exitVars>>

(* Mutant: Exit collects before it has destroyed the other contexts.       *)
ExitCollectFirst(t) ==
  /\ Runs(t) /\ pc[t] = "exContexts"
  /\ CallGC(t)
  /\ Goto(t, "gcExit")
  /\ UNCHANGED <<depth, ctx, waits, handVars, exitVars>>

(* A context created during the iteration may be missed.                   *)
ExitCollect(t) ==
  /\ Runs(t) /\ pc[t] = "exContexts"
  /\ \A u \in Threads \ ({t} \union late) : ctx[u] # "live"
  /\ CallGC(t)
  /\ Goto(t, "gcExit")
  /\ UNCHANGED <<depth, ctx, waits, handVars, exitVars>>

ExitDestroyContext(t) ==
  /\ Runs(t) /\ pc[t] = "exFree"
  /\ EndAllRequests(t)
  /\ CallGC(t)
  /\ Goto(t, "gcLast")
  /\ UNCHANGED <<ctx, waits, handVars, exitVars>>
-----------------------------------------------------------------------------
HostStep(t) ==
  \/ EvalBegin(t) \/ EvalEnd(t) \/ BranchCallback(t)
  \/ CreateThread(t) \/ EvalAsync(t) \/ CallerReturns(t)
  \/ DestroyContext(t) \/ StartMarking(t) \/ Sweep(t) \/ LeaveGC(t)
  \/ DestroyRuntime(t) \/ ProcessEnds(t)
  \/ ExitSnapshot(t) \/ ExitKilledAll(t) \/ ExitCollect(t)
  \/ ExitDestroyContext(t)
  \/ \E u \in Threads : ExitKill(t, u) \/ ExitFreeContext(t, u)

WorkerStep(w) ==
  \/ NewContext(w) \/ AddRoot(w) \/ SetRunningEvent(w) \/ WorkerRequest(w)
  \/ TakeScript(w) \/ CallScript(w) \/ ScriptReturns(w) \/ ReuseStack(w)

Next == (\E t \in Threads : HostStep(t)) \/ (\E w \in Workers : WorkerStep(w))

(* The scheduler runs every thread that is not blocked, and a wait on a    *)
(* lock or on the collector is woken when it may go on (the condition      *)
(* variables of the engine are broadcast).  What a script does, and        *)
(* whether it ever returns, is up to the script: no fairness.              *)
Fairness ==
  /\ \A t \in Threads :
       /\ WF_vars(CallerReturns(t)) /\ WF_vars(StartMarking(t))
       /\ WF_vars(Sweep(t)) /\ WF_vars(LeaveGC(t))
       /\ WF_vars(DestroyRuntime(t)) /\ WF_vars(ProcessEnds(t))
       /\ WF_vars(\E u \in Threads : ExitKill(t, u))
       /\ WF_vars(\E u \in Threads : ExitFreeContext(t, u))
       /\ WF_vars(ExitKilledAll(t)) /\ WF_vars(ExitCollect(t))
       /\ WF_vars(ExitDestroyContext(t))
  /\ \A w \in Workers :
       /\ WF_vars(NewContext(w)) /\ SF_vars(AddRoot(w))
       /\ WF_vars(SetRunningEvent(w))

Spec == Init /\ [][Next]_vars /\ Fairness
-----------------------------------------------------------------------------
(* Properties.                                                             *)

(* A thread that calls the function it was given calls one the collector   *)
(* has not freed, whatever the caller and other threads do meanwhile: the  *)
(* slot is a root before the caller is let go (njord.cpp:174-175), and the *)
(* request taken before the read (176) keeps the collector out from the    *)
(* moment the root is dropped (181, 189).  A thread created while an Exit  *)
(* is killing others is exempt: its caller's context may be freed early.   *)
NeverRunsCollected ==
  \A w \in Workers \ late :
    pc[w] \in {"loaded", "run"} /\ got[w] = "mine" /\ ctx[w] = "live"
      => w \notin collected

(* While the collector runs no other thread is inside a script, with one   *)
(* exception: the top-level script, which _tWinMain evaluates (346)        *)
(* without a request, outside every native that takes one.                 *)
OnlyMainRunsUnderGC ==
  gcRunning =>
    \A t \in Threads \ {gcThread} :
      Executing(t) /\ Runs(t) => t = Main /\ depth[t] = 0

(* The new thread has read the whole params array, which lies in the frame *)
(* of its caller, before that caller can return (njord.cpp:166-175, 217).  *)
ParamsOutliveReads ==
  \A w \in Workers : pc[w] \in StartPCs => waits[parent[w]] = w

(* Exit frees a context under a living thread only when that thread was    *)
(* created after the snapshot of threads to kill was taken (63-98).        *)
ExitFreesOnlyTheKilled ==
  \A t \in Threads :
    ctx[t] = "freed" => ~Alive(t) \/ t \in late \/ pc[t] \in {"rtDown", "leave"}

(* Two threads that call Exit at once do not both tear the runtime down:   *)
(* whoever has killed everybody of its snapshot has killed the other, or   *)
(* one of the two was created after the other's snapshot.                  *)
OneExitTearsDown ==
  \A t, u \in Threads :
    {pc[t], pc[u]} \subseteq ExitPCs \ {"exKill"} =>
      t = u \/ t \in late \/ u \in late

(* Some living caller waits for w to set its event.                        *)
Awaited(w) ==
  \E t \in Threads : Runs(t) /\ pc[t] \in WaitPCs /\ waits[t] = w

(* A CreateThread or asynchronous Eval whose thread was created returns,   *)
(* unless an Exit gets in between: the new thread needs nothing but the    *)
(* root table before it sets the event, so a collection that waits for the *)
(* request the caller holds (200, 217) cannot block it.                    *)
CallerIsReleased ==
  \A w \in Workers :
    Awaited(w) ~> (~Awaited(w) \/ pc[w] = "killed" \/ ctx[w] = "freed")

(* Exit ends the process, unless it killed a thread inside the collector,  *)
(* whose turn never ends, or threads it did not see were created.          *)
ExitEndsProcess ==
  (\E t \in Threads : pc[t] \in ExitPCs) ~>
    (Over \/ late # {} \/ (gcThread # NoThread /\ pc[gcThread] = "killed"))

(* jsapi.h:657-660 asks that a root is removed before the storage it       *)
(* points at goes out of scope.                                            *)
RootsOnLiveStorage ==
  \A w \in rooted : waits[parent[w]] = w
-----------------------------------------------------------------------------
(* How a function passes from a script to the thread it starts.  A thread  *)
(* created while an Exit is killing others is not part of it.              *)

Function(w) ==
  IF w \in late \/ pc[w] = "none" THEN "none"
  ELSE IF pc[w] \in StartPCs \union {"signalled", "reading"}
       THEN IF slot[w] = "intact" THEN "given" ELSE "lost"
  ELSE IF pc[w] \in {"loaded", "run", "gcRun"} \union WaitPCs
          /\ got[w] = "mine" /\ ctx[w] = "live"
       THEN "taken"
  ELSE "left"

(* Whom the living frame of a caller waits for.                            *)
Waiting(t) ==
  IF ctx[t] = "live" /\ waits[t] \notin late THEN waits[t] ELSE NoThread

Given == [w \in Workers |-> Function(w)]
Callers == [t \in Threads |-> Waiting(t)]

Service == INSTANCE HandOver WITH
  Nobody <- NoThread, fn <- Given, waiting <- Callers,
  accepted <- evt \ late, freed <- collected \ late

(* From the caller's operand stack by way of the root table to the frame   *)
(* of the new thread: the caller is not let go before the thread has a     *)
(* hold of the slot, and whoever collects finds the function held until    *)
(* the thread has called it, or the caller has overwritten the slot.       *)
HandsOver == Service!Spec
-----------------------------------------------------------------------------
(* The inductive invariant behind the first six properties; the theorems   *)
(* of ScriptThreads_proofs rest on it.                                     *)

(* Starting: until it sets the event, a new thread is awaited by a caller  *)
(* that cannot go on.                                                      *)
StartInv ==
  /\ \A t \in Threads : waits[t] # NoThread => pc[t] \in WaitPCs \union {"dead", "killed"}
  /\ \A w \in Workers :
       /\ pc[w] \in StartPCs \union {"none"} => w \notin evt
       /\ pc[w] \in StartPCs => parent[w] \in Threads /\ waits[parent[w]] = w

(* Requests that a thread holds for as long as its script lasts.           *)
RequestInv ==
  \A w \in Workers : ctx[w] = "live" =>
    /\ pc[w] \in {"reading", "loaded", "run", "waitStr", "gcRun"} => depth[w] >= 1
    /\ pc[w] = "waitFn" => depth[w] >= 2

(* The collector runs alone: whoever is in a request is in the collector.  *)
CollectorInv ==
  /\ gcRunning => gcThread # NoThread
  /\ \A t \in Threads :
       /\ t \in joined \union {gcThread} => pc[t] \in GCPCs \union {"dead", "killed"}
       /\ gcRunning /\ t \notin joined \union {gcThread} => depth[t] = 0

(* Exit: who is neither gone nor still to be killed came after it.         *)
ExitInv ==
  /\ \A t \in Threads :
       /\ pc[t] = "none" => ctx[t] = "none"
       /\ ctx[t] = "freed" => pc[t] \in {"dead", "killed", "rtDown", "leave"} \/ t \in late
  /\ \A t, u \in Threads :
       pc[t] \in ExitPCs /\ u # t /\ Alive(u) =>
         u \in late \/ (pc[t] = "exKill" /\ u \in snap[t])

(* The function of a thread, from the caller's stack to the thread's own:  *)
(* on a live frame, then rooted, then kept by the request, then running.   *)
SlotInv ==
  \A w \in Workers :
    /\ pc[w] = "none" => w \notin collected
    /\ w \notin late =>
         /\ pc[w] \in StartPCs =>
              ctx[parent[w]] = "live" /\ slot[w] = "intact" /\ w \notin collected
         /\ pc[w] \in {"rooted", "signalled", "reading"} => w \in rooted
         /\ pc[w] \in {"signalled", "reading"} /\ slot[w] = "intact" => w \notin collected
         /\ pc[w] \in {"loaded", "run", "waitFn", "waitStr", "gcRun"}
              /\ got[w] = "mine" /\ ctx[w] = "live" => w \notin collected

IInv == TypeOK /\ StartInv /\ RequestInv /\ CollectorInv /\ ExitInv /\ SlotInv
=============================================================================
