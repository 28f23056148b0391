------------------------------ MODULE Requests ------------------------------
(***************************************************************************)
(* The interlock of SpiderMonkey (JS_THREADSAFE) between the requests of   *)
(* threads and the garbage collector, as the code of this repository uses  *)
(* it.  The engine itself is an external library: only its headers are in  *)
(* the tree (spidermonkey/include/jscntxt.h, jsapi.h).  Every thread of    *)
(* the programs modelled here owns exactly one context, so the state that  *)
(* the engine keeps per context is kept per thread.                        *)
(***************************************************************************)
EXTENDS Naturals

CONSTANTS Threads,  \* the threads that may call the engine
          NoThread  \* "no thread", e.g. a null gcThread

ASSUME NoThreadAssumption == NoThread \notin Threads

VARIABLES
  depth,      \* [Threads -> Nat], JSContext.requestDepth
  gcThread,   \* the thread inside js_GC, JSRuntime.gcThread (gcLevel > 0)
  gcRunning,  \* JSRuntime.gcRunning: the collector is marking or sweeping
  joined      \* threads that called the collector while another was in it

requestVars == <<depth, gcThread, gcRunning, joined>>

RequestsTypeOK ==
  /\ depth \in [Threads -> Nat]
  /\ gcThread \in Threads \union {NoThread}
  /\ gcRunning \in BOOLEAN
  /\ joined \in SUBSET Threads

RequestsInit ==
  /\ depth = [t \in Threads |-> 0]
  /\ gcThread = NoThread
  /\ gcRunning = FALSE
  /\ joined = {}
-----------------------------------------------------------------------------
(* An outermost request waits while any other thread is in the collector.  *)
CanBegin(t) == depth[t] > 0 \/ gcThread \in {NoThread, t}

BeginRequest(t) ==
  /\ CanBegin(t)
  /\ depth' = [depth EXCEPT ![t] = @ + 1]
  /\ UNCHANGED <<gcThread, gcRunning, joined>>

EndRequest(t) ==
  /\ depth[t] > 0
  /\ depth' = [depth EXCEPT ![t] = @ - 1]
  /\ UNCHANGED <<gcThread, gcRunning, joined>>

(* Destroying a context ends every request it is in.                       *)
EndAllRequests(t) == depth' = [depth EXCEPT ![t] = 0]

(* JS_GC, JS_MaybeGC and the collection a destroyed context forces: the    *)
(* first caller becomes the collecting thread, a later one waits for it    *)
(* with its own requests discounted.                                       *)
CallGC(t) ==
  /\ IF gcThread = NoThread
     THEN gcThread' = t /\ UNCHANGED joined
     ELSE joined' = joined \union {t} /\ UNCHANGED gcThread
  /\ UNCHANGED gcRunning

(* The collector runs once no other thread is in a request.                *)
RequestsDrained(t) == \A u \in Threads \ (joined \union {t}) : depth[u] = 0

MarkGC(t) ==
  /\ gcThread = t
  /\ ~gcRunning
  /\ RequestsDrained(t)
  /\ gcRunning' = TRUE
  /\ UNCHANGED <<depth, gcThread, joined>>

DoneGC(t) ==
  /\ gcThread = t
  /\ gcRunning
  /\ gcThread' = NoThread
  /\ gcRunning' = FALSE
  /\ joined' = {}
  /\ UNCHANGED depth

(* The call of the collector returns.                                      *)
LeavesGC(t) == gcThread # t /\ t \notin joined

(* JS_AddRoot and JS_RemoveRoot wait while another thread marks.           *)
RootTableFree(t) == ~gcRunning \/ gcThread = t
=============================================================================
