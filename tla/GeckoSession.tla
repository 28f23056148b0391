---------------------------- MODULE GeckoSession ----------------------------
(***************************************************************************)
(* The session of the Gecko extension (js_gecko2/uiwndthread.cpp and       *)
(* jsexports.cpp): GeckoInit starts a UI thread and polls a counter until  *)
(* it is ready, GeckoTerm asks it to end and polls the same counter, and   *)
(* in between script threads push views on a shared list that the UI       *)
(* thread initialises.  The UI thread creates and deletes the lock of that *)
(* list.  Creating a view, ending the UI thread's JSContext, a collection  *)
(* and what the UI thread dispatches meet in the request interlock of the  *)
(* engine and in domStateLock, which every dispatch and every finalizer of *)
(* a DOM node takes.                                                       *)
(*                                                                         *)
(* A critical section that was never initialised, or was deleted, holds    *)
(* only zeroes, and a thread that enters it waits for ever: here it takes  *)
(* no further step.  The rectangle and the context that the creator writes *)
(* into a view it has already listed (82-90) are data no property reads.   *)
(* domStateLock is never deleted, and there are no DOM nodes before it is  *)
(* set up.  What else a script does with DOM nodes is in GeckoEvents; here *)
(* it is in its script, inside its request, for as long as it likes.  A    *)
(* callback is a script as well: it may run for ever, and neither starts   *)
(* nor ends a session.                                                     *)
(***************************************************************************)
EXTENDS Requests, Integers, Sequences, FiniteSets

CONSTANTS Scripts,  \* script threads
          Drivers,  \* those that call GeckoInit and GeckoTerm
          UIs,      \* names for UI threads, one per GeckoInit
          Views     \* names for the views scripts create

ASSUME GeckoSessionAssumption ==
  /\ Threads = Scripts \union UIs /\ Scripts \intersect UIs = {}
  /\ Drivers \subseteq Scripts /\ IsFiniteSet(UIs)

VARIABLES
  pc, arg,        \* where a thread is, and the view or UI thread it handles
  useCx,          \* the thread whose context the next UI thread starts from
  keepUIGoing, threadInitialized,
  lock,           \* viewsLock: "raw", "up" or "deleted"
  owner,          \* the thread inside it
  dom,            \* the thread inside domStateLock
  handling,       \* the UI threads in a call of a script's function: in a
                  \* request when depth is 1, waiting for one when it is 0
  viewsHead,      \* the list of views, newest first
  view,           \* [Views -> record], their PrivateData
  session,        \* history: "on" from a GeckoInit that returned TRUE to
                  \* the next GeckoTerm; "doubled" when GeckoInit was called
                  \* with a UI thread still there
  overlap         \* history: the lock was set up while an older UI thread
                  \* was using it or had still to delete it

lockVars == <<lock, owner>>
domVars == <<dom, handling>>
sessionVars == <<keepUIGoing, threadInitialized, session, overlap>>
viewVars == <<viewsHead, view>>
vars == <<requestVars, pc, arg, useCx, lockVars, domVars, sessionVars, viewVars>>

LoopPCs == {"top", "scan", "making", "pump", "wake", "dispatch"}
IdlePCs == {"none", "unborn", "deleting", "dead"}
GcPCs == {"gc", "sweep", "swept"}
MadePCs == {"show", "call", "answered"}
UIPCs == LoopPCs \union IdlePCs \union GcPCs \union {"gre", "context", "ending"}
ScriptPCs == GcPCs \union MadePCs \union
               {"out", "script", "initPoll", "termPoll", "push", "poll", "repaint"}

TypeOK ==
  /\ RequestsTypeOK
  /\ pc \in [Threads -> UIPCs \union ScriptPCs]
  /\ arg \in [Threads -> Views \union UIs \union {NoThread}]
  /\ useCx \in Threads \union {NoThread}
  /\ keepUIGoing \in BOOLEAN /\ overlap \in BOOLEAN
  /\ threadInitialized \in 0..Cardinality(UIs)
  /\ lock \in {"raw", "up", "deleted"}
  /\ owner \in Threads \union {NoThread}
  /\ dom \in Threads \union {NoThread} /\ handling \in SUBSET UIs
  /\ viewsHead \in Seq(Views)
  /\ view \in [Views -> [initialized : BOOLEAN, destroying : BOOLEAN, windows : Nat]]
  /\ session \in {"off", "on", "doubled"}

(* The main thread runs its script outside any request, created threads    *)
(* inside one; the drivers are taken to be of the first kind.              *)
Init ==
  /\ RequestsInit
  /\ pc = [t \in Threads |->
       IF t \in UIs THEN "none" ELSE IF t \in Drivers THEN "script" ELSE "out"]
  /\ arg = [t \in Threads |-> NoThread] /\ useCx = NoThread
  /\ keepUIGoing = FALSE /\ threadInitialized = 0
  /\ lock = "raw" /\ owner = NoThread
  /\ dom = NoThread /\ handling = {}
  /\ viewsHead = <<>>
  /\ view = [v \in Views |-> [initialized |-> FALSE, destroying |-> FALSE, windows |-> 0]]
  /\ session = "off" /\ overlap = FALSE

Goto(t, l) == pc' = [pc EXCEPT ![t] = l]
Set(v, f, x) == view' = [view EXCEPT ![v][f] = x]
-----------------------------------------------------------------------------
(* Script threads.                                                         *)

(* A created thread enters its script, and leaves it.                      *)
ScriptStarts(s) ==
  /\ pc[s] = "out" /\ Goto(s, "script") /\ BeginRequest(s)
  /\ UNCHANGED <<arg, useCx, lockVars, domVars, sessionVars, viewVars>>

ScriptEnds(s) ==
  /\ s \notin Drivers /\ pc[s] = "script" /\ Goto(s, "out") /\ EndRequest(s)
  /\ UNCHANGED <<arg, useCx, lockVars, domVars, sessionVars, viewVars>>

(* g2_init.  The request it takes to read its argument it gives back.  If  *)
(* the argument is wrong the flag stays up, with no thread behind it.      *)
CallInitFails(s) ==
  /\ s \in Drivers /\ pc[s] = "script" /\ CanBegin(s)
  /\ keepUIGoing' = TRUE
  /\ UNCHANGED <<requestVars, pc, arg, useCx, lockVars, domVars, viewVars,
                 threadInitialized, session, overlap>>

(* CreateThread may fail: GetExitCodeThread then leaves exitCode, which    *)
(* nobody has set, and the poll sees a thread that has ended, or one that  *)
(* is still active though it never was.                                    *)
CallInit(s) ==
  /\ s \in Drivers /\ pc[s] = "script" /\ CanBegin(s)
  /\ keepUIGoing' = TRUE /\ useCx' = s
  /\ \E u \in UIs :
       /\ pc[u] = "none"
       /\ \E l \in {"gre", "unborn", "dead"} :
            pc' = [pc EXCEPT ![s] = "initPoll", ![u] = l]
       /\ arg' = [arg EXCEPT ![s] = u]
       /\ session' = IF \A o \in UIs \ {u} : pc[o] \in IdlePCs THEN "off" ELSE "doubled"
  /\ UNCHANGED <<requestVars, lockVars, domVars, viewVars, threadInitialized, overlap>>

(* Mutant: GeckoInit does not wait for the counter.                        *)
InitReturnsAtOnce(s) ==
  /\ pc[s] = "initPoll"
  /\ session' = IF session = "off" /\ pc[arg[s]] # "dead" THEN "on" ELSE session
  /\ Goto(s, "script")
  /\ UNCHANGED <<requestVars, arg, useCx, lockVars, domVars, viewVars, keepUIGoing,
                 threadInitialized, overlap>>

InitReturns(s) ==
  /\ pc[s] = "initPoll"
  /\ threadInitialized = 1 \/ pc[arg[s]] = "dead"
  /\ session' = IF session = "off" /\ pc[arg[s]] # "dead" THEN "on" ELSE session
  /\ Goto(s, "script")
  /\ UNCHANGED <<requestVars, arg, useCx, lockVars, domVars, viewVars, keepUIGoing,
                 threadInitialized, overlap>>

CallTerm(s) ==
  /\ s \in Drivers /\ pc[s] = "script"
  /\ keepUIGoing' = FALSE
  /\ session' = IF session = "on" THEN "off" ELSE session
  /\ Goto(s, "termPoll")
  /\ UNCHANGED <<requestVars, arg, useCx, lockVars, domVars, viewVars, threadInitialized, overlap>>

TermReturns(s) ==
  /\ pc[s] = "termPoll" /\ threadInitialized = 0
  /\ Goto(s, "script")
  /\ UNCHANGED <<requestVars, arg, useCx, lockVars, domVars, sessionVars, viewVars>>

(* g2_create_view: the request is held until the call returns, which after *)
(* the wait for the view waits for the UI thread twice more: ShowWindow    *)
(* sends a message to the view's window, and the call of do_GetInterface   *)
(* goes to the UI thread by proxy.  The constructor of PrivateData leaves  *)
(* "destroying" as it finds it.  Bound: Views names every view.            *)
Listed == {viewsHead[i] : i \in DOMAIN viewsHead}

CallCreateView(s) ==
  /\ pc[s] = "script"
  /\ Cardinality({t \in Scripts : pc[t] = "push"}) < Cardinality(Views \ Listed)
  /\ BeginRequest(s) /\ Goto(s, "push")
  /\ UNCHANGED <<arg, useCx, lockVars, domVars, sessionVars, viewVars>>

LockFree == lock = "up" /\ owner = NoThread

PushView(s) ==
  /\ pc[s] = "push" /\ LockFree
  /\ Views \ Listed # {}
  /\ LET v == CHOOSE v \in Views : v \notin Listed
     IN /\ viewsHead' = <<v>> \o viewsHead
        /\ arg' = [arg EXCEPT ![s] = v]
        /\ \E garbage \in BOOLEAN : Set(v, "destroying", garbage)
  /\ Goto(s, "poll")
  /\ UNCHANGED <<requestVars, useCx, lockVars, domVars, sessionVars>>

(* Mutant: the script does not look whether its view is initialised.       *)
SeesViewAtOnce(s) ==
  /\ pc[s] = "poll" /\ LockFree
  /\ Goto(s, "show")
  /\ UNCHANGED <<requestVars, arg, useCx, lockVars, domVars, sessionVars, viewVars>>

SeesView(s) ==
  /\ pc[s] = "poll" /\ LockFree /\ view[arg[s]].initialized
  /\ Goto(s, "show")
  /\ UNCHANGED <<requestVars, arg, useCx, lockVars, domVars, sessionVars, viewVars>>

(* A sent message is answered inside GetMessage, before a message is       *)
(* returned and the lock entered; a proxied call is a message, dispatched  *)
(* inside the lock.                                                        *)
UiIdleAt(l) == \E u \in UIs \ handling : pc[u] = l

ViewIsShown(s) ==
  /\ pc[s] = "show" /\ UiIdleAt("pump") /\ Goto(s, "call")
  /\ UNCHANGED <<requestVars, arg, useCx, lockVars, domVars, sessionVars, viewVars>>

ProxyAnswers(s) ==
  /\ pc[s] = "call" /\ UiIdleAt("dispatch") /\ Goto(s, "answered")
  /\ UNCHANGED <<requestVars, arg, useCx, lockVars, domVars, sessionVars, viewVars>>

CreateViewReturns(s) ==
  /\ pc[s] = "answered" /\ EndRequest(s) /\ Goto(s, "script")
  /\ UNCHANGED <<arg, useCx, lockVars, domVars, sessionVars, viewVars>>

(* g2_destroy marks the view; nothing takes it off the list.               *)
DestroyView(s) ==
  /\ pc[s] = "script" /\ LockFree
  /\ \E v \in Views : view[v].initialized /\ Set(v, "destroying", TRUE)
  /\ UNCHANGED <<requestVars, pc, arg, useCx, lockVars, domVars, sessionVars, viewsHead>>

(* g2_repaint waits inside domStateLock for a call by proxy, and the UI    *)
(* thread enters that lock before it dispatches one: there is no answer.   *)
Repaint(s) ==
  /\ pc[s] = "script" /\ dom = NoThread /\ dom' = s /\ Goto(s, "repaint")
  /\ UNCHANGED <<requestVars, arg, useCx, lockVars, handling, sessionVars, viewVars>>
-----------------------------------------------------------------------------
(* The collector, which a script calls or a context that is destroyed, the *)
(* UI thread's or that of a created thread whose script has ended.  It     *)
(* runs when no other thread is in a request, and the finalizer of a DOM   *)
(* node enters domStateLock.                                               *)
CollectGarbage(t) ==
  /\ pc[t] \in (IF t \in UIs THEN {"ending"} ELSE {"script", "out"})
  /\ CallGC(t) /\ Goto(t, "gc")
  /\ UNCHANGED <<depth, arg, useCx, lockVars, domVars, sessionVars, viewVars>>

Marks(t) ==
  /\ pc[t] = "gc" /\ MarkGC(t) /\ \E l \in {"sweep", "swept"} : Goto(t, l)
  /\ UNCHANGED <<arg, useCx, lockVars, domVars, sessionVars, viewVars>>

Finalizes(t) ==
  /\ pc[t] = "sweep" /\ dom \in {NoThread, t} /\ Goto(t, "swept")
  /\ UNCHANGED <<requestVars, arg, useCx, lockVars, domVars, sessionVars, viewVars>>

Swept(t) ==
  /\ pc[t] = "swept" /\ DoneGC(t) /\ Goto(t, "gc")
  /\ UNCHANGED <<arg, useCx, lockVars, domVars, sessionVars, viewVars>>

Collects(t) == Marks(t) \/ Finalizes(t) \/ Swept(t)

(* A thread that has left its script ends with the context.                *)
GcReturns(s) ==
  /\ pc[s] = "gc" /\ LeavesGC(s)
  /\ Goto(s, IF s \in Drivers \/ depth[s] > 0 THEN "script" ELSE "out")
  /\ UNCHANGED <<requestVars, arg, useCx, lockVars, domVars, sessionVars, viewVars>>
-----------------------------------------------------------------------------
(* UiThread.                                                               *)

(* Mutant: a thread that fails counts itself off although it never counted *)
(* itself.                                                                 *)
InitGREUncounts(u) ==
  /\ pc[u] = "gre"
  /\ \/ Goto(u, "context") /\ UNCHANGED threadInitialized
     \/ Goto(u, "dead") /\ threadInitialized' = threadInitialized - 1
  /\ UNCHANGED <<requestVars, arg, useCx, lockVars, domVars, keepUIGoing, session, overlap, viewVars>>

InitGRE(u) ==
  /\ pc[u] = "gre"
  /\ \/ Goto(u, "context")
     \/ Goto(u, "dead")
  /\ UNCHANGED <<requestVars, arg, useCx, lockVars, domVars, sessionVars, viewVars>>

(* The new context is made inside a request of the caller's context, on    *)
(* this thread; then both locks are initialised, and the thread is ready.  *)
UiReady(u) ==
  /\ pc[u] = "context" /\ CanBegin(useCx)
  /\ lock' = "up" /\ owner' = NoThread /\ dom' = NoThread
  /\ overlap' = (overlap \/ \E o \in UIs \ {u} :
                   pc[o] \notin {"none", "gre", "context", "dead"})
  /\ threadInitialized' = threadInitialized + 1
  /\ Goto(u, "top")
  /\ UNCHANGED <<requestVars, arg, useCx, handling, viewVars, keepUIGoing, session>>

UiChecksKeepGoing(u) ==
  /\ pc[u] = "top"
  /\ IF keepUIGoing
     THEN LockFree /\ owner' = u /\ Goto(u, "scan")
     ELSE Goto(u, "ending") /\ UNCHANGED owner
  /\ UNCHANGED <<requestVars, arg, useCx, lock, domVars, sessionVars, viewVars>>

UiMakesWindow(u) ==
  /\ pc[u] = "scan"
  /\ \E v \in Listed :
       /\ ~view[v].initialized
       /\ Set(v, "windows", view[v].windows + 1)
       /\ arg' = [arg EXCEPT ![u] = v]
  /\ Goto(u, "making")
  /\ UNCHANGED <<requestVars, useCx, lockVars, domVars, sessionVars, viewsHead>>

(* Mutant: the flag is not set once the window is made.                    *)
UiInitViewUnmarked(u) ==
  /\ pc[u] = "making"
  /\ Goto(u, "scan")
  /\ UNCHANGED <<requestVars, arg, useCx, lockVars, domVars, sessionVars, viewVars>>

UiInitView(u) ==
  /\ pc[u] = "making"
  /\ Set(arg[u], "initialized", TRUE)
  /\ Goto(u, "scan")
  /\ UNCHANGED <<requestVars, arg, useCx, lockVars, domVars, sessionVars, viewsHead>>

(* Destroying the window of a view leaves the view on the list.            *)
UiDestroyWindow(u) ==
  /\ pc[u] = "scan"
  /\ \E v \in Listed :
       view[v].initialized /\ view[v].destroying /\ Set(v, "destroying", FALSE)
  /\ UNCHANGED <<requestVars, pc, arg, useCx, lockVars, domVars, sessionVars, viewsHead>>

(* Mutant: the thread pumps messages inside the lock.                      *)
UiKeepsLock(u) ==
  /\ pc[u] = "scan"
  /\ \A v \in Listed : view[v].initialized /\ ~view[v].destroying
  /\ Goto(u, "pump")
  /\ UNCHANGED <<requestVars, arg, useCx, lockVars, domVars, sessionVars, viewVars>>

UiLeavesLock(u) ==
  /\ pc[u] = "scan"
  /\ \A v \in Listed : view[v].initialized /\ ~view[v].destroying
  /\ owner' = NoThread
  /\ Goto(u, "pump")
  /\ UNCHANGED <<requestVars, arg, useCx, lock, domVars, sessionVars, viewVars>>

(* A timer of one second wakes GetMessage if nothing else does; what it    *)
(* returns is dispatched inside domStateLock.                              *)
UiWakes(u) ==
  /\ pc[u] = "pump" /\ Goto(u, "wake")
  /\ UNCHANGED <<requestVars, arg, useCx, lockVars, domVars, sessionVars, viewVars>>

UiEntersDom(u) ==
  /\ pc[u] = "wake" /\ dom = NoThread /\ dom' = u /\ Goto(u, "dispatch")
  /\ UNCHANGED <<requestVars, arg, useCx, lockVars, handling, sessionVars, viewVars>>

UiLeavesDom(u) ==
  /\ pc[u] = "dispatch" /\ Goto(u, "top")
  /\ dom' = IF dom = u THEN NoThread ELSE dom
  /\ UNCHANGED <<requestVars, arg, useCx, lockVars, handling, sessionVars, viewVars>>

(* HandleEvent and OnLocationChange: what is dispatched, a message sent to *)
(* a window, and the focus of a new window or the end of one, run a        *)
(* script's function or change its object, inside a request.               *)
UiHandlesEvent(u) ==
  /\ \/ pc[u] \in {"making", "pump", "dispatch"}
     \/ pc[u] = "scan" /\ \E v \in Listed : view[v].destroying
  /\ handling' = handling \union {u}
  /\ UNCHANGED <<requestVars, pc, arg, useCx, lockVars, dom, sessionVars, viewVars>>

UiBeginsRequest(u) ==
  /\ u \in handling /\ depth[u] = 0 /\ BeginRequest(u)
  /\ UNCHANGED <<pc, arg, useCx, lockVars, domVars, sessionVars, viewVars>>

UiEndsRequest(u) ==
  /\ u \in handling /\ EndRequest(u)
  /\ handling' = handling \ {u}
  /\ UNCHANGED <<pc, arg, useCx, lockVars, dom, sessionVars, viewVars>>

(* Mutant: an ended thread stays counted.                                  *)
UiStaysCounted(u) ==
  /\ pc[u] = "gc" /\ LeavesGC(u)
  /\ Goto(u, "deleting")
  /\ UNCHANGED <<requestVars, arg, useCx, lockVars, domVars, viewVars, sessionVars>>

UiUncounts(u) ==
  /\ pc[u] = "gc" /\ LeavesGC(u)
  /\ threadInitialized' = threadInitialized - 1
  /\ Goto(u, "deleting")
  /\ UNCHANGED <<requestVars, arg, useCx, lockVars, domVars, viewVars, keepUIGoing, session, overlap>>

UiDeletesLock(u) ==
  /\ pc[u] = "deleting"
  /\ lock' = "deleted" /\ owner' = NoThread
  /\ Goto(u, "dead")
  /\ UNCHANGED <<requestVars, arg, useCx, domVars, sessionVars, viewVars>>
-----------------------------------------------------------------------------
(* What a script has begun and waits in; the rest is its own to decide.    *)
ScriptGoesOn(s) ==
  \/ InitReturns(s) \/ TermReturns(s)
  \/ PushView(s) \/ SeesView(s) \/ ViewIsShown(s) \/ ProxyAnswers(s) \/ CreateViewReturns(s)
  \/ Collects(s) \/ GcReturns(s)

ScriptStep(s) ==
  \/ ScriptGoesOn(s)
  \/ ScriptStarts(s) \/ ScriptEnds(s) \/ CallInitFails(s) \/ CallInit(s) \/ CallTerm(s)
  \/ CallCreateView(s) \/ DestroyView(s) \/ Repaint(s) \/ CollectGarbage(s)

(* The loop and what is around it, which wait for the calls in between.    *)
UiGoesOn(u) ==
  /\ u \notin handling
  /\ \/ InitGRE(u) \/ UiReady(u) \/ UiChecksKeepGoing(u)
     \/ UiMakesWindow(u) \/ UiInitView(u) \/ UiDestroyWindow(u) \/ UiLeavesLock(u)
     \/ UiWakes(u) \/ UiEntersDom(u) \/ UiLeavesDom(u)
     \/ CollectGarbage(u) \/ Collects(u) \/ UiUncounts(u) \/ UiDeletesLock(u)

UiStep(u) ==
  UiGoesOn(u) \/ UiHandlesEvent(u) \/ UiBeginsRequest(u) \/ UiEndsRequest(u)

Next == (\E s \in Scripts : ScriptStep(s)) \/ (\E u \in UIs : UiStep(u))

(* The UI thread goes on when a call in between returns, and a lock or the *)
(* collector is handed to a thread that keeps asking for it.  A poll of a  *)
(* script sees what comes true again and again; GetMessage answers the     *)
(* messages sent to it, and messages are dispatched in the order they were *)
(* posted.  What scripts call, whether they end, and whether a function    *)
(* the UI thread calls ever returns, is theirs to decide.                  *)
Fairness ==
  /\ \A u \in UIs : SF_vars(UiGoesOn(u)) /\ SF_vars(UiBeginsRequest(u))
  /\ \A s \in Scripts : SF_vars(ScriptGoesOn(s))

Spec == Init /\ [][Next]_vars /\ Fairness
-----------------------------------------------------------------------------
(* Properties.                                                             *)

InLoop == {u \in UIs : pc[u] \in LoopPCs}

(* Between a GeckoInit that returned TRUE and the next GeckoTerm exactly   *)
(* one UI thread runs its loop and the lock of the views is usable, except *)
(* when the session set the lock up before the thread of the session       *)
(* before it had deleted it (317, 376-377).                                *)
SessionIsServed ==
  session = "on" =>
    /\ Cardinality(InLoop) = 1 /\ threadInitialized = 1
    /\ lock = "up" \/ overlap

(* When GeckoTerm has returned, no UI thread is in its loop or will enter  *)
(* it before the next GeckoInit: nobody touches a view any more.  A second *)
(* GeckoInit without a GeckoTerm is not protected: it returns when the     *)
(* first thread has counted itself (399-406).                              *)
TermLeavesNoLoop ==
  ~keepUIGoing /\ session = "off" /\ (\A s \in Drivers : pc[s] = "script") =>
    \A u \in UIs : pc[u] \in IdlePCs

(* A view gets one window, however often the list is scanned and whichever *)
(* session finds it there: initialised and destroyed views stay listed.    *)
OneWindowPerView == overlap \/ \A v \in Views : view[v].windows <= 1

(* What a call of CreateView can be in once its view is listed.            *)
Creating(s) == pc[s] \in {"poll"} \union MadePCs

(* A script that stays in CreateView for as long as its session lasts is   *)
(* held up by one of three things, for ever as well: the UI thread is in a *)
(* function of a script that does not return; the UI thread waits to call  *)
(* one for a collection, which waits for the very request the script makes *)
(* its view in (75-110), or for the lock the UI thread dispatches in; or a *)
(* Repaint keeps that lock.  Making and showing the view need nothing      *)
(* else, and the lock of the views is not held while a view is waited for. *)
CreateViewHeldUp ==
  \A s \in Scripts :
    <>[](Creating(s) /\ session = "on") =>
      \/ <>overlap
      \/ \E u \in UIs : <>[](depth[u] > 0)
      \/ \E u \in UIs, t \in Scripts : <>[](u \in handling /\ gcThread = t)
      \/ \E t \in Scripts : <>[](pc[t] = "repaint")

(* A GeckoTerm that never returns is held up by a thread that stays in its *)
(* request, that of its script or of a function the UI thread calls, for   *)
(* the UI thread's context is destroyed (375) before the counter falls     *)
(* (376).  Or, with nobody in a request, a finalizer waits for the UI      *)
(* thread to leave domStateLock, and the UI thread waits inside that lock  *)
(* for the collection to end, to call a function.                          *)
TermHeldUp ==
  \A s \in Drivers :
    <>[](pc[s] = "termPoll") =>
      \/ <>overlap
      \/ \E t \in Threads : <>[](depth[t] > 0)
      \/ \E u \in UIs, t \in Scripts : <>[](u \in handling /\ pc[t] = "sweep" /\ dom = u)
-----------------------------------------------------------------------------
(* The session as scripts see it, where one of them starts and ends it.    *)
Phase ==
  IF session # "off" THEN session
  ELSE IF \E d \in Drivers : pc[d] = "initPoll" THEN "starting"
  ELSE IF \E d \in Drivers : pc[d] = "termPoll" THEN "ending"
  ELSE "off"

(* How far a view is, and the scripts that wait in CreateView for it.      *)
Stage(v) ==
  IF view[v].initialized THEN "shown"
  ELSE IF view[v].windows > 0 THEN "made"
  ELSE IF v \in Listed THEN "asked" ELSE "none"

Stages == [v \in Views |-> Stage(v)]

Waiters == [v \in Views |-> {s \in Scripts : Creating(s) /\ arg[s] = v}]

Service == INSTANCE Sessions WITH
  phase <- Phase, serving <- InLoop, stage <- Stages, waiting <- Waiters

(* GeckoInit, GeckoTerm and CreateView keep what Sessions promises: a      *)
(* thread enters its loop only while its GeckoInit waits and leaves it     *)
(* only after a GeckoTerm, that call returns when no thread is left in it, *)
(* and CreateView returns when a thread in its loop has made its view, in  *)
(* that session or in one before (jsexports.cpp:76-98, uiwndthread.cpp:    *)
(* 321-376, 399-412, 419-424).                                             *)
ServesSessions == Service!Spec
=============================================================================
