---------------------------- MODULE GeckoEvents ----------------------------
(***************************************************************************)
(* Events of one view of the Gecko extension (js_gecko2): the UI thread    *)
(* dispatches its messages inside domStateLock and calls the listeners     *)
(* that scripts registered (domeventhandler.cpp), natives that touch the   *)
(* document take the same lock, most of them inside a request, proxied     *)
(* calls wait for the UI thread, and a collection finalises DOM nodes      *)
(* inside the lock.  Listeners are reference-counted by hand, with a count *)
(* that is not interlocked.                                                *)
(*                                                                         *)
(* One script uses the view: its list of listeners has no lock of its own. *)
(* The others compute, collect and touch the document.                     *)
(***************************************************************************)
EXTENDS Requests, Integers, Sequences, FiniteSets

CONSTANTS Ui, User, Others,  \* the UI thread, and the script threads
          Listeners,         \* names for DOMEventListener objects
          MaxDepth           \* bound: nested requests of a script

Scripts == Others \union {User}

ASSUME GeckoEventsAssumption ==
  /\ Threads = Scripts \union {Ui} /\ Ui \notin Scripts /\ User \notin Others
  /\ MaxDepth \in Nat \ {0}

VARIABLES
  pc,
  dom,       \* owner of domStateLock
  todo,      \* listeners the UI thread has still to call for an event
  called,    \* the listener it calls, with a reference of its own
  refs,      \* [Listeners -> Nat], 0 when not allocated
  attached,  \* listeners an event target of the document refers to
  callBack,  \* listeners with a function to call
  sig,       \* listeners whose event handle is signalled
  list,      \* mDOMListener of the view, newest first
  count,     \* nDOMListeners of the view
  own,       \* listeners that a local of the native in progress refers to
  releasing, \* of those, the one whose count g2_unregister_event has read
  stale,     \* what it read
  handles,   \* what WaitForThings waits for
  result,    \* what the wait in progress came to
  saved,     \* depth of the request the user has suspended
  leaked,    \* history: listeners that nothing refers to any more
  unseen,    \* history: listeners called, when listed, since the last wait on
             \* them returned
  touched,   \* the listener releasing, if its count has changed since
  torn       \* history: listeners of whose count a change was lost

listenerVars == <<refs, attached, callBack, sig>>
viewVars == <<list, count>>
nativeVars == <<own, releasing, stale, handles, result, saved>>
historyVars == <<leaked, unseen, touched, torn>>
uiVars == <<dom, todo, called>>
vars == <<requestVars, pc, uiVars, listenerVars, viewVars, nativeVars, historyVars>>

UiPCs == {"idle", "handling", "uiBegin", "callback", "uiGC", "handled"}
LockPCs == {"regLock", "waitLock", "waitDetach", "loadLock", "loadAttach",
            "loadDetach", "domLock", "repaintLock"}
ProxyPCs == {"loading", "asking", "repainting"}
ScriptPCs == LockPCs \union ProxyPCs \union
  {"script", "out", "unreg", "waiting", "things", "reset", "load", "loaded", "loadNext",
   "loadWait", "answered", "gc", "gcLock"}

TypeOK ==
  /\ RequestsTypeOK
  /\ pc \in [Threads -> UiPCs \union ScriptPCs]
  /\ dom \in Threads \union {NoThread}
  /\ {attached, callBack, sig, todo, called, handles, own, releasing, leaked, unseen,
      touched, torn} \subseteq SUBSET Listeners
  /\ refs \in [Listeners -> Int] /\ stale \in Int
  /\ list \in Seq(Listeners) /\ count \in Nat
  /\ result \in BOOLEAN
  /\ saved \in Nat

(* The top-level script runs outside any request, a created thread inside. *)
Init ==
  /\ depth \in {d \in [Threads -> 0..1] : d[Ui] = 0}
  /\ gcThread = NoThread /\ gcRunning = FALSE /\ joined = {}
  /\ pc = [t \in Threads |-> IF t = Ui THEN "idle" ELSE "script"]
  /\ dom = NoThread /\ todo = {} /\ called = {}
  /\ refs = [l \in Listeners |-> 0]
  /\ attached = {} /\ callBack = {} /\ sig = {}
  /\ list = <<>> /\ count = 0
  /\ own = {} /\ releasing = {} /\ stale = 0 /\ handles = {} /\ result = FALSE
  /\ saved = 0
  /\ leaked = {} /\ unseen = {} /\ touched = {} /\ torn = {}

Goto(t, l) == pc' = [pc EXCEPT ![t] = l]
Listed == {list[i] : i \in DOMAIN list}
InScript(s) == pc[s] = "script" /\ depth[s] < MaxDepth

Count(l, S) == IF l \in S THEN 1 ELSE 0

(* A listener that is deleted closes its event handle.                     *)
Delete(S) == sig' = sig \ S /\ callBack' = callBack \ S /\ unseen' = unseen \ S

(* Release, of every member of S and then of T, where no other thread can  *)
(* reach the counts: inside domStateLock, or of a listener the document    *)
(* does not know.  One that nobody refers to is deleted.                   *)
Release(S, T) ==
  /\ refs' = [l \in Listeners |-> refs[l] - Count(l, S) - Count(l, T)]
  /\ Delete({l \in S \union T : refs[l] = Count(l, S) + Count(l, T)})

(* The UI thread changes the counts of S, in domStateLock: a release by    *)
(* g2_unregister_event, outside it, may be at one of them.                 *)
Touch(S) == touched' = touched \union (S \intersect releasing)

(* A native enters domStateLock and leaves it again without waiting for    *)
(* anything inside: one step, possible while no other thread is in it.     *)
DomFree(t) == dom \in {NoThread, t}

Suspend(s) ==
  /\ saved' = depth[s]
  /\ depth' = [depth EXCEPT ![s] = 0]
  /\ UNCHANGED <<gcThread, gcRunning, joined>>

Resume(s) ==
  /\ CanBegin(s)
  /\ depth' = [depth EXCEPT ![s] = saved]
  /\ saved' = 0
  /\ UNCHANGED <<gcThread, gcRunning, joined>>
-----------------------------------------------------------------------------
(* g2_register_event.  The request it begins it never ends.                *)

NewListener(isCallback) ==
  \E l \in Listeners \ torn :
    /\ refs[l] = 0
    /\ refs' = [refs EXCEPT ![l] = 1]
    /\ own' = {l}
    /\ callBack' = IF isCallback THEN callBack \union {l} ELSE callBack
    /\ UNCHANGED <<attached, sig, historyVars>>

RegisterEvent(s) ==
  /\ s = User /\ InScript(s) /\ BeginRequest(s)
  /\ \E isCallback \in BOOLEAN : NewListener(isCallback)
  /\ Goto(s, "regLock")
  /\ UNCHANGED <<uiVars, viewVars, releasing, stale, handles, result, saved>>

Attach ==
  /\ attached' = attached \union own
  /\ refs' = [l \in Listeners |-> refs[l] + Count(l, own)]
  /\ UNCHANGED <<callBack, sig, unseen>>

(* AddEventListener succeeds and the listener is listed, or it is deleted. *)
RegisterAdds(s) ==
  /\ pc[s] = "regLock" /\ DomFree(s)
  /\ \/ /\ Attach
        /\ \E l \in own : list' = <<l>> \o list
        /\ count' = count + 1
     \/ Release(own, {}) /\ UNCHANGED <<attached, viewVars>>
  /\ own' = {}
  /\ Goto(s, "script")
  /\ UNCHANGED <<requestVars, uiVars, releasing, stale, handles, result, saved, leaked,
                 touched, torn>>

(* Mutant: the released listeners stay on the list.                        *)
UnregisterKeepsList(s) ==
  /\ s = User /\ InScript(s) /\ CanBegin(s)
  /\ own' = Listed
  /\ Goto(s, "unreg")
  /\ UNCHANGED <<requestVars, uiVars, listenerVars, viewVars, releasing, stale, handles,
                 result, saved, historyVars>>

(* g2_unregister_event: the listeners stay attached, nDOMListeners stays.  *)
UnregisterEvent(s) ==
  /\ s = User /\ InScript(s) /\ CanBegin(s)
  /\ own' = Listed /\ list' = <<>>
  /\ Goto(s, "unreg")
  /\ UNCHANGED <<requestVars, uiVars, listenerVars, count, releasing, stale, handles,
                 result, saved, historyVars>>

(* Its Releases are outside domStateLock, and the count is not interlocked *)
(* (NS_IMPL_ISUPPORTS1): it is read and it is written, and the UI thread   *)
(* may change it in between.                                               *)
UnregisterReads(s) ==
  /\ pc[s] = "unreg" /\ releasing = {}
  /\ \E l \in own : releasing' = {l} /\ stale' = refs[l]
  /\ UNCHANGED <<requestVars, pc, uiVars, listenerVars, viewVars, own, handles, result,
                 saved, historyVars>>

(* Where it has, the changes of the UI thread may be overwritten, or this  *)
(* Release by the last of them, or neither is lost.  What then becomes of  *)
(* a listener whose count is torn is not modelled further.                 *)
Written(l) ==
  {stale - 1} \union (IF l \in touched THEN {refs[l] - 1, refs[l]} ELSE {})

UnregisterWrites(s) ==
  /\ pc[s] = "unreg"
  /\ \E l \in releasing : \E n \in Written(l) :
       /\ refs' = [refs EXCEPT ![l] = n]
       /\ Delete(IF n = 0 THEN {l} ELSE {})
       /\ torn' = IF n = refs[l] - 1 THEN torn ELSE torn \union {l}
       /\ own' = own \ {l}
  /\ releasing' = {} /\ stale' = 0 /\ touched' = {}
  /\ UNCHANGED <<requestVars, pc, uiVars, attached, viewVars, handles, result, saved,
                 leaked>>

UnregisterReturns(s) ==
  /\ pc[s] = "unreg" /\ own = {} /\ Goto(s, "script")
  /\ UNCHANGED <<requestVars, uiVars, listenerVars, viewVars, nativeVars, historyVars>>
-----------------------------------------------------------------------------
(* g2_wait_for_stuff: one event, on a listener of its own.                 *)

WaitForStuff(s) ==
  /\ s = User /\ InScript(s) /\ CanBegin(s)
  /\ NewListener(FALSE)
  /\ Goto(s, "waitLock")
  /\ UNCHANGED <<requestVars, uiVars, viewVars, releasing, stale, handles, result, saved>>

(* Mutant: the path of the failure does not leave the lock.                *)
WaitAddsInside(s) ==
  /\ pc[s] = "waitLock" /\ DomFree(s)
  /\ \/ Attach /\ Goto(s, "waiting") /\ UNCHANGED <<own, leaked, dom>>
     \/ /\ leaked' = leaked \union own /\ own' = {} /\ dom' = s
        /\ Goto(s, "script") /\ UNCHANGED <<listenerVars, unseen>>
  /\ UNCHANGED <<requestVars, todo, called, viewVars, releasing, stale, handles, result,
                 saved, touched, torn>>

(* When AddEventListener fails the new listener is forgotten.              *)
WaitAdds(s) ==
  /\ pc[s] = "waitLock" /\ DomFree(s)
  /\ \/ Attach /\ Goto(s, "waiting") /\ UNCHANGED <<own, leaked>>
     \/ /\ leaked' = leaked \union own /\ own' = {}
        /\ Goto(s, "script") /\ UNCHANGED <<listenerVars, unseen>>
  /\ UNCHANGED <<requestVars, uiVars, viewVars, releasing, stale, handles, result, saved,
                 touched, torn>>

WaitTimesOut(s) ==
  /\ pc[s] = "waiting" /\ result' = FALSE /\ Goto(s, "waitDetach")
  /\ UNCHANGED <<requestVars, uiVars, listenerVars, viewVars, own, releasing,
                 stale, handles, saved, historyVars>>

WaitWakes(s) ==
  /\ pc[s] = "waiting" /\ own \subseteq sig
  /\ result' = TRUE /\ Goto(s, "waitDetach")
  /\ UNCHANGED <<requestVars, uiVars, listenerVars, viewVars, own, releasing,
                 stale, handles, saved, historyVars>>

(* RemoveEventListener, where the document still knows it, and Release.    *)
Detach ==
  /\ attached' = attached \ own
  /\ Release(own, own \intersect attached)
  /\ own' = {}

WaitReturns(s) ==
  /\ pc[s] = "waitDetach" /\ DomFree(s)
  /\ Detach /\ result' = FALSE /\ Goto(s, "script")
  /\ UNCHANGED <<requestVars, uiVars, viewVars, releasing, stale, handles, saved,
                 leaked, touched, torn>>
-----------------------------------------------------------------------------
(* g2_wait_for_things: all or any of the listed listeners.                 *)

(* Mutant: the handles are reset before the wait.                          *)
WaitForThingsAfresh(s) ==
  /\ s = User /\ InScript(s) /\ CanBegin(s)
  /\ handles' = Listed /\ sig' = sig \ Listed
  /\ Goto(s, "things")
  /\ UNCHANGED <<requestVars, uiVars, refs, attached, callBack, viewVars, own, releasing,
                 stale, result, saved, historyVars>>

WaitForThings(s) ==
  /\ s = User /\ InScript(s) /\ CanBegin(s)
  /\ handles' = Listed
  /\ Goto(s, "things")
  /\ UNCHANGED <<requestVars, uiVars, listenerVars, viewVars, own, releasing,
                 stale, result, saved, historyVars>>

(* The wait fails at once when it has fewer handles than nDOMListeners     *)
(* says (the rest of the array is not initialised), or none at all.        *)
ThingsWaitEnds(s) ==
  /\ pc[s] = "things"
  /\ \/ count = Cardinality(handles) /\ handles # {} /\ result' = TRUE
          /\ \E any \in BOOLEAN :
               IF any THEN handles \intersect sig # {} ELSE handles \subseteq sig
     \/ result' = FALSE
  /\ Goto(s, "reset")
  /\ UNCHANGED <<requestVars, uiVars, listenerVars, viewVars, own, releasing,
                 stale, handles, saved, historyVars>>

ThingsReturns(s) ==
  /\ pc[s] = "reset"
  /\ sig' = sig \ handles
  /\ unseen' = unseen \ handles
  /\ handles' = {} /\ result' = FALSE
  /\ Goto(s, "script")
  /\ UNCHANGED <<requestVars, uiVars, refs, attached, callBack, viewVars, own, releasing,
                 stale, saved, leaked, touched, torn>>
-----------------------------------------------------------------------------
(* g2_load_uri and g2_load_data.                                           *)

LoadURI(s) ==
  /\ s = User /\ InScript(s) /\ BeginRequest(s)
  /\ own' = Listed /\ list' = <<>>
  /\ Goto(s, "loadLock")
  /\ UNCHANGED <<uiVars, listenerVars, count, releasing, stale, handles, result, saved,
                 historyVars>>

(* The next of a listener is read after its Release: what a deleted one    *)
(* then holds is taken to be what it held.                                 *)
LoadReleases(s) ==
  /\ pc[s] = "loadLock" /\ DomFree(s)
  /\ Release(own, {}) /\ own' = {}
  /\ Goto(s, "load")
  /\ UNCHANGED <<requestVars, uiVars, attached, viewVars, releasing, stale, handles,
                 result, saved, leaked, touched, torn>>

LoadSuspends(s) ==
  /\ pc[s] = "load" /\ Suspend(s) /\ Goto(s, "loading")
  /\ UNCHANGED <<uiVars, listenerVars, viewVars, own, releasing, stale,
                 handles, result, historyVars>>

LoadResumes(s) ==
  /\ pc[s] = "loaded" /\ Resume(s) /\ Goto(s, "loadNext")
  /\ UNCHANGED <<uiVars, listenerVars, viewVars, own, releasing, stale,
                 handles, result, historyVars>>

(* No target; a target that is not found, the request left open; or wait.  *)
LoadGoesOn(s) ==
  /\ pc[s] = "loadNext"
  /\ \/ Goto(s, "script") /\ UNCHANGED <<listenerVars, own, historyVars>>
        /\ (EndRequest(s) \/ UNCHANGED requestVars)
     \/ NewListener(FALSE) /\ Goto(s, "loadAttach") /\ UNCHANGED requestVars
  /\ UNCHANGED <<uiVars, viewVars, releasing, stale, handles, result, saved>>

LoadAttaches(s) ==
  /\ pc[s] = "loadAttach" /\ DomFree(s)
  /\ Attach \/ UNCHANGED <<listenerVars, unseen>>
  /\ Suspend(s) /\ Goto(s, "loadWait")
  /\ UNCHANGED <<uiVars, viewVars, own, releasing, stale, handles, result, leaked,
                 touched, torn>>

LoadWakes(s) ==
  /\ pc[s] = "loadWait" /\ own \subseteq sig /\ Resume(s)
  /\ Goto(s, "loadDetach")
  /\ UNCHANGED <<uiVars, listenerVars, viewVars, own, releasing, stale,
                 handles, result, historyVars>>

LoadReturns(s) ==
  /\ pc[s] = "loadDetach" /\ DomFree(s)
  /\ Detach /\ EndRequest(s) /\ Goto(s, "script")
  /\ UNCHANGED <<uiVars, viewVars, releasing, stale, handles, result, saved, leaked,
                 touched, torn>>
-----------------------------------------------------------------------------
(* Natives that touch the document, in the lock; most of them in a request *)
(* (domnode.cpp), some outside (setAttribute, removeAttribute).            *)

ChangeDom(s) ==
  /\ InScript(s) /\ BeginRequest(s) /\ Goto(s, "domLock")
  /\ UNCHANGED <<uiVars, listenerVars, viewVars, nativeVars, historyVars>>

DomChanged(s) ==
  /\ pc[s] = "domLock" /\ DomFree(s)
  /\ EndRequest(s) /\ Goto(s, "script")
  /\ UNCHANGED <<uiVars, listenerVars, viewVars, nativeVars, historyVars>>

(* Calls through a proxy return when the UI thread has served them:        *)
(* g2_get_dom asks inside its request, g2_repaint inside domStateLock.     *)
AskUi(s) ==
  /\ s = User /\ InScript(s) /\ BeginRequest(s) /\ Goto(s, "asking")
  /\ UNCHANGED <<uiVars, listenerVars, viewVars, nativeVars, historyVars>>

Answered(s) ==
  /\ pc[s] = "answered" /\ EndRequest(s) /\ Goto(s, "script")
  /\ UNCHANGED <<uiVars, listenerVars, viewVars, nativeVars, historyVars>>

Repaint(s) ==
  /\ s = User /\ InScript(s) /\ CanBegin(s) /\ Goto(s, "repaintLock")
  /\ UNCHANGED <<requestVars, uiVars, listenerVars, viewVars, nativeVars, historyVars>>

RepaintAsks(s) ==
  /\ pc[s] = "repaintLock" /\ DomFree(s)
  /\ dom' = s /\ Goto(s, "repainting")
  /\ UNCHANGED <<requestVars, todo, called, listenerVars, viewVars, nativeVars,
                 historyVars>>

(* Collections; the finalizer of a DOM node takes the lock (domnode.cpp:47). *)
Collect(s) ==
  /\ pc[s] = "script" /\ CallGC(s) /\ Goto(s, "gc")
  /\ UNCHANGED <<depth, uiVars, listenerVars, viewVars, nativeVars, historyVars>>

StartMarking(t) ==
  /\ pc[t] \in {"gc", "uiGC"} /\ MarkGC(t)
  /\ UNCHANGED <<pc, uiVars, listenerVars, viewVars, nativeVars, historyVars>>

FindNodes(s) ==
  /\ pc[s] = "gc" /\ gcThread = s /\ gcRunning /\ Goto(s, "gcLock")
  /\ UNCHANGED <<requestVars, uiVars, listenerVars, viewVars, nativeVars, historyVars>>

Sweep(t) ==
  /\ pc[t] \in {"gc", "uiGC", "gcLock"}
  /\ pc[t] = "gcLock" => DomFree(t)
  /\ DoneGC(t)
  /\ IF pc[t] = "gcLock" THEN Goto(t, "gc") ELSE UNCHANGED pc
  /\ UNCHANGED <<uiVars, listenerVars, viewVars, nativeVars, historyVars>>

LeaveGC(t) ==
  /\ pc[t] \in {"gc", "uiGC"} /\ LeavesGC(t)
  /\ Goto(t, IF t = Ui THEN "callback" ELSE "script")
  /\ UNCHANGED <<requestVars, uiVars, listenerVars, viewVars, nativeVars, historyVars>>

ScriptEnds(s) ==
  /\ pc[s] = "script" /\ EndAllRequests(s) /\ Goto(s, "out")
  /\ UNCHANGED <<gcThread, gcRunning, joined, uiVars, listenerVars, viewVars,
                 nativeVars, historyVars>>
-----------------------------------------------------------------------------
(* The UI thread: GetMessage returns, and the message is dispatched inside *)
(* the lock (uiwndthread.cpp:360-367).                                     *)

(* Messages that concern no script, and changes of location.               *)
UiDispatches ==
  /\ pc[Ui] = "idle" /\ DomFree(Ui) /\ dom' = Ui
  /\ \E l \in {"handling", "uiBegin"} : Goto(Ui, l)
  /\ UNCHANGED <<requestVars, todo, called, listenerVars, viewVars, nativeVars,
                 historyVars>>

(* An event, at a target with any of the attached listeners.               *)
UiDispatchesEvent ==
  /\ pc[Ui] = "idle" /\ DomFree(Ui) /\ dom' = Ui
  /\ todo' \in SUBSET attached
  /\ Goto(Ui, "handling")
  /\ UNCHANGED <<requestVars, called, listenerVars, viewVars, nativeVars, historyVars>>

(* A new document: event targets of the old one go, with their references. *)
UiReplacesDocument ==
  /\ pc[Ui] = "idle" /\ DomFree(Ui)
  /\ \E gone \in SUBSET attached :
       attached' = attached \ gone /\ Release(gone, {}) /\ Touch(gone)
  /\ UNCHANGED <<requestVars, pc, uiVars, viewVars, nativeVars, leaked, torn>>

UiServesProxy(s) ==
  /\ pc[Ui] = "idle" /\ DomFree(Ui) /\ pc[s] \in ProxyPCs
  /\ Goto(s, CASE pc[s] = "loading" -> "loaded" [] pc[s] = "asking" -> "answered"
               [] pc[s] = "repainting" -> "script")
  /\ dom' = IF pc[s] = "repainting" THEN NoThread ELSE dom
  /\ UNCHANGED <<requestVars, todo, called, listenerVars, viewVars, nativeVars,
                 historyVars>>

(* DOMEventListener::HandleEvent, which the dispatch calls with a reference*)
(* to the listener of its own.                                             *)
UiHandlesEvent(l) ==
  /\ pc[Ui] = "handling" /\ l \in todo
  /\ todo' = todo \ {l} /\ called' = {l}
  /\ refs' = [refs EXCEPT ![l] = refs[l] + 1] /\ Touch({l})
  /\ sig' = sig \union {l}
  /\ unseen' = IF l \in Listed THEN unseen \union {l} ELSE unseen
  /\ Goto(Ui, IF l \in callBack THEN "uiBegin" ELSE "handled")
  /\ UNCHANGED <<requestVars, dom, attached, callBack, viewVars, nativeVars, leaked,
                 torn>>

UiBegins ==
  /\ pc[Ui] = "uiBegin" /\ BeginRequest(Ui) /\ Goto(Ui, "callback")
  /\ UNCHANGED <<uiVars, listenerVars, viewVars, nativeVars, historyVars>>

UiCollects ==
  /\ pc[Ui] = "callback" /\ CallGC(Ui) /\ Goto(Ui, "uiGC")
  /\ UNCHANGED <<depth, uiVars, listenerVars, viewVars, nativeVars, historyVars>>

UiEnds ==
  /\ pc[Ui] = "callback" /\ EndRequest(Ui) /\ Goto(Ui, "handled")
  /\ UNCHANGED <<uiVars, listenerVars, viewVars, nativeVars, historyVars>>

UiReleases ==
  /\ pc[Ui] = "handled" /\ Goto(Ui, "handling")
  /\ called' = {} /\ Release(called, {}) /\ Touch(called)
  /\ UNCHANGED <<requestVars, dom, todo, attached, viewVars, nativeVars, leaked, torn>>

UiLeavesLock ==
  /\ pc[Ui] = "handling" /\ todo = {}
  /\ dom' = NoThread /\ Goto(Ui, "idle")
  /\ UNCHANGED <<requestVars, todo, called, listenerVars, viewVars, nativeVars,
                 historyVars>>
-----------------------------------------------------------------------------
LockStep(s) ==
  \/ RegisterAdds(s) \/ WaitAdds(s) \/ WaitReturns(s) \/ LoadReleases(s)
  \/ LoadAttaches(s) \/ LoadReturns(s) \/ DomChanged(s) \/ RepaintAsks(s)

ScriptStep(s) ==
  \/ RegisterEvent(s) \/ UnregisterEvent(s) \/ UnregisterReads(s)
  \/ UnregisterWrites(s) \/ UnregisterReturns(s) \/ WaitForStuff(s) \/ WaitTimesOut(s)
  \/ WaitWakes(s) \/ WaitForThings(s) \/ ThingsWaitEnds(s) \/ ThingsReturns(s)
  \/ LoadURI(s) \/ LoadSuspends(s) \/ LoadResumes(s) \/ LoadGoesOn(s)
  \/ LoadWakes(s) \/ ChangeDom(s) \/ AskUi(s) \/ Answered(s) \/ Repaint(s)
  \/ Collect(s) \/ FindNodes(s) \/ ScriptEnds(s) \/ LockStep(s)

UiStep ==
  \/ UiDispatches \/ UiDispatchesEvent \/ UiReplacesDocument
  \/ (\E s \in Scripts : UiServesProxy(s))
  \/ (\E l \in Listeners : UiHandlesEvent(l))
  \/ UiBegins \/ UiCollects \/ UiEnds \/ UiReleases \/ UiLeavesLock

CollectorStep(t) == StartMarking(t) \/ Sweep(t) \/ LeaveGC(t)

Next ==
  \/ \E s \in Scripts : ScriptStep(s)
  \/ UiStep
  \/ \E t \in Threads : CollectorStep(t)

(* What a thread does of itself once it may: the steps of the natives, of  *)
(* the dispatch and of the collector, at most one of which each thread is  *)
(* waiting for.                                                            *)
GoesOn(s) ==
  \/ LockStep(s) \/ UnregisterReads(s) \/ UnregisterWrites(s) \/ UnregisterReturns(s)
  \/ ThingsReturns(s) \/ LoadSuspends(s) \/ LoadResumes(s)
  \/ LoadGoesOn(s) \/ UiServesProxy(s) \/ Answered(s) \/ CollectorStep(s)

UiGoesOn ==
  \/ \E l \in Listeners : UiHandlesEvent(l)
  \/ UiBegins \/ UiReleases \/ UiLeavesLock \/ CollectorStep(Ui)

(* A thread that keeps asking for the lock, or for a request, gets it.     *)
(* Messages, waits that end, what scripts call and the end of a callback   *)
(* are not promised.                                                       *)
Fairness == SF_vars(UiGoesOn) /\ \A s \in Scripts : SF_vars(GoesOn(s))

Spec == Init /\ [][Next]_vars /\ Fairness
-----------------------------------------------------------------------------
(* Properties.                                                             *)

(* The reference count of a listener is the number of those who refer to   *)
(* it: the document, the list of the view, the native that made or drops   *)
(* it, the dispatch that calls it.  So a listener the UI thread calls has  *)
(* not been deleted, and one that is released by everybody is; only a      *)
(* failed wait (155-160) forgets one.  The count is torn, and nothing      *)
(* holds any more, only of a listener that g2_unregister_event drops while *)
(* the document still knows it: a load drops them in domStateLock, and a   *)
(* listener in use by a wait is safe.                                      *)
RefsAreExact ==
  /\ \A l \in Listeners \ torn :
       refs[l] = Count(l, attached) + Count(l, Listed) + Count(l, own)
                   + Count(l, called) + Count(l, leaked)
  /\ todo \subseteq attached
  /\ torn \intersect (Listed \union own \union leaked) = {}

(* An event at a listed listener is not forgotten: its handle stays        *)
(* signalled until a WaitForThings on it returns.  (One that times out or  *)
(* fails, returning FALSE, takes the event all the same: it resets its     *)
(* handles, 195-200.)                                                      *)
EventNotForgotten == Listed \intersect unseen \subseteq sig

(* A native that waits for domStateLock for ever is not alone: a callback, *)
(* a collection or a repaint never ends either.  For the UI thread holds   *)
(* the lock while a callback waits for the collector, the collector waits  *)
(* for requests of those who wait for the lock or for the lock itself, and *)
(* Repaint waits inside the lock for a UI thread that needs it.            *)
LockIsHandedOn ==
  \A s \in Scripts :
    <>[](pc[s] \in LockPCs) =>
      \/ <>[](pc[Ui] \in {"callback", "uiGC"})
      \/ <>[](gcThread # NoThread)
      \/ <>[](pc[User] = "repainting")
=============================================================================
