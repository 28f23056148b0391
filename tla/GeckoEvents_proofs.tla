------------------------ MODULE GeckoEvents_proofs --------------------------
(***************************************************************************)
(* For any scripts, listeners and depth of requests: the reference count   *)
(* of a listener is the number of those who refer to it, but of one whose  *)
(* count two threads changed at once, the UI thread only calls listeners   *)
(* the document refers to, and the event of a listed listener stays        *)
(* signalled until a wait on it returns.                                   *)
(***************************************************************************)
EXTENDS GeckoEvents, TLAPS

(* Where a native holds a listener: one it has just made and not yet       *)
(* attached, one it may have attached, or those it took off the list.      *)
FreshPCs == {"regLock", "waitLock", "loadAttach"}
HoldPCs == FreshPCs \union
  {"waiting", "waitDetach", "loadWait", "loadDetach", "loadLock", "unreg"}

(* The other scripts call none of the natives that use the view.           *)
Places ==
  /\ pc \in [Threads -> UiPCs \union ScriptPCs] /\ pc[Ui] \in UiPCs
  /\ \A s \in Scripts : pc[s] \in ScriptPCs
  /\ \A s \in Others : pc[s] \in {"script", "out", "domLock", "gc", "gcLock"}

(* While it dispatches a message, the UI thread is in domStateLock; what   *)
(* it has to call is settled before it leaves, one listener at a time.     *)
DispatchLocked ==
  /\ pc[Ui] # "idle" => dom = Ui
  /\ pc[Ui] = "idle" => todo = {}
  /\ pc[Ui] \in {"idle", "handling"} => called = {}

(* A listener has one holder among the native, the list and nobody; one    *)
(* whose count is torn has none of them.                                   *)
HoldersApart ==
  /\ own \intersect Listed = {} /\ own \intersect leaked = {}
  /\ Listed \intersect leaked = {}
  /\ torn \intersect (Listed \union own \union leaked) = {}

(* What the native holds.                                                  *)
OwnInPlace ==
  /\ pc[User] \in FreshPCs =>
       \E l \in Listeners : own = {l} /\ l \notin attached /\ l \notin unseen
  /\ pc[User] \notin HoldPCs => own = {}

(* A listener with an event to be seen has not been deleted.               *)
UnseenLive == \A l \in unseen \ torn : refs[l] > 0

(* What g2_unregister_event has read of a count is the count, unless the   *)
(* UI thread has touched it since.                                         *)
ReleaseInPlace ==
  /\ touched \subseteq releasing /\ releasing \subseteq own
  /\ releasing # {} => pc[User] = "unreg"
  /\ \A l \in releasing : l \notin touched => refs[l] = stale

EventsInv ==
  /\ TypeOK /\ Places /\ DispatchLocked /\ HoldersApart /\ OwnInPlace /\ ReleaseInPlace
  /\ RefsAreExact /\ UnseenLive /\ EventNotForgotten
-----------------------------------------------------------------------------
OthersPCs == {"script", "out", "domLock", "gc", "gcLock"}

LEMMA WhoIsWho ==
  /\ User \in Scripts /\ Others \subseteq Scripts /\ Ui \notin Scripts
  /\ Ui \in Threads /\ Scripts \subseteq Threads /\ User \notin Others
  /\ \A s \in Scripts : s # Ui /\ (s # User => s \in Others)
  /\ NoThread \notin Threads /\ NoThread # Ui
BY GeckoEventsAssumption, NoThreadAssumption DEF Scripts

(* A script goes on, the one that uses the view anywhere, another only     *)
(* where natives that do not use the view take it.                         *)
LEMMA ScriptGoes ==
  ASSUME Places, NEW s \in Scripts, NEW l \in ScriptPCs, s = User \/ l \in OthersPCs,
         Goto(s, l)
  PROVE  /\ Places' /\ pc'[Ui] = pc[Ui]
         /\ pc'[User] = IF s = User THEN l ELSE pc[User]
BY WhoIsWho DEF Places, Goto, OthersPCs

LEMMA UiGoes ==
  ASSUME Places, NEW l \in UiPCs, Goto(Ui, l)
  PROVE  Places' /\ pc'[Ui] = l /\ pc'[User] = pc[User]
BY WhoIsWho DEF Places, Goto
-----------------------------------------------------------------------------
(* Where a step takes the threads: every action is in one of these cases.  *)
(* Whose step it is, follows from the place it starts at.                  *)
LEMMA StaysUser ==
  ASSUME Places, NEW s \in Scripts, pc[s] \notin OthersPCs
  PROVE  s = User
BY WhoIsWho DEF Places, OthersPCs

LEMMA ScriptPlaces ==
  ASSUME Places, NEW s \in Scripts, ScriptStep(s)
  PROVE  Places' /\ pc'[Ui] = pc[Ui]
<1> USE DEF ScriptPCs, LockPCs, ProxyPCs, OthersPCs
<1>1. CASE RegisterEvent(s)
  BY <1>1, ScriptGoes DEF RegisterEvent
<1>2. CASE UnregisterEvent(s)
  BY <1>2, ScriptGoes DEF UnregisterEvent
<1>29. CASE UnregisterReads(s) \/ UnregisterWrites(s)
  BY <1>29 DEF UnregisterReads, UnregisterWrites, Places
<1>30. CASE UnregisterReturns(s)
  BY <1>30, ScriptGoes DEF UnregisterReturns
<1>3. CASE WaitForStuff(s)
  BY <1>3, ScriptGoes DEF WaitForStuff
<1>4. CASE WaitTimesOut(s)
  BY <1>4, ScriptGoes, StaysUser DEF WaitTimesOut
<1>5. CASE WaitWakes(s)
  BY <1>5, ScriptGoes, StaysUser DEF WaitWakes
<1>6. CASE WaitForThings(s)
  BY <1>6, ScriptGoes DEF WaitForThings
<1>7. CASE ThingsWaitEnds(s)
  BY <1>7, ScriptGoes, StaysUser DEF ThingsWaitEnds
<1>8. CASE ThingsReturns(s)
  BY <1>8, ScriptGoes DEF ThingsReturns
<1>9. CASE LoadURI(s)
  BY <1>9, ScriptGoes DEF LoadURI
<1>10. CASE LoadSuspends(s)
  BY <1>10, ScriptGoes, StaysUser DEF LoadSuspends
<1>11. CASE LoadResumes(s)
  BY <1>11, ScriptGoes, StaysUser DEF LoadResumes
<1>12. CASE LoadGoesOn(s)
  BY <1>12, ScriptGoes, StaysUser DEF LoadGoesOn
<1>13. CASE LoadWakes(s)
  BY <1>13, ScriptGoes, StaysUser DEF LoadWakes
<1>14. CASE ChangeDom(s)
  BY <1>14, ScriptGoes DEF ChangeDom
<1>15. CASE AskUi(s)
  BY <1>15, ScriptGoes DEF AskUi
<1>16. CASE Answered(s)
  BY <1>16, ScriptGoes DEF Answered
<1>17. CASE Repaint(s)
  BY <1>17, ScriptGoes DEF Repaint
<1>18. CASE Collect(s)
  BY <1>18, ScriptGoes DEF Collect
<1>19. CASE FindNodes(s)
  BY <1>19, ScriptGoes DEF FindNodes
<1>20. CASE ScriptEnds(s)
  BY <1>20, ScriptGoes DEF ScriptEnds
<1>21. CASE RegisterAdds(s)
  BY <1>21, ScriptGoes DEF RegisterAdds
<1>22. CASE WaitAdds(s)
  BY <1>22, ScriptGoes, StaysUser DEF WaitAdds
<1>23. CASE WaitReturns(s)
  BY <1>23, ScriptGoes DEF WaitReturns
<1>24. CASE LoadReleases(s)
  BY <1>24, ScriptGoes, StaysUser DEF LoadReleases
<1>25. CASE LoadAttaches(s)
  BY <1>25, ScriptGoes, StaysUser DEF LoadAttaches
<1>26. CASE LoadReturns(s)
  BY <1>26, ScriptGoes DEF LoadReturns
<1>27. CASE DomChanged(s)
  BY <1>27, ScriptGoes DEF DomChanged
<1>28. CASE RepaintAsks(s)
  BY <1>28, ScriptGoes, StaysUser DEF RepaintAsks
<1> QED
  BY <1>1, <1>2, <1>3, <1>4, <1>5, <1>6, <1>7, <1>8, <1>9, <1>10, <1>11, <1>12, <1>13,
     <1>14, <1>15, <1>16, <1>17, <1>18, <1>19, <1>20, <1>21, <1>22, <1>23, <1>24, <1>25,
     <1>26, <1>27, <1>28, <1>29, <1>30 DEF ScriptStep, LockStep

LEMMA UiPlaces ==
  ASSUME Places, UiStep
  PROVE  Places'
<1> USE DEF UiPCs
<1>1. CASE UiDispatches
  BY <1>1, UiGoes DEF UiDispatches
<1>2. CASE UiDispatchesEvent
  BY <1>2, UiGoes DEF UiDispatchesEvent
<1>3. CASE UiReplacesDocument
  BY <1>3 DEF UiReplacesDocument, Places
<1>4. ASSUME NEW s \in Scripts, UiServesProxy(s)
      PROVE  Places'
  <2>1. s = User
    BY <1>4, StaysUser DEF UiServesProxy, ProxyPCs, OthersPCs
  <2>2. PICK l \in {"loaded", "answered", "script"} : Goto(s, l)
    BY <1>4 DEF UiServesProxy, ProxyPCs
  <2> QED
    BY <2>1, <2>2, ScriptGoes DEF ScriptPCs
<1>5. ASSUME NEW l \in Listeners, UiHandlesEvent(l)
      PROVE  Places'
  BY <1>5, UiGoes DEF UiHandlesEvent
<1>6. CASE UiBegins
  BY <1>6, UiGoes DEF UiBegins
<1>7. CASE UiCollects
  BY <1>7, UiGoes DEF UiCollects
<1>8. CASE UiEnds
  BY <1>8, UiGoes DEF UiEnds
<1>9. CASE UiLeavesLock
  BY <1>9, UiGoes DEF UiLeavesLock
<1>10. CASE UiReleases
  BY <1>10, UiGoes DEF UiReleases
<1> QED
  BY <1>1, <1>2, <1>3, <1>4, <1>5, <1>6, <1>7, <1>8, <1>9, <1>10 DEF UiStep

LEMMA CollectorPlaces ==
  ASSUME Places, NEW t \in Threads, CollectorStep(t)
  PROVE  /\ Places'
         /\ pc'[Ui] = pc[Ui] \/ {pc[Ui], pc'[Ui]} \intersect {"idle", "handling"} = {}
         /\ pc'[User] = pc[User] \/ {pc[User], pc'[User]} \intersect HoldPCs = {}
<1> USE DEF ScriptPCs, OthersPCs, UiPCs, HoldPCs, FreshPCs
<1>0. t \in Scripts \/ t = Ui
  BY GeckoEventsAssumption
<1>1. CASE StartMarking(t)
  BY <1>1 DEF StartMarking, Places
<1>2. CASE Sweep(t)
  <2>1. CASE pc[t] = "gcLock"
    <3>1. t \in Scripts /\ Goto(t, "gc")
      BY <1>0, <1>2, <2>1 DEF Sweep, Places
    <3> QED
      BY <2>1, <3>1, ScriptGoes
  <2>2. CASE pc[t] # "gcLock"
    BY <1>2, <2>2 DEF Sweep, Places
  <2> QED
    BY <2>1, <2>2
<1>3. CASE LeaveGC(t)
  <2>1. CASE t = Ui
    <3>1. Goto(Ui, "callback") /\ pc[Ui] \notin {"idle", "handling"}
      BY <1>3, <2>1 DEF LeaveGC
    <3> QED
      BY <3>1, UiGoes
  <2>2. CASE t \in Scripts
    <3>1. Goto(t, "script") /\ pc[t] \in {"gc", "uiGC"}
      BY <1>3, <2>2, WhoIsWho DEF LeaveGC
    <3> QED
      BY <2>2, <3>1, ScriptGoes
  <2> QED
    BY <1>0, <2>1, <2>2
<1> QED
  BY <1>1, <1>2, <1>3 DEF CollectorStep
-----------------------------------------------------------------------------
(* The lock: scripts leave the dispatch alone.                             *)
LEMMA ScriptLeavesDispatch ==
  ASSUME NEW s \in Scripts, ScriptStep(s)
  PROVE  UNCHANGED <<todo, called>> /\ (dom' = dom \/ (dom' = s /\ DomFree(s)))
<1>1. CASE LockStep(s)
  BY <1>1 DEF LockStep, RegisterAdds, WaitAdds, WaitReturns, LoadReleases, LoadAttaches,
              LoadReturns, DomChanged, RepaintAsks, uiVars
<1>2. CASE ~LockStep(s)
  BY <1>2 DEF ScriptStep, RegisterEvent, UnregisterEvent, UnregisterReads,
              UnregisterWrites, UnregisterReturns, WaitForStuff, WaitTimesOut, WaitWakes, WaitForThings, ThingsWaitEnds, ThingsReturns, LoadURI,
              LoadSuspends, LoadResumes, LoadGoesOn, LoadWakes, ChangeDom, AskUi, Answered,
              Repaint, Collect, FindNodes, ScriptEnds, uiVars
<1> QED
  BY <1>1, <1>2

LEMMA CollectorLeavesDispatch ==
  ASSUME NEW t \in Threads, CollectorStep(t)
  PROVE  UNCHANGED <<uiVars, listenerVars, viewVars, nativeVars, historyVars>>
BY DEF CollectorStep, StartMarking, Sweep, LeaveGC

LEMMA DispatchStep ==
  ASSUME Places, DispatchLocked, [Next]_vars
  PROVE  Places' /\ DispatchLocked'
<1> USE DEF DispatchLocked
<1>1. ASSUME NEW s \in Scripts, ScriptStep(s)
      PROVE  Places' /\ DispatchLocked'
  BY <1>1, ScriptPlaces, ScriptLeavesDispatch, WhoIsWho DEF DomFree
<1>2. CASE UiStep
  <2>1. Places'
    BY <1>2, UiPlaces
  <2>2. CASE UiDispatches \/ UiDispatchesEvent
    BY <2>2, UiGoes DEF UiDispatches, UiDispatchesEvent, UiPCs
  <2>3. CASE UiReplacesDocument
    BY <2>1, <2>3 DEF UiReplacesDocument, uiVars
  <2>4. ASSUME NEW s \in Scripts, UiServesProxy(s)
        PROVE  DispatchLocked'
    BY <2>4, WhoIsWho DEF UiServesProxy, Goto, Places
  <2>5. ASSUME NEW l \in Listeners, UiHandlesEvent(l)
        PROVE  DispatchLocked'
    BY <2>5, UiGoes DEF UiHandlesEvent, UiPCs
  <2>6. CASE UiBegins \/ UiCollects \/ UiEnds
    BY <2>6, UiGoes DEF UiBegins, UiCollects, UiEnds, UiPCs, uiVars
  <2>7. CASE UiLeavesLock \/ UiReleases
    BY <2>7, UiGoes DEF UiLeavesLock, UiReleases, UiPCs
  <2> QED
    BY <1>2, <2>1, <2>2, <2>3, <2>4, <2>5, <2>6, <2>7 DEF UiStep
<1>3. ASSUME NEW t \in Threads, CollectorStep(t)
      PROVE  Places' /\ DispatchLocked'
  BY <1>3, CollectorPlaces, CollectorLeavesDispatch DEF uiVars
<1>4. CASE UNCHANGED vars
  BY <1>4 DEF vars, uiVars, Places
<1> QED
  BY <1>1, <1>2, <1>3, <1>4 DEF Next
-----------------------------------------------------------------------------
(* Requests.                                                               *)
LEMMA RequestsKept ==
  ASSUME RequestsTypeOK, saved \in Nat, [Next]_vars
  PROVE  RequestsTypeOK' /\ saved' \in Nat
<1> USE DEF RequestsTypeOK, requestVars, nativeVars
<1> DEFINE Kept == UNCHANGED <<requestVars, saved>>
           Begun(t) == (BeginRequest(t) \/ EndRequest(t)) /\ UNCHANGED saved
<1>1. ASSUME NEW t \in Threads, Begun(t)
      PROVE  RequestsTypeOK' /\ saved' \in Nat
  BY <1>1 DEF BeginRequest, EndRequest
<1>2. ASSUME NEW t \in Threads, CallGC(t) \/ MarkGC(t) \/ DoneGC(t), UNCHANGED saved,
             CallGC(t) => UNCHANGED depth
      PROVE  RequestsTypeOK' /\ saved' \in Nat
  BY <1>2 DEF CallGC, MarkGC, DoneGC
<1>3. ASSUME NEW s \in Scripts, ScriptStep(s)
      PROVE  RequestsTypeOK' /\ saved' \in Nat
  <2>0. s \in Threads
    BY WhoIsWho
  <2>1. CASE RegisterEvent(s) \/ LoadURI(s) \/ ChangeDom(s) \/ AskUi(s) \/ Answered(s)
             \/ LoadReturns(s) \/ DomChanged(s)
    BY <1>1, <2>0, <2>1
       DEF RegisterEvent, LoadURI, ChangeDom, AskUi, Answered, LoadReturns, DomChanged
  <2>2. CASE LoadSuspends(s) \/ LoadAttaches(s)
    BY <2>0, <2>2 DEF LoadSuspends, LoadAttaches, Suspend
  <2>3. CASE LoadResumes(s) \/ LoadWakes(s)
    BY <2>0, <2>3 DEF LoadResumes, LoadWakes, Resume
  <2>4. CASE LoadGoesOn(s)
    BY <1>1, <2>0, <2>4 DEF LoadGoesOn
  <2>5. CASE Collect(s)
    BY <1>2, <2>0, <2>5 DEF Collect
  <2>6. CASE ScriptEnds(s)
    BY <2>0, <2>6 DEF ScriptEnds, EndAllRequests
  <2>8. CASE UnregisterReads(s) \/ UnregisterWrites(s) \/ UnregisterReturns(s)
    <3>1. Kept
      BY <2>8 DEF UnregisterReads, UnregisterWrites, UnregisterReturns
    <3> QED
      BY <3>1
  <2>7. CASE UnregisterEvent(s) \/ WaitForStuff(s) \/ WaitTimesOut(s) \/ WaitWakes(s)
             \/ WaitForThings(s) \/ ThingsWaitEnds(s) \/ ThingsReturns(s) \/ Repaint(s)
             \/ FindNodes(s) \/ RegisterAdds(s) \/ WaitAdds(s) \/ WaitReturns(s)
             \/ LoadReleases(s) \/ RepaintAsks(s)
    <3>1. Kept
      BY <2>7 DEF UnregisterEvent, WaitForStuff, WaitTimesOut, WaitWakes, WaitForThings,
                  ThingsWaitEnds, ThingsReturns, Repaint, FindNodes, RegisterAdds, WaitAdds,
                  WaitReturns, LoadReleases, RepaintAsks
    <3> QED
      BY <3>1
  <2> QED
    BY <1>3, <2>1, <2>2, <2>3, <2>4, <2>5, <2>6, <2>7, <2>8 DEF ScriptStep, LockStep
<1>4. CASE UiStep
  <2>1. CASE UiBegins \/ UiEnds
    BY <1>1, <2>1, WhoIsWho DEF UiBegins, UiEnds
  <2>2. CASE UiCollects
    BY <1>2, <2>2, WhoIsWho DEF UiCollects
  <2>3. CASE ~(UiBegins \/ UiEnds \/ UiCollects)
    BY <1>4, <2>3 DEF UiStep, UiDispatches, UiDispatchesEvent, UiReplacesDocument,
                      UiServesProxy, UiHandlesEvent, UiReleases, UiLeavesLock
  <2> QED
    BY <2>1, <2>2, <2>3
<1>5. ASSUME NEW t \in Threads, CollectorStep(t)
      PROVE  RequestsTypeOK' /\ saved' \in Nat
  <2>1. CASE StartMarking(t) \/ Sweep(t)
    BY <2>1 DEF StartMarking, Sweep, MarkGC, DoneGC
  <2>2. CASE LeaveGC(t)
    BY <2>2 DEF LeaveGC
  <2> QED
    BY <1>5, <2>1, <2>2 DEF CollectorStep
<1>6. CASE UNCHANGED vars
  BY <1>6 DEF vars
<1> QED
  BY <1>3, <1>4, <1>5, <1>6 DEF Next
-----------------------------------------------------------------------------
(* What is said of the listeners, their types apart.                       *)
RefsCount ==
  \A l \in Listeners \ torn :
    refs[l] = Count(l, attached) + Count(l, Listed) + Count(l, own)
                + Count(l, called) + Count(l, leaked)

ListenersOK == HoldersApart /\ RefsCount /\ UnseenLive /\ EventNotForgotten

ListenerTypes ==
  /\ attached \in SUBSET Listeners /\ own \in SUBSET Listeners
  /\ leaked \in SUBSET Listeners /\ unseen \in SUBSET Listeners
  /\ sig \in SUBSET Listeners /\ callBack \in SUBSET Listeners
  /\ called \in SUBSET Listeners /\ torn \in SUBSET Listeners
  /\ refs \in [Listeners -> Int] /\ list \in Seq(Listeners)

LEMMA ListedTyped ==
  ASSUME list \in Seq(Listeners)
  PROVE  Listed \in SUBSET Listeners
BY DEF Listed

LEMMA Prepended ==
  ASSUME list \in Seq(Listeners), NEW l \in Listeners, list' = <<l>> \o list
  PROVE  list' \in Seq(Listeners) /\ Listed' = Listed \union {l}
<1>1. /\ list' \in Seq(Listeners) /\ 1 \in DOMAIN list' /\ list'[1] = l
      /\ \A i \in DOMAIN list : i + 1 \in DOMAIN list' /\ list'[i + 1] = list[i]
      /\ \A i \in DOMAIN list' :
           i # 1 => i - 1 \in DOMAIN list /\ list'[i] = list[i - 1]
  OBVIOUS
<1>2. Listed' \subseteq Listed \union {l}
  BY <1>1 DEF Listed
<1>3. ASSUME NEW k \in Listed PROVE k \in Listed'
  <2>1. PICK i \in DOMAIN list : k = list[i]
    BY DEF Listed
  <2>2. i + 1 \in DOMAIN list' /\ list'[i + 1] = k
    BY <1>1, <2>1
  <2> QED
    BY <2>2 DEF Listed
<1>4. l \in Listed'
  BY <1>1 DEF Listed
<1> QED
  BY <1>1, <1>2, <1>3, <1>4

(* Releasing the members of S and T takes away the references given.       *)
LEMMA Releasing ==
  ASSUME ListenerTypes, NEW S \in SUBSET Listeners, NEW T \in SUBSET Listeners,
         Release(S, T), torn' = torn,
         \A l \in Listeners \ torn : refs[l] >= Count(l, S) + Count(l, T)
  PROVE  /\ refs' \in [Listeners -> Int]
         /\ \A l \in Listeners : refs'[l] = refs[l] - Count(l, S) - Count(l, T)
         /\ sig' \in SUBSET Listeners /\ callBack' \in SUBSET Listeners
         /\ unseen' \in SUBSET unseen
         /\ \A l \in unseen' : l \in sig => l \in sig'
         /\ UnseenLive => UnseenLive'
<1>1. \A l \in Listeners : refs'[l] = refs[l] - Count(l, S) - Count(l, T)
  BY DEF Release
<1>2. \A l, U : Count(l, U) \in {0, 1}
  BY DEF Count
<1>3. \A l \in Listeners : refs[l] \in Int
  BY DEF ListenerTypes
<1>4. \A l \in Listeners : refs[l] - Count(l, S) - Count(l, T) \in Int
  BY <1>2, <1>3
<1>5. refs' \in [Listeners -> Int]
  BY <1>4 DEF Release
<1> DEFINE deleted == {l \in S \union T : refs[l] = Count(l, S) + Count(l, T)}
<1>6. sig' = sig \ deleted /\ callBack' = callBack \ deleted /\ unseen' = unseen \ deleted
  BY DEF Release, Delete
<1>7. ASSUME UnseenLive, NEW l \in unseen' \ torn'
      PROVE  refs'[l] > 0
  <2>1. l \in Listeners \ torn /\ refs[l] > 0 /\ l \in unseen /\ l \notin deleted
    BY <1>6, <1>7 DEF UnseenLive, ListenerTypes
  <2>2. CASE l \in S \union T
    BY <1>1, <1>2, <1>3, <2>1, <2>2
  <2>3. CASE l \notin S \union T
    BY <1>1, <1>3, <2>1, <2>3 DEF Count
  <2> QED
    BY <2>2, <2>3
<1> QED
  BY <1>1, <1>5, <1>6, <1>7 DEF UnseenLive, ListenerTypes

(* A listener is made of memory nobody refers to.                          *)
LEMMA Making ==
  ASSUME ListenerTypes, ListenersOK, own = {}, NEW isCallback \in BOOLEAN,
         NewListener(isCallback), UNCHANGED <<viewVars, called>>
  PROVE  /\ ListenerTypes' /\ ListenersOK'
         /\ UNCHANGED <<attached, list>>
         /\ \E l \in Listeners : own' = {l} /\ l \notin attached' /\ l \notin unseen'
<1>1. PICK l \in Listeners \ torn :
        /\ refs[l] = 0 /\ refs' = [refs EXCEPT ![l] = 1] /\ own' = {l}
        /\ callBack' = IF isCallback THEN callBack \union {l} ELSE callBack
        /\ UNCHANGED <<attached, sig, leaked, unseen, torn, list, called>>
  BY DEF NewListener, historyVars, viewVars
<1>2. Listed' = Listed
  BY <1>1 DEF Listed
<1>3. l \notin attached /\ l \notin Listed /\ l \notin called /\ l \notin leaked
      /\ l \notin unseen
  BY <1>1 DEF ListenersOK, RefsCount, UnseenLive, Count
<1>4. ListenerTypes'
  BY <1>1 DEF ListenerTypes
<1>5. HoldersApart' /\ EventNotForgotten' /\ UnseenLive'
  BY <1>1, <1>2, <1>3 DEF ListenersOK, HoldersApart, EventNotForgotten, UnseenLive,
                          ListenerTypes
<1>6. RefsCount'
  BY <1>1, <1>2, <1>3 DEF ListenersOK, RefsCount, Count, ListenerTypes
<1> QED
  BY <1>1, <1>3, <1>4, <1>5, <1>6 DEF ListenersOK

(* Releasing a set of holders that gives up what it held.                  *)
LEMMA Detaching ==
  ASSUME ListenerTypes, ListenersOK, Detach, UNCHANGED <<list, leaked, torn, called>>
  PROVE  /\ ListenerTypes' /\ ListenersOK' /\ own' = {}
<1>1. /\ attached' = attached \ own /\ own' = {} /\ Release(own, own \intersect attached)
      /\ UNCHANGED <<list, leaked, torn, called>>
  BY DEF Detach
<1>2. Listed' = Listed
  BY <1>1 DEF Listed
<1>3. \A l \in Listeners \ torn :
        refs[l] >= Count(l, own) + Count(l, own \intersect attached)
  BY DEF ListenersOK, RefsCount, Count
<1>4. /\ refs' \in [Listeners -> Int]
      /\ \A l \in Listeners :
           refs'[l] = refs[l] - Count(l, own) - Count(l, own \intersect attached)
      /\ sig' \in SUBSET Listeners /\ callBack' \in SUBSET Listeners
      /\ unseen' \in SUBSET unseen
      /\ \A l \in unseen' : l \in sig => l \in sig'
      /\ UnseenLive'
  <2>1. own \in SUBSET Listeners /\ own \intersect attached \in SUBSET Listeners /\ UnseenLive
    BY DEF ListenerTypes, ListenersOK
  <2> QED
    BY <1>1, <1>3, <2>1, Releasing
<1>5. ListenerTypes'
  BY <1>1, <1>4 DEF ListenerTypes
<1>6. HoldersApart' /\ EventNotForgotten'
  BY <1>1, <1>2, <1>4 DEF ListenersOK, HoldersApart, EventNotForgotten
<1>7. RefsCount'
  BY <1>1, <1>2, <1>4 DEF ListenersOK, RefsCount, HoldersApart, Count
<1> QED
  BY <1>1, <1>4, <1>5, <1>6, <1>7 DEF ListenersOK

(* The native gives up all it has.                                         *)
LEMMA Disowning ==
  ASSUME ListenerTypes, ListenersOK, Release(own, {}), own' = {},
         UNCHANGED <<attached, list, leaked, torn, called>>
  PROVE  ListenerTypes' /\ ListenersOK'
<1>1. Listed' = Listed /\ own \in SUBSET Listeners
  BY DEF Listed, ListenerTypes
<1>2. \A l \in Listeners \ torn : refs[l] >= Count(l, own) + Count(l, {})
  BY DEF ListenersOK, RefsCount, Count
<1>3. /\ refs' \in [Listeners -> Int]
      /\ \A l \in Listeners : refs'[l] = refs[l] - Count(l, own) - Count(l, {})
      /\ sig' \in SUBSET Listeners /\ callBack' \in SUBSET Listeners
      /\ unseen' \in SUBSET unseen
      /\ \A l \in unseen' : l \in sig => l \in sig'
      /\ UnseenLive'
  BY <1>1, <1>2, Releasing DEF ListenersOK
<1>4. ListenerTypes'
  BY <1>3 DEF ListenerTypes
<1>5. HoldersApart' /\ EventNotForgotten'
  BY <1>1, <1>3 DEF ListenersOK, HoldersApart, EventNotForgotten
<1>6. RefsCount'
  BY <1>1, <1>3 DEF ListenersOK, RefsCount, Count
<1> QED
  BY <1>3, <1>4, <1>5, <1>6 DEF ListenersOK

(* The document comes to know the listener just made.                      *)
LEMMA Attaching ==
  ASSUME ListenerTypes, ListenersOK, own \intersect attached = {}, Attach, UNCHANGED torn
  PROVE  /\ refs' \in [Listeners -> Int] /\ attached' \in SUBSET Listeners
         /\ UNCHANGED <<callBack, sig, unseen>> /\ attached \subseteq attached'
         /\ UnseenLive'
         /\ \A l \in Listeners \ torn : refs'[l] =
              Count(l, attached') + Count(l, Listed) + Count(l, own)
                + Count(l, called) + Count(l, leaked)
<1>1. /\ attached' = attached \union own /\ UNCHANGED <<callBack, sig, unseen>>
      /\ refs' = [l \in Listeners |-> refs[l] + Count(l, own)]
  BY DEF Attach
<1>2. \A l \in Listeners : refs[l] \in Int /\ Count(l, own) \in Nat
  BY DEF ListenerTypes, Count
<1>3. \A l \in Listeners : refs'[l] = refs[l] + Count(l, own)
  BY <1>1
<1>4. refs' \in [Listeners -> Int] /\ attached' \in SUBSET Listeners
  BY <1>1, <1>2 DEF ListenerTypes
<1>5. UnseenLive'
  BY <1>1, <1>2, <1>3 DEF UnseenLive, ListenersOK, ListenerTypes
<1>6. \A l \in Listeners \ torn : refs'[l] =
        Count(l, attached') + Count(l, Listed) + Count(l, own)
          + Count(l, called) + Count(l, leaked)
  BY <1>1, <1>3 DEF ListenersOK, RefsCount, Count
<1> QED
  BY <1>1, <1>4, <1>5, <1>6
-----------------------------------------------------------------------------
TodoAttached == todo \subseteq attached

ListenersInv == ListenerTypes /\ ListenersOK /\ OwnInPlace /\ TodoAttached

(* A step that changes no listener and takes the native to no new place.   *)
LEMMA SameListeners ==
  ASSUME ListenersInv,
         UNCHANGED <<refs, attached, callBack, sig, list, own, leaked, unseen>>,
         UNCHANGED <<torn, called>>, todo' \subseteq attached,
         pc'[User] \in FreshPCs => pc[User] \in FreshPCs,
         pc'[User] \notin HoldPCs => own = {}
  PROVE  ListenersInv'
<1>1. Listed' = Listed
  BY DEF Listed
<1>2. ListenerTypes' /\ OwnInPlace' /\ TodoAttached'
  BY DEF ListenersInv, ListenerTypes, OwnInPlace, TodoAttached
<1>3. ListenersOK'
  BY <1>1 DEF ListenersInv, ListenersOK, HoldersApart, RefsCount, UnseenLive,
              EventNotForgotten
<1> QED
  BY <1>2, <1>3 DEF ListenersInv

(* Inside domStateLock no dispatch is under way.                           *)
LEMMA LockedOut ==
  ASSUME DispatchLocked, NEW s \in Scripts, DomFree(s)
  PROVE  todo = {}
BY WhoIsWho DEF DispatchLocked, DomFree

(* The places where the native makes a listener.                           *)
LEMMA NativesMake ==
  ASSUME Places, ListenersInv, NEW s \in Scripts,
         RegisterEvent(s) \/ WaitForStuff(s) \/ LoadGoesOn(s)
  PROVE  ListenersInv'
<1> USE DEF FreshPCs, HoldPCs, ScriptPCs, LockPCs
<1>1. s = User
  BY StaysUser DEF RegisterEvent, WaitForStuff, LoadGoesOn, OthersPCs
<1>2. pc[User] \notin HoldPCs /\ own = {} /\ UNCHANGED <<todo, called, viewVars>>
  BY <1>1 DEF RegisterEvent, WaitForStuff, LoadGoesOn, InScript, ListenersInv, OwnInPlace,
              uiVars
<1>3. ASSUME NEW isCallback \in BOOLEAN, NewListener(isCallback), NEW l \in FreshPCs, Goto(s, l)
      PROVE  ListenersInv'
  <2>1. /\ ListenerTypes' /\ ListenersOK' /\ UNCHANGED attached
        /\ \E k \in Listeners : own' = {k} /\ k \notin attached' /\ k \notin unseen'
    BY <1>2, <1>3, Making DEF ListenersInv
  <2>2. pc'[User] = l
    BY <1>1, <1>3, ScriptGoes
  <2> QED
    BY <1>2, <2>1, <2>2 DEF ListenersInv, OwnInPlace, TodoAttached
<1>4. CASE RegisterEvent(s)
  BY <1>3, <1>4 DEF RegisterEvent
<1>5. CASE WaitForStuff(s)
  BY <1>3, <1>5 DEF WaitForStuff
<1>6. CASE LoadGoesOn(s)
  <2>1. CASE NewListener(FALSE) /\ Goto(s, "loadAttach")
    BY <1>3, <2>1
  <2>2. CASE Goto(s, "script") /\ UNCHANGED <<listenerVars, own, historyVars>>
    <3>1. pc'[User] = "script"
      BY <1>1, <2>2, ScriptGoes
    <3> QED
      BY <1>2, <2>2, <3>1, SameListeners
         DEF ListenersInv, TodoAttached, listenerVars, historyVars, viewVars
  <2> QED
    BY <1>6, <2>1, <2>2 DEF LoadGoesOn
<1> QED
  BY <1>4, <1>5, <1>6

LEMMA NativesAttach ==
  ASSUME Places, DispatchLocked, ListenersInv, NEW s \in Scripts,
         RegisterAdds(s) \/ WaitAdds(s) \/ LoadAttaches(s)
  PROVE  ListenersInv'
<1> USE DEF FreshPCs, HoldPCs, ScriptPCs, LockPCs
<1>1. s = User
  BY StaysUser DEF RegisterAdds, WaitAdds, LoadAttaches, OthersPCs
<1>2. PICK l \in Listeners : own = {l} /\ l \notin attached /\ l \notin unseen
  BY <1>1 DEF RegisterAdds, WaitAdds, LoadAttaches, ListenersInv, OwnInPlace
<1>3. /\ todo' = {} /\ ListenerTypes /\ ListenersOK
      /\ UNCHANGED <<torn, called>>
  BY LockedOut DEF RegisterAdds, WaitAdds, LoadAttaches, ListenersInv, uiVars
<1>4. /\ pc'[User] \notin FreshPCs
      /\ pc'[User] \notin HoldPCs => own' = {}
  <2>1. CASE RegisterAdds(s)
    BY <1>1, <2>1, ScriptGoes DEF RegisterAdds
  <2>2. CASE WaitAdds(s)
    BY <1>1, <2>2, ScriptGoes DEF WaitAdds
  <2>3. CASE LoadAttaches(s)
    BY <1>1, <2>3, ScriptGoes DEF LoadAttaches
  <2> QED
    BY <2>1, <2>2, <2>3
<1>5. OwnInPlace' /\ TodoAttached'
  BY <1>3, <1>4 DEF OwnInPlace, TodoAttached
<1>6. ASSUME Attach
      PROVE  /\ refs' \in [Listeners -> Int] /\ attached' \in SUBSET Listeners
             /\ UNCHANGED <<callBack, sig, unseen>> /\ UnseenLive'
             /\ \A k \in Listeners \ torn : refs'[k] =
                  Count(k, attached') + Count(k, Listed) + Count(k, own)
                    + Count(k, called) + Count(k, leaked)
  BY <1>2, <1>3, <1>6, Attaching
<1>7. ASSUME Attach, UNCHANGED <<own, list, leaked>>
      PROVE  ListenerTypes' /\ ListenersOK'
  <2>1. Listed' = Listed
    BY <1>7 DEF Listed
  <2> QED
    BY <1>3, <1>6, <1>7, <2>1
       DEF ListenerTypes, ListenersOK, HoldersApart, RefsCount, EventNotForgotten
<1>8. CASE RegisterAdds(s)
  <2>1. CASE Attach /\ (\E k \in own : list' = <<k>> \o list)
    <3>1. own' = {} /\ leaked' = leaked /\ list' = <<l>> \o list
      BY <1>2, <1>8, <2>1 DEF RegisterAdds
    <3>2. list' \in Seq(Listeners) /\ Listed' = Listed \union {l}
      BY <1>2, <1>3, <3>1, Prepended DEF ListenerTypes
    <3>3. ListenerTypes'
      BY <1>3, <1>6, <2>1, <3>1, <3>2 DEF ListenerTypes
    <3>4. HoldersApart' /\ EventNotForgotten'
      BY <1>2, <1>3, <1>6, <2>1, <3>1, <3>2 DEF ListenersOK, HoldersApart, EventNotForgotten
    <3>5. RefsCount'
      BY <1>2, <1>3, <1>6, <2>1, <3>1, <3>2 DEF ListenersOK, HoldersApart, RefsCount, Count
    <3> QED
      BY <1>5, <1>6, <2>1, <3>3, <3>4, <3>5 DEF ListenersInv, ListenersOK
  <2>2. CASE Release(own, {}) /\ UNCHANGED <<attached, viewVars>>
    BY <1>3, <1>5, <1>8, <2>2, Disowning DEF RegisterAdds, viewVars, ListenersInv
  <2> QED
    BY <1>8, <2>1, <2>2 DEF RegisterAdds
<1>9. CASE WaitAdds(s)
  <2>1. CASE Attach /\ UNCHANGED <<own, leaked>>
    BY <1>5, <1>7, <1>9, <2>1 DEF WaitAdds, viewVars, ListenersInv
  <2>2. CASE leaked' = leaked \union own /\ own' = {} /\ UNCHANGED <<listenerVars, unseen>>
    <3>1. list' = list /\ Listed' = Listed
      BY <1>9 DEF WaitAdds, viewVars, Listed
    <3>2. ListenerTypes' /\ UnseenLive' /\ EventNotForgotten'
      BY <1>3, <2>2, <3>1
         DEF ListenerTypes, ListenersOK, UnseenLive, EventNotForgotten, listenerVars
    <3>3. HoldersApart' /\ RefsCount'
      BY <1>3, <2>2, <3>1 DEF ListenersOK, HoldersApart, RefsCount, Count, listenerVars
    <3> QED
      BY <1>5, <3>2, <3>3 DEF ListenersInv, ListenersOK
  <2> QED
    BY <1>9, <2>1, <2>2 DEF WaitAdds
<1>10. CASE LoadAttaches(s)
  <2>1. UNCHANGED <<own, list, leaked>>
    BY <1>10 DEF LoadAttaches, viewVars
  <2>2. CASE Attach
    BY <1>5, <1>7, <2>1, <2>2 DEF ListenersInv
  <2>3. CASE UNCHANGED <<listenerVars, unseen>>
    <3>1. Listed' = Listed
      BY <2>1 DEF Listed
    <3>2. ListenerTypes' /\ ListenersOK'
      BY <1>3, <2>1, <2>3, <3>1 DEF ListenerTypes, ListenersOK, HoldersApart, RefsCount,
         UnseenLive, EventNotForgotten, listenerVars
    <3> QED
      BY <1>5, <3>2 DEF ListenersInv
  <2> QED
    BY <1>10, <2>2, <2>3 DEF LoadAttaches
<1> QED
  BY <1>8, <1>9, <1>10

(* The places where listeners are released, and where the events of a wait *)
(* are taken.                                                              *)
(* The list becomes what the native holds.                                 *)
LEMMA ListTaken ==
  ASSUME ListenersInv, own = {}, own' = Listed, list' = <<>>,
         UNCHANGED <<uiVars, listenerVars, historyVars>>,
         pc'[User] \in HoldPCs \ FreshPCs
  PROVE  ListenersInv'
<1>1. /\ UNCHANGED <<todo, called, refs, attached, callBack, sig, leaked, unseen, torn>>
      /\ ListenerTypes /\ ListenersOK
  BY DEF uiVars, listenerVars, historyVars, ListenersInv
<1>2. Listed' = {} /\ Listed \in SUBSET Listeners
  BY <1>1, ListedTyped DEF Listed, ListenerTypes
<1>3. ListenerTypes'
  BY <1>1, <1>2 DEF ListenerTypes
<1>4. HoldersApart' /\ UnseenLive' /\ EventNotForgotten'
  BY <1>1, <1>2 DEF ListenersOK, HoldersApart, UnseenLive, EventNotForgotten
<1>5. RefsCount'
  BY <1>1, <1>2 DEF ListenersOK, RefsCount, Count
<1> QED
  BY <1>1, <1>3, <1>4, <1>5 DEF ListenersInv, ListenersOK, OwnInPlace, TodoAttached

LEMMA NativesRelease ==
  ASSUME Places, DispatchLocked, ListenersInv, NEW s \in Scripts,
         \/ WaitReturns(s) \/ LoadReturns(s)
         \/ LoadURI(s) \/ LoadReleases(s) \/ ThingsReturns(s)
  PROVE  ListenersInv'
<1> USE DEF FreshPCs, HoldPCs, ScriptPCs, LockPCs
<1>1. s = User
  BY StaysUser DEF WaitReturns, LoadReturns, LoadURI, LoadReleases,
                   ThingsReturns, OthersPCs
<1>2. ListenerTypes /\ ListenersOK
  BY DEF ListenersInv
<1>4. CASE WaitReturns(s) \/ LoadReturns(s)
  <2>1. ListenerTypes' /\ ListenersOK' /\ own' = {}
    BY <1>2, <1>4, Detaching DEF WaitReturns, LoadReturns, viewVars, uiVars
  <2>2. todo' = {}
    BY <1>4, LockedOut DEF WaitReturns, LoadReturns, uiVars
  <2>3. pc'[User] = "script"
    BY <1>1, <1>4, ScriptGoes DEF WaitReturns, LoadReturns
  <2> QED
    BY <2>1, <2>2, <2>3 DEF ListenersInv, OwnInPlace, TodoAttached
<1>5. CASE LoadReleases(s)
  <2>1. ListenerTypes' /\ ListenersOK' /\ own' = {}
    BY <1>2, <1>5, Disowning DEF LoadReleases, viewVars, uiVars
  <2>2. todo' = todo /\ attached' = attached
    BY <1>5 DEF LoadReleases, uiVars
  <2>3. pc'[User] = "load"
    BY <1>1, <1>5, ScriptGoes DEF LoadReleases
  <2> QED
    BY <2>1, <2>2, <2>3 DEF ListenersInv, OwnInPlace, TodoAttached
<1>6. CASE LoadURI(s)
  <2>1. /\ own = {} /\ own' = Listed /\ list' = <<>>
        /\ UNCHANGED <<uiVars, listenerVars, historyVars>>
    BY <1>1, <1>6 DEF LoadURI, InScript, ListenersInv, OwnInPlace
  <2>2. pc'[User] = "loadLock"
    BY <1>1, <1>6, ScriptGoes DEF LoadURI
  <2> QED
    BY <2>1, <2>2, ListTaken
<1>7. CASE ThingsReturns(s)
  <2>1. /\ sig' = sig \ handles /\ unseen' = unseen \ handles
        /\ UNCHANGED <<todo, refs, attached, callBack, list, own, leaked, torn, called>>
        /\ pc[User] = "reset"
    BY <1>1, <1>7 DEF ThingsReturns, uiVars, viewVars
  <2>2. pc'[User] = "script" /\ Listed' = Listed
    BY <1>1, <1>7, <2>1, ScriptGoes DEF ThingsReturns, Listed
  <2>3. ListenerTypes' /\ HoldersApart' /\ UnseenLive' /\ EventNotForgotten' /\ RefsCount'
    BY <1>2, <2>1, <2>2 DEF ListenerTypes, ListenersOK, HoldersApart, UnseenLive,
                            EventNotForgotten, RefsCount
  <2> QED
    BY <2>1, <2>2, <2>3 DEF ListenersInv, ListenersOK, OwnInPlace, TodoAttached
<1> QED
  BY <1>4, <1>5, <1>6, <1>7

(* g2_unregister_event.  Of a count that was read and is then written, the *)
(* reference of the native goes, or the count is torn.                     *)
LEMMA CountWritten ==
  ASSUME Places, ListenersInv, ReleaseInPlace, NEW s \in Scripts, UnregisterWrites(s),
         stale \in Int
  PROVE  ListenersInv'
<1>0. PICK l \in releasing : \E n \in Written(l) :
        /\ refs' = [refs EXCEPT ![l] = n]
        /\ Delete(IF n = 0 THEN {l} ELSE {})
        /\ torn' = IF n = refs[l] - 1 THEN torn ELSE torn \union {l}
        /\ own' = own \ {l}
  BY DEF UnregisterWrites
<1>1. PICK n \in Written(l) :
        /\ refs' = [refs EXCEPT ![l] = n]
        /\ Delete(IF n = 0 THEN {l} ELSE {})
        /\ torn' = IF n = refs[l] - 1 THEN torn ELSE torn \union {l}
        /\ own' = own \ {l}
  BY <1>0
<1>2. /\ UNCHANGED <<pc, todo, called, attached, list, leaked>> /\ pc[User] = "unreg"
      /\ Listed' = Listed
  BY <1>1 DEF UnregisterWrites, uiVars, viewVars, ReleaseInPlace, Listed
<1>3. /\ ListenerTypes /\ ListenersOK /\ l \in Listeners /\ l \in own
      /\ refs[l] \in Int /\ n \in Int
  <2>1. ListenerTypes /\ ListenersOK /\ l \in Listeners /\ l \in own
    BY <1>1 DEF ListenersInv, ListenerTypes, ReleaseInPlace
  <2>2. refs[l] \in Int
    BY <2>1 DEF ListenerTypes
  <2> QED
    BY <1>1, <2>1, <2>2 DEF Written
<1>4. l \notin Listed /\ l \notin leaked /\ l \notin torn
  BY <1>3 DEF ListenersOK, HoldersApart
<1>5. /\ refs' \in [Listeners -> Int] /\ refs'[l] = n
      /\ \A k \in Listeners : k # l => refs'[k] = refs[k]
  BY <1>1, <1>3 DEF ListenerTypes
<1>6. /\ unseen' \subseteq unseen /\ sig' \in SUBSET Listeners /\ callBack' \in SUBSET Listeners
      /\ n = 0 => l \notin unseen'
      /\ \A k \in sig : k # l => k \in sig'
  BY <1>1, <1>3 DEF Delete, ListenerTypes
<1>7. ListenerTypes'
  BY <1>1, <1>2, <1>3, <1>5, <1>6 DEF ListenerTypes
<1>8. HoldersApart' /\ EventNotForgotten'
  BY <1>1, <1>2, <1>3, <1>4, <1>6 DEF ListenersOK, HoldersApart, EventNotForgotten
<1>9. l \notin torn' => n = refs[l] - 1
  BY <1>1
<1>10. RefsCount'
  <2> SUFFICES ASSUME NEW k \in Listeners \ torn'
               PROVE  refs'[k] = Count(k, attached) + Count(k, Listed) + Count(k, own')
                                   + Count(k, called) + Count(k, leaked)
    BY <1>2 DEF RefsCount
  <2>1. k \notin torn
    BY <1>1
  <2>2. CASE k = l
    BY <1>1, <1>3, <1>4, <1>5, <1>9, <2>1, <2>2 DEF ListenersOK, RefsCount, Count
  <2>3. CASE k # l
    <3>1. refs'[k] = refs[k] /\ Count(k, own') = Count(k, own)
      BY <1>1, <1>5, <2>3 DEF Count
    <3> QED
      BY <1>3, <2>1, <3>1 DEF ListenersOK, RefsCount
  <2> QED
    BY <2>2, <2>3
<1>11. UnseenLive'
  <2> SUFFICES ASSUME NEW k \in unseen' \ torn'
               PROVE  refs'[k] > 0
    BY DEF UnseenLive
  <2>1. k \notin torn /\ k \in unseen /\ k \in Listeners
    BY <1>1, <1>3, <1>6 DEF ListenerTypes
  <2>2. CASE k = l
    <3>1. n # 0 /\ n = refs[l] - 1 /\ refs[l] > 0
      BY <1>3, <1>6, <1>9, <2>1, <2>2 DEF ListenersOK, UnseenLive
    <3> QED
      BY <1>3, <1>5, <2>2, <3>1
  <2>3. CASE k # l
    BY <1>3, <1>5, <2>1, <2>3 DEF ListenersOK, UnseenLive
  <2> QED
    BY <2>2, <2>3
<1>12. OwnInPlace' /\ TodoAttached'
  BY <1>2 DEF OwnInPlace, TodoAttached, ListenersInv, FreshPCs, HoldPCs
<1> QED
  BY <1>7, <1>8, <1>10, <1>11, <1>12 DEF ListenersInv, ListenersOK

LEMMA NativesUnregister ==
  ASSUME Places, ListenersInv, ReleaseInPlace, stale \in Int, NEW s \in Scripts,
         \/ UnregisterEvent(s) \/ UnregisterReads(s) \/ UnregisterWrites(s)
         \/ UnregisterReturns(s)
  PROVE  ListenersInv'
<1> USE DEF FreshPCs, HoldPCs, ScriptPCs
<1>1. s = User
  BY StaysUser DEF UnregisterEvent, UnregisterReads, UnregisterWrites, UnregisterReturns,
                   OthersPCs
<1>2. CASE UnregisterEvent(s)
  <2>1. /\ own = {} /\ own' = Listed /\ list' = <<>>
        /\ UNCHANGED <<uiVars, listenerVars, historyVars>>
    BY <1>1, <1>2 DEF UnregisterEvent, InScript, ListenersInv, OwnInPlace
  <2>2. pc'[User] = "unreg"
    BY <1>1, <1>2, ScriptGoes DEF UnregisterEvent
  <2> QED
    BY <2>1, <2>2, ListTaken
<1>3. CASE UnregisterReads(s) \/ UnregisterReturns(s)
  <2>1. /\ UNCHANGED <<refs, attached, callBack, sig, list, own, leaked, unseen, torn>>
        /\ UNCHANGED <<called, todo>> /\ todo' \subseteq attached
    BY <1>3 DEF UnregisterReads, UnregisterReturns, uiVars, listenerVars, viewVars,
                nativeVars, historyVars, ListenersInv, TodoAttached
  <2>2. /\ pc'[User] \notin FreshPCs
        /\ pc'[User] \notin HoldPCs => own = {}
    <3>1. CASE UnregisterReads(s)
      BY <1>1, <3>1 DEF UnregisterReads
    <3>2. CASE UnregisterReturns(s)
      BY <1>1, <3>2, ScriptGoes DEF UnregisterReturns
    <3> QED
      BY <1>3, <3>1, <3>2
  <2> HIDE DEF FreshPCs, HoldPCs
  <2> QED
    BY <2>1, <2>2, SameListeners
<1> QED
  BY <1>2, <1>3, CountWritten

(* All else a script does.                                                 *)
LEMMA NativesGoOn ==
  ASSUME Places, ListenersInv, NEW s \in Scripts,
         \/ WaitTimesOut(s) \/ WaitWakes(s) \/ WaitForThings(s) \/ ThingsWaitEnds(s)
         \/ LoadSuspends(s) \/ LoadResumes(s) \/ LoadWakes(s) \/ ChangeDom(s)
         \/ AskUi(s) \/ Answered(s) \/ Repaint(s) \/ Collect(s) \/ FindNodes(s)
         \/ ScriptEnds(s) \/ DomChanged(s) \/ RepaintAsks(s)
  PROVE  ListenersInv'
<1> USE DEF FreshPCs, HoldPCs, ScriptPCs, LockPCs, ProxyPCs
<1>1. UNCHANGED <<refs, attached, callBack, sig, list, own, leaked, unseen, todo, torn,
                  called>>
  BY DEF WaitTimesOut, WaitWakes, WaitForThings, ThingsWaitEnds, LoadSuspends, LoadResumes,
         LoadWakes, ChangeDom, AskUi, Answered, Repaint, Collect, FindNodes, ScriptEnds,
         DomChanged, RepaintAsks, listenerVars, viewVars, nativeVars, historyVars, uiVars
<1>2. ASSUME NEW from \in ScriptPCs, NEW to \in ScriptPCs, pc[s] = from, Goto(s, to),
             s = User \/ to \in OthersPCs,
             to \notin FreshPCs, from \notin HoldPCs \/ to \in HoldPCs
      PROVE  ListenersInv'
  <2>1. pc'[User] = IF s = User THEN to ELSE pc[User]
    BY <1>2, ScriptGoes
  <2>2. pc'[User] \in FreshPCs => pc[User] \in FreshPCs
    BY <1>2, <2>1
  <2>3. pc'[User] \notin HoldPCs => own = {}
    BY <1>2, <2>1 DEF ListenersInv, OwnInPlace
  <2>4. todo' \subseteq attached
    BY <1>1 DEF ListenersInv, TodoAttached
  <2> HIDE DEF FreshPCs, HoldPCs
  <2> QED
    BY <1>1, <2>2, <2>3, <2>4, SameListeners
<1> USE DEF OthersPCs
<1>3. CASE WaitTimesOut(s) \/ WaitWakes(s)
  BY <1>2, <1>3, StaysUser DEF WaitTimesOut, WaitWakes
<1>4. CASE WaitForThings(s) \/ ThingsWaitEnds(s)
  BY <1>2, <1>4, StaysUser DEF WaitForThings, ThingsWaitEnds, InScript
<1>5. CASE LoadSuspends(s) \/ LoadResumes(s) \/ LoadWakes(s)
  BY <1>2, <1>5, StaysUser DEF LoadSuspends, LoadResumes, LoadWakes
<1>6. CASE ChangeDom(s) \/ AskUi(s) \/ Answered(s)
  BY <1>2, <1>6, StaysUser DEF ChangeDom, AskUi, Answered, InScript
<1>7. CASE Repaint(s) \/ Collect(s) \/ FindNodes(s)
  BY <1>2, <1>7 DEF Repaint, Collect, FindNodes, InScript
<1>8. CASE ScriptEnds(s) \/ DomChanged(s) \/ RepaintAsks(s)
  BY <1>2, <1>8, StaysUser DEF ScriptEnds, DomChanged, RepaintAsks
<1> QED
  BY <1>3, <1>4, <1>5, <1>6, <1>7, <1>8

(* A document that goes takes its references with it, and it goes between  *)
(* two dispatches.                                                         *)
LEMMA DocumentGoes ==
  ASSUME DispatchLocked, ListenersInv, UiReplacesDocument
  PROVE  ListenersInv'
<1>1. PICK gone \in SUBSET attached : attached' = attached \ gone /\ Release(gone, {})
  BY DEF UiReplacesDocument
<1>2. /\ UNCHANGED <<pc, todo, list, own, leaked, torn, called>> /\ todo = {}
  BY DEF UiReplacesDocument, uiVars, viewVars, nativeVars, DispatchLocked
<1>3. ListenerTypes /\ ListenersOK /\ gone \in SUBSET Listeners /\ Listed' = Listed
  BY <1>1, <1>2 DEF ListenersInv, ListenerTypes, Listed
<1>4. \A l \in Listeners \ torn : refs[l] >= Count(l, gone) + Count(l, {})
  BY <1>1, <1>3 DEF ListenersOK, RefsCount, Count
<1>5. /\ refs' \in [Listeners -> Int]
      /\ \A l \in Listeners : refs'[l] = refs[l] - Count(l, gone) - Count(l, {})
      /\ sig' \in SUBSET Listeners /\ callBack' \in SUBSET Listeners
      /\ unseen' \in SUBSET unseen
      /\ \A l \in unseen' : l \in sig => l \in sig'
      /\ UnseenLive'
  <2>1. {} \in SUBSET Listeners /\ UnseenLive
    BY <1>3 DEF ListenersOK
  <2> QED
    BY <1>1, <1>2, <1>3, <1>4, <2>1, Releasing
<1>6. ListenerTypes'
  BY <1>1, <1>2, <1>3, <1>5 DEF ListenerTypes
<1>7. HoldersApart' /\ EventNotForgotten'
  BY <1>2, <1>3, <1>5 DEF ListenersOK, HoldersApart, EventNotForgotten
<1>8. RefsCount'
  BY <1>1, <1>2, <1>3, <1>5 DEF ListenersOK, RefsCount, Count
<1>9. OwnInPlace' /\ TodoAttached'
  BY <1>1, <1>2, <1>5 DEF ListenersInv, OwnInPlace, TodoAttached
<1> QED
  BY <1>5, <1>6, <1>7, <1>8, <1>9 DEF ListenersInv, ListenersOK

(* A listener is called: the document refers to it, so it is there.        *)
LEMMA EventHandled ==
  ASSUME Places, DispatchLocked, ListenersInv, NEW l \in Listeners, UiHandlesEvent(l)
  PROVE  ListenersInv'
<1>1. /\ l \in todo /\ todo' = todo \ {l} /\ sig' = sig \union {l}
      /\ called = {} /\ called' = {l}
      /\ refs' = [refs EXCEPT ![l] = refs[l] + 1]
      /\ unseen' = IF l \in Listed THEN unseen \union {l} ELSE unseen
      /\ UNCHANGED <<attached, callBack, list, own, leaked, torn>>
  BY DEF UiHandlesEvent, viewVars, nativeVars, DispatchLocked
<1>2. pc'[User] = pc[User]
  BY UiGoes DEF UiHandlesEvent, UiPCs
<1>3. /\ ListenerTypes /\ ListenersOK /\ OwnInPlace /\ l \in attached /\ Listed' = Listed
      /\ refs[l] \in Int
  BY <1>1 DEF ListenersInv, ListenerTypes, TodoAttached, Listed
<1>4. /\ refs' \in [Listeners -> Int] /\ refs'[l] = refs[l] + 1
      /\ \A k \in Listeners : k # l => refs'[k] = refs[k]
  BY <1>1, <1>3 DEF ListenerTypes
<1>5. ListenerTypes' /\ TodoAttached'
  BY <1>1, <1>3, <1>4 DEF ListenersInv, ListenerTypes, TodoAttached
<1>6. HoldersApart' /\ EventNotForgotten'
  BY <1>1, <1>3 DEF ListenersOK, HoldersApart, EventNotForgotten
<1>7. RefsCount'
  BY <1>1, <1>3, <1>4 DEF ListenersOK, RefsCount, Count
<1>8. UnseenLive'
  <2>1. l \notin torn => refs[l] > 0
    BY <1>3 DEF ListenersOK, RefsCount, Count
  <2>2. ASSUME NEW k \in unseen' \ torn' PROVE refs'[k] > 0
    <3>1. k \in Listeners /\ k \notin torn
      BY <1>1, <1>5 DEF ListenerTypes
    <3>2. CASE k = l
      BY <1>3, <1>4, <2>1, <3>1, <3>2
    <3>3. CASE k # l
      BY <1>1, <1>3, <1>4, <3>1, <3>3 DEF ListenersOK, UnseenLive
    <3> QED
      BY <3>2, <3>3
  <2> QED
    BY <2>2 DEF UnseenLive
<1>9. OwnInPlace'
  BY <1>1, <1>2, <1>3 DEF OwnInPlace, ListenersOK, HoldersApart
<1> QED
  BY <1>5, <1>6, <1>7, <1>8, <1>9 DEF ListenersInv, ListenersOK

(* The dispatch gives up the listener it has called.                       *)
LEMMA CalledReleased ==
  ASSUME Places, ListenersInv, UiReleases
  PROVE  ListenersInv'
<1>1. /\ called' = {} /\ Release(called, {})
      /\ UNCHANGED <<todo, attached, list, own, leaked, torn>>
  BY DEF UiReleases, viewVars, nativeVars
<1>2. /\ ListenerTypes /\ ListenersOK /\ called \in SUBSET Listeners /\ Listed' = Listed
      /\ pc'[User] = pc[User]
  BY <1>1, UiGoes DEF ListenersInv, ListenerTypes, Listed, UiReleases, UiPCs
<1>3. \A l \in Listeners \ torn : refs[l] >= Count(l, called) + Count(l, {})
  BY <1>2 DEF ListenersOK, RefsCount, Count
<1>4. /\ refs' \in [Listeners -> Int]
      /\ \A l \in Listeners : refs'[l] = refs[l] - Count(l, called) - Count(l, {})
      /\ sig' \in SUBSET Listeners /\ callBack' \in SUBSET Listeners
      /\ unseen' \in SUBSET unseen
      /\ \A l \in unseen' : l \in sig => l \in sig'
      /\ UnseenLive'
  <2>1. {} \in SUBSET Listeners /\ UnseenLive
    BY <1>2 DEF ListenersOK
  <2> QED
    BY <1>1, <1>2, <1>3, <2>1, Releasing
<1>5. ListenerTypes'
  BY <1>1, <1>2, <1>4 DEF ListenerTypes
<1>6. HoldersApart' /\ EventNotForgotten'
  BY <1>1, <1>2, <1>4 DEF ListenersOK, HoldersApart, EventNotForgotten
<1>7. RefsCount'
  BY <1>1, <1>2, <1>4 DEF ListenersOK, RefsCount, Count
<1>8. OwnInPlace' /\ TodoAttached'
  BY <1>1, <1>2, <1>4 DEF ListenersInv, OwnInPlace, TodoAttached
<1> QED
  BY <1>4, <1>5, <1>6, <1>7, <1>8 DEF ListenersInv, ListenersOK

(* All else the UI thread and the collector do.                            *)
LEMMA UiGoesOnQuietly ==
  ASSUME Places, ListenersInv,
         \/ UiDispatches \/ UiDispatchesEvent \/ (\E s \in Scripts : UiServesProxy(s))
         \/ UiBegins \/ UiCollects \/ UiEnds \/ UiLeavesLock
  PROVE  ListenersInv'
<1>1. /\ UNCHANGED <<refs, attached, callBack, sig, list, own, leaked, unseen, torn,
                     called>>
      /\ todo' \subseteq attached
  BY DEF UiDispatches, UiDispatchesEvent, UiServesProxy, UiBegins, UiCollects, UiEnds,
         UiLeavesLock, listenerVars, viewVars, nativeVars, historyVars, uiVars,
         ListenersInv, TodoAttached
<1>2. /\ pc'[User] \in FreshPCs => pc[User] \in FreshPCs
      /\ pc'[User] \notin HoldPCs => own = {}
  <2>1. CASE \E s \in Scripts : UiServesProxy(s)
    <3>1. PICK s \in Scripts : UiServesProxy(s)
      BY <2>1
    <3>2. PICK l \in {"loaded", "answered", "script"} : Goto(s, l)
      BY <3>1 DEF UiServesProxy, ProxyPCs
    <3>3. s = User /\ pc[User] \in ProxyPCs
      BY <3>1, StaysUser DEF UiServesProxy, ProxyPCs, OthersPCs
    <3>4. pc'[User] = l
      BY <3>2, <3>3, ScriptGoes DEF ScriptPCs
    <3> QED
      BY <3>3, <3>4 DEF FreshPCs, HoldPCs, ProxyPCs, ListenersInv, OwnInPlace
  <2>2. CASE ~ \E s \in Scripts : UiServesProxy(s)
    <3>1. \E l \in UiPCs : Goto(Ui, l)
      BY <2>2 DEF UiDispatches, UiDispatchesEvent, UiBegins, UiCollects, UiEnds,
                  UiLeavesLock, UiPCs
    <3>2. pc'[User] = pc[User]
      BY <3>1, UiGoes
    <3> QED
      BY <3>2 DEF ListenersInv, OwnInPlace
  <2> QED
    BY <2>1, <2>2
<1> QED
  BY <1>1, <1>2, SameListeners

LEMMA CollectorQuiet ==
  ASSUME Places, ListenersInv, NEW t \in Threads, CollectorStep(t)
  PROVE  ListenersInv'
<1>1. /\ UNCHANGED <<refs, attached, callBack, sig, list, own, leaked, unseen, torn,
                     called>>
      /\ todo' \subseteq attached
  BY CollectorLeavesDispatch
     DEF listenerVars, viewVars, nativeVars, historyVars, uiVars, ListenersInv, TodoAttached
<1>2. /\ pc'[User] \in FreshPCs => pc[User] \in FreshPCs
      /\ pc'[User] \notin HoldPCs => own = {}
  BY CollectorPlaces DEF HoldPCs, ListenersInv, OwnInPlace
<1> QED
  BY <1>1, <1>2, SameListeners

LEMMA ListenersStep ==
  ASSUME Places, DispatchLocked, ListenersInv, ReleaseInPlace, stale \in Int, [Next]_vars
  PROVE  ListenersInv'
<1>1. ASSUME NEW s \in Scripts, ScriptStep(s)
      PROVE  ListenersInv'
  BY <1>1, NativesMake, NativesAttach, NativesRelease, NativesUnregister, NativesGoOn
     DEF ScriptStep, LockStep
<1>2. CASE UiStep
  BY <1>2, DocumentGoes, EventHandled, CalledReleased, UiGoesOnQuietly DEF UiStep
<1>3. CASE UNCHANGED vars
  <2>1. UNCHANGED <<refs, attached, callBack, sig, list, own, leaked, unseen, torn, called,
                    todo, pc>>
    BY <1>3 DEF vars, listenerVars, viewVars, nativeVars, historyVars, uiVars
  <2> QED
    BY <2>1, SameListeners DEF ListenersInv, OwnInPlace, TodoAttached
<1> QED
  BY <1>1, <1>2, <1>3, CollectorQuiet DEF Next
-----------------------------------------------------------------------------
(* What g2_unregister_event has read.                                      *)
ReleaseVars == <<refs, own, releasing, stale, touched>>

LEMMA ReleaseKept ==
  ASSUME ReleaseInPlace, UNCHANGED ReleaseVars,
         pc'[User] = pc[User] \/ pc[User] # "unreg"
  PROVE  ReleaseInPlace'
BY DEF ReleaseInPlace, ReleaseVars

(* Elsewhere it has read nothing.                                          *)
LEMMA NothingRead ==
  ASSUME ReleaseInPlace, pc[User] # "unreg", UNCHANGED <<releasing, touched>>
  PROVE  ReleaseInPlace'
BY DEF ReleaseInPlace

LEMMA UnregisterKeepsRead ==
  ASSUME Places, ReleaseInPlace, ListenerTypes, stale \in Int, NEW s \in Scripts,
         UnregisterReads(s) \/ UnregisterWrites(s) \/ UnregisterReturns(s)
  PROVE  ReleaseInPlace' /\ stale' \in Int
<1>1. s = User
  BY StaysUser DEF UnregisterReads, UnregisterWrites, UnregisterReturns, OthersPCs
<1>2. CASE UnregisterReads(s)
  <2>1. PICK l \in own : releasing' = {l} /\ stale' = refs[l]
    BY <1>2 DEF UnregisterReads
  <2>2. /\ releasing = {} /\ UNCHANGED <<pc, refs, own, touched>> /\ pc[User] = "unreg"
    BY <1>1, <1>2 DEF UnregisterReads, listenerVars, historyVars
  <2>3. ReleaseInPlace'
    BY <2>1, <2>2 DEF ReleaseInPlace
  <2> QED
    BY <2>1, <2>3 DEF ListenerTypes
<1>3. CASE UnregisterWrites(s)
  BY <1>3 DEF UnregisterWrites, ReleaseInPlace
<1>4. CASE UnregisterReturns(s)
  <2>1. own = {} /\ UNCHANGED ReleaseVars
    BY <1>4 DEF UnregisterReturns, ReleaseVars, listenerVars, nativeVars, historyVars
  <2> QED
    BY <2>1 DEF ReleaseInPlace, ReleaseVars
<1> QED
  BY <1>2, <1>3, <1>4

(* The natives that make, attach, take or release listeners otherwise.     *)
LEMMA NativesReadNothing ==
  ASSUME Places, ReleaseInPlace, stale \in Int, NEW s \in Scripts,
         \/ RegisterEvent(s) \/ WaitForStuff(s) \/ LoadGoesOn(s) \/ RegisterAdds(s)
         \/ WaitAdds(s) \/ LoadAttaches(s) \/ WaitReturns(s) \/ LoadReturns(s)
         \/ LoadURI(s) \/ LoadReleases(s) \/ ThingsReturns(s) \/ UnregisterEvent(s)
  PROVE  ReleaseInPlace' /\ stale' \in Int
<1>1. s = User /\ pc[s] # "unreg"
  BY StaysUser
     DEF RegisterEvent, WaitForStuff, LoadGoesOn, RegisterAdds, WaitAdds, LoadAttaches,
         WaitReturns, LoadReturns, LoadURI, LoadReleases, ThingsReturns, UnregisterEvent,
         InScript, OthersPCs
<1>2. CASE RegisterEvent(s) \/ WaitForStuff(s) \/ LoadGoesOn(s)
  <2>1. UNCHANGED <<releasing, stale, touched>>
    BY <1>2 DEF RegisterEvent, WaitForStuff, LoadGoesOn, NewListener, historyVars
  <2> QED
    BY <1>1, <2>1, NothingRead
<1>3. CASE RegisterAdds(s) \/ WaitAdds(s) \/ LoadAttaches(s)
  <2>1. UNCHANGED <<releasing, stale, touched>>
    BY <1>3 DEF RegisterAdds, WaitAdds, LoadAttaches
  <2> QED
    BY <1>1, <2>1, NothingRead
<1>4. CASE \/ WaitReturns(s) \/ LoadReturns(s) \/ LoadURI(s) \/ LoadReleases(s)
           \/ ThingsReturns(s) \/ UnregisterEvent(s)
  <2>1. UNCHANGED <<releasing, stale, touched>>
    BY <1>4 DEF WaitReturns, LoadReturns, LoadURI, LoadReleases, ThingsReturns,
                UnregisterEvent, historyVars
  <2> QED
    BY <1>1, <2>1, NothingRead
<1> QED
  BY <1>2, <1>3, <1>4

LEMMA OtherNativesKeepRead ==
  ASSUME Places, ReleaseInPlace, stale \in Int, NEW s \in Scripts,
         \/ WaitTimesOut(s) \/ WaitWakes(s) \/ WaitForThings(s) \/ ThingsWaitEnds(s)
         \/ LoadSuspends(s) \/ LoadResumes(s) \/ LoadWakes(s) \/ ChangeDom(s)
         \/ AskUi(s) \/ Answered(s) \/ Repaint(s) \/ Collect(s) \/ FindNodes(s)
         \/ ScriptEnds(s) \/ DomChanged(s) \/ RepaintAsks(s)
  PROVE  ReleaseInPlace' /\ stale' \in Int
<1>1. UNCHANGED ReleaseVars
  BY DEF WaitTimesOut, WaitWakes, WaitForThings, ThingsWaitEnds, LoadSuspends, LoadResumes,
         LoadWakes, ChangeDom, AskUi, Answered, Repaint, Collect, FindNodes, ScriptEnds,
         DomChanged, RepaintAsks, listenerVars, nativeVars, historyVars, ReleaseVars
<1>2. pc[s] # "unreg" /\ \E l \in ScriptPCs : Goto(s, l)
  BY DEF WaitTimesOut, WaitWakes, WaitForThings, ThingsWaitEnds, LoadSuspends, LoadResumes,
         LoadWakes, ChangeDom, AskUi, Answered, Repaint, Collect, FindNodes, ScriptEnds,
         DomChanged, RepaintAsks, InScript, ScriptPCs, LockPCs, ProxyPCs
<1>3. pc'[User] = pc[User] \/ pc[User] # "unreg"
  BY <1>2, WhoIsWho DEF Goto, Places
<1> QED
  BY <1>1, <1>3, ReleaseKept DEF ReleaseVars

(* The UI thread touches what it changes.                                  *)
LEMMA UiTouches ==
  ASSUME Places, ReleaseInPlace, ListenerTypes, stale \in Int, UiStep
  PROVE  ReleaseInPlace' /\ stale' \in Int
<1>1. ASSUME NEW S \in SUBSET Listeners, Touch(S), UNCHANGED <<own, releasing, stale>>,
             \A l \in Listeners \ S : refs'[l] = refs[l], pc'[User] = pc[User]
      PROVE  ReleaseInPlace' /\ stale' \in Int
  <2>1. touched' = touched \union (S \intersect releasing)
    BY <1>1 DEF Touch
  <2>2. ASSUME NEW l \in releasing, l \notin touched' PROVE refs'[l] = stale
    <3>1. l \in Listeners /\ l \notin S /\ l \notin touched
      BY <2>1, <2>2 DEF ReleaseInPlace, ListenerTypes
    <3> QED
      BY <1>1, <3>1 DEF ReleaseInPlace
  <2> QED
    BY <1>1, <2>1, <2>2 DEF ReleaseInPlace
<1>2. CASE UiReplacesDocument
  <2>1. PICK gone \in SUBSET attached : Release(gone, {}) /\ Touch(gone)
    BY <1>2 DEF UiReplacesDocument
  <2>2. gone \in SUBSET Listeners /\ \A l \in Listeners : refs[l] \in Int
    BY <2>1 DEF ListenerTypes
  <2>3. \A l \in Listeners \ gone : refs'[l] = refs[l]
    BY <2>1, <2>2 DEF Release, Count
  <2>4. UNCHANGED <<own, releasing, stale, pc>>
    BY <1>2 DEF UiReplacesDocument, nativeVars
  <2> QED
    BY <1>1, <2>1, <2>2, <2>3, <2>4
<1>3. ASSUME NEW l \in Listeners, UiHandlesEvent(l)
      PROVE  ReleaseInPlace' /\ stale' \in Int
  <2>1. Touch({l}) /\ refs' = [refs EXCEPT ![l] = refs[l] + 1]
    BY <1>3 DEF UiHandlesEvent
  <2>2. \A k \in Listeners \ {l} : refs'[k] = refs[k]
    BY <2>1 DEF ListenerTypes
  <2>3. UNCHANGED <<own, releasing, stale>> /\ pc'[User] = pc[User]
    BY <1>3, UiGoes DEF UiHandlesEvent, nativeVars, UiPCs
  <2>4. {l} \in SUBSET Listeners
    OBVIOUS
  <2> QED
    BY <1>1, <2>1, <2>2, <2>3, <2>4
<1>4. CASE UiReleases
  <2>1. Release(called, {}) /\ Touch(called) /\ called \in SUBSET Listeners
    BY <1>4 DEF UiReleases, ListenerTypes
  <2>2. \A l \in Listeners \ called : refs'[l] = refs[l]
    <3>1. \A l \in Listeners : refs[l] \in Int
      BY DEF ListenerTypes
    <3> QED
      BY <2>1, <3>1 DEF Release, Count
  <2>3. UNCHANGED <<own, releasing, stale>> /\ pc'[User] = pc[User]
    BY <1>4, UiGoes DEF UiReleases, nativeVars, UiPCs
  <2> QED
    BY <1>1, <2>1, <2>2, <2>3
<1>5. ASSUME NEW s \in Scripts, UiServesProxy(s)
      PROVE  ReleaseInPlace' /\ stale' \in Int
  <2>1. UNCHANGED ReleaseVars
    BY <1>5 DEF UiServesProxy, listenerVars, nativeVars, historyVars, ReleaseVars
  <2>2. s = User /\ pc[User] # "unreg"
    BY <1>5, StaysUser DEF UiServesProxy, ProxyPCs, OthersPCs
  <2> QED
    BY <2>1, <2>2, ReleaseKept DEF ReleaseVars
<1>6. CASE UiDispatches \/ UiDispatchesEvent \/ UiBegins \/ UiCollects \/ UiEnds
           \/ UiLeavesLock
  <2>1. UNCHANGED ReleaseVars
    BY <1>6 DEF UiDispatches, UiDispatchesEvent, UiBegins, UiCollects, UiEnds, UiLeavesLock,
                listenerVars, nativeVars, historyVars, ReleaseVars
  <2>2. \E l \in UiPCs : Goto(Ui, l)
    BY <1>6 DEF UiDispatches, UiDispatchesEvent, UiBegins, UiCollects, UiEnds, UiLeavesLock,
                UiPCs
  <2> QED
    BY <2>1, <2>2, UiGoes, ReleaseKept DEF ReleaseVars
<1> QED
  BY <1>2, <1>3, <1>4, <1>5, <1>6 DEF UiStep

LEMMA ReleaseStep ==
  ASSUME Places, ReleaseInPlace, ListenerTypes, stale \in Int, [Next]_vars
  PROVE  ReleaseInPlace' /\ stale' \in Int
<1>1. ASSUME NEW s \in Scripts, ScriptStep(s)
      PROVE  ReleaseInPlace' /\ stale' \in Int
  BY <1>1, UnregisterKeepsRead, NativesReadNothing, OtherNativesKeepRead
     DEF ScriptStep, LockStep
<1>2. ASSUME NEW t \in Threads, CollectorStep(t)
      PROVE  ReleaseInPlace' /\ stale' \in Int
  <2>1. UNCHANGED ReleaseVars
    BY <1>2, CollectorLeavesDispatch DEF listenerVars, nativeVars, historyVars, ReleaseVars
  <2>2. pc'[User] = pc[User] \/ pc[User] # "unreg"
    BY <1>2, CollectorPlaces DEF HoldPCs
  <2> QED
    BY <2>1, <2>2, ReleaseKept DEF ReleaseVars
<1>3. CASE UNCHANGED vars
  <2>1. UNCHANGED ReleaseVars /\ UNCHANGED pc
    BY <1>3 DEF vars, listenerVars, nativeVars, historyVars, ReleaseVars
  <2> QED
    BY <2>1, ReleaseKept DEF ReleaseVars
<1> QED
  BY <1>1, <1>2, <1>3, UiTouches DEF Next
-----------------------------------------------------------------------------
(* What is left of the types.                                              *)
OtherTypes ==
  /\ dom \in Threads \union {NoThread} /\ handles \in SUBSET Listeners
  /\ count \in Nat /\ result \in BOOLEAN

LEMMA OtherTypesStep ==
  ASSUME OtherTypes, ListenerTypes, [Next]_vars
  PROVE  OtherTypes'
<1> USE DEF OtherTypes, uiVars, viewVars, nativeVars
<1>1. ASSUME NEW s \in Scripts, ScriptStep(s)
      PROVE  OtherTypes'
  <2>0. s \in Threads /\ Listed \in SUBSET Listeners
    BY WhoIsWho, ListedTyped DEF ListenerTypes
  <2>1. dom' \in Threads \union {NoThread}
    BY <1>1, <2>0, ScriptLeavesDispatch
  <2>2. CASE LockStep(s)
    <3>1. handles' = handles /\ count' \in {count, count + 1} /\ result' \in {result, FALSE}
      BY <2>2 DEF LockStep, RegisterAdds, WaitAdds, WaitReturns, LoadReleases, LoadAttaches,
                  LoadReturns, DomChanged, RepaintAsks
    <3>2. handles' \in SUBSET Listeners /\ count' \in Nat
      BY <3>1
    <3>3. result' \in BOOLEAN
      BY <3>1, Zenon
    <3> QED
      BY ONLY <2>1, <3>2, <3>3, Zenon DEF OtherTypes
  <2>3. CASE ~LockStep(s)
    <3>1. /\ handles' \in {handles, Listed, {}} /\ count' = count
          /\ result' \in {result, TRUE, FALSE}
      BY <1>1, <2>3
         DEF ScriptStep, RegisterEvent, UnregisterEvent, UnregisterReads,
             UnregisterWrites, UnregisterReturns, WaitForStuff, WaitTimesOut, WaitWakes, WaitForThings, ThingsWaitEnds, ThingsReturns, LoadURI, LoadSuspends,
             LoadResumes, LoadGoesOn, LoadWakes, ChangeDom, AskUi, Answered, Repaint,
             Collect, FindNodes, ScriptEnds
    <3> QED
      BY <2>0, <2>1, <3>1
  <2> QED
    BY <2>2, <2>3
<1>2. CASE UiStep
  <2>1. dom' \in {dom, Ui, NoThread} /\ UNCHANGED <<handles, count, result>>
    BY <1>2 DEF UiStep, UiDispatches, UiDispatchesEvent, UiReplacesDocument, UiServesProxy,
                UiHandlesEvent, UiBegins, UiCollects, UiEnds, UiReleases, UiLeavesLock
  <2> QED
    BY <2>1, WhoIsWho
<1>3. ASSUME NEW t \in Threads, CollectorStep(t)
      PROVE  OtherTypes'
  BY <1>3, CollectorLeavesDispatch
<1>4. CASE UNCHANGED vars
  BY <1>4 DEF vars
<1> QED
  BY <1>1, <1>2, <1>3, <1>4 DEF Next
-----------------------------------------------------------------------------
LEMMA EventsParts ==
  EventsInv <=> /\ RequestsTypeOK /\ saved \in Nat /\ Places /\ DispatchLocked
                /\ ListenersInv /\ OtherTypes /\ ReleaseInPlace /\ stale \in Int
<1>1. TypeOK <=> /\ RequestsTypeOK /\ saved \in Nat /\ ListenerTypes /\ OtherTypes
                 /\ todo \in SUBSET Listeners /\ stale \in Int
                 /\ releasing \in SUBSET Listeners /\ touched \in SUBSET Listeners
                 /\ pc \in [Threads -> UiPCs \union ScriptPCs]
  BY DEF TypeOK, ListenerTypes, OtherTypes
<1>2. RefsAreExact /\ HoldersApart <=> RefsCount /\ TodoAttached /\ HoldersApart
  BY DEF RefsAreExact, RefsCount, TodoAttached, HoldersApart
<1>3. ListenerTypes /\ TodoAttached => todo \in SUBSET Listeners
  BY DEF ListenerTypes, TodoAttached
<1>4. ListenerTypes /\ ReleaseInPlace =>
        releasing \in SUBSET Listeners /\ touched \in SUBSET Listeners
  BY DEF ListenerTypes, ReleaseInPlace
<1> QED
  BY <1>1, <1>2, <1>3, <1>4 DEF EventsInv, ListenersInv, ListenersOK, Places

LEMMA InitEvents == Init => EventsInv
<1> SUFFICES ASSUME Init PROVE EventsInv
  OBVIOUS
<1>1. Listed = {}
  BY DEF Init, Listed
<1>2. RequestsTypeOK /\ saved \in Nat /\ OtherTypes
  <2>1. RequestsTypeOK /\ saved \in Nat
    <3>1. depth \in [Threads -> 0..1] /\ gcThread = NoThread /\ joined = {} /\ saved = 0
      BY DEF Init
    <3>2. gcRunning \in BOOLEAN
      BY Zenon DEF Init
    <3>3. depth \in [Threads -> Nat]
      BY <3>1
    <3> QED
      BY <3>1, <3>2, <3>3 DEF RequestsTypeOK
  <2>2. dom \in Threads \union {NoThread} /\ handles \in SUBSET Listeners /\ count \in Nat
    BY DEF Init
  <2>3. result \in BOOLEAN
    BY Zenon DEF Init
  <2> QED
    BY <2>1, <2>2, <2>3, Zenon DEF OtherTypes
<1>3. Places /\ DispatchLocked
  BY WhoIsWho DEF Init, Places, DispatchLocked, UiPCs, ScriptPCs
<1>5. ReleaseInPlace /\ stale \in Int
  BY DEF Init, ReleaseInPlace
<1>4. ListenersInv
  <2>1. ListenerTypes
    BY DEF Init, ListenerTypes
  <2>2. ListenersOK /\ TodoAttached
    BY <1>1 DEF Init, ListenersOK, HoldersApart, RefsCount, UnseenLive, EventNotForgotten,
                Count, TodoAttached
  <2>3. OwnInPlace
    BY WhoIsWho DEF Init, OwnInPlace, FreshPCs
  <2> QED
    BY <2>1, <2>2, <2>3 DEF ListenersInv
<1> QED
  BY <1>2, <1>3, <1>4, <1>5, EventsParts

LEMMA EventsAlways == Spec => []EventsInv
<1>1. EventsInv /\ [Next]_vars => EventsInv'
  <2> SUFFICES ASSUME EventsInv, [Next]_vars PROVE EventsInv'
    OBVIOUS
  <2>1. /\ RequestsTypeOK /\ saved \in Nat /\ Places /\ DispatchLocked /\ ListenersInv
        /\ OtherTypes /\ ListenerTypes /\ ReleaseInPlace /\ stale \in Int
    BY EventsParts DEF ListenersInv
  <2>2. RequestsTypeOK' /\ saved' \in Nat
    BY <2>1, RequestsKept
  <2>3. Places' /\ DispatchLocked'
    BY <2>1, DispatchStep
  <2>4. ListenersInv'
    BY <2>1, ListenersStep
  <2>5. OtherTypes'
    BY <2>1, OtherTypesStep
  <2>6. ReleaseInPlace' /\ stale' \in Int
    BY <2>1, ReleaseStep
  <2>7. /\ RefsAreExact' /\ todo' \in SUBSET Listeners
        /\ releasing' \in SUBSET Listeners /\ touched' \in SUBSET Listeners
    BY <2>4, <2>6 DEF ListenersInv, ListenerTypes, ListenersOK, RefsAreExact, RefsCount,
                      TodoAttached, HoldersApart, ReleaseInPlace
  <2>8. TypeOK'
    BY <2>2, <2>3, <2>4, <2>5, <2>6, <2>7
       DEF TypeOK, ListenersInv, ListenerTypes, OtherTypes, Places
  <2> QED
    BY <2>3, <2>4, <2>6, <2>7, <2>8 DEF EventsInv, ListenersInv, ListenersOK
<1> QED
  BY InitEvents, <1>1, PTL DEF Spec

(* Every variable keeps its type: in particular no thread ends a request   *)
(* it has not begun.                                                       *)
THEOREM TypeCorrect == Spec => []TypeOK
<1>1. EventsInv => TypeOK
  BY DEF EventsInv
<1> QED
  BY <1>1, EventsAlways, PTL

(* The reference count of a listener, kept by hand in four natives and by  *)
(* the document, is the number of those who refer to it, so that the UI    *)
(* thread never calls a deleted listener: whatever interleaving of natives,*)
(* dispatches and documents that go (domeventhandler.cpp:62-234).  The     *)
(* count is not interlocked: the only listener that loses a change is one  *)
(* that g2_unregister_event released outside domStateLock (225-232) while  *)
(* the UI thread changed the count of the same one, and no list, native or *)
(* wait has it any more.                                                   *)
THEOREM RefsAreExactAlways == Spec => []RefsAreExact
<1>1. EventsInv => RefsAreExact
  BY DEF EventsInv
<1> QED
  BY <1>1, EventsAlways, PTL

(* The event of a listed listener stays signalled until a wait returns:    *)
(* memory used again for a new listener brings no old event along, and     *)
(* one that comes during the wait is not reset away (domeventhandler.cpp:  *)
(* 165-204).                                                               *)
THEOREM EventNotForgottenAlways == Spec => []EventNotForgotten
<1>1. EventsInv => EventNotForgotten
  BY DEF EventsInv
<1> QED
  BY <1>1, EventsAlways, PTL
=============================================================================
