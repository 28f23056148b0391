------------------------------ MODULE ScriptUI ------------------------------
(***************************************************************************)
(* The first Gecko extension (js_gecko/uiproper.cpp): InitUI starts a UI   *)
(* thread with one window, ShowUI and ShowURI send it pages and wait for   *)
(* an answer, ShutdownUI ends it.  Two named events tie them together:     *)
(* xprep_uithread_running is set while the UI thread serves, and exists    *)
(* while somebody has a handle of it; xprep_uireturn_wait is set by an     *)
(* answer, and no handle of it is ever closed.  Neither is created before  *)
(* it can be set, so that answers and ends of the UI can be missed.  Every *)
(* show has a store of its own (VarStore), which the page fills.           *)
(***************************************************************************)
EXTENDS VarStore

CONSTANTS Scripts,    \* scripts that use the extension
          MaxThreads, \* bound: UI threads InitUI starts
          MaxShows    \* bound: calls of ShowUI and ShowURI

ASSUME ScriptUIAssumption ==
  MaxThreads \in Nat /\ MaxShows \in Nat /\ Scripts \intersect Nat = {}

UiThreads == 1..MaxThreads
Shows == 1..MaxShows
NULL == 0

VARIABLES
  topWnd,   \* the thread whose window topWnd is, or NULL
  class,    \* the window class: "free" or "registered"
  holders,  \* who has a handle of the running event; without any it is gone
  running,  \* the running event: "set" or "reset"
  answer,   \* the wait event: "none" before its first CreateEvent
  ui,       \* [UiThreads -> ..], where a UI thread is
  wnd,      \* UI threads whose window exists
  page,     \* [UiThreads -> ..], the show whose page it displays, or NULL
  loading,  \* [UiThreads -> ..], the show whose page it is loading, or NULL
  localVars,\* [UiThreads -> ..], the show whose store its listener points to
  pc,       \* [Scripts -> ..], where a script is
  call,     \* [Scripts -> Calls], the call of ShowUI or ShowURI it is in
  began,    \* shows begun so far
  heap,     \* [Shows -> ..], whether its store is allocated
  late,     \* scripts during whose ShutdownUI the running event was set
  blame     \* the show whose page was answered into no store, or NULL

runVars == <<topWnd, class, holders, running>>
uiData == <<wnd, page, loading, localVars>>
uiVars == <<ui, uiData>>
callVars == <<pc, call, began>>
memVars == <<heap, late, blame>>
vars == <<runVars, answer, uiVars, callVars, memVars>>

Showing == {"send", "create", "reset", "arm", "wait", "released"}

(* A call: its number, what it is (ShowURI, asynchronous), the window it   *)
(* sends to; and of its history whether no other overlapped it, a listener *)
(* got its store, its page was displayed before the ResetEvent, that store *)
(* was answered into after it, and by the page of another show.            *)
Kinds == SUBSET {"uri", "async"}
Marks == SUBSET {"alone", "sent", "shown", "answered", "other"}
Calls == [show : Shows \union {NULL}, kind : Kinds, to : UiThreads \union {NULL},
          marks : Marks]
NoCall == [show |-> NULL, kind |-> {}, to |-> NULL, marks |-> {}]

TypeOK ==
  /\ topWnd \in UiThreads \union {NULL}
  /\ class \in {"free", "registered"} /\ running \in {"set", "reset"}
  /\ holders \in SUBSET (Scripts \union UiThreads)
  /\ answer \in {"none", "reset", "set"}
  /\ ui \in [UiThreads -> {"none", "register", "window", "open", "first", "set",
                           "check", "get", "end", "dead"}]
  /\ wnd \in SUBSET UiThreads
  /\ page \in [UiThreads -> Shows \union {NULL}]
  /\ loading \in [UiThreads -> Shows \union {NULL}]
  /\ localVars \in [UiThreads -> Shows \union {NULL}]
  /\ pc \in [Scripts -> {"idle", "init", "shutdown"} \union Showing]
  /\ call \in [Scripts -> Calls]
  /\ began \in 0..MaxShows
  /\ heap \in [Shows -> {"none", "live", "freed"}]
  /\ late \in SUBSET Scripts
  /\ blame \in Shows \union {NULL}

Init ==
  /\ topWnd = NULL /\ class = "free" /\ holders = {} /\ running = "reset"
  /\ answer = "none"
  /\ ui = [t \in UiThreads |-> "none"]
  /\ wnd = {}
  /\ page = [t \in UiThreads |-> NULL]
  /\ loading = [t \in UiThreads |-> NULL]
  /\ localVars = [t \in UiThreads |-> NULL]
  /\ pc = [s \in Scripts |-> "idle"]
  /\ call = [s \in Scripts |-> NoCall]
  /\ began = 0
  /\ heap = [k \in Shows |-> "none"]
  /\ late = {} /\ blame = NULL
-----------------------------------------------------------------------------
Goto(s, l) == pc' = [pc EXCEPT ![s] = l]
GotoUi(t, l) == ui' = [ui EXCEPT ![t] = l]

(* CloseHandle: the last handle takes the running event with it.           *)
CloseRunning(x) ==
  /\ holders' = holders \ {x}
  /\ running' = IF holders = {x} THEN "reset" ELSE running

(* InitUI without a window: the event is created or opened, and the next   *)
(* thread started (218-244).  With one it returns at once.                 *)
InitUI(s) ==
  /\ pc[s] = "idle" /\ topWnd = NULL
  /\ holders' = holders \union {s}
  /\ \E t \in UiThreads :
       /\ ui[t] = "none" /\ \A u \in 1..(t - 1) : ui[u] # "none"
       /\ GotoUi(t, "register")
  /\ Goto(s, "init")
  /\ UNCHANGED <<topWnd, class, running, answer, uiData, call, began, memVars>>

(* InitUI succeeds when the event is set and also when 30 seconds pass, as *)
(* only WAIT_ABANDONED counts as failure (245-256).                        *)
InitReturns(s) ==
  /\ pc[s] = "init"
  /\ CloseRunning(s)
  /\ Goto(s, "idle")
  /\ UNCHANGED <<topWnd, class, answer, uiVars, call, began, memVars>>

(* Mutant: the event is not reset.                                         *)
ShutdownWithoutReset(s) ==
  /\ pc[s] = "idle" /\ holders # {}
  /\ holders' = holders \union {s}
  /\ Goto(s, "shutdown")
  /\ UNCHANGED <<topWnd, class, running, answer, uiVars, call, began, memVars>>

(* ShutdownUI opens the event, or fails, and resets it (259-267).          *)
ShutdownUI(s) ==
  /\ pc[s] = "idle" /\ holders # {}
  /\ holders' = holders \union {s}
  /\ running' = "reset"
  /\ Goto(s, "shutdown")
  /\ UNCHANGED <<topWnd, class, answer, uiVars, call, began, memVars>>

(* It waits while the event is set, which it has just reset, and forgets   *)
(* the window (268-272).                                                   *)
ShutdownReturns(s) ==
  /\ pc[s] = "shutdown" /\ running = "reset"
  /\ CloseRunning(s)
  /\ topWnd' = NULL
  /\ Goto(s, "idle")
  /\ late' = late \ {s}
  /\ UNCHANGED <<class, answer, uiVars, call, began, heap, blame>>
-----------------------------------------------------------------------------
(* The UI thread.                                                          *)

(* Mutant: the result of RegisterClass is not looked at.                   *)
RegisterAnyway(t) ==
  /\ ui[t] = "register"
  /\ class' = "registered"
  /\ GotoUi(t, "window")
  /\ UNCHANGED <<topWnd, holders, running, answer, uiData, callVars, memVars>>

(* A class that is still registered ends the thread at once (158-172).     *)
Register(t) ==
  /\ ui[t] = "register"
  /\ class' = "registered"
  /\ GotoUi(t, IF class = "registered" THEN "dead" ELSE "window")
  /\ UNCHANGED <<topWnd, holders, running, answer, uiData, callVars, memVars>>

CreateUiWindow(t) ==
  /\ ui[t] = "window"
  /\ wnd' \in {wnd, wnd \union {t}}
  /\ GotoUi(t, "open")
  /\ UNCHANGED <<runVars, answer, page, loading, localVars, callVars, memVars>>

(* OpenEvent finds the event while somebody has it (175-183).              *)
OpenRunning(t) ==
  /\ ui[t] = "open"
  /\ holders' = IF holders = {} THEN {} ELSE holders \union {t}
  /\ IF t \in wnd /\ holders # {}
     THEN topWnd' = t /\ GotoUi(t, "first")
     ELSE UNCHANGED topWnd /\ GotoUi(t, "end")
  /\ UNCHANGED <<class, running, answer, uiData, callVars, memVars>>

(* A sent message is served inside GetMessage, before any posted one.      *)
Pending(t) == \E s \in Scripts : pc[s] = "send" /\ call[s].to = t

(* The first loop takes one message (186-199): the view is there.          *)
FirstMessage(t) ==
  /\ ui[t] = "first" /\ ~Pending(t)
  /\ GotoUi(t, "set")
  /\ UNCHANGED <<runVars, answer, uiData, callVars, memVars>>

SetRunning(t) ==
  /\ ui[t] = "set"
  /\ running' = "set"
  /\ late' = late \union {s \in Scripts : pc[s] = "shutdown"}
  /\ GotoUi(t, "check")
  /\ UNCHANGED <<topWnd, class, holders, answer, uiData, callVars, heap, blame>>

CheckRunning(t) ==
  /\ ui[t] = "check"
  /\ GotoUi(t, IF running = "set" THEN "get" ELSE "end")
  /\ UNCHANGED <<runVars, answer, uiData, callVars, memVars>>

(* The calls for show k that are at one of some places get marks.          *)
Marked(k, at, new) ==
  [s \in Scripts |-> IF call[s].show = k /\ pc[s] \in at
                     THEN [call[s] EXCEPT !.marks = @ \union new] ELSE call[s]]

(* A load ends among the messages: the page takes the place of the one     *)
(* before it, or has failed to load, which nobody is told.                 *)
Loaded(t) ==
  /\ ui[t] \in {"first", "get"} /\ ~Pending(t) /\ loading[t] # NULL
  /\ loading' = [loading EXCEPT ![t] = NULL]
  /\ \/ /\ page' = [page EXCEPT ![t] = loading[t]]
        /\ call' = Marked(loading[t], {"create", "reset"}, {"shown"})
     \/ UNCHANGED <<page, call>>
  /\ GotoUi(t, IF ui[t] = "first" THEN "set" ELSE "check")
  /\ UNCHANGED <<runVars, answer, wnd, localVars, pc, began, memVars>>

(* Input that is no answer and closes nothing.                             *)
OtherMessage(t) ==
  /\ ui[t] = "get" /\ ~Pending(t)
  /\ GotoUi(t, "check")
  /\ UNCHANGED <<runVars, answer, uiData, callVars, memVars>>

(* WM_CLOSE, WM_DESTROY: the window goes once topWnd leads elsewhere, and  *)
(* its view and listener with it (105-122).                                *)
CloseWindow(t) ==
  /\ ui[t] = "get" /\ ~Pending(t)
  /\ t \in wnd /\ topWnd # t
  /\ wnd' = wnd \ {t}
  /\ page' = [page EXCEPT ![t] = NULL]
  /\ loading' = [loading EXCEPT ![t] = NULL]
  /\ localVars' = [localVars EXCEPT ![t] = NULL]
  /\ GotoUi(t, "check")
  /\ UNCHANGED <<runVars, answer, callVars, memVars>>

(* The end: the event is reset and closed, the class cannot be             *)
(* unregistered while the window exists, and Windows destroys the window   *)
(* of a thread that has returned (211-215).                                *)
End(t) ==
  /\ ui[t] = "end"
  /\ IF t \in holders
     THEN holders' = holders \ {t} /\ running' = "reset"
     ELSE UNCHANGED <<holders, running>>
  /\ class' = IF t \in wnd THEN "registered" ELSE "free"
  /\ wnd' = wnd \ {t}
  /\ page' = [page EXCEPT ![t] = NULL]
  /\ loading' = [loading EXCEPT ![t] = NULL]
  /\ localVars' = [localVars EXCEPT ![t] = NULL]
  /\ GotoUi(t, "dead")
  /\ UNCHANGED <<topWnd, answer, callVars, memVars>>
-----------------------------------------------------------------------------
(* ShowUI and ShowURI.                                                     *)

Others(s) == {t \in Scripts \ {s} : pc[t] \in Showing}

(* The arguments, a new store, and SendMessage to whatever topWnd is       *)
(* (275-309, 347-377).  An asynchronous ShowURI has no store.              *)
Show(s) ==
  /\ pc[s] = "idle" /\ began < MaxShows
  /\ began' = began + 1
  /\ \E kind \in Kinds :
       /\ call' = [t \in Scripts |->
            IF t = s
            THEN [show |-> began + 1, kind |-> kind, to |-> topWnd,
                  marks |-> IF Others(s) = {} THEN {"alone"} ELSE {}]
            ELSE [call[t] EXCEPT !.marks = @ \ {"alone"}]]
       /\ heap' = [heap EXCEPT ![began + 1] =
                     IF kind = {"uri", "async"} THEN "none" ELSE "live"]
  /\ Goto(s, "send")
  /\ UNCHANGED <<runVars, answer, uiVars, late, blame>>

(* SendMessage has returned: ShowUI fails when its result is not zero,     *)
(* ShowURI does not look at it; an asynchronous one returns, and nothing   *)
(* holds its store any more (311-325, 381-385).                            *)
Sent(s, new, failed) ==
  IF "async" \in call[s].kind \/ (failed /\ "uri" \notin call[s].kind)
  THEN /\ Goto(s, "idle")
       /\ call' = [call EXCEPT ![s] = NoCall]
  ELSE /\ Goto(s, "create")
       /\ call' = [call EXCEPT ![s].to = NULL,
                                 ![s].marks = @ \union new]

(* WM_SHOWUI and WM_SHOWURI: the listener gets the store, the view         *)
(* displays the page, starts to load it, or fails; until a load is done    *)
(* the page before it can be answered still (43-93).                       *)
Serve(t, s) ==
  /\ ui[t] \in {"first", "get"} /\ t \in wnd
  /\ pc[s] = "send" /\ call[s].to = t
  /\ LET k == call[s].show IN
       /\ localVars' = [localVars EXCEPT ![t] = IF heap[k] = "none" THEN NULL ELSE k]
       /\ \/ /\ page' = [page EXCEPT ![t] = k]
             /\ loading' = [loading EXCEPT ![t] = NULL]
             /\ Sent(s, {"sent", "shown"}, FALSE)
          \/ /\ loading' = [loading EXCEPT ![t] = k]
             /\ UNCHANGED page /\ Sent(s, {"sent"}, FALSE)
          \/ UNCHANGED <<page, loading>> /\ Sent(s, {"sent"}, TRUE)
  /\ UNCHANGED <<runVars, answer, ui, wnd, began, memVars>>

(* Without a window SendMessage returns 0, which counts as success.        *)
SendFails(s) ==
  /\ pc[s] = "send" /\ (call[s].to # NULL => call[s].to \notin wnd)
  /\ Sent(s, {}, FALSE)
  /\ UNCHANGED <<runVars, answer, uiVars, began, memVars>>

CreateWait(s) ==
  /\ pc[s] = "create"
  /\ answer' = IF answer = "none" THEN "reset" ELSE answer
  /\ Goto(s, "reset")
  /\ UNCHANGED <<runVars, uiVars, call, began, memVars>>

(* Mutant: a new event is not set, so why reset it.                        *)
ResetWaitNot(s) ==
  /\ pc[s] = "reset"
  /\ Goto(s, "arm")
  /\ UNCHANGED <<runVars, answer, uiVars, call, began, memVars>>

(* ResetEvent takes back an answer that came in between (328, 388).        *)
ResetWait(s) ==
  /\ pc[s] = "reset"
  /\ answer' = "reset"
  /\ Goto(s, "arm")
  /\ UNCHANGED <<runVars, uiVars, call, began, memVars>>

Wait(s) ==
  /\ pc[s] = "arm"
  /\ Goto(s, IF answer = "set" THEN "released" ELSE "wait")
  /\ UNCHANGED <<runVars, answer, uiVars, call, began, memVars>>

(* The call returns its store to the script.                               *)
ShowReturns(s) ==
  /\ pc[s] = "released"
  /\ Goto(s, "idle")
  /\ call' = [call EXCEPT ![s] = NoCall]
  /\ UNCHANGED <<runVars, answer, uiVars, began, memVars>>

(* The user answers (405-415), if by the page of an older show.  Without   *)
(* the wait event the view follows the link, and what it leads to counts   *)
(* as the same page; otherwise the inputs go to the store of the listener  *)
(* (VarStore says how) and all who wait are released.  A store that is not *)
(* there ends the model.                                                   *)
OpenURI(t) ==
  /\ ui[t] = "get" /\ ~Pending(t) /\ page[t] # NULL
  /\ LET k == localVars[t] IN
       IF answer = "none"
       THEN /\ loading' \in {loading, [loading EXCEPT ![t] = NULL]}
            /\ UNCHANGED <<answer, pc, call, blame>>
       ELSE /\ UNCHANGED loading
            /\ IF k = NULL \/ heap[k] = "freed"
               THEN blame' = page[t] /\ UNCHANGED <<answer, pc, call>>
               ELSE /\ answer' = "set"
                    /\ pc' = [s \in Scripts |-> IF pc[s] = "wait" THEN "released" ELSE pc[s]]
                    /\ call' = Marked(k, {"arm", "wait"},
                         {"answered"} \union IF page[t] = k THEN {} ELSE {"other"})
                    /\ UNCHANGED blame
  /\ GotoUi(t, "check")
  /\ UNCHANGED <<runVars, wnd, page, localVars, began, heap, late>>
-----------------------------------------------------------------------------
(* The collector finalizes a store (varstore.cpp 285-289) once the native  *)
(* that made it has returned and no script holds what it returned.         *)
Collect(k) ==
  /\ heap[k] = "live" /\ \A s \in Scripts : call[s].show # k
  /\ heap' = [heap EXCEPT ![k] = "freed"]
  /\ UNCHANGED <<runVars, answer, uiVars, callVars, late, blame>>
-----------------------------------------------------------------------------
ScriptStep(s) ==
  \/ InitUI(s) \/ InitReturns(s) \/ ShutdownUI(s) \/ ShutdownReturns(s)
  \/ Show(s) \/ SendFails(s) \/ CreateWait(s) \/ ResetWait(s) \/ Wait(s) \/ ShowReturns(s)

UiStep(t) ==
  \/ Register(t) \/ CreateUiWindow(t) \/ OpenRunning(t) \/ FirstMessage(t)
  \/ SetRunning(t) \/ CheckRunning(t) \/ Loaded(t) \/ OtherMessage(t) \/ CloseWindow(t)
  \/ End(t) \/ OpenURI(t) \/ \E s \in Scripts : Serve(t, s)

(* What follows an access to memory that is not there is not modelled.     *)
Running == blame = NULL

Next ==
  /\ Running
  /\ \/ \E s \in Scripts : ScriptStep(s)
     \/ \E t \in UiThreads : UiStep(t)
     \/ \E k \in Shows : Collect(k)

(* A script runs on inside a native, a UI thread outside GetMessage, which *)
(* returns for the messages of a new window and for sent ones.  No user is *)
(* obliged to answer.                                                      *)
Fairness ==
  /\ \A s \in Scripts :
       WF_vars(/\ Running
               /\ \/ InitReturns(s) \/ ShutdownReturns(s) \/ SendFails(s)
                  \/ CreateWait(s) \/ ResetWait(s) \/ Wait(s) \/ ShowReturns(s))
  /\ \A t \in UiThreads :
       WF_vars(/\ Running
               /\ \/ Register(t) \/ CreateUiWindow(t) \/ OpenRunning(t)
                  \/ FirstMessage(t) \/ SetRunning(t) \/ CheckRunning(t) \/ End(t)
                  \/ \E s \in Scripts : Serve(t, s))

Spec == Init /\ [][Next]_vars /\ Fairness
-----------------------------------------------------------------------------
(* Properties.                                                             *)

(* A show that overlaps no other and that a window got returns exactly for *)
(* an answer into its store that came after its ResetEvent: neither an     *)
(* older answer nor an early one releases it, and a later one is not lost. *)
(* When its page was displayed by then, the answer is its own page's.      *)
(* Meanwhile its store is there, and no page answers into freed memory     *)
(* (301-329, 370-389, 405-415).                                            *)
AnswerIsOwn ==
  \A s \in Scripts :
    LET c == call[s] IN
      pc[s] \in Showing /\ {"alone", "sent"} \subseteq c.marks =>
        /\ pc[s] = "released" => "answered" \in c.marks
        /\ pc[s] = "wait" => "answered" \notin c.marks
        /\ "shown" \in c.marks => "other" \notin c.marks
        /\ heap[c.show] = "live" /\ blame = NULL

Serving(t) == ui[t] \notin {"none", "register", "dead"}

(* The running event is set only while its UI thread serves or is about to *)
(* see it reset, and keeps the event alive meanwhile.  There is one such   *)
(* thread, and while there is the class stays registered (171-215).        *)
RunningIsServed ==
  /\ \A t, u \in UiThreads : Serving(t) /\ Serving(u) => t = u
  /\ running = "set" => \E t \in UiThreads : t \in holders /\ ui[t] \in {"check", "get", "end"}
  /\ (\E t \in UiThreads : Serving(t)) => class = "registered"

(* While the store of a show is there, it holds what was put into it last, *)
(* and is ruined exactly by the puts that PutsAreKept names (varstore.cpp  *)
(* 28-176).                                                                *)
StoreKeepsValues == (\E k \in Shows : heap[k] = "live") => PutsAreKept

(* Every native returns, but for the wait for an answer: SendMessage finds *)
(* the UI thread in GetMessage or its window gone, and ShutdownUI an event *)
(* that stays reset unless the UI thread sets it meanwhile.                *)
NativesReturn ==
  \A s \in Scripts :
    pc[s] \notin {"idle", "wait"} ~>
      \/ pc[s] \in {"idle", "wait"}
      \/ pc[s] = "shutdown" /\ s \in late
      \/ ~Running
=============================================================================
