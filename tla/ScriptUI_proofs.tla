-------------------------- MODULE ScriptUI_proofs ---------------------------
(***************************************************************************)
(* ScriptUI keeps its types, its running event is served while it is set,  *)
(* and a show that no other overlaps gets the answer to its own page, for  *)
(* any scripts, UI threads and shows.  The inductive invariant has a part  *)
(* about the UI threads and one about the shows.  The store of a show      *)
(* keeps what is put into it, for any names and values.                    *)
(***************************************************************************)
EXTENDS ScriptUI, WellFoundedInduction, TLAPS

(* One UI thread serves, and the class is its own.                         *)
OneServes ==
  /\ \A t, u \in UiThreads : Serving(t) /\ Serving(u) => t = u
  /\ \A t \in UiThreads : Serving(t) => class = "registered"

(* It has a handle of the running event from the moment it has a window    *)
(* that scripts can reach.                                                 *)
HasEvent ==
  \A t \in UiThreads : ui[t] \in {"first", "set", "check", "get"} => t \in holders

RunningHeld ==
  running = "set" => \E t \in UiThreads : t \in holders /\ ui[t] \in {"check", "get", "end"}

(* A page is displayed or loaded only by a thread that has reached its loop. *)
NoPageYet ==
  \A t \in UiThreads : ~Serving(t) \/ ui[t] \in {"window", "open"} =>
    page[t] = NULL /\ loading[t] = NULL

UiPart == OneServes /\ HasEvent /\ RunningHeld /\ NoPageYet

(* A call in progress has a show of its own, whose store is live.          *)
ShowsApart ==
  \A s \in Scripts : pc[s] \in Showing =>
    /\ call[s].show \in 1..began
    /\ heap[call[s].show] = IF call[s].kind = {"uri", "async"} THEN "none" ELSE "live"
    /\ pc[s] # "send" => "async" \notin call[s].kind
    /\ \A t \in Scripts : pc[t] \in Showing /\ call[t].show = call[s].show => t = s

AloneIsAlone ==
  \A s \in Scripts : pc[s] \in Showing /\ "alone" \in call[s].marks =>
    \A t \in Scripts : pc[t] \in Showing => t = s

(* Whatever page can be answered is answered into the store of the show   *)
(* that is alone, and once that has its page, it is the only one.          *)
OwnStore ==
  \A s \in Scripts : pc[s] \in Showing /\ {"alone", "sent"} \subseteq call[s].marks =>
    \A t \in UiThreads :
      page[t] # NULL \/ loading[t] # NULL => localVars[t] = call[s].show

OwnPage ==
  \A s \in Scripts :
    pc[s] \in Showing /\ {"alone", "sent", "shown"} \subseteq call[s].marks =>
      \A t \in UiThreads : page[t] \in {NULL, call[s].show} /\ loading[t] = NULL

(* Where an answer counts.                                                 *)
Answered ==
  \A s \in Scripts :
    /\ pc[s] = "send" => "sent" \notin call[s].marks /\ "shown" \notin call[s].marks
    /\ pc[s] \in {"send", "create", "reset"} =>
         "answered" \notin call[s].marks /\ "other" \notin call[s].marks
    /\ pc[s] \in {"reset", "arm", "wait"} => answer # "none"
    /\ pc[s] \in Showing /\ {"alone", "sent"} \subseteq call[s].marks =>
         /\ pc[s] = "arm" => ("answered" \in call[s].marks <=> answer = "set")
         /\ pc[s] = "wait" => "answered" \notin call[s].marks
         /\ pc[s] = "released" => "answered" \in call[s].marks
         /\ "shown" \in call[s].marks => "other" \notin call[s].marks
         /\ blame = NULL

ShowPart == ShowsApart /\ AloneIsAlone /\ OwnStore /\ OwnPage /\ Answered

UiInv == TypeOK /\ UiPart /\ ShowPart
-----------------------------------------------------------------------------
LEMMA Numbers ==
  /\ UiThreads \subseteq Nat /\ Shows \subseteq Nat /\ NULL \in Nat
  /\ NULL \notin Shows /\ NULL \notin UiThreads
  /\ \A s \in Scripts : s \notin UiThreads
  BY ScriptUIAssumption DEF UiThreads, Shows, NULL

LEMMA CallFields ==
  ASSUME NEW c \in Calls
  PROVE  /\ c.show \in Shows \union {NULL} /\ c.kind \in Kinds
         /\ c.to \in UiThreads \union {NULL} /\ c.marks \in Marks
  BY DEF Calls

(* What the marking of calls changes.                                      *)
LEMMA MarkedCalls ==
  ASSUME call \in [Scripts -> Calls], NEW k, NEW at, NEW new \in Marks
  PROVE  /\ Marked(k, at, new) \in [Scripts -> Calls]
         /\ \A s \in Scripts :
              /\ Marked(k, at, new)[s].show = call[s].show
              /\ Marked(k, at, new)[s].kind = call[s].kind
              /\ Marked(k, at, new)[s].marks =
                   IF call[s].show = k /\ pc[s] \in at
                   THEN call[s].marks \union new ELSE call[s].marks
<1>1. ASSUME NEW s \in Scripts
      PROVE  /\ Marked(k, at, new)[s] \in Calls
             /\ Marked(k, at, new)[s].show = call[s].show
             /\ Marked(k, at, new)[s].kind = call[s].kind
             /\ Marked(k, at, new)[s].marks =
                  IF call[s].show = k /\ pc[s] \in at
                  THEN call[s].marks \union new ELSE call[s].marks
  <2>1. call[s] \in Calls
    OBVIOUS
  <2>2. Marked(k, at, new)[s] = IF call[s].show = k /\ pc[s] \in at
                                THEN [call[s] EXCEPT !.marks = @ \union new] ELSE call[s]
    BY DEF Marked
  <2>3. CASE call[s].show = k /\ pc[s] \in at
    <3>1. Marked(k, at, new)[s] = [call[s] EXCEPT !.marks = @ \union new]
      BY <2>2, <2>3
    <3>2. call[s].marks \union new \in Marks
      BY <2>1 DEF Calls, Marks
    <3> QED
      BY <2>1, <2>3, <3>1, <3>2 DEF Calls
  <2> QED
    BY <2>1, <2>2, <2>3
<1>2. Marked(k, at, new) = [s \in Scripts |-> Marked(k, at, new)[s]]
  BY DEF Marked
<1> QED
  BY <1>1, <1>2

LEMMA InitInv == Init => UiInv
<1> SUFFICES ASSUME Init PROVE UiInv
  OBVIOUS
<1>1. NoCall \in Calls
  BY DEF NoCall, Calls, Kinds, Marks
<1>2. TypeOK
  BY <1>1, ScriptUIAssumption DEF Init, TypeOK
<1>3. UiPart
  BY DEF Init, UiPart, OneServes, HasEvent, RunningHeld, NoPageYet, Serving
<1>4. ShowPart
  BY
     DEF Init, ShowPart, ShowsApart, AloneIsAlone, OwnStore, OwnPage, Answered, Showing
<1> QED
  BY <1>2, <1>3, <1>4 DEF UiInv
-----------------------------------------------------------------------------
(* Every step keeps every variable in its type.                            *)
LEMMA TypeOKStep ==
  ASSUME UiInv, [Next]_vars
  PROVE  TypeOK'
<1>0. TypeOK
  BY DEF UiInv
<1>a. NoCall \in Calls
  BY DEF NoCall, Calls, Kinds, Marks
<1>b. ASSUME NEW s \in Scripts, NEW new \in Marks, NEW failed, Sent(s, new, failed)
      PROVE  pc' \in [Scripts -> {"idle", "init", "shutdown"} \union Showing]
             /\ call' \in [Scripts -> Calls]
  <2>1. pc' \in [Scripts -> {"idle", "init", "shutdown"} \union Showing]
    BY <1>0, <1>b DEF TypeOK, Sent, Goto, Showing
  <2>2. CASE call' = [call EXCEPT ![s] = NoCall]
    BY <1>0, <1>a, <2>1, <2>2 DEF TypeOK
  <2>3. CASE call' = [call EXCEPT ![s].to = NULL, ![s].marks = @ \union new]
    <3>1. call[s] \in Calls /\ call \in [Scripts -> Calls]
      BY <1>0 DEF TypeOK
    <3>2. [call[s] EXCEPT !.to = NULL, !.marks = @ \union new] \in Calls
      BY <3>1 DEF Calls, Marks
    <3> QED
      BY <2>1, <2>3, <3>1, <3>2
  <2> QED
    BY <1>b, <2>2, <2>3 DEF Sent
<1>1. ASSUME NEW s \in Scripts, InitUI(s)
      PROVE  TypeOK'
  BY <1>0, <1>1, ScriptUIAssumption
     DEF TypeOK, InitUI, Goto, GotoUi, CloseRunning, Showing, runVars, uiVars, uiData,
         callVars, memVars
<1>2. ASSUME NEW s \in Scripts, InitReturns(s)
      PROVE  TypeOK'
  BY <1>0, <1>2, ScriptUIAssumption
     DEF TypeOK, InitReturns, Goto, GotoUi, CloseRunning, Showing, runVars, uiVars,
         uiData, callVars, memVars
<1>3. ASSUME NEW s \in Scripts, ShutdownUI(s)
      PROVE  TypeOK'
  BY <1>0, <1>3, ScriptUIAssumption
     DEF TypeOK, ShutdownUI, Goto, GotoUi, CloseRunning, Showing, runVars, uiVars,
         uiData, callVars, memVars
<1>4. ASSUME NEW s \in Scripts, ShutdownReturns(s)
      PROVE  TypeOK'
  BY <1>0, <1>4, ScriptUIAssumption
     DEF TypeOK, ShutdownReturns, Goto, GotoUi, CloseRunning, Showing, runVars,
         uiVars, uiData, callVars, memVars
<1>5. ASSUME NEW s \in Scripts, Show(s)
      PROVE  TypeOK'
  <2>1. began + 1 \in Shows /\ began' = began + 1 /\ began' \in 0..MaxShows
    BY <1>0, <1>5, ScriptUIAssumption DEF TypeOK, Show, Shows
  <2>2. PICK kind \in Kinds :
          /\ call' = [t \in Scripts |->
               IF t = s
               THEN [show |-> began + 1, kind |-> kind, to |-> topWnd,
                     marks |-> IF Others(s) = {} THEN {"alone"} ELSE {}]
               ELSE [call[t] EXCEPT !.marks = @ \ {"alone"}]]
          /\ heap' = [heap EXCEPT ![began + 1] =
                        IF kind = {"uri", "async"} THEN "none" ELSE "live"]
    BY <1>5 DEF Show
  <2>3. [show |-> began + 1, kind |-> kind, to |-> topWnd,
         marks |-> IF Others(s) = {} THEN {"alone"} ELSE {}] \in Calls
    BY <1>0, <2>1 DEF TypeOK, Calls, Marks
  <2>4. \A t \in Scripts : [call[t] EXCEPT !.marks = @ \ {"alone"}] \in Calls
    BY <1>0 DEF TypeOK, Calls, Marks
  <2>5. call' \in [Scripts -> Calls]
    BY <2>2, <2>3, <2>4
  <2>6. heap' \in [Shows -> {"none", "live", "freed"}]
    BY <1>0, <2>2 DEF TypeOK
  <2> QED
    BY <1>0, <1>5, <2>1, <2>5, <2>6
       DEF TypeOK, Show, Goto, Showing, runVars, uiVars, uiData
<1>6. ASSUME NEW s \in Scripts, SendFails(s)
      PROVE  TypeOK'
  <2>1. {} \in Marks
    BY DEF Marks
  <2> QED
    BY <1>0, <1>b, <1>6, <2>1 DEF TypeOK, SendFails, runVars, uiVars, uiData, memVars
<1>7. ASSUME NEW s \in Scripts, CreateWait(s)
      PROVE  TypeOK'
  BY <1>0, <1>7, ScriptUIAssumption
     DEF TypeOK, CreateWait, Goto, GotoUi, CloseRunning, Showing, runVars, uiVars,
         uiData, callVars, memVars
<1>8. ASSUME NEW s \in Scripts, ResetWait(s)
      PROVE  TypeOK'
  BY <1>0, <1>8, ScriptUIAssumption
     DEF TypeOK, ResetWait, Goto, GotoUi, CloseRunning, Showing, runVars, uiVars,
         uiData, callVars, memVars
<1>9. ASSUME NEW s \in Scripts, Wait(s)
      PROVE  TypeOK'
  BY <1>0, <1>9, ScriptUIAssumption
     DEF TypeOK, Wait, Goto, GotoUi, CloseRunning, Showing, runVars, uiVars, uiData,
         callVars, memVars
<1>10. ASSUME NEW s \in Scripts, ShowReturns(s)
      PROVE  TypeOK'
  BY <1>0, <1>a, <1>10 DEF TypeOK, ShowReturns, Goto, runVars, uiVars, uiData, memVars
<1>11. ASSUME NEW t \in UiThreads, Register(t)
      PROVE  TypeOK'
  BY <1>0, <1>11, ScriptUIAssumption
     DEF TypeOK, Register, Goto, GotoUi, CloseRunning, Showing, runVars, uiVars,
         uiData, callVars, memVars
<1>12. ASSUME NEW t \in UiThreads, CreateUiWindow(t)
      PROVE  TypeOK'
  BY <1>0, <1>12, ScriptUIAssumption
     DEF TypeOK, CreateUiWindow, Goto, GotoUi, CloseRunning, Showing, runVars, uiVars,
         uiData, callVars, memVars
<1>13. ASSUME NEW t \in UiThreads, OpenRunning(t)
      PROVE  TypeOK'
  BY <1>0, <1>13, ScriptUIAssumption
     DEF TypeOK, OpenRunning, Goto, GotoUi, CloseRunning, Showing, runVars, uiVars,
         uiData, callVars, memVars
<1>14. ASSUME NEW t \in UiThreads, FirstMessage(t)
      PROVE  TypeOK'
  BY <1>0, <1>14, ScriptUIAssumption
     DEF TypeOK, FirstMessage, Goto, GotoUi, CloseRunning, Showing, runVars, uiVars,
         uiData, callVars, memVars
<1>15. ASSUME NEW t \in UiThreads, SetRunning(t)
      PROVE  TypeOK'
  BY <1>0, <1>15, ScriptUIAssumption
     DEF TypeOK, SetRunning, Goto, GotoUi, CloseRunning, Showing, runVars, uiVars,
         uiData, callVars, memVars
<1>16. ASSUME NEW t \in UiThreads, CheckRunning(t)
      PROVE  TypeOK'
  BY <1>0, <1>16, ScriptUIAssumption
     DEF TypeOK, CheckRunning, Goto, GotoUi, CloseRunning, Showing, runVars, uiVars,
         uiData, callVars, memVars
<1>17. ASSUME NEW t \in UiThreads, OtherMessage(t)
      PROVE  TypeOK'
  BY <1>0, <1>17, ScriptUIAssumption
     DEF TypeOK, OtherMessage, Goto, GotoUi, CloseRunning, Showing, runVars, uiVars,
         uiData, callVars, memVars
<1>18. ASSUME NEW t \in UiThreads, CloseWindow(t)
      PROVE  TypeOK'
  BY <1>0, <1>18, ScriptUIAssumption
     DEF TypeOK, CloseWindow, Goto, GotoUi, CloseRunning, Showing, runVars, uiVars,
         uiData, callVars, memVars
<1>19. ASSUME NEW t \in UiThreads, End(t)
      PROVE  TypeOK'
  BY <1>0, <1>19, ScriptUIAssumption
     DEF TypeOK, End, Goto, GotoUi, CloseRunning, Showing, runVars, uiVars, uiData,
         callVars, memVars
<1>20. ASSUME NEW t \in UiThreads, OpenURI(t)
      PROVE  TypeOK'
  <2>1. /\ answer' \in {"none", "reset", "set"}
        /\ loading' \in [UiThreads -> Shows \union {NULL}]
        /\ blame' \in Shows \union {NULL}
    BY <1>0, <1>20 DEF TypeOK, OpenURI
  <2>2. pc' \in [Scripts -> {"idle", "init", "shutdown"} \union Showing]
    BY <1>0, <1>20 DEF TypeOK, OpenURI, Showing
  <2>3. call' \in [Scripts -> Calls]
    <3>1. {"answered"} \union (IF page[t] = localVars[t] THEN {} ELSE {"other"}) \in Marks
      BY DEF Marks
    <3>2. call \in [Scripts -> Calls]
      BY <1>0 DEF TypeOK
    <3>3. \/ UNCHANGED call
          \/ call' = Marked(localVars[t], {"arm", "wait"}, {"answered"}
                              \union IF page[t] = localVars[t] THEN {} ELSE {"other"})
      BY <1>20 DEF OpenURI
    <3> QED
      BY <3>1, <3>2, <3>3, MarkedCalls
  <2> QED
    BY <1>0, <1>20, <2>1, <2>2, <2>3 DEF TypeOK, OpenURI, GotoUi, runVars
<1>21. ASSUME NEW t \in UiThreads, NEW s \in Scripts, Serve(t, s)
       PROVE  TypeOK'
  <2>1. call[s].show \in Shows \union {NULL}
    BY <1>0, CallFields DEF TypeOK
  <2>2. call[s].show \in Shows
    BY <1>21, <2>1, Numbers DEF Serve, UiInv, ShowPart, ShowsApart, Showing, NULL
  <2>3. /\ localVars' \in [UiThreads -> Shows \union {NULL}]
        /\ page' \in [UiThreads -> Shows \union {NULL}]
        /\ loading' \in [UiThreads -> Shows \union {NULL}]
    BY <1>0, <1>21, <2>2 DEF TypeOK, Serve
  <2>4. /\ pc' \in [Scripts -> {"idle", "init", "shutdown"} \union Showing]
        /\ call' \in [Scripts -> Calls]
    <3>1. {"sent"} \in Marks /\ {"sent", "shown"} \in Marks
      BY DEF Marks
    <3> QED
      BY <1>b, <1>21, <3>1 DEF Serve
  <2> QED
    BY <1>0, <1>21, <2>3, <2>4 DEF TypeOK, Serve, runVars, memVars
<1>22. ASSUME NEW k \in Shows, Collect(k)
       PROVE  TypeOK'
  BY <1>0, <1>22 DEF TypeOK, Collect, runVars, uiVars, uiData, callVars, memVars
<1>23. ASSUME NEW t \in UiThreads, Loaded(t)
       PROVE  TypeOK'
  <2>1. /\ page' \in [UiThreads -> Shows \union {NULL}]
        /\ loading' \in [UiThreads -> Shows \union {NULL}]
        /\ ui' \in [UiThreads -> {"none", "register", "window", "open", "first", "set",
                                  "check", "get", "end", "dead"}]
    BY <1>0, <1>23 DEF TypeOK, Loaded, GotoUi
  <2>2. call' \in [Scripts -> Calls]
    <3>1. {"shown"} \in Marks
      BY DEF Marks
    <3> QED
      BY <1>0, <1>23, <3>1, MarkedCalls DEF TypeOK, Loaded
  <2> QED
    BY <1>0, <1>23, <2>1, <2>2 DEF TypeOK, Loaded, runVars, memVars
<1>24. CASE UNCHANGED vars
  BY <1>0, <1>24 DEF TypeOK, vars, runVars, uiVars, uiData, callVars, memVars
<1> QED
  BY <1>1, <1>2, <1>3, <1>4, <1>5, <1>6, <1>7, <1>8, <1>9, <1>10, <1>11, <1>12, <1>13,
     <1>14, <1>15, <1>16, <1>17, <1>18, <1>19, <1>20, <1>21, <1>22, <1>23, <1>24
     DEF Next, ScriptStep, UiStep
-----------------------------------------------------------------------------
(* What each step does to the UI threads.                                  *)
LEMMA UiPartStep ==
  ASSUME UiInv, TypeOK', [Next]_vars
  PROVE  UiPart'
<1> USE DEF Serving
<1>0. OneServes /\ HasEvent /\ RunningHeld /\ NoPageYet
  BY DEF UiInv, UiPart
<1>a. /\ ui \in [UiThreads -> {"none", "register", "window", "open", "first", "set",
                               "check", "get", "end", "dead"}]
      /\ holders \subseteq Scripts \union UiThreads
      /\ page \in [UiThreads -> Shows \union {NULL}]
      /\ loading \in [UiThreads -> Shows \union {NULL}]
      /\ running \in {"set", "reset"}
  BY DEF UiInv, TypeOK
<1>b. ASSUME UNCHANGED <<runVars, ui, page, loading>> PROVE UiPart'
  BY <1>0, <1>b DEF UiPart, OneServes, HasEvent, RunningHeld, NoPageYet, runVars
<1>c. ASSUME UNCHANGED <<class, ui, page, loading>>, holders \intersect UiThreads \subseteq holders',
             running' = "set" => running = "set"
      PROVE  UiPart'
  BY <1>0, <1>c DEF UiPart, OneServes, HasEvent, RunningHeld, NoPageYet
<1>d. ASSUME NEW t \in UiThreads, NEW l, ui' = [ui EXCEPT ![t] = l],
             UNCHANGED <<class, holders, running>>,
             ui[t] \in {"first", "set", "check", "get"},
             l \in {"set", "check", "get", "end"},
             ui[t] \in {"check", "get"} => l \in {"check", "get", "end"},
             \A u \in UiThreads \ {t} :
               page'[u] \in {page[u], NULL} /\ loading'[u] \in {loading[u], NULL}
      PROVE  UiPart'
  <2>1. /\ \A u \in UiThreads : u # t => ui'[u] = ui[u]
        /\ ui'[t] = l
    BY <1>a, <1>d
  <2> QED
    BY <1>0, <1>d, <2>1 DEF UiPart, OneServes, HasEvent, RunningHeld, NoPageYet
<1>1. ASSUME NEW s \in Scripts, InitUI(s)
      PROVE  UiPart'
  <2>1. PICK t \in UiThreads : ui[t] = "none" /\ ui' = [ui EXCEPT ![t] = "register"]
    BY <1>1 DEF InitUI, GotoUi
  <2>2. /\ UNCHANGED <<class, running, page, loading>> /\ holders \subseteq holders'
    BY <1>1 DEF InitUI, uiData
  <2>3. ui'[t] = "register" /\ \A u \in UiThreads : u # t => ui'[u] = ui[u]
    BY <1>a, <2>1
  <2> QED
    BY <1>0, <2>1, <2>2, <2>3 DEF UiPart, OneServes, HasEvent, RunningHeld, NoPageYet
<1>2. ASSUME NEW s \in Scripts, InitReturns(s)
      PROVE  UiPart'
  <2>1. UNCHANGED <<class, ui, page, loading>> /\ CloseRunning(s)
    BY <1>2 DEF InitReturns, uiVars, uiData
  <2>2. holders \intersect UiThreads \subseteq holders'
    BY <2>1, Numbers DEF CloseRunning
  <2> QED
    BY <1>c, <2>1, <2>2 DEF CloseRunning
<1>3. ASSUME NEW s \in Scripts, ShutdownUI(s)
      PROVE  UiPart'
  BY <1>c, <1>3 DEF ShutdownUI, uiVars, uiData
<1>4. ASSUME NEW s \in Scripts, ShutdownReturns(s)
      PROVE  UiPart'
  <2>1. UNCHANGED <<class, ui, page, loading>> /\ CloseRunning(s)
    BY <1>4 DEF ShutdownReturns, uiVars, uiData
  <2>2. holders \intersect UiThreads \subseteq holders'
    BY <2>1, Numbers DEF CloseRunning
  <2> QED
    BY <1>c, <2>1, <2>2 DEF CloseRunning
<1>5. ASSUME NEW s \in Scripts, Show(s)
      PROVE  UiPart'
  BY <1>b, <1>5 DEF Show, uiVars, uiData
<1>6. ASSUME NEW s \in Scripts, SendFails(s)
      PROVE  UiPart'
  BY <1>b, <1>6 DEF SendFails, uiVars, uiData
<1>7. ASSUME NEW s \in Scripts, CreateWait(s)
      PROVE  UiPart'
  BY <1>b, <1>7 DEF CreateWait, uiVars, uiData
<1>8. ASSUME NEW s \in Scripts, ResetWait(s)
      PROVE  UiPart'
  BY <1>b, <1>8 DEF ResetWait, uiVars, uiData
<1>9. ASSUME NEW s \in Scripts, Wait(s)
      PROVE  UiPart'
  BY <1>b, <1>9 DEF Wait, uiVars, uiData
<1>10. ASSUME NEW s \in Scripts, ShowReturns(s)
      PROVE  UiPart'
  BY <1>b, <1>10 DEF ShowReturns, uiVars, uiData
<1>11. ASSUME NEW t \in UiThreads, Register(t)
      PROVE  UiPart'
  <2>1. /\ ui[t] = "register" /\ UNCHANGED <<holders, running, page, loading>> /\ class' = "registered"
        /\ \A u \in UiThreads : u # t => ui'[u] = ui[u]
        /\ ui'[t] = IF class = "registered" THEN "dead" ELSE "window"
    BY <1>a, <1>11 DEF Register, GotoUi, uiData
  <2> QED
    BY <1>0, <2>1 DEF UiPart, OneServes, HasEvent, RunningHeld, NoPageYet
<1>12. ASSUME NEW t \in UiThreads, CreateUiWindow(t)
      PROVE  UiPart'
  <2>1. /\ ui[t] = "window" /\ UNCHANGED <<class, holders, running, page, loading>>
        /\ \A u \in UiThreads : u # t => ui'[u] = ui[u]
        /\ ui'[t] = "open"
    BY <1>a, <1>12 DEF CreateUiWindow, GotoUi, runVars
  <2> QED
    BY <1>0, <2>1 DEF UiPart, OneServes, HasEvent, RunningHeld, NoPageYet
<1>13. ASSUME NEW t \in UiThreads, OpenRunning(t)
      PROVE  UiPart'
  <2>1. /\ ui[t] = "open" /\ UNCHANGED <<class, running, page, loading>>
        /\ \A u \in UiThreads : u # t => ui'[u] = ui[u]
        /\ ui'[t] \in {"first", "end"} /\ holders \subseteq holders'
        /\ ui'[t] = "first" => t \in holders'
    BY <1>a, <1>13 DEF OpenRunning, GotoUi, uiData
  <2> QED
    BY <1>0, <2>1 DEF UiPart, OneServes, HasEvent, RunningHeld, NoPageYet
<1>14. ASSUME NEW t \in UiThreads, FirstMessage(t)
      PROVE  UiPart'
  BY <1>d, <1>14 DEF FirstMessage, GotoUi, runVars, uiData
<1>15. ASSUME NEW t \in UiThreads, SetRunning(t)
      PROVE  UiPart'
  <2>1. /\ ui[t] = "set" /\ UNCHANGED <<class, holders, page, loading>>
        /\ \A u \in UiThreads : u # t => ui'[u] = ui[u]
        /\ ui'[t] = "check"
    BY <1>a, <1>15 DEF SetRunning, GotoUi, uiData
  <2> QED
    BY <1>0, <2>1 DEF UiPart, OneServes, HasEvent, RunningHeld, NoPageYet
<1>16. ASSUME NEW t \in UiThreads, CheckRunning(t)
      PROVE  UiPart'
  BY <1>d, <1>16 DEF CheckRunning, GotoUi, runVars, uiData
<1>17. ASSUME NEW t \in UiThreads, OtherMessage(t)
      PROVE  UiPart'
  BY <1>d, <1>17 DEF OtherMessage, GotoUi, runVars, uiData
<1>18. ASSUME NEW t \in UiThreads, CloseWindow(t)
      PROVE  UiPart'
  <2>1. \A u \in UiThreads \ {t} :
          page'[u] \in {page[u], NULL} /\ loading'[u] \in {loading[u], NULL}
    BY <1>a, <1>18 DEF CloseWindow
  <2> QED
    BY <1>d, <1>18, <2>1 DEF CloseWindow, GotoUi, runVars
<1>19. ASSUME NEW t \in UiThreads, End(t)
      PROVE  UiPart'
  <2>1. /\ ui[t] = "end" /\ ui'[t] = "dead"
        /\ \A u \in UiThreads : u # t => ui'[u] = ui[u]
        /\ \A u \in UiThreads : u # t => page'[u] = page[u] /\ loading'[u] = loading[u]
        /\ page'[t] = NULL /\ loading'[t] = NULL
        /\ IF t \in holders THEN running' = "reset" ELSE UNCHANGED <<holders, running>>
        /\ holders' = holders \ {t}
    BY <1>a, <1>19 DEF End, GotoUi
  <2>2. \A u \in UiThreads : Serving(u) => u = t
    BY <1>0, <2>1 DEF OneServes
  <2>3. running' = "reset"
    BY <1>0, <1>a, <2>1, <2>2 DEF RunningHeld
  <2> QED
    BY <1>0, <2>1, <2>2, <2>3 DEF UiPart, OneServes, HasEvent, RunningHeld, NoPageYet
<1>20. ASSUME NEW t \in UiThreads, OpenURI(t)
      PROVE  UiPart'
  <2>1. \A u \in UiThreads \ {t} :
          page'[u] \in {page[u], NULL} /\ loading'[u] \in {loading[u], NULL}
    BY <1>a, <1>20 DEF OpenURI
  <2> QED
    BY <1>d, <1>20, <2>1 DEF OpenURI, GotoUi, runVars
<1>21. ASSUME NEW t \in UiThreads, NEW s \in Scripts, Serve(t, s)
       PROVE  UiPart'
  <2>1. /\ ui[t] \in {"first", "get"} /\ UNCHANGED <<class, holders, running, ui>>
        /\ \A u \in UiThreads : u # t => page'[u] = page[u] /\ loading'[u] = loading[u]
    BY <1>a, <1>21 DEF Serve, runVars
  <2> QED
    BY <1>0, <2>1 DEF UiPart, OneServes, HasEvent, RunningHeld, NoPageYet
<1>22. ASSUME NEW k \in Shows, Collect(k)
       PROVE  UiPart'
  BY <1>b, <1>22 DEF Collect, uiVars, uiData
<1>23. ASSUME NEW t \in UiThreads, Loaded(t)
       PROVE  UiPart'
  <2>1. \A u \in UiThreads \ {t} :
          page'[u] \in {page[u], NULL} /\ loading'[u] \in {loading[u], NULL}
    BY <1>a, <1>23 DEF Loaded
  <2> QED
    BY <1>d, <1>23, <2>1 DEF Loaded, GotoUi, runVars
<1>24. CASE UNCHANGED vars
  BY <1>b, <1>24 DEF vars, uiVars, uiData
<1> QED
  BY <1>1, <1>2, <1>3, <1>4, <1>5, <1>6, <1>7, <1>8, <1>9, <1>10, <1>11, <1>12, <1>13,
     <1>14, <1>15, <1>16, <1>17, <1>18, <1>19, <1>20, <1>21, <1>22, <1>23, <1>24
     DEF Next, ScriptStep, UiStep
-----------------------------------------------------------------------------
(* What each step does to the shows.                                       *)
LEMMA ShowPartStep ==
  ASSUME UiInv, TypeOK', [Next]_vars
  PROVE  ShowPart'
<1> USE DEF Showing
<1>0. ShowsApart /\ AloneIsAlone /\ OwnStore /\ OwnPage /\ Answered
  BY DEF UiInv, ShowPart
<1>a. /\ pc \in [Scripts -> {"idle", "init", "shutdown"} \union Showing]
      /\ call \in [Scripts -> Calls] /\ began \in Nat
      /\ page \in [UiThreads -> Shows \union {NULL}]
      /\ loading \in [UiThreads -> Shows \union {NULL}]
      /\ localVars \in [UiThreads -> Shows \union {NULL}]
      /\ heap \in [Shows -> {"none", "live", "freed"}]
      /\ \A s \in Scripts : call[s].show \in Nat
      /\ NULL = 0
  <2>1. TypeOK /\ NULL = 0
    BY DEF UiInv, NULL
  <2>2. \A s \in Scripts : call[s].show \in Nat
    BY <2>1, CallFields, Numbers DEF TypeOK
  <2>4. began \in Nat
    BY <2>1, ScriptUIAssumption DEF TypeOK
  <2> QED
    BY <2>1, <2>2, <2>4 DEF TypeOK
<1>b. CASE UNCHANGED vars
  BY <1>0, <1>b DEF ShowPart, ShowsApart, AloneIsAlone, OwnStore, OwnPage, Answered,
                    vars, runVars, uiVars, uiData, callVars, memVars
<1>r. blame = NULL \/ UNCHANGED vars
  BY DEF Next, Running
(* Steps of the UI threads, which at most take a page away.                *)
<1>c. ASSUME UNCHANGED <<call, began, answer, heap, blame>>,
             \A s \in Scripts : pc[s] \in Showing \/ pc'[s] \in Showing => pc'[s] = pc[s],
             \A t \in UiThreads :
               \/ page'[t] = NULL /\ loading'[t] = NULL
               \/ /\ page'[t] = page[t] /\ localVars'[t] = localVars[t]
                  /\ loading'[t] \in {loading[t], NULL}
      PROVE  ShowPart'
  <2>1. ShowsApart'
    BY <1>0, <1>c DEF ShowsApart
  <2>2. AloneIsAlone'
    BY <1>0, <1>c DEF AloneIsAlone
  <2>3. OwnStore'
    BY <1>0, <1>c DEF OwnStore
  <2>4. OwnPage'
    BY <1>0, <1>c DEF OwnPage
  <2>5. Answered'
    BY <1>0, <1>c DEF Answered
  <2> QED
    BY <2>1, <2>2, <2>3, <2>4, <2>5 DEF ShowPart
(* Steps of a call that go on.                                             *)
<1>d. ASSUME NEW s \in Scripts, pc[s] \in Showing \ {"send"},
             pc' = [pc EXCEPT ![s] = pc'[s]], pc'[s] \in Showing \ {"send"},
             UNCHANGED <<call, began, heap, blame, page, loading, localVars>>,
             answer # "none" => answer' # "none",
             Answered'
      PROVE  ShowPart'
  <2>0. \A t \in Scripts : t # s => pc'[t] = pc[t]
    BY <1>a, <1>d
  <2>1. ShowsApart'
    BY <1>0, <1>d, <2>0 DEF ShowsApart
  <2>2. AloneIsAlone'
    BY <1>0, <1>d, <2>0 DEF AloneIsAlone
  <2>3. OwnStore'
    BY <1>0, <1>d, <2>0 DEF OwnStore
  <2>4. OwnPage'
    BY <1>0, <1>d, <2>0 DEF OwnPage
  <2> QED
    BY <1>d, <2>1, <2>2, <2>3, <2>4 DEF ShowPart
(* A call that ends.                                                       *)
<1>e. ASSUME NEW s \in Scripts, pc[s] \in Showing, pc' = [pc EXCEPT ![s] = "idle"],
             call' = [call EXCEPT ![s] = NoCall],
             UNCHANGED <<began, heap, blame, answer>>,
             pc[s] = "send" \/ UNCHANGED <<page, loading, localVars>>
      PROVE  ShowPart'
  <2>0. /\ \A t \in Scripts : t # s => pc'[t] = pc[t] /\ call'[t] = call[t]
        /\ pc'[s] = "idle" /\ pc'[s] \notin Showing
    BY <1>a, <1>e
  <2>1. ShowsApart'
    BY <1>0, <1>e, <2>0 DEF ShowsApart
  <2>2. AloneIsAlone'
    BY <1>0, <1>e, <2>0 DEF AloneIsAlone
  <2>3. OwnStore'
    BY <1>0, <1>e, <2>0 DEF OwnStore, AloneIsAlone
  <2>4. OwnPage'
    BY <1>0, <1>e, <2>0 DEF OwnPage, AloneIsAlone
  <2>5. Answered'
    BY <1>0, <1>e, <2>0 DEF Answered
  <2> QED
    BY <2>1, <2>2, <2>3, <2>4, <2>5 DEF ShowPart
(* A call whose message was sent and that goes on to wait.                 *)
<1>f. ASSUME NEW s \in Scripts, NEW new \in Marks, pc[s] = "send", "async" \notin call[s].kind,
             pc' = [pc EXCEPT ![s] = "create"],
             call' = [call EXCEPT ![s].to = NULL, ![s].marks = @ \union new],
             UNCHANGED <<began, heap, blame, answer>>, blame = NULL,
             {"alone", "answered", "other"} \intersect new = {},
             "sent" \in new => \A t \in UiThreads :
               page'[t] # NULL \/ loading'[t] # NULL => localVars'[t] = call[s].show,
             "sent" \in new /\ "shown" \in new => \A t \in UiThreads :
               page'[t] \in {NULL, call[s].show} /\ loading'[t] = NULL
      PROVE  ShowPart'
  <2>0. /\ \A t \in Scripts : t # s => pc'[t] = pc[t] /\ call'[t] = call[t]
        /\ pc'[s] = "create" /\ call[s] \in Calls
        /\ call'[s].show = call[s].show /\ call'[s].kind = call[s].kind
        /\ call'[s].marks = call[s].marks \union new
    BY <1>a, <1>f DEF Calls
  <2>u. /\ pc[s] = "send" /\ "async" \notin call[s].kind /\ blame = NULL
        /\ UNCHANGED <<began, heap, blame, answer>>
    BY <1>f
  <2>o. \A u \in Scripts : pc'[u] \in Showing /\ "alone" \in call'[u].marks /\ u # s => FALSE
    BY <1>0, <2>0, <2>u DEF AloneIsAlone
  <2>1. ShowsApart'
    BY <1>0, <2>0, <2>u DEF ShowsApart
  <2>2. AloneIsAlone'
    <3>1. "alone" \in call'[s].marks => \A t \in Scripts : t # s => pc[t] \notin Showing
      BY <1>0, <1>f, <2>0, <2>u DEF AloneIsAlone
    <3> QED
      BY <1>0, <2>0, <2>o, <3>1 DEF AloneIsAlone
  <2>s. /\ "sent" \in call'[s].marks => "sent" \in new
        /\ "shown" \in call'[s].marks => "shown" \in new
    BY <1>0, <2>0, <2>u DEF Answered
  <2>3. OwnStore'
    BY <1>f, <2>0, <2>o, <2>s DEF OwnStore
  <2>4. OwnPage'
    BY <1>f, <2>0, <2>o, <2>s DEF OwnPage
  <2>5. Answered'
    <3>1. "answered" \notin call'[s].marks /\ "other" \notin call'[s].marks
      BY <1>0, <1>f, <2>0, <2>u DEF Answered
    <3> QED
      BY <1>0, <2>0, <2>u, <3>1 DEF Answered
  <2> QED
    BY <2>1, <2>2, <2>3, <2>4, <2>5 DEF ShowPart
<1>1. ASSUME NEW s \in Scripts, InitUI(s)
      PROVE  ShowPart'
  BY <1>a, <1>c, <1>1 DEF InitUI, Goto, uiVars, uiData, memVars
<1>2. ASSUME NEW s \in Scripts, InitReturns(s)
      PROVE  ShowPart'
  BY <1>a, <1>c, <1>2 DEF InitReturns, Goto, uiVars, uiData, memVars
<1>3. ASSUME NEW s \in Scripts, ShutdownUI(s)
      PROVE  ShowPart'
  BY <1>a, <1>c, <1>3 DEF ShutdownUI, Goto, uiVars, uiData, memVars
<1>4. ASSUME NEW s \in Scripts, ShutdownReturns(s)
      PROVE  ShowPart'
  BY <1>a, <1>c, <1>4 DEF ShutdownReturns, Goto, uiVars, uiData, memVars
<1>5. ASSUME NEW s \in Scripts, Show(s)
      PROVE  ShowPart'
  <2>1. PICK kind \in Kinds :
          /\ call' = [t \in Scripts |->
               IF t = s
               THEN [show |-> began + 1, kind |-> kind, to |-> topWnd,
                     marks |-> IF Others(s) = {} THEN {"alone"} ELSE {}]
               ELSE [call[t] EXCEPT !.marks = @ \ {"alone"}]]
          /\ heap' = [heap EXCEPT ![began + 1] =
                        IF kind = {"uri", "async"} THEN "none" ELSE "live"]
    BY <1>5 DEF Show
  <2>2. /\ pc[s] = "idle" /\ pc'[s] = "send" /\ began' = began + 1
        /\ \A t \in Scripts : t # s => pc'[t] = pc[t]
        /\ UNCHANGED <<page, loading, localVars, answer, blame>>
    BY <1>a, <1>5 DEF Show, Goto, uiVars, uiData
  <2>3. /\ call'[s].show = began + 1 /\ call'[s].kind = kind
        /\ call'[s].marks = IF Others(s) = {} THEN {"alone"} ELSE {}
    BY <2>1
  <2>4. ASSUME NEW t \in Scripts, t # s
        PROVE  /\ call'[t].show = call[t].show /\ call'[t].kind = call[t].kind
               /\ call'[t].marks = call[t].marks \ {"alone"}
    <3>1. call[t] \in Calls
      BY <1>a
    <3>2. call'[t] = [call[t] EXCEPT !.marks = @ \ {"alone"}]
      BY <2>1, <2>4
    <3> QED
      BY <3>1, <3>2 DEF Calls
  <2>5. began + 1 \in Shows
    BY <1>a, <1>5, ScriptUIAssumption DEF Show, Shows, UiInv, TypeOK
  <2>6. /\ heap'[began + 1] = IF kind = {"uri", "async"} THEN "none" ELSE "live"
        /\ \A k \in 1..began : heap'[k] = heap[k]
    BY <1>a, <2>1, <2>5, ScriptUIAssumption DEF Shows
  <2>7. ShowsApart'
    <3>1. ASSUME NEW t \in Scripts, pc'[t] \in Showing, t # s
          PROVE  /\ call'[t].show \in 1..began
                 /\ heap'[call'[t].show] =
                      IF call'[t].kind = {"uri", "async"} THEN "none" ELSE "live"
                 /\ pc'[t] # "send" => "async" \notin call'[t].kind
      BY <1>0, <2>2, <2>4, <2>6, <3>1 DEF ShowsApart
    <3> QED
      BY <1>0, <1>a, <2>2, <2>3, <2>4, <2>6, <3>1 DEF ShowsApart
  <2>8. AloneIsAlone'
    BY <1>0, <2>2, <2>3, <2>4 DEF AloneIsAlone, Others
  <2>9. OwnStore'
    BY <1>0, <2>2, <2>3, <2>4 DEF OwnStore
  <2>10. OwnPage'
    BY <1>0, <2>2, <2>3, <2>4 DEF OwnPage
  <2>11. Answered'
    BY <1>0, <2>2, <2>3, <2>4 DEF Answered
  <2> QED
    BY <2>7, <2>8, <2>9, <2>10, <2>11 DEF ShowPart
<1>6. ASSUME NEW s \in Scripts, SendFails(s)
      PROVE  ShowPart'
  <2>1. pc[s] = "send" /\ UNCHANGED <<page, loading, localVars, began, heap, blame, answer>>
    BY <1>6 DEF SendFails, uiVars, uiData, memVars
  <2>2. CASE pc' = [pc EXCEPT ![s] = "idle"] /\ call' = [call EXCEPT ![s] = NoCall]
    BY <1>e, <2>1, <2>2
  <2>3. CASE /\ "async" \notin call[s].kind /\ pc' = [pc EXCEPT ![s] = "create"]
             /\ call' = [call EXCEPT ![s].to = NULL, ![s].marks = @ \union {}]
    <3>1. {} \in Marks
      BY DEF Marks
    <3> QED
      BY <1>b, <1>f, <1>r, <2>1, <2>3, <3>1
  <2> QED
    BY <1>6, <2>2, <2>3 DEF SendFails, Sent, Goto
<1>7. ASSUME NEW s \in Scripts, CreateWait(s)
      PROVE  ShowPart'
  <2>1. /\ pc[s] = "create" /\ pc'[s] = "reset" /\ pc' = [pc EXCEPT ![s] = "reset"]
        /\ UNCHANGED <<page, loading, localVars, call, began, heap, blame>>
        /\ answer' = IF answer = "none" THEN "reset" ELSE answer
        /\ \A t \in Scripts : t # s => pc'[t] = pc[t]
    BY <1>a, <1>7 DEF CreateWait, Goto, uiVars, uiData, memVars
  <2>2. Answered'
    BY <1>0, <2>1 DEF Answered
  <2> QED
    BY <1>d, <2>1, <2>2
<1>8. ASSUME NEW s \in Scripts, ResetWait(s)
      PROVE  ShowPart'
  <2>1. /\ pc[s] = "reset" /\ pc'[s] = "arm" /\ pc' = [pc EXCEPT ![s] = "arm"]
        /\ UNCHANGED <<page, loading, localVars, call, began, heap, blame>>
        /\ answer' = "reset"
        /\ \A t \in Scripts : t # s => pc'[t] = pc[t]
    BY <1>a, <1>8 DEF ResetWait, Goto, uiVars, uiData, memVars
  <2>2. Answered'
    BY <1>0, <2>1 DEF Answered, AloneIsAlone
  <2> QED
    BY <1>d, <2>1, <2>2
<1>9. ASSUME NEW s \in Scripts, Wait(s)
      PROVE  ShowPart'
  <2>1. /\ pc[s] = "arm" /\ pc'[s] = IF answer = "set" THEN "released" ELSE "wait"
        /\ pc' = [pc EXCEPT ![s] = pc'[s]]
        /\ UNCHANGED <<page, loading, localVars, call, began, heap, blame, answer>>
        /\ \A t \in Scripts : t # s => pc'[t] = pc[t]
    BY <1>a, <1>9 DEF Wait, Goto, uiVars, uiData, memVars
  <2>2. Answered'
    BY <1>0, <2>1 DEF Answered
  <2> QED
    BY <1>d, <2>1, <2>2
<1>10. ASSUME NEW s \in Scripts, ShowReturns(s)
      PROVE  ShowPart'
  BY <1>e, <1>10 DEF ShowReturns, Goto, uiVars, uiData, memVars
<1>11. ASSUME NEW t \in UiThreads, Register(t)
      PROVE  ShowPart'
  BY <1>a, <1>c, <1>11 DEF Register, uiData, callVars, memVars
<1>12. ASSUME NEW t \in UiThreads, CreateUiWindow(t)
      PROVE  ShowPart'
  BY <1>a, <1>c, <1>12 DEF CreateUiWindow, uiData, callVars, memVars
<1>13. ASSUME NEW t \in UiThreads, OpenRunning(t)
      PROVE  ShowPart'
  BY <1>a, <1>c, <1>13 DEF OpenRunning, uiData, callVars, memVars
<1>14. ASSUME NEW t \in UiThreads, FirstMessage(t)
      PROVE  ShowPart'
  BY <1>a, <1>c, <1>14 DEF FirstMessage, uiData, callVars, memVars
<1>15. ASSUME NEW t \in UiThreads, SetRunning(t)
      PROVE  ShowPart'
  BY <1>a, <1>c, <1>15 DEF SetRunning, uiData, callVars, memVars
<1>16. ASSUME NEW t \in UiThreads, CheckRunning(t)
      PROVE  ShowPart'
  BY <1>a, <1>c, <1>16 DEF CheckRunning, uiData, callVars, memVars
<1>17. ASSUME NEW t \in UiThreads, OtherMessage(t)
      PROVE  ShowPart'
  BY <1>a, <1>c, <1>17 DEF OtherMessage, uiData, callVars, memVars
<1>18. ASSUME NEW t \in UiThreads, CloseWindow(t)
      PROVE  ShowPart'
  <2>1. \A u \in UiThreads : IF u = t THEN page'[u] = NULL /\ loading'[u] = NULL
          ELSE page'[u] = page[u] /\ loading'[u] = loading[u] /\ localVars'[u] = localVars[u]
    BY <1>a, <1>18 DEF CloseWindow
  <2> QED
    BY <1>c, <1>18, <2>1 DEF CloseWindow, callVars, memVars
<1>19. ASSUME NEW t \in UiThreads, End(t)
      PROVE  ShowPart'
  <2>1. \A u \in UiThreads : IF u = t THEN page'[u] = NULL /\ loading'[u] = NULL
          ELSE page'[u] = page[u] /\ loading'[u] = loading[u] /\ localVars'[u] = localVars[u]
    BY <1>a, <1>19 DEF End
  <2> QED
    BY <1>c, <1>19, <2>1 DEF End, callVars, memVars
<1>20. ASSUME NEW t \in UiThreads, OpenURI(t)
      PROVE  ShowPart'
  <2> DEFINE new == {"answered"} \union IF page[t] = localVars[t] THEN {} ELSE {"other"}
  <2>0. page[t] # NULL /\ UNCHANGED <<page, localVars, began, heap>>
    BY <1>20 DEF OpenURI
  <2>1. CASE /\ loading' \in {loading, [loading EXCEPT ![t] = NULL]}
             /\ UNCHANGED <<answer, pc, call, blame>>
    <3>1. \A u \in UiThreads : loading'[u] \in {loading[u], NULL}
      BY <1>a, <2>1
    <3> QED
      BY <1>c, <2>0, <2>1, <3>1
  <2>2. CASE /\ localVars[t] = NULL \/ heap[localVars[t]] = "freed"
             /\ blame' = page[t] /\ UNCHANGED <<answer, loading, pc, call>>
    <3>1. ASSUME NEW s \in Scripts, pc[s] \in Showing, {"alone", "sent"} \subseteq call[s].marks
          PROVE  FALSE
      <4>1. localVars[t] = call[s].show
        BY <1>0, <2>0, <3>1 DEF OwnStore
      <4>2. heap[call[s].show] # "freed" /\ call[s].show # NULL
        BY <1>0, <1>a, <3>1 DEF ShowsApart
      <4> QED
        BY <2>2, <4>1, <4>2
    <3>2. Answered'
      BY <1>0, <2>2, <3>1 DEF Answered
    <3>3. ShowsApart' /\ AloneIsAlone' /\ OwnStore' /\ OwnPage'
      BY <1>0, <2>0, <2>2 DEF ShowsApart, AloneIsAlone, OwnStore, OwnPage
    <3> QED
      BY <3>2, <3>3 DEF ShowPart
  <2>3. CASE /\ answer # "none" /\ answer' = "set"
             /\ pc' = [s \in Scripts |-> IF pc[s] = "wait" THEN "released" ELSE pc[s]]
             /\ call' = Marked(localVars[t], {"arm", "wait"}, new)
             /\ UNCHANGED <<loading, blame>>
    <3>0. new \in Marks
      BY DEF Marks
    <3>1. \A s \in Scripts :
            /\ call'[s].show = call[s].show /\ call'[s].kind = call[s].kind
            /\ call'[s].marks = IF call[s].show = localVars[t] /\ pc[s] \in {"arm", "wait"}
                                THEN call[s].marks \union new ELSE call[s].marks
      <4> DEFINE m == Marked(localVars[t], {"arm", "wait"}, new)
      <4> HIDE DEF new
      <4>1. call \in [Scripts -> Calls]
        BY <1>a
      <4>2. \A s \in Scripts :
              /\ m[s].show = call[s].show /\ m[s].kind = call[s].kind
              /\ m[s].marks = IF call[s].show = localVars[t] /\ pc[s] \in {"arm", "wait"}
                              THEN call[s].marks \union new ELSE call[s].marks
        BY <3>0, <4>1, MarkedCalls
      <4>3. call' = m
        BY <2>3
      <4> HIDE DEF m
      <4> QED
        BY <4>2, <4>3
    <3>a. \A s \in Scripts : \A m \in {"alone", "sent", "shown"} :
            m \in call'[s].marks <=> m \in call[s].marks
      BY <3>1
    <3>2. \A s \in Scripts : pc'[s] = IF pc[s] = "wait" THEN "released" ELSE pc[s]
      BY <2>3
    <3>3. ASSUME NEW s \in Scripts, pc[s] \in Showing, {"alone", "sent"} \subseteq call[s].marks
          PROVE  /\ call[s].show = localVars[t]
                 /\ "shown" \in call[s].marks => page[t] = localVars[t]
      BY <1>0, <2>0, <3>3 DEF OwnStore, OwnPage
    <3>4. ShowsApart'
      <4>1. \A s \in Scripts : call'[s].show = call[s].show /\ call'[s].kind = call[s].kind
        BY <3>1
      <4>2. UNCHANGED <<began, heap>>
        BY <2>0
      <4> QED
        BY <1>0, <3>2, <4>1, <4>2 DEF ShowsApart
    <3>5. AloneIsAlone'
      BY <1>0, <3>2, <3>a DEF AloneIsAlone
    <3>6. OwnStore'
      BY <1>0, <2>0, <2>3, <3>1, <3>2, <3>a DEF OwnStore
    <3>7. OwnPage'
      BY <1>0, <2>0, <2>3, <3>1, <3>2, <3>a DEF OwnPage
    <3>8. Answered'
      <4>1. ASSUME NEW s \in Scripts, pc'[s] \in Showing,
                   {"alone", "sent"} \subseteq call'[s].marks
            PROVE  /\ pc'[s] = "arm" => "answered" \in call'[s].marks
                   /\ pc'[s] # "wait"
                   /\ pc'[s] = "released" => "answered" \in call'[s].marks
                   /\ "shown" \in call'[s].marks => "other" \notin call'[s].marks
        <5>1. pc[s] \in Showing /\ {"alone", "sent"} \subseteq call[s].marks
          BY <3>2, <3>a, <4>1
        <5>2. pc[s] \in {"arm", "wait"} => call'[s].marks = call[s].marks \union new
          BY <3>1, <3>3, <5>1
        <5>3. pc[s] \in {"arm", "wait"} /\ "shown" \in call[s].marks => "other" \notin new
          BY <3>3, <5>1
        <5>4. pc[s] \notin {"arm", "wait"} => call'[s].marks = call[s].marks
          BY <3>1
        <5>5. "answered" \in new
          OBVIOUS
        <5>6. CASE pc[s] \in {"arm", "wait"}
          <6>1. "other" \in call[s].marks => "shown" \notin call[s].marks
            BY <1>0, <5>1 DEF Answered
          <6> HIDE DEF new
          <6> QED
            BY <3>2, <3>a, <5>2, <5>3, <5>5, <5>6, <6>1
        <5>7. CASE pc[s] \notin {"arm", "wait"}
          <6>1. pc'[s] = pc[s] /\ call'[s].marks = call[s].marks
            BY <3>2, <5>4, <5>7
          <6> QED
            BY <1>0, <5>1, <5>7, <6>1 DEF Answered
        <5> QED
          BY <5>6, <5>7
      <4>2. \A s \in Scripts : pc'[s] \in {"send", "create", "reset"} =>
              call'[s].marks = call[s].marks /\ pc'[s] = pc[s]
        BY <3>1, <3>2
      <4> QED
        BY <1>0, <2>3, <3>2, <3>a, <4>1, <4>2 DEF Answered
    <3> QED
      BY <3>4, <3>5, <3>6, <3>7, <3>8 DEF ShowPart
  <2> QED
    BY <1>20, <2>1, <2>2, <2>3 DEF OpenURI
<1>21. ASSUME NEW t \in UiThreads, NEW s \in Scripts, Serve(t, s)
       PROVE  ShowPart'
  <2>1. /\ pc[s] = "send" /\ ui[t] \in {"first", "get"}
        /\ UNCHANGED <<began, heap, blame, answer>>
        /\ localVars' = [localVars EXCEPT ![t] = IF heap[call[s].show] = "none" THEN NULL
                                                 ELSE call[s].show]
    BY <1>21 DEF Serve, memVars
  <2>2. PICK new \in {{"sent"}, {"sent", "shown"}}, failed \in BOOLEAN :
          /\ Sent(s, new, failed)
          /\ page' \in {page, [page EXCEPT ![t] = call[s].show]}
          /\ loading' \in {loading, [loading EXCEPT ![t] = NULL],
                           [loading EXCEPT ![t] = call[s].show]}
          /\ "shown" \in new => /\ page' = [page EXCEPT ![t] = call[s].show]
                               /\ loading' = [loading EXCEPT ![t] = NULL]
    BY <1>21 DEF Serve
  <2>3. CASE pc' = [pc EXCEPT ![s] = "idle"] /\ call' = [call EXCEPT ![s] = NoCall]
    BY <1>e, <2>1, <2>3
  <2>4. CASE /\ "async" \notin call[s].kind /\ pc' = [pc EXCEPT ![s] = "create"]
             /\ call' = [call EXCEPT ![s].to = NULL, ![s].marks = @ \union new]
    <3>1. new \in Marks /\ {"alone", "answered", "other"} \intersect new = {}
      BY DEF Marks
    <3>2. \A u \in UiThreads : u # t =>
             page'[u] = page[u] /\ loading'[u] = loading[u] /\ localVars'[u] = localVars[u]
      BY <1>a, <2>1, <2>2
    <3>3. \A u \in UiThreads : u # t => page[u] = NULL /\ loading[u] = NULL
      BY <2>1 DEF UiInv, UiPart, OneServes, NoPageYet, Serving
    <3>4. localVars'[t] = call[s].show
      BY <1>0, <1>a, <2>1, <2>4 DEF ShowsApart
    <3>5. "shown" \in new => page'[t] = call[s].show /\ loading'[t] = NULL
      BY <1>a, <2>2
    <3>6. \A u \in UiThreads : page'[u] # NULL \/ loading'[u] # NULL =>
            localVars'[u] = call[s].show
      BY <3>2, <3>3, <3>4
    <3>7. "shown" \in new => \A u \in UiThreads :
            page'[u] \in {NULL, call[s].show} /\ loading'[u] = NULL
      BY <3>2, <3>3, <3>5
    <3>8. blame = NULL \/ UNCHANGED vars
      BY <1>r
    <3>9. CASE blame = NULL
      <4> HIDE DEF ShowPart
      <4> QED
        BY <1>f, <2>1, <2>4, <3>1, <3>6, <3>7, <3>9
    <3> QED
      BY <1>b, <3>8, <3>9
  <2> QED
    BY <2>2, <2>3, <2>4 DEF Sent, Goto
<1>22. ASSUME NEW k \in Shows, Collect(k)
       PROVE  ShowPart'
  <2>1. /\ UNCHANGED <<page, loading, localVars, pc, call, began, answer, blame>>
        /\ \A s \in Scripts : call[s].show # k
        /\ heap' = [heap EXCEPT ![k] = "freed"]
    BY <1>22 DEF Collect, uiVars, uiData, callVars
  <2>2. \A s \in Scripts : call[s].show \in Shows => heap'[call[s].show] = heap[call[s].show]
    BY <1>a, <2>1
  <2>3. \A s \in Scripts : call[s].show \in 1..began => call[s].show \in Shows
    BY <1>a, CallFields DEF NULL
  <2>4. ShowsApart'
    BY <1>0, <2>1, <2>2, <2>3 DEF ShowsApart
  <2>5. AloneIsAlone' /\ OwnStore' /\ OwnPage'
    BY <1>0, <2>1 DEF AloneIsAlone, OwnStore, OwnPage
  <2>6. Answered'
    BY <1>0, <2>1 DEF Answered
  <2> QED
    BY <2>4, <2>5, <2>6 DEF ShowPart
<1>23. ASSUME NEW t \in UiThreads, Loaded(t)
       PROVE  ShowPart'
  <2>0. /\ loading[t] # NULL /\ UNCHANGED <<localVars, pc, began, heap, answer, blame>>
        /\ ui[t] \in {"first", "get"}
    BY <1>23 DEF Loaded, memVars
  <2>1. \A u \in UiThreads : IF u = t THEN loading'[u] = NULL /\ page'[u] \in {page[u], loading[u]}
                             ELSE loading'[u] = loading[u] /\ page'[u] = page[u]
    BY <1>a, <1>23 DEF Loaded
  <2>2. CASE UNCHANGED <<page, call>>
    BY <1>c, <2>0, <2>1, <2>2
  <2>3. CASE /\ page' = [page EXCEPT ![t] = loading[t]]
             /\ call' = Marked(loading[t], {"create", "reset"}, {"shown"})
    <3>1. \A s \in Scripts :
            /\ call'[s].show = call[s].show /\ call'[s].kind = call[s].kind
            /\ call'[s].marks = IF call[s].show = loading[t] /\ pc[s] \in {"create", "reset"}
                                THEN call[s].marks \union {"shown"} ELSE call[s].marks
      <4>1. {"shown"} \in Marks
        BY DEF Marks
      <4> QED
        <5> DEFINE m == Marked(loading[t], {"create", "reset"}, {"shown"})
        <5>1. call \in [Scripts -> Calls]
          BY <1>a
        <5>2. \A s \in Scripts :
                /\ m[s].show = call[s].show /\ m[s].kind = call[s].kind
                /\ m[s].marks = IF call[s].show = loading[t] /\ pc[s] \in {"create", "reset"}
                                THEN call[s].marks \union {"shown"} ELSE call[s].marks
          BY <4>1, <5>1, MarkedCalls
        <5>3. call' = m
          BY <2>3
        <5> HIDE DEF m
        <5> QED
          BY <5>2, <5>3
    <3>a. \A s \in Scripts : \A m \in {"alone", "sent", "answered", "other"} :
            m \in call'[s].marks <=> m \in call[s].marks
      BY <3>1
    <3>2. \A u \in UiThreads : u # t => page[u] = NULL /\ loading[u] = NULL
      BY <2>0 DEF UiInv, UiPart, OneServes, NoPageYet, Serving
    <3>3. ShowsApart'
      <4>1. \A s \in Scripts : call'[s].show = call[s].show /\ call'[s].kind = call[s].kind
        BY <3>1
      <4>2. UNCHANGED <<pc, began, heap>>
        BY <2>0
      <4> QED
        BY <1>0, <4>1, <4>2 DEF ShowsApart
    <3>4. AloneIsAlone'
      BY <1>0, <2>0, <3>a DEF AloneIsAlone
    <3>5. OwnStore'
      BY <1>0, <2>0, <2>1, <3>1, <3>a DEF OwnStore
    <3>6. ASSUME NEW s \in Scripts, pc[s] \in Showing, {"alone", "sent"} \subseteq call[s].marks,
                 "shown" \in call'[s].marks
          PROVE  /\ call[s].show = loading[t] /\ pc[s] \in {"create", "reset"}
                 /\ \A u \in UiThreads : page'[u] \in {NULL, call[s].show} /\ loading'[u] = NULL
      <4>1. "shown" \notin call[s].marks
        BY <1>0, <2>0, <3>6 DEF OwnPage
      <4>2. call[s].show = loading[t] /\ pc[s] \in {"create", "reset"}
        BY <3>1, <3>6, <4>1
      <4>3. page'[t] = loading[t]
        BY <1>a, <2>3
      <4> QED
        BY <2>1, <3>2, <4>2, <4>3
    <3>7. OwnPage'
      BY <2>0, <3>1, <3>6, <3>a DEF OwnPage
    <3>8. Answered'
      <4>1. \A s \in Scripts : pc[s] = "send" => call'[s].marks = call[s].marks
        BY <3>1
      <4>2. \A s \in Scripts : /\ pc[s] \in Showing
                              /\ {"alone", "sent", "shown"} \subseteq call'[s].marks
                              => "other" \notin call'[s].marks
        BY <1>0, <3>6, <3>a DEF Answered
      <4> QED
        BY <1>0, <2>0, <3>a, <4>1, <4>2 DEF Answered
    <3> QED
      BY <3>3, <3>4, <3>5, <3>7, <3>8 DEF ShowPart
  <2> QED
    BY <1>23, <2>2, <2>3 DEF Loaded
<1> QED
  BY <1>b, <1>1, <1>2, <1>3, <1>4, <1>5, <1>6, <1>7, <1>8, <1>9, <1>10, <1>11, <1>12,
     <1>13, <1>14, <1>15, <1>16, <1>17, <1>18, <1>19, <1>20, <1>21, <1>22, <1>23
     DEF Next, ScriptStep, UiStep
-----------------------------------------------------------------------------
LEMMA UiInvariant == Spec => []UiInv
<1>1. Init => UiInv
  BY InitInv
<1>2. UiInv /\ [Next]_vars => UiInv'
  <2> SUFFICES ASSUME UiInv, [Next]_vars PROVE UiInv'
    OBVIOUS
  <2>1. TypeOK'
    BY TypeOKStep
  <2>2. UiPart'
    BY <2>1, UiPartStep
  <2>3. ShowPart'
    BY <2>1, ShowPartStep
  <2> QED
    BY <2>1, <2>2, <2>3 DEF UiInv
<1> QED
  BY <1>1, <1>2, PTL DEF Spec

(* Windows, events, threads, calls and stores keep their types.            *)
THEOREM TypeCorrect == Spec => []TypeOK
<1>1. UiInv => TypeOK
  BY DEF UiInv
<1> QED
  BY <1>1, UiInvariant, PTL

(* The running event is set only while its UI thread serves, there is one  *)
(* such thread, and its class stays registered.                            *)
THEOREM RunningIsServedAlways == Spec => []RunningIsServed
<1>1. UiInv => RunningIsServed
  BY DEF UiInv, UiPart, OneServes, RunningHeld, RunningIsServed
<1> QED
  BY <1>1, UiInvariant, PTL

(* A show that overlaps no other returns exactly for an answer into its    *)
(* store, by its own page if that was displayed before the wait; its store *)
(* is there for it.                                                        *)
THEOREM AnswerIsOwnAlways == Spec => []AnswerIsOwn
<1>1. UiInv => AnswerIsOwn
  <2>1. SUFFICES ASSUME UiInv, NEW s \in Scripts, pc[s] \in Showing,
                        {"alone", "sent"} \subseteq call[s].marks
                 PROVE  /\ pc[s] = "released" => "answered" \in call[s].marks
                        /\ pc[s] = "wait" => "answered" \notin call[s].marks
                        /\ "shown" \in call[s].marks => "other" \notin call[s].marks
                        /\ heap[call[s].show] = "live" /\ blame = NULL
    BY DEF AnswerIsOwn
  <2>2. Answered /\ ShowsApart
    BY <2>1 DEF UiInv, ShowPart
  <2>3. pc[s] # "send"
    BY <2>1, <2>2 DEF Answered
  <2>4. heap[call[s].show] = "live"
    BY <2>1, <2>2, <2>3 DEF ShowsApart
  <2> QED
    BY <2>1, <2>2, <2>4 DEF Answered
<1> QED
  BY <1>1, UiInvariant, PTL
-----------------------------------------------------------------------------
(* The variable store of a show (VarStore).                                *)

(* Induction over the naturals, for a set of them.                         *)
LEMMA SetInduction ==
  ASSUME NEW S, 0 \in S, \A n \in Nat : n \in S => n + 1 \in S
  PROVE  \A n \in Nat : n \in S
<1> DEFINE T == {n \in Nat : n \notin S}
<1> SUFFICES ASSUME T # {} PROVE FALSE
  OBVIOUS
<1>1. \E k \in T : \A j \in T : ~ (<<j, k>> \in OpToRel(<, Nat))
  <2>1. T \in SUBSET Nat
    OBVIOUS
  <2> HIDE DEF T
  <2> QED
    BY <2>1, NatLessThanWellFounded, WFMin, Zenon
<1>2. PICK k \in T : \A j \in T : ~ (<<j, k>> \in OpToRel(<, Nat))
  BY <1>1
<1>3. k \in Nat /\ k # 0 /\ k \notin S
  BY <1>2
<1>4. k - 1 \in Nat /\ k - 1 < k /\ (k - 1) + 1 = k
  BY <1>3
<1>5. k - 1 \in T
  BY <1>3, <1>4
<1>6. <<k - 1, k>> \in OpToRel(<, Nat)
  BY <1>3, <1>4 DEF OpToRel
<1> QED
  BY <1>2, <1>5, <1>6
-----------------------------------------------------------------------------
(* The store after i puts, from the one before.                            *)
Stored(puts, store, i) ==
  IF i = 0 THEN EmptyStore
  ELSE AddVariable(store[i - 1], puts[i].name, puts[i].value)

IsRun(puts, store) == store = [i \in 0..Len(puts) |-> Stored(puts, store, i)]

(* There is such a sequence of stores, and After is one.                   *)
LEMMA AfterIsRun ==
  ASSUME NEW puts, Len(puts) \in Nat
  PROVE  IsRun(puts, After(puts))
<1> DEFINE L == Len(puts)
           Right(f, n) == \A i \in 0..L : i < n => f[i] = Stored(puts, f, i)
           Ok(n) == \E f : f = [i \in 0..L |-> f[i]] /\ Right(f, n)
           S == {n \in Nat : Ok(n)}
<1>1. 0 \in S
  <2> DEFINE f == [i \in 0..L |-> 0]
  <2>1. f = [i \in 0..L |-> f[i]]
    OBVIOUS
  <2>2. Right(f, 0)
    OBVIOUS
  <2> QED
    BY <2>1, <2>2
<1>2. ASSUME NEW n \in Nat, Ok(n)
      PROVE  Ok(n + 1)
  <2>1. PICK f : f = [i \in 0..L |-> f[i]] /\ Right(f, n)
    BY <1>2
  <2> DEFINE g == [i \in 0..L |-> Stored(puts, f, i)]
  <2>2. g = [i \in 0..L |-> g[i]]
    OBVIOUS
  <2>3. ASSUME NEW i \in 0..L, i < n + 1
        PROVE  g[i] = Stored(puts, g, i)
    <3>1. g[i] = Stored(puts, f, i)
      OBVIOUS
    <3>2. CASE i = 0
      BY <3>1, <3>2 DEF Stored
    <3>3. CASE i # 0
      <4>1. i - 1 \in 0..L /\ i - 1 < n
        BY <2>3, <3>3
      <4>2. g[i - 1] = f[i - 1]
        BY <2>1, <4>1
      <4> HIDE DEF g
      <4> QED
        BY <3>1, <4>2, Zenon DEF Stored
    <3> QED
      BY <3>2, <3>3
  <2> QED
    BY <2>2, <2>3
<1>3. \A n \in Nat : n \in S
  <2>1. \A n \in Nat : n \in S => n + 1 \in S
    <3> HIDE DEF Ok
    <3> QED
      BY <1>2
  <2> HIDE DEF S
  <2> QED
    BY <1>1, <2>1, SetInduction
<1>4. Ok(L + 1)
  <2>1. L + 1 \in Nat
    OBVIOUS
  <2> HIDE DEF Ok
  <2> QED
    BY <1>3, <2>1
<1>5. PICK f : f = [i \in 0..L |-> f[i]] /\ Right(f, L + 1)
  BY <1>4
<1>6. \A i \in 0..L : f[i] = Stored(puts, f, i)
  BY <1>5
<1>7. IsRun(puts, f)
  BY <1>5, <1>6 DEF IsRun
<1>8. After(puts) = CHOOSE store : IsRun(puts, store)
  BY DEF After, IsRun, Stored
<1> QED
  BY <1>7, <1>8
-----------------------------------------------------------------------------
(* The puts under a name up to the i-th, those of them that set a type,    *)
(* and what the store then has under it.                                   *)
UnderTo(puts, n, i) == {j \in 1..i : puts[j].name = n}
TypedTo(puts, n, i) == {j \in UnderTo(puts, n, i) : puts[j].value.type # "STRING"}

Kept(puts, n, i) ==
  IF UnderTo(puts, n, i) = {} THEN Absent
  ELSE [type |-> IF TypedTo(puts, n, i) = {} THEN "STRING"
                 ELSE puts[Max(TypedTo(puts, n, i))].value.type,
        word |-> puts[Max(UnderTo(puts, n, i))].value.word]

LEMMA MaxIs ==
  ASSUME NEW S \in SUBSET Int, NEW x \in S, \A y \in S : x >= y
  PROVE  Max(S) = x
<1>1. Max(S) \in S /\ \A y \in S : Max(S) >= y
  BY DEF Max
<1>2. Max(S) >= x /\ x >= Max(S) /\ Max(S) \in Int /\ x \in Int
  BY <1>1
<1> QED
  BY ONLY <1>2

LEMMA HasMax ==
  ASSUME NEW i \in Nat, NEW T \in SUBSET (1..i), T # {}
  PROVE  \E x \in T : \A y \in T : x >= y
<1> DEFINE Greatest(n) == \A U \in SUBSET (1..n) : U # {} => \E x \in U : \A y \in U : x >= y
           S == {n \in Nat : Greatest(n)}
<1>1. 0 \in S
  <2>1. 1..0 = {}
    OBVIOUS
  <2>2. Greatest(0)
    BY <2>1
  <2> HIDE DEF Greatest
  <2> QED
    BY <2>2
<1>2. ASSUME NEW n \in Nat, Greatest(n)
      PROVE  Greatest(n + 1)
  <2> SUFFICES ASSUME NEW U \in SUBSET (1..(n + 1)), U # {}
               PROVE  \E x \in U : \A y \in U : x >= y
    OBVIOUS
  <2>1. CASE n + 1 \in U
    BY <2>1
  <2>2. CASE n + 1 \notin U
    <3>1. U \in SUBSET (1..n)
      BY <2>2
    <3> QED
      BY <1>2, <3>1
  <2> QED
    BY <2>1, <2>2
<1>3. \A n \in Nat : n \in S
  <2>1. \A n \in Nat : n \in S => n + 1 \in S
    <3> HIDE DEF Greatest
    <3> QED
      BY <1>2
  <2> HIDE DEF S
  <2> QED
    BY <1>1, <2>1, SetInduction
<1> QED
  BY <1>3

LEMMA MaxIn ==
  ASSUME NEW i \in Nat, NEW T \in SUBSET (1..i), T # {}
  PROVE  Max(T) \in T
  BY HasMax DEF Max

(* One put more keeps to it.                                               *)
LEMMA PutKeeps ==
  ASSUME NEW puts \in Seq(Puts), NEW i \in Nat, i + 1 \in 1..Len(puts), NEW n
  PROVE  Kept(puts, n, i + 1) =
           IF puts[i + 1].name = n THEN Updated(Kept(puts, n, i), puts[i + 1].value)
           ELSE Kept(puts, n, i)
<1> DEFINE p == puts[i + 1]
<1>1. p \in Puts /\ p.value \in Values
  <2>1. p \in Puts
    OBVIOUS
  <2> QED
    BY <2>1 DEF Puts
<1>2. 1..(i + 1) = (1..i) \union {i + 1} /\ i + 1 \notin 1..i
  OBVIOUS
<1>3. CASE p.name # n
  <2>1. UnderTo(puts, n, i + 1) = UnderTo(puts, n, i)
    BY <1>2, <1>3 DEF UnderTo
  <2>2. TypedTo(puts, n, i + 1) = TypedTo(puts, n, i)
    BY <2>1 DEF TypedTo
  <2> QED
    BY <1>3, <2>1, <2>2 DEF Kept
<1>4. CASE p.name = n
  <2>1. UnderTo(puts, n, i + 1) = UnderTo(puts, n, i) \union {i + 1}
    BY <1>2, <1>4 DEF UnderTo
  <2>2. Max(UnderTo(puts, n, i + 1)) = i + 1
    <3>1. \A y \in UnderTo(puts, n, i + 1) : i + 1 >= y
      BY DEF UnderTo
    <3>2. UnderTo(puts, n, i + 1) \in SUBSET Int /\ i + 1 \in UnderTo(puts, n, i + 1)
      BY <2>1 DEF UnderTo
    <3> QED
      BY <3>1, <3>2, MaxIs
  <2>3. CASE p.value.type = "STRING"
    <3>1. TypedTo(puts, n, i + 1) = TypedTo(puts, n, i)
      BY <2>1, <2>3 DEF TypedTo
    <3>2. CASE UnderTo(puts, n, i) = {}
      <4>1. TypedTo(puts, n, i + 1) = {} /\ Kept(puts, n, i) = Absent
        BY <3>1, <3>2 DEF TypedTo, Kept
      <4>2. Kept(puts, n, i + 1) = [type |-> "STRING", word |-> p.value.word]
        BY <2>1, <2>2, <4>1 DEF Kept
      <4>3. p.value = [type |-> "STRING", word |-> p.value.word]
        BY <1>1, <2>3 DEF Values
      <4> QED
        BY <1>4, <4>1, <4>2, <4>3 DEF Updated
    <3>3. CASE UnderTo(puts, n, i) # {}
      <4>1. Kept(puts, n, i + 1) =
              [type |-> Kept(puts, n, i).type, word |-> p.value.word]
        BY <2>1, <2>2, <3>1, <3>3 DEF Kept
      <4>2. Kept(puts, n, i) # Absent
        <5>1. Kept(puts, n, i).type # "none"
          <6>1. CASE TypedTo(puts, n, i) = {}
            BY <3>3, <6>1 DEF Kept
          <6>2. CASE TypedTo(puts, n, i) # {}
            <7> DEFINE j == Max(TypedTo(puts, n, i))
            <7>1. j \in TypedTo(puts, n, i)
              <8>1. TypedTo(puts, n, i) \in SUBSET (1..i)
                BY DEF TypedTo, UnderTo
              <8> QED
                BY <6>2, <8>1, MaxIn
            <7>2. puts[j] \in Puts
              BY <7>1 DEF TypedTo, UnderTo
            <7>3. puts[j].value.type # "none"
              BY <7>2 DEF Puts, Values
            <7> QED
              BY <3>3, <6>2, <7>3 DEF Kept
          <6> QED
            BY <6>1, <6>2
        <5> QED
          BY <5>1 DEF Absent
      <4> QED
        BY <1>4, <2>3, <4>1, <4>2 DEF Updated
    <3> QED
      BY <3>2, <3>3
  <2>4. CASE p.value.type # "STRING"
    <3>1. TypedTo(puts, n, i + 1) = TypedTo(puts, n, i) \union {i + 1}
      BY <2>1, <2>4 DEF TypedTo
    <3>2. Max(TypedTo(puts, n, i + 1)) = i + 1
      <4>1. \A y \in TypedTo(puts, n, i + 1) : i + 1 >= y
        BY DEF TypedTo, UnderTo
      <4>2. TypedTo(puts, n, i + 1) \in SUBSET Int /\ i + 1 \in TypedTo(puts, n, i + 1)
        BY <3>1 DEF TypedTo, UnderTo
      <4> QED
        BY <4>1, <4>2, MaxIs
    <3>3. Kept(puts, n, i + 1) = [type |-> p.value.type, word |-> p.value.word]
      BY <2>1, <2>2, <3>1, <3>2 DEF Kept
    <3>4. p.value = [type |-> p.value.type, word |-> p.value.word]
      BY <1>1 DEF Values
    <3> QED
      BY <1>4, <2>4, <3>3, <3>4 DEF Updated
  <2> QED
    BY <2>3, <2>4
<1> QED
  BY <1>3, <1>4

(* A put over a number among the first i.                                  *)
OverTo(puts, i) ==
  \E j \in 1..i, h \in 1..i :
    h < j /\ puts[h].name = puts[j].name /\ Stray(puts[h].value.word)

LEMMA KeptIsKnown ==
  ASSUME NEW puts \in Seq(Puts), NEW i \in Nat, i <= Len(puts), NEW n
  PROVE  Kept(puts, n, i) # Lost
<1>1. CASE UnderTo(puts, n, i) = {}
  BY <1>1 DEF Kept, Absent, Lost
<1>2. CASE UnderTo(puts, n, i) # {} /\ TypedTo(puts, n, i) = {}
  <2>1. Kept(puts, n, i).type = "STRING"
    BY <1>2 DEF Kept
  <2> QED
    BY <2>1 DEF Lost
<1>3. CASE UnderTo(puts, n, i) # {} /\ TypedTo(puts, n, i) # {}
  <2> DEFINE j == Max(TypedTo(puts, n, i))
  <2>1. TypedTo(puts, n, i) \in SUBSET (1..i)
    BY DEF TypedTo, UnderTo
  <2>2. j \in 1..i
    BY <1>3, <2>1, MaxIn
  <2> HIDE DEF j
  <2>3. puts[j] \in Puts
    BY <2>2
  <2>4. puts[j].value.type # "lost"
    BY <2>3 DEF Puts, Values
  <2>5. Kept(puts, n, i).type = puts[j].value.type
    BY <1>3 DEF Kept, j
  <2> QED
    BY <2>4, <2>5 DEF Lost
<1> QED
  BY <1>1, <1>2, <1>3

(* As long as no number was put over, the next put deletes one exactly     *)
(* when there is a number among those before it under its name: it is the  *)
(* last of them.                                                           *)
LEMMA NextDamages ==
  ASSUME NEW puts \in Seq(Puts), NEW i \in Nat, i + 1 \in 1..Len(puts), ~OverTo(puts, i)
  PROVE  WipeDamages(Kept(puts, puts[i + 1].name, i)) <=> OverTo(puts, i + 1)
<1> DEFINE n == puts[i + 1].name
           U == UnderTo(puts, n, i)
           k == Kept(puts, n, i)
<1>1. WipeDamages(k) <=> Stray(k.word)
  <2>1. i <= Len(puts)
    OBVIOUS
  <2> QED
    BY <2>1, KeptIsKnown DEF WipeDamages
<1>2. OverTo(puts, i + 1) <=> \E h \in U : Stray(puts[h].value.word)
  <2>1. \A j \in 1..(i + 1) : j \in 1..i \/ j = i + 1
    OBVIOUS
  <2>2. \A h \in 1..i : h \in 1..(i + 1) /\ h < i + 1
    OBVIOUS
  <2>3. ASSUME NEW j \in 1..(i + 1), NEW h \in 1..(i + 1), h < j,
               puts[h].name = puts[j].name, Stray(puts[h].value.word)
        PROVE  \E g \in U : Stray(puts[g].value.word)
    <3>1. h \in 1..i
      BY <2>3
    <3>2. j = i + 1
      BY <2>1, <2>3, <3>1 DEF OverTo
    <3> QED
      BY <2>3, <3>1, <3>2 DEF UnderTo
  <2>4. ASSUME NEW h \in U, Stray(puts[h].value.word)
        PROVE  OverTo(puts, i + 1)
    <3>1. h \in 1..i /\ puts[h].name = n /\ i + 1 \in 1..(i + 1)
      BY <2>4 DEF UnderTo
    <3> QED
      BY <2>2, <2>4, <3>1 DEF OverTo
  <2> QED
    BY <2>3, <2>4 DEF OverTo
<1>3. CASE U = {}
  BY <1>1, <1>2, <1>3 DEF Kept, Absent, Stray
<1>4. CASE U # {}
  <2>1. U \in SUBSET (1..i)
    BY DEF UnderTo
  <2> DEFINE m == Max(U)
  <2>2. m \in U
    BY <1>4, <2>1, MaxIn
  <2>3. \A h \in U : h <= m
    <3>1. \E x \in U : \A y \in U : x >= y
      BY <1>4, <2>1, HasMax
    <3>2. PICK x \in U : \A y \in U : x >= y
      BY <3>1
    <3>3. U \in SUBSET Int
      BY <2>1
    <3>4. m = x
      BY <3>2, <3>3, MaxIs
    <3> QED
      BY <2>1, <3>2, <3>4
  <2>4. k.word = puts[m].value.word
    BY <1>4 DEF Kept
  <2>5. ASSUME NEW h \in U, Stray(puts[h].value.word)
        PROVE  h = m
    <3>1. h \in 1..i /\ m \in 1..i /\ puts[h].name = puts[m].name
      BY <2>2, <2>5 DEF UnderTo
    <3>2. ~(h < m)
      BY <2>5, <3>1 DEF OverTo
    <3> HIDE DEF m
    <3> QED
      BY <2>3, <3>1, <3>2
  <2>6. Stray(k.word) <=> \E h \in U : Stray(puts[h].value.word)
    <3> HIDE DEF m, U, k
    <3> QED
      BY <2>2, <2>4, <2>5
  <2> QED
    BY <1>1, <1>2, <2>6
<1> QED
  BY <1>3, <1>4

(* Once a number was put over, the store is ruined whatever comes.         *)
LEMMA RuinedStays ==
  ASSUME NEW n \in Names, NEW value
  PROVE  AddVariable(Ruined, n, value) = Ruined
  BY DEF AddVariable, Ruined, WipeDamages

(* A store has under each name what was put there last, for any names,     *)
(* strings and numbers of puts, until a number is put over (varstore.cpp   *)
(* 28-204).                                                                *)
THEOREM StoreIsKept == PutsAreKept
<1> DEFINE Whole(puts, i) == [k \in Names |-> Kept(puts, k, i)]
<1> SUFFICES ASSUME NEW puts \in Histories
             PROVE  After(puts)[Len(puts)] =
                      IF OverTo(puts, Len(puts)) THEN Ruined ELSE Whole(puts, Len(puts))
  BY DEF PutsAreKept, Overwritten, OverTo, Kept, UnderTo, TypedTo, Under, Typed
<1>1. puts \in Seq(Puts) /\ Len(puts) \in Nat
  <2>1. PICK m \in 0..MaxPuts : puts \in [1..m -> Puts]
    BY DEF Histories
  <2>2. m \in Nat
    BY VarStoreAssumption
  <2> QED
    BY <2>1, <2>2
<1> DEFINE store == After(puts)
<1>2. \A i \in 0..Len(puts) : store[i] = Stored(puts, store, i)
  BY <1>1, AfterIsRun DEF IsRun
<1> HIDE DEF store
<1> DEFINE Good(i) == store[i] = IF OverTo(puts, i) THEN Ruined ELSE Whole(puts, i)
           S == {i \in Nat : i <= Len(puts) => Good(i)}
<1>3. 0 \in S
  <2>1. store[0] = EmptyStore
    BY <1>1, <1>2 DEF Stored
  <2>2. \A k : Kept(puts, k, 0) = Absent
    BY DEF Kept, UnderTo
  <2>3. ~OverTo(puts, 0)
    BY DEF OverTo
  <2> QED
    BY <2>1, <2>2, <2>3 DEF EmptyStore
<1>4. ASSUME NEW i \in Nat, i \in S
      PROVE  i + 1 \in S
  <2> SUFFICES ASSUME i + 1 <= Len(puts)
               PROVE  Good(i + 1)
    OBVIOUS
  <2> DEFINE p == puts[i + 1]
  <2>1. i <= Len(puts) /\ i + 1 \in 0..Len(puts) /\ i + 1 \in 1..Len(puts)
        /\ i + 1 # 0 /\ (i + 1) - 1 = i
    BY <1>1
  <2>2. Good(i)
    BY <1>4, <2>1
  <2>3. store[i + 1] = AddVariable(store[i], p.name, p.value)
    BY <1>2, <2>1, Zenon DEF Stored
  <2>4. p.name \in Names
    <3>1. p \in Puts
      BY <1>1, <2>1
    <3> QED
      BY <3>1 DEF Puts
  <2>5. CASE OverTo(puts, i)
    <3>1. OverTo(puts, i + 1)
      BY <2>5 DEF OverTo
    <3>2. store[i] = Ruined
      BY <2>2, <2>5
    <3> QED
      BY <2>3, <2>4, <3>1, <3>2, RuinedStays
  <2>6. CASE ~OverTo(puts, i)
    <3>1. store[i] = Whole(puts, i)
      BY <2>2, <2>6
    <3>2. store[i][p.name] = Kept(puts, p.name, i)
      BY <2>4, <3>1
    <3>3. WipeDamages(store[i][p.name]) <=> OverTo(puts, i + 1)
      BY <1>1, <2>1, <2>6, <3>2, NextDamages
    <3>4. CASE OverTo(puts, i + 1)
      BY <2>3, <3>3, <3>4 DEF AddVariable
    <3>5. CASE ~OverTo(puts, i + 1)
      <4>1. store[i + 1] = [store[i] EXCEPT ![p.name] = Updated(store[i][p.name], p.value)]
        BY <2>3, <3>3, <3>5 DEF AddVariable
      <4>2. store[i + 1] = [k \in Names |-> IF k = p.name THEN Updated(store[i][k], p.value)
                                            ELSE store[i][k]]
        BY <3>1, <4>1
      <4>3. \A k : Kept(puts, k, i + 1) =
              IF p.name = k THEN Updated(Kept(puts, k, i), p.value) ELSE Kept(puts, k, i)
        BY <1>1, <1>4, <2>1, PutKeeps, Zenon
      <4>4. \A k \in Names : store[i][k] = Kept(puts, k, i)
        BY <3>1, Zenon
      <4>5. \A k \in Names : Kept(puts, k, i + 1) =
               IF k = p.name THEN Updated(store[i][k], p.value) ELSE store[i][k]
        BY <4>3, <4>4, Zenon
      <4> QED
        BY <3>5, <4>2, <4>5
    <3> QED
      BY <3>4, <3>5
  <2> QED
    BY <2>5, <2>6
<1>5. Len(puts) \in S
  <2>1. \A i \in Nat : i \in S => i + 1 \in S
    BY <1>4
  <2> HIDE DEF S
  <2> QED
    BY <1>1, <1>3, <2>1, SetInduction
<1> QED
  BY <1>1, <1>5 DEF store

(* The store of a show has what was put into it last, and is ruined        *)
(* exactly by a put over a number or TRUE (varstore.cpp 28-204).           *)
THEOREM StoreKeepsValuesAlways == Spec => []StoreKeepsValues
<1>1. StoreKeepsValues
  BY StoreIsKept DEF StoreKeepsValues
<1> QED
  BY <1>1, PTL
=============================================================================
