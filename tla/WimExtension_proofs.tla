------------------------ MODULE WimExtension_proofs -------------------------
(***************************************************************************)
(* The WIM extension, for any scripts, files, threads, calls, paths and    *)
(* patterns.                                                               *)
(*                                                                         *)
(* WimFiles (js_wimg.cpp, uiworker.cpp, exceptions.cpp): every variable    *)
(* keeps its type, which callbacks lead to records that are there, and the *)
(* counter of progress windows is right until two threads count.           *)
(*                                                                         *)
(* WildMatch (exceptions.cpp, MatchEntry): the two pointers of Match stay  *)
(* in their strings, and Match says what a pattern means.  Glob fills in a *)
(* table from the ends of the two strings; the lemmas speak of its         *)
(* entries, Hit, and an induction over the cells of a table carries what   *)
(* they need from the ends to a cell.                                      *)
(***************************************************************************)
EXTENDS WimFiles, WildMatch, Integers, FiniteSetTheorems, FunctionTheorems,
        WellFoundedInduction, TLAPS

(* Records are numbered as they are made, and no callback leads to one     *)
(* that is still to be made.                                               *)
RecordsCounted ==
  /\ IF head = NULL THEN live = {} ELSE head \in live
  /\ live \subseteq 1..records
  /\ \A h \in Handles : listed[h] <= records

(* Which callbacks lead to records that are there, at every step.          *)
SharersLead ==
  \A h \in Handles : listed[h] # NULL => (listed[h] \in live <=> h \in sharing)

(* One script at a time sets lists.                                        *)
OneSetter == \A s, t \in Scripts : InSet(s) /\ InSet(t) => s = t

(* Where a script is that sets one list at a time: in the call of the      *)
(* owner, or in another call from within it; nobody shares the list then,  *)
(* once the old one is gone.                                               *)
Framed(s) ==
  InSet(s) =>
    /\ IF pc[s] \in Setting THEN outer[s] = <<>> /\ arg[s] = owner
                            ELSE outer[s] = <<owner>>
    /\ pc[s] # "free" => sharing = {}

OwnersOnly ==
  /\ \A s \in Scripts : Framed(s)
  /\ (\A s \in Scripts : ~InSet(s)) => sharing \subseteq {owner}

ListInv ==
  /\ TypeOK /\ RecordsCounted /\ SharersLead
  /\ "lists" \notin mixed => OneSetter
  /\ "lists" \notin mixed /\ "nested" \notin mixed => OwnersOnly
-----------------------------------------------------------------------------
LEMMA InitList == Init => ListInv
<1> SUFFICES ASSUME Init PROVE ListInv
  OBVIOUS
<1> USE WimFilesAssumption
<1>1. TypeOK
  <2>1. /\ NULL \in Handles /\ NULL \in Nat /\ Files \subseteq Handles
        /\ 0 \in 0..MaxCalls
    BY DEF Handles, NULL
  <2>2. queue \in [UiThreads -> Seq(Messages)]
    BY DEF Init
  <2>3. windows \in [UiThreads -> [Handles -> Nat]]
    BY DEF Init
  <2>4. outer \in [Scripts -> Seq(Handles)]
    BY DEF Init
  <2>5. records \in 0..MaxRecords
    BY DEF Init
  <2> QED
    BY <2>1, <2>2, <2>3, <2>4, <2>5 DEF TypeOK, Init
<1>2. \A s \in Scripts : ~InSet(s)
  BY DEF Init, InSet, Setting
<1>3. RecordsCounted /\ SharersLead /\ OneSetter /\ OwnersOnly
  BY <1>2 DEF Init, RecordsCounted, SharersLead, OneSetter, OwnersOnly, Framed, NULL
<1> QED
  BY <1>1, <1>3 DEF ListInv
-----------------------------------------------------------------------------
(* What a call and a return do to where a script is.                       *)
Labels == {"idle", "create"} \union Posting \union Setting

LEMMA CallKeeps ==
  ASSUME TypeOK, NEW s \in Scripts, NEW l \in Labels, NEW h \in Handles, Call(s, l, h)
  PROVE  /\ pc' \in [Scripts -> Labels] /\ arg' \in [Scripts -> Handles]
         /\ outer' \in [Scripts -> Seq(Handles)]
         /\ pc'[s] = l /\ arg'[s] = h
         /\ outer'[s] = IF pc[s] = "build" THEN <<arg[s]>> \o outer[s] ELSE outer[s]
         /\ \A t \in Scripts : t # s => pc'[t] = pc[t] /\ arg'[t] = arg[t] /\ outer'[t] = outer[t]
<1>1. /\ pc \in [Scripts -> Labels] /\ arg \in [Scripts -> Handles]
      /\ outer \in [Scripts -> Seq(Handles)]
  BY DEF TypeOK, Labels
<1>2. pc' = [pc EXCEPT ![s] = l] /\ arg' = [arg EXCEPT ![s] = h]
  BY DEF Call, Goto
<1>3. PICK o : o = IF pc[s] = "build" THEN <<arg[s]>> \o outer[s] ELSE outer[s]
  OBVIOUS
<1>4. o \in Seq(Handles)
  <2>1. arg[s] \in Handles /\ outer[s] \in Seq(Handles)
    BY <1>1
  <2>2. <<arg[s]>> \o outer[s] \in Seq(Handles)
    BY <2>1
  <2> QED
    BY <1>3, <2>1, <2>2
<1>5. outer' = [outer EXCEPT ![s] = o]
  BY <1>3 DEF Call
<1> QED
  BY <1>1, <1>2, <1>3, <1>4, <1>5

LEMMA ReturnKeeps ==
  ASSUME TypeOK, NEW s \in Scripts, Return(s)
  PROVE  /\ pc' \in [Scripts -> Labels] /\ arg' \in [Scripts -> Handles]
         /\ outer' \in [Scripts -> Seq(Handles)]
         /\ outer[s] = <<>> => pc'[s] = "idle" /\ outer'[s] = <<>>
         /\ outer[s] # <<>> => /\ pc'[s] = "build" /\ arg'[s] = Head(outer[s])
                               /\ outer'[s] = Tail(outer[s])
         /\ \A t \in Scripts : t # s => pc'[t] = pc[t] /\ arg'[t] = arg[t] /\ outer'[t] = outer[t]
<1>1. /\ pc \in [Scripts -> Labels] /\ arg \in [Scripts -> Handles]
      /\ outer \in [Scripts -> Seq(Handles)] /\ NULL \in Handles
      /\ "idle" \in Labels /\ "build" \in Labels
  BY DEF TypeOK, Labels, Handles, Setting
<1>2. CASE outer[s] = <<>>
  BY <1>1, <1>2 DEF Return, Goto
<1>3. CASE outer[s] # <<>>
  <2>1. PICK o, h : o = Tail(outer[s]) /\ h = Head(outer[s])
    OBVIOUS
  <2>2. o \in Seq(Handles) /\ h \in Handles
    BY <1>1, <1>3, <2>1
  <2>3. /\ pc' = [pc EXCEPT ![s] = "build"] /\ arg' = [arg EXCEPT ![s] = h]
        /\ outer' = [outer EXCEPT ![s] = o]
    BY <1>3, <2>1 DEF Return, Goto
  <2> QED
    BY <1>1, <1>3, <2>1, <2>2, <2>3
<1> QED
  BY <1>2, <1>3

(* Other calls, from within SetExceptionsList or not, leave it where it    *)
(* was.                                                                    *)
Quietly ==
  /\ \A t \in Scripts : InSet(t)' <=> InSet(t)
  /\ owner' = owner /\ sharing' = sharing =>
       \A t \in Scripts : Framed(t) => Framed(t)'

LEMMA CallsQuietly ==
  ASSUME TypeOK, NEW s \in Scripts, Runs(s), NEW l \in Labels \ Setting,
         NEW h \in Handles, Call(s, l, h)
  PROVE  Quietly
<1>1. /\ pc'[s] = l /\ arg'[s] = h
      /\ outer'[s] = IF pc[s] = "build" THEN <<arg[s]>> \o outer[s] ELSE outer[s]
      /\ \A t \in Scripts : t # s => pc'[t] = pc[t] /\ arg'[t] = arg[t] /\ outer'[t] = outer[t]
  BY CallKeeps
<1>2. arg[s] \in Handles /\ outer[s] \in Seq(Handles)
  BY DEF TypeOK
<1>3. pc[s] = "build" => outer'[s] # <<>>
  <2>1. Len(<<arg[s]>> \o outer[s]) # 0
    BY <1>2
  <2> QED
    BY <1>1, <2>1
<1>4. pc[s] # "build" => pc[s] = "idle" /\ outer'[s] = outer[s]
  BY <1>1 DEF Runs
<1>5. InSet(s)' <=> InSet(s)
  BY <1>1, <1>3, <1>4 DEF InSet, Setting
<1>6. \A t \in Scripts : t # s => (InSet(t)' <=> InSet(t))
  BY <1>1 DEF InSet
<1>7. ASSUME owner' = owner, sharing' = sharing, Framed(s)
      PROVE  Framed(s)'
  <2>1. CASE pc[s] = "build"
    <3>1. outer[s] = <<>> /\ arg[s] = owner /\ sharing = {}
      BY <1>7, <2>1 DEF Framed, InSet, Setting
    <3>2. <<arg[s]>> \o <<>> = <<arg[s]>>
      BY <1>2
    <3>3. outer'[s] = <<owner>>
      BY <1>1, <2>1, <3>1, <3>2
    <3> QED
      BY <1>1, <1>7, <3>1, <3>3 DEF Framed
  <2>2. CASE pc[s] # "build"
    BY <1>1, <1>4, <1>7, <2>2 DEF Framed, InSet, Setting
  <2> QED
    BY <2>1, <2>2
<1>8. ASSUME owner' = owner, sharing' = sharing, NEW t \in Scripts, t # s, Framed(t)
      PROVE  Framed(t)'
  BY <1>1, <1>6, <1>8 DEF Framed
<1> QED
  BY <1>5, <1>6, <1>7, <1>8 DEF Quietly

LEMMA ReturnsQuietly ==
  ASSUME TypeOK, NEW s \in Scripts, pc[s] \notin Setting, Return(s)
  PROVE  Quietly
<1>1. /\ outer[s] = <<>> => pc'[s] = "idle" /\ outer'[s] = <<>>
      /\ outer[s] # <<>> => /\ pc'[s] = "build" /\ arg'[s] = Head(outer[s])
                            /\ outer'[s] = Tail(outer[s])
      /\ \A t \in Scripts : t # s => pc'[t] = pc[t] /\ arg'[t] = arg[t] /\ outer'[t] = outer[t]
  BY ReturnKeeps
<1>2. InSet(s)' <=> InSet(s)
  BY <1>1 DEF InSet, Setting
<1>3. \A t \in Scripts : t # s => (InSet(t)' <=> InSet(t))
  BY <1>1 DEF InSet
<1>4. ASSUME owner' = owner, sharing' = sharing, Framed(s)
      PROVE  Framed(s)'
  <2>1. CASE InSet(s)
    <3>1. outer[s] = <<owner>> /\ pc[s] # "free" /\ sharing = {}
      BY <1>4, <2>1 DEF Framed, Setting
    <3>2. <<owner>> # <<>> /\ Head(<<owner>>) = owner /\ Tail(<<owner>>) = <<>>
      OBVIOUS
    <3>3. pc'[s] = "build" /\ arg'[s] = owner /\ outer'[s] = <<>>
      BY <1>1, <3>1, <3>2
    <3> QED
      BY <1>4, <3>1, <3>3 DEF Framed, Setting
  <2>2. CASE ~InSet(s)
    BY <1>2, <2>2 DEF Framed
  <2> QED
    BY <2>1, <2>2
<1>5. ASSUME owner' = owner, sharing' = sharing, NEW t \in Scripts, t # s, Framed(t)
      PROVE  Framed(t)'
  BY <1>1, <1>3, <1>5 DEF Framed
<1> QED
  BY <1>2, <1>3, <1>4, <1>5 DEF Quietly

LEMMA StaysQuietly ==
  ASSUME UNCHANGED <<pc, arg, outer>>
  PROVE  Quietly
BY DEF Quietly, InSet, Framed
-----------------------------------------------------------------------------
(* Every step keeps every variable in its type.                            *)
LEMMA TypeOKStep ==
  ASSUME TypeOK, [Next]_vars
  PROVE  TypeOK'
<1>a. NULL \in Handles /\ NULL \in Nat /\ NULL = 0
  BY DEF Handles, NULL
<1>b. ASSUME NEW f \in objects PROVE f \in Files /\ f \in Handles /\ private[f] \in Handles
  BY DEF TypeOK, Handles
<1>c. \A l \in {"create", "open", "close", "finalize", "free", "build"} : l \in Labels
  BY DEF Labels, Posting, Setting
<1> DEFINE Places ==
      /\ pc' \in [Scripts -> Labels] /\ arg' \in [Scripts -> Handles]
      /\ outer' \in [Scripts -> Seq(Handles)]
<1>1. ASSUME NEW s \in Scripts, StartUI(s) \/ StopUI(s)
      PROVE  TypeOK'
  <2>1. PICK f \in objects, l \in {"create", "open", "close"} : Call(s, l, private[f])
    BY <1>1 DEF StartUI, StopUI
  <2>2. Places
    BY <1>b, <1>c, <2>1, CallKeeps
  <2>3. calls' \in 0..MaxCalls
    BY <1>1, WimFilesAssumption DEF TypeOK, StartUI, StopUI
  <2> QED
    BY <1>1, <2>2, <2>3 DEF TypeOK, StartUI, StopUI, Labels, uiVars, fileVars, listVars
<1>2. ASSUME NEW s \in Scripts, CreateUi(s)
      PROVE  TypeOK'
  <2>1. /\ threadID' \in UiThreads \union {0}
        /\ ui' \in [UiThreads -> {"none", "starting", "loop", "quit", "dead"}]
    BY <1>2 DEF TypeOK, CreateUi
  <2>2. mixed' \in SUBSET {"threads", "lists", "nested"}
    BY <1>2 DEF TypeOK, CreateUi
  <2>3. Places
    BY <1>2, ReturnKeeps DEF CreateUi
  <2> QED
    BY <2>1, <2>2, <2>3, <1>2 DEF TypeOK, CreateUi, Labels, fileVars, listVars
<1>4. ASSUME NEW s \in Scripts, Post(s)
      PROVE  TypeOK'
  <2>1. queue' \in [UiThreads -> Seq(Messages)]
    <3> DEFINE m == [op |-> IF pc[s] = "open" THEN "open" ELSE "close", file |-> arg[s]]
    <3>1. m \in Messages
      BY DEF TypeOK, Messages
    <3>2. threadID \in UiThreads /\ queue' = [queue EXCEPT ![threadID] = Append(@, m)]
      BY <1>4 DEF Post, TypeOK
    <3>3. Append(queue[threadID], m) \in Seq(Messages)
      BY <3>1, <3>2 DEF TypeOK
    <3> HIDE DEF m
    <3> QED
      BY <3>2, <3>3 DEF TypeOK
  <2>2. listed' \in [Handles -> Nat] /\ open' \in SUBSET Files
    <3>1. CASE CloseHandle(arg[s])
      <4>1. listed' = [listed EXCEPT ![arg[s]] = 0] /\ open' \subseteq open
        BY <1>a, <3>1 DEF CloseHandle
      <4> QED
        BY <4>1 DEF TypeOK
    <3>2. CASE UNCHANGED <<open, listed>>
      BY <3>2 DEF TypeOK
    <3> QED
      BY <1>4, <3>1, <3>2 DEF Post
  <2>3. Places
    BY <1>4, ReturnKeeps DEF Post
  <2> QED
    BY <2>1, <2>2, <2>3, <1>4 DEF TypeOK, Post, Labels
<1>5. ASSUME NEW s \in Scripts, Finalize(s)
      PROVE  TypeOK'
  <2>1. PICK f \in objects :
          /\ objects' = objects \ {f}
          /\ IF private[f] # NULL /\ threadID # 0
             THEN Call(s, "finalize", f) /\ UNCHANGED <<open, listed>>
             ELSE /\ UNCHANGED <<pc, arg, outer>>
                  /\ IF private[f] # NULL THEN CloseHandle(f)
                     ELSE UNCHANGED <<open, listed>>
    BY <1>5 DEF Finalize
  <2>2. listed' \in [Handles -> Nat] /\ open' \in SUBSET Files
    BY <1>a, <2>1 DEF TypeOK, CloseHandle
  <2>3. Places
    <3>1. CASE Call(s, "finalize", f)
      BY <1>b, <1>c, <3>1, CallKeeps
    <3>2. CASE UNCHANGED <<pc, arg, outer>>
      BY <3>2 DEF TypeOK, Labels
    <3> QED
      BY <2>1, <3>1, <3>2
  <2> QED
    BY <2>1, <2>2, <2>3, <1>5 DEF TypeOK, Finalize, Labels, uiVars
<1>6. ASSUME NEW s \in Scripts, Close(s)
      PROVE  TypeOK'
  <2>1. /\ listed' \in [Handles -> Nat] /\ open' \in SUBSET Files
        /\ private' \in [Files -> Handles]
    BY <1>a, <1>b, <1>6 DEF TypeOK, Close, CloseHandle
  <2> QED
    BY <2>1, <1>6 DEF TypeOK, Close, uiVars, scriptVars
<1>7. ASSUME NEW s \in Scripts, SetExceptions(s)
      PROVE  TypeOK'
  <2>1. PICK f \in objects, l \in {"build", "free"} :
          owner' = private[f] /\ Call(s, l, private[f])
    BY <1>7 DEF SetExceptions
  <2>2. owner' \in Handles /\ Places
    BY <1>b, <1>c, <2>1, CallKeeps
  <2>3. calls' \in 0..MaxCalls
    BY <1>7, WimFilesAssumption DEF TypeOK, SetExceptions
  <2>4. mixed' \in SUBSET {"threads", "lists", "nested"}
    BY <1>7 DEF TypeOK, SetExceptions
  <2>5. sharing' \in SUBSET Handles
    BY <1>7 DEF TypeOK, SetExceptions
  <2> QED
    BY <2>2, <2>3, <2>4, <2>5, <1>7 DEF TypeOK, SetExceptions, Labels, uiVars, fileVars
<1>8. ASSUME NEW s \in Scripts, FreeList(s)
      PROVE  TypeOK'
  BY <1>a, <1>8
     DEF TypeOK, FreeList, Goto, Setting, uiVars, fileVars, listVars, scriptVars
<1>9. ASSUME NEW s \in Scripts, Unregister(s)
      PROVE  TypeOK'
  BY <1>a, <1>9
     DEF TypeOK, Unregister, Goto, Setting, uiVars, fileVars, listVars, scriptVars
<1>10. ASSUME NEW s \in Scripts, AddRecord(s)
       PROVE  TypeOK'
  <2>1. records \in Nat /\ records' = records + 1 /\ records < MaxRecords
    BY <1>10, WimFilesAssumption DEF TypeOK, AddRecord
  <2>2. records' \in 0..MaxRecords /\ records' \in 1..MaxRecords /\ head' \in Nat
    BY <2>1, <1>10, WimFilesAssumption DEF AddRecord
  <2>3. live' \in SUBSET (1..MaxRecords)
    BY <2>2, <1>10 DEF TypeOK, AddRecord
  <2> QED
    BY <2>2, <2>3, <1>10 DEF TypeOK, AddRecord, uiVars, fileVars, scriptVars
<1>3. ASSUME NEW s \in Scripts, Register(s)
      PROVE  TypeOK'
  <2>1. arg[s] \in Handles /\ head \in Nat
    BY DEF TypeOK
  <2>2. listed' = [listed EXCEPT ![arg[s]] = head] \/ listed' = listed
    BY <1>3 DEF Register
  <2>4. listed' \in [Handles -> Nat]
    BY <2>1, <2>2 DEF TypeOK
  <2>5. sharing' \in SUBSET Handles
    BY <2>1, <1>3 DEF TypeOK, Register
  <2>3. Places
    BY <1>3, ReturnKeeps DEF Register
  <2> QED
    BY <2>3, <2>4, <2>5, <1>3 DEF TypeOK, Register, Labels, uiVars, fileVars
<1>11. ASSUME NEW t \in UiThreads, EnterLoop(t)
      PROVE  TypeOK'
  BY <1>11 DEF TypeOK, EnterLoop, uiVars, fileVars, listVars, scriptVars
<1>12. ASSUME NEW t \in UiThreads, OpenWindow(t)
      PROVE  TypeOK'
  <2>1. queue' \in [UiThreads -> Seq(Messages)]
    BY <1>12 DEF TypeOK, OpenWindow, Take
  <2>2. PICK h \in Handles :
          \/ windows' = [windows EXCEPT ![t][h] = @ + 1] /\ UNCHANGED unmade
          \/ unmade' = unmade + 1 /\ UNCHANGED windows
    BY <1>12 DEF OpenWindow
  <2>3. windows[t][h] + 1 \in Nat /\ unmade + 1 \in Nat /\ unmade \in Nat
    BY DEF TypeOK
  <2>4. unmade' \in Nat
    BY <2>2, <2>3
  <2>5. windows' \in [UiThreads -> [Handles -> Nat]]
    <3> DEFINE w == windows[t][h] + 1
    <3>1. CASE windows' = [windows EXCEPT ![t][h] = w]
      BY <2>3, <3>1 DEF TypeOK
    <3>2. CASE UNCHANGED windows
      BY <3>2 DEF TypeOK
    <3> QED
      BY <2>2, <3>1, <3>2
  <2>6. nWindowsOpen' \in Nat
    BY <1>12 DEF TypeOK, OpenWindow, Counted
  <2> QED
    BY <2>1, <2>4, <2>5, <2>6, <1>12
       DEF TypeOK, OpenWindow, fileVars, listVars, scriptVars
<1>13. ASSUME NEW t \in UiThreads, CloseWindows(t)
      PROVE  TypeOK'
  <2>1. queue' \in [UiThreads -> Seq(Messages)]
    BY <1>13 DEF TypeOK, CloseWindows, Take
  <2>2. PICK h \in Handles :
          /\ Destroyed(t, h) <= nWindowsOpen
          /\ windows' = [windows EXCEPT ![t][h] = @ - Destroyed(t, h)]
          /\ Counted(t, nWindowsOpen - Destroyed(t, h))
          /\ \/ threadID' = 0 /\ ui' = [ui EXCEPT ![t] = "quit"]
             \/ UNCHANGED <<threadID, ui>>
    BY <1>13 DEF CloseWindows
  <2>3. /\ windows[t] \in [Handles -> Nat] /\ windows[t][h] \in Nat /\ nWindowsOpen \in Nat
        /\ Destroyed(t, h) \in Nat /\ Destroyed(t, h) <= windows[t][h]
    BY DEF TypeOK, Destroyed
  <2>4. nWindowsOpen' \in Nat
    BY <2>2, <2>3 DEF Counted
  <2>5. windows[t][h] - Destroyed(t, h) \in Nat
    BY <2>3
  <2>6. windows' \in [UiThreads -> [Handles -> Nat]]
    BY <2>2, <2>3, <2>5 DEF TypeOK
  <2>7. /\ threadID' \in UiThreads \union {0}
        /\ ui' \in [UiThreads -> {"none", "starting", "loop", "quit", "dead"}]
    BY <2>2 DEF TypeOK
  <2> QED
    BY <2>1, <2>4, <2>6, <2>7, <1>13
       DEF TypeOK, CloseWindows, fileVars, listVars, scriptVars
<1>14. ASSUME NEW t \in UiThreads, Quit(t)
      PROVE  TypeOK'
  BY <1>14 DEF TypeOK, Quit, uiVars, fileVars, listVars, scriptVars
<1>15. CASE UNCHANGED vars
  BY <1>15 DEF TypeOK, vars, uiVars, fileVars, listVars, scriptVars
<1> QED
  BY <1>1, <1>2, <1>3, <1>4, <1>5, <1>6, <1>7, <1>8, <1>9, <1>10, <1>11, <1>12, <1>13,
     <1>14, <1>15
     DEF Next, ScriptStep, UiStep
-----------------------------------------------------------------------------
(* What a step may do to the lists: nothing, or one of the stages of       *)
(* SetExceptionsList, or the end of a handle.                              *)
LEMMA ListStep ==
  ASSUME ListInv, TypeOK', [Next]_vars
  PROVE  ListInv'
<1>0. TypeOK /\ RecordsCounted /\ SharersLead
  BY DEF ListInv
<1>a. NULL \in Handles /\ NULL = 0 /\ NULL \notin 1..records
  BY DEF NULL, Handles
<1>b. /\ "lists" \notin mixed => OneSetter
      /\ "lists" \notin mixed /\ "nested" \notin mixed => OwnersOnly
  BY DEF ListInv
<1>c. /\ listed \in [Handles -> Nat] /\ records \in Nat /\ head \in Nat
      /\ live \subseteq 1..records /\ sharing \subseteq Handles
      /\ arg \in [Scripts -> Handles] /\ outer \in [Scripts -> Seq(Handles)]
      /\ pc \in [Scripts -> Labels] /\ private \in [Files -> Handles] /\ objects \subseteq Files
  <2>1. /\ listed \in [Handles -> Nat] /\ head \in Nat /\ sharing \subseteq Handles
        /\ arg \in [Scripts -> Handles] /\ outer \in [Scripts -> Seq(Handles)]
        /\ private \in [Files -> Handles] /\ objects \subseteq Files
    BY <1>0 DEF TypeOK
  <2>2. pc \in [Scripts -> Labels]
    BY <1>0 DEF TypeOK, Labels
  <2>3. records \in Nat
    BY <1>0, WimFilesAssumption DEF TypeOK
  <2> QED
    BY <1>0, <2>1, <2>2, <2>3 DEF RecordsCounted
<1>d. \A l \in {"create", "open", "close", "finalize"} : l \in Labels \ Setting
  BY DEF Labels, Posting, Setting
<1>1. ASSUME UNCHANGED <<owner, head, records, live, sharing>>, Quietly,
             "lists" \in mixed' <=> "lists" \in mixed,
             "nested" \in mixed' <=> "nested" \in mixed,
             listed' = listed \/ \E h : CloseHandle(h)
      PROVE  ListInv'
  <2>1. \A h \in Handles : listed'[h] = listed[h] \/ listed'[h] = NULL
    BY <1>1, <1>c DEF CloseHandle
  <2>2. RecordsCounted'
    BY <1>0, <1>1, <1>a, <1>c, <2>1 DEF RecordsCounted
  <2>3. SharersLead'
    BY <1>0, <1>1, <2>1 DEF SharersLead
  <2>4. OneSetter => OneSetter'
    BY <1>1 DEF OneSetter, Quietly
  <2>5. OwnersOnly => OwnersOnly'
    BY <1>1 DEF OwnersOnly, Quietly
  <2> QED
    BY <1>1, <1>b, <2>2, <2>3, <2>4, <2>5 DEF ListInv
<1>2. ASSUME NEW s \in Scripts, StartUI(s) \/ StopUI(s)
      PROVE  ListInv'
  <2>1. PICK f \in objects, l \in {"create", "open", "close"} : Call(s, l, private[f])
    BY <1>2 DEF StartUI, StopUI
  <2>2. Quietly
    <3>1. Runs(s) /\ private[f] \in Handles /\ l \in Labels \ Setting
      BY <1>2, <1>c, <1>d DEF StartUI, StopUI
    <3> QED
      BY <1>0, <2>1, <3>1, CallsQuietly
  <2>3. UNCHANGED <<owner, head, listed, records, live, sharing, mixed>>
    BY <1>2 DEF StartUI, StopUI, listVars
  <2> QED
    BY <1>1, <2>2, <2>3
<1>3. ASSUME NEW s \in Scripts, CreateUi(s)
      PROVE  ListInv'
  <2>1. Quietly
    <3>1. Return(s) /\ pc[s] \notin Setting
      BY <1>3 DEF CreateUi, Setting
    <3> QED
      BY <1>0, <3>1, ReturnsQuietly
  <2>2. UNCHANGED <<owner, head, listed, records, live, sharing>>
    BY <1>3 DEF CreateUi, listVars
  <2>3. /\ "lists" \in mixed' <=> "lists" \in mixed
        /\ "nested" \in mixed' <=> "nested" \in mixed
    BY <1>3 DEF CreateUi
  <2> QED
    BY <1>1, <2>1, <2>2, <2>3
<1>4. ASSUME NEW s \in Scripts, Post(s)
      PROVE  ListInv'
  <2>1. Quietly
    <3>1. Return(s) /\ pc[s] \notin Setting
      BY <1>4 DEF Post, Posting, Setting
    <3> QED
      BY <1>0, <3>1, ReturnsQuietly
  <2>2. UNCHANGED <<owner, head, records, live, sharing, mixed>>
    BY <1>4 DEF Post
  <2>3. listed' = listed \/ \E h : CloseHandle(h)
    BY <1>4 DEF Post
  <2> QED
    BY <1>1, <2>1, <2>2, <2>3
<1>5. ASSUME NEW s \in Scripts, Finalize(s)
      PROVE  ListInv'
  <2>1. PICK f \in objects :
          IF private[f] # NULL /\ threadID # 0
          THEN Call(s, "finalize", f) /\ UNCHANGED <<open, listed>>
          ELSE /\ UNCHANGED <<pc, arg, outer>>
               /\ IF private[f] # NULL THEN CloseHandle(f)
                  ELSE UNCHANGED <<open, listed>>
    BY <1>5 DEF Finalize
  <2>2. f \in Handles /\ Runs(s) /\ UNCHANGED <<owner, head, records, live, sharing, mixed>>
    BY <1>5, <1>c DEF Finalize, Handles
  <2>3. Quietly
    <3>1. CASE Call(s, "finalize", f)
      BY <1>0, <1>d, <2>2, <3>1, CallsQuietly
    <3>2. CASE UNCHANGED <<pc, arg, outer>>
      BY <3>2, StaysQuietly
    <3> QED
      BY <2>1, <3>1, <3>2
  <2>4. listed' = listed \/ \E h : CloseHandle(h)
    BY <2>1
  <2> QED
    BY <1>1, <2>2, <2>3, <2>4
<1>6. ASSUME NEW s \in Scripts, Close(s)
      PROVE  ListInv'
  <2>1. /\ \E h : CloseHandle(h)
        /\ UNCHANGED <<owner, head, records, live, sharing, mixed>>
        /\ UNCHANGED <<pc, arg, outer>>
    BY <1>6 DEF Close, scriptVars
  <2> QED
    BY <1>1, <2>1, StaysQuietly
<1>7. ASSUME NEW s \in Scripts, SetExceptions(s)
      PROVE  ListInv'
  <2>1. PICK f \in objects :
          /\ owner' = private[f]
          /\ Call(s, IF head = NULL THEN "build" ELSE "free", private[f])
    BY <1>7 DEF SetExceptions
  <2> DEFINE l == IF head = NULL THEN "build" ELSE "free"
  <2>2. Call(s, l, private[f]) /\ l \in Labels /\ private[f] \in Handles
    BY <1>c, <2>1 DEF Labels, Setting
  <2>3. /\ pc'[s] = l /\ arg'[s] = owner' /\ l \in {"build", "free"}
        /\ pc[s] # "build" => outer'[s] = outer[s]
        /\ \A t \in Scripts : t # s => pc'[t] = pc[t] /\ arg'[t] = arg[t] /\ outer'[t] = outer[t]
    <3>1. l \in {"build", "free"}
      OBVIOUS
    <3>2. owner' = private[f]
      BY <2>1
    <3> HIDE DEF l
    <3>3. /\ pc'[s] = l /\ arg'[s] = private[f]
          /\ outer'[s] = IF pc[s] = "build" THEN <<arg[s]>> \o outer[s] ELSE outer[s]
          /\ \A t \in Scripts : t # s => pc'[t] = pc[t] /\ arg'[t] = arg[t] /\ outer'[t] = outer[t]
      BY <1>0, <2>2, CallKeeps
    <3> QED
      BY <3>1, <3>2, <3>3
  <2>4. /\ UNCHANGED <<head, listed, records, live>>
        /\ sharing' = IF head = NULL THEN {} ELSE sharing
        /\ Runs(s)
    BY <1>7 DEF SetExceptions
  <2>5. /\ "lists" \notin mixed' => "lists" \notin mixed /\ \A t \in Scripts \ {s} : ~InSet(t)
        /\ "nested" \notin mixed' => "nested" \notin mixed /\ ~InSet(s)
    BY <1>7 DEF SetExceptions
  <2>6. RecordsCounted' /\ SharersLead'
    BY <1>0, <2>4 DEF RecordsCounted, SharersLead
  <2>7. ASSUME "lists" \notin mixed'
        PROVE  OneSetter' /\ \A t \in Scripts \ {s} : ~InSet(t)'
    BY <2>3, <2>5, <2>7 DEF OneSetter, InSet
  <2>8. ASSUME "lists" \notin mixed', "nested" \notin mixed'
        PROVE  OwnersOnly'
    <3>1. pc[s] = "idle" /\ outer[s] = <<>>
      BY <2>4, <2>5, <2>8 DEF InSet, Setting, Runs
    <3>2. outer'[s] = <<>> /\ InSet(s)'
      BY <2>3, <3>1 DEF InSet, Setting
    <3>3. Framed(s)'
      BY <2>3, <2>4, <3>2 DEF Framed, Setting
    <3>4. \A t \in Scripts \ {s} : Framed(t)'
      BY <2>7, <2>8 DEF Framed
    <3> QED
      BY <3>2, <3>3, <3>4 DEF OwnersOnly
  <2> QED
    BY <2>6, <2>7, <2>8 DEF ListInv
<1>8. ASSUME NEW s \in Scripts, FreeList(s) \/ Unregister(s) \/ AddRecord(s)
      PROVE  ListInv'
  <2>1. /\ pc[s] \in Setting /\ pc'[s] \in Setting /\ pc'[s] # "free"
        /\ arg'[s] = arg[s] /\ outer' = outer /\ UNCHANGED <<owner, mixed>>
        /\ \A t \in Scripts : t # s => pc'[t] = pc[t] /\ arg'[t] = arg[t]
    BY <1>8, <1>c DEF FreeList, Unregister, AddRecord, Goto, Setting, scriptVars
  <2>2. RecordsCounted' /\ SharersLead'
    <3>1. CASE FreeList(s)
      BY <1>0, <3>1 DEF FreeList, RecordsCounted, SharersLead
    <3>2. CASE Unregister(s)
      <4>1. UNCHANGED <<head, records, live, sharing>>
        BY <3>2 DEF Unregister
      <4>2. \A h \in Handles : listed'[h] = listed[h] \/ listed'[h] = NULL
        BY <1>c, <3>2 DEF Unregister
      <4>3. RecordsCounted'
        <5>1. \A h \in Handles : listed[h] <= records /\ 0 <= records
          BY <1>0, <1>c DEF RecordsCounted
        <5>2. \A h \in Handles : listed'[h] <= records
          BY <1>a, <4>2, <5>1
        <5> QED
          BY <1>0, <4>1, <5>2 DEF RecordsCounted
      <4>4. SharersLead'
        BY <1>0, <4>1, <4>2 DEF SharersLead
      <4> QED
        BY <4>3, <4>4
    <3>3. CASE AddRecord(s)
      <4>1. /\ records' = records + 1 /\ head' = records' /\ live' = live \union {records'}
            /\ UNCHANGED <<listed, sharing>>
        BY <3>3 DEF AddRecord
      <4>2. records' \notin live /\ \A h \in Handles : listed[h] # records'
        BY <1>0, <1>c, <4>1 DEF RecordsCounted
      <4>3. RecordsCounted'
        BY <1>0, <1>a, <1>c, <4>1 DEF RecordsCounted
      <4>4. SharersLead'
        BY <1>0, <4>1, <4>2 DEF SharersLead
      <4> QED
        BY <4>3, <4>4
    <3> QED
      BY <1>8, <3>1, <3>2, <3>3
  <2>3. \A t \in Scripts : InSet(t)' <=> InSet(t)
    BY <2>1 DEF InSet
  <2>4. OneSetter => OneSetter'
    BY <2>3 DEF OneSetter
  <2>5. ASSUME OneSetter, OwnersOnly
        PROVE  OwnersOnly'
    <3>1. InSet(s) /\ Framed(s) /\ InSet(s)'
      BY <2>1, <2>3, <2>5 DEF InSet, OwnersOnly
    <3>2. sharing' = {}
      <4>1. FreeList(s) => sharing' = {}
        BY DEF FreeList
      <4>2. Unregister(s) \/ AddRecord(s) => pc[s] # "free" /\ sharing' = sharing
        BY DEF Unregister, AddRecord
      <4> QED
        BY <1>8, <3>1, <4>1, <4>2 DEF Framed
    <3>3. Framed(s)'
      BY <2>1, <3>1, <3>2 DEF Framed
    <3>4. \A t \in Scripts \ {s} : Framed(t)'
      BY <2>3, <2>5, <3>1 DEF Framed, OneSetter
    <3> QED
      BY <3>1, <3>3, <3>4 DEF OwnersOnly
  <2> QED
    BY <1>b, <2>1, <2>2, <2>4, <2>5 DEF ListInv
<1>9. ASSUME NEW s \in Scripts, Register(s)
      PROVE  ListInv'
  <2>1. /\ pc[s] = "build" /\ UNCHANGED <<owner, mixed, head, records, live>> /\ Return(s)
    BY <1>9 DEF Register
  <2>2. /\ outer[s] = <<>> => pc'[s] = "idle" /\ outer'[s] = <<>>
        /\ \A t \in Scripts : t # s => pc'[t] = pc[t] /\ arg'[t] = arg[t] /\ outer'[t] = outer[t]
    BY <1>0, <2>1, ReturnKeeps
  <2>3. \/ UNCHANGED <<listed, sharing>>
        \/ /\ listed' = [listed EXCEPT ![arg[s]] = head]
           /\ sharing' = sharing \union {arg[s]}
    BY <1>9 DEF Register
  <2>4. /\ \A h \in Handles : h # arg[s] =>
             listed'[h] = listed[h] /\ (h \in sharing' <=> h \in sharing)
        /\ \/ listed'[arg[s]] = listed[arg[s]] /\ sharing' = sharing
           \/ listed'[arg[s]] = head /\ arg[s] \in sharing'
        /\ sharing' \subseteq sharing \union {arg[s]}
    BY <1>c, <2>3
  <2>5. (head = NULL \/ head \in live) /\ head <= records
    BY <1>0, <1>a, <1>c DEF RecordsCounted
  <2>6. RecordsCounted'
    <3>1. \A h \in Handles : listed'[h] <= records
      BY <1>0, <1>c, <2>4, <2>5 DEF RecordsCounted
    <3> QED
      BY <1>0, <2>1, <3>1 DEF RecordsCounted
  <2>7. SharersLead'
    <3> SUFFICES ASSUME NEW h \in Handles, listed'[h] # NULL
                 PROVE  listed'[h] \in live <=> h \in sharing'
      BY <2>1 DEF SharersLead
    <3> QED
      BY <1>0, <2>4, <2>5 DEF SharersLead
  <2>8. InSet(s) /\ \A t \in Scripts : InSet(t)' => InSet(t)
    BY <2>1, <2>2 DEF InSet, Setting
  <2>9. OneSetter => OneSetter'
    BY <2>8 DEF OneSetter
  <2>10. ASSUME OneSetter, OwnersOnly
         PROVE  OwnersOnly'
    <3>1. outer[s] = <<>> /\ arg[s] = owner /\ sharing = {}
      BY <2>1, <2>8, <2>10 DEF OwnersOnly, Framed, Setting
    <3>2. ~InSet(s)'
      BY <2>2, <3>1 DEF InSet, Setting
    <3>3. \A t \in Scripts : ~InSet(t)'
      BY <2>8, <2>10, <3>2 DEF OneSetter
    <3> QED
      BY <2>1, <2>4, <3>1, <3>3 DEF OwnersOnly, Framed
  <2> QED
    BY <1>b, <2>1, <2>6, <2>7, <2>9, <2>10 DEF ListInv
<1>10. ASSUME (\E t \in UiThreads : UiStep(t)) \/ UNCHANGED vars
       PROVE  ListInv'
  <2>1. UNCHANGED <<owner, head, listed, records, live, sharing, mixed>>
        /\ UNCHANGED <<pc, arg, outer>>
    BY <1>10
       DEF UiStep, EnterLoop, OpenWindow, CloseWindows, Quit, fileVars, listVars,
           scriptVars, vars
  <2> QED
    BY <1>1, <2>1, StaysQuietly
<1> QED
  BY <1>2, <1>3, <1>4, <1>5, <1>6, <1>7, <1>8, <1>9, <1>10 DEF Next, ScriptStep
-----------------------------------------------------------------------------
LEMMA ListInvariant == Spec => []ListInv
<1>1. Init => ListInv
  BY InitList
<1>2. ListInv /\ [Next]_vars => ListInv'
  <2> SUFFICES ASSUME ListInv, [Next]_vars PROVE ListInv'
    OBVIOUS
  <2>1. TypeOK'
    BY TypeOKStep DEF ListInv
  <2> QED
    BY <2>1, ListStep
<1> QED
  BY <1>1, <1>2, PTL DEF Spec

(* Every variable keeps its type: in particular no thread destroys more    *)
(* windows than it has, and the counter does not pass zero.                *)
THEOREM TypeCorrect == Spec => []TypeOK
<1>1. ListInv => TypeOK
  BY DEF ListInv
<1> QED
  BY <1>1, ListInvariant, PTL

(* A callback leads to records that are there exactly if its file was      *)
(* registered since sets[0] was last emptied, and without calls from       *)
(* within only the owner of sets[0] was, until two scripts are in          *)
(* SetExceptionsList at once.                                              *)
THEOREM ListIsOwnersAlways == Spec => []ListIsOwners
<1>1. ListInv => ListIsOwners
  <2>1. TypeOK => open \union {NULL} \subseteq Handles
    BY DEF TypeOK, Handles
  <2> QED
    BY <2>1 DEF ListInv, SharersLead, OwnersOnly, ListIsOwners
<1> QED
  BY <1>1, ListInvariant, PTL
-----------------------------------------------------------------------------
(* Until two progress threads were there at once, one thread counts.       *)
OneCounts == \A t, u \in UiThreads : Alive(t) /\ Alive(u) => t = u

(* There are ever finitely many windows, whatever the number of files.     *)
CountInv ==
  /\ IsFiniteSet(AllWindows)
  /\ "threads" \notin mixed =>
       OneCounts /\ nWindowsOpen = Cardinality(AllWindows) + unmade

LEMMA WindowOf ==
  ASSUME NEW f
  PROVE  \A w : w \in UNION {{<<t, h, i>> : i \in 1..f[t][h]} : t \in UiThreads, h \in Handles} <=>
           \E t \in UiThreads, h \in Handles : \E i \in 1..f[t][h] : w = <<t, h, i>>
<1> DEFINE M(t, h) == {<<t, h, i>> : i \in 1..f[t][h]}
<1>1. \A w, t, h : w \in M(t, h) <=> \E i \in 1..f[t][h] : w = <<t, h, i>>
  OBVIOUS
<1> HIDE DEF M
<1>2. \A w : w \in UNION {M(t, h) : t \in UiThreads, h \in Handles} <=>
           \E t \in UiThreads, h \in Handles : w \in M(t, h)
  OBVIOUS
<1>3. \A w : w \in UNION {M(t, h) : t \in UiThreads, h \in Handles} <=>
           \E t \in UiThreads, h \in Handles : \E i \in 1..f[t][h] : w = <<t, h, i>>
  BY <1>1, <1>2
<1> QED
  BY <1>3 DEF M

LEMMA WindowsNow ==
  \A w : w \in AllWindows <=>
    \E t \in UiThreads, h \in Handles : \E i \in 1..windows[t][h] : w = <<t, h, i>>
BY WindowOf DEF AllWindows, Made

(* A window more.                                                          *)
LEMMA WindowMade ==
  ASSUME TypeOK, IsFiniteSet(AllWindows), NEW t \in UiThreads, NEW h \in Handles,
         windows' = [windows EXCEPT ![t][h] = @ + 1]
  PROVE  /\ IsFiniteSet(AllWindows')
         /\ Cardinality(AllWindows') = Cardinality(AllWindows) + 1
<1> DEFINE w == <<t, h, windows[t][h] + 1>>
<1>1. /\ windows \in [UiThreads -> [Handles -> Nat]] /\ windows[t][h] \in Nat
  BY DEF TypeOK
<1>2. /\ windows'[t][h] = windows[t][h] + 1
      /\ \A u \in UiThreads, g \in Handles :
           <<u, g>> # <<t, h>> => windows'[u][g] = windows[u][g]
  BY <1>1
<1>3. \A x : x \in AllWindows' <=>
        \E u \in UiThreads, g \in Handles : \E i \in 1..windows'[u][g] : x = <<u, g, i>>
  BY WindowOf DEF AllWindows, Made
<1>4. 1..(windows[t][h] + 1) = (1..windows[t][h]) \union {windows[t][h] + 1}
  <2>1. \A n \in Nat : 1..(n + 1) = (1..n) \union {n + 1}
    OBVIOUS
  <2> QED
    BY <1>1, <2>1
<1>5. AllWindows' = AllWindows \union {w}
  <2>1. ASSUME NEW x \in AllWindows' PROVE x \in AllWindows \union {w}
    <3>1. PICK u \in UiThreads, g \in Handles, i \in Nat :
            i \in 1..windows'[u][g] /\ x = <<u, g, i>>
      BY <1>3, <2>1
    <3>2. CASE u = t /\ g = h
      BY <1>2, <1>4, <3>1, <3>2, WindowsNow
    <3>3. CASE ~(u = t /\ g = h)
      BY <1>2, <3>1, <3>3, WindowsNow
    <3> QED
      BY <3>2, <3>3
  <2>2. ASSUME NEW x \in AllWindows PROVE x \in AllWindows'
    <3>1. PICK u \in UiThreads, g \in Handles, i \in Nat :
            i \in 1..windows[u][g] /\ x = <<u, g, i>>
      BY <2>2, WindowsNow
    <3>2. i \in 1..windows'[u][g]
      BY <1>2, <1>4, <3>1
    <3> QED
      BY <1>3, <3>1, <3>2
  <2>3. w \in AllWindows'
    <3>1. windows[t][h] + 1 \in 1..windows'[t][h]
      BY <1>1, <1>2
    <3> QED
      BY <1>3, <3>1
  <2> QED
    BY <2>1, <2>2, <2>3
<1>6. w \notin AllWindows
  <2> SUFFICES ASSUME w \in AllWindows PROVE FALSE
    OBVIOUS
  <2>1. PICK u \in UiThreads, g \in Handles, i \in Nat :
            i \in 1..windows[u][g] /\ w = <<u, g, i>>
    BY WindowsNow
  <2>2. u = t /\ g = h /\ i = windows[t][h] + 1
    BY <2>1
  <2> QED
    BY <1>1, <2>1, <2>2
<1> HIDE DEF w
<1> QED
  BY <1>5, <1>6, FS_AddElement

(* Windows of a handle less.                                               *)
LEMMA WindowsGone ==
  ASSUME TypeOK, IsFiniteSet(AllWindows), NEW t \in UiThreads, NEW h \in Handles,
         NEW d \in Nat, d <= windows[t][h],
         windows' = [windows EXCEPT ![t][h] = @ - d]
  PROVE  /\ IsFiniteSet(AllWindows')
         /\ Cardinality(AllWindows') = Cardinality(AllWindows) - d
<1> DEFINE n == windows[t][h]
           I == (n - d + 1)..n
           D == {<<t, h, i>> : i \in I}
<1>1. windows \in [UiThreads -> [Handles -> Nat]] /\ n \in Nat
  BY DEF TypeOK
<1>2. /\ windows'[t][h] = n - d
      /\ \A u \in UiThreads, g \in Handles :
           <<u, g>> # <<t, h>> => windows'[u][g] = windows[u][g]
  BY <1>1
<1>3. \A x : x \in AllWindows' <=>
        \E u \in UiThreads, g \in Handles : \E i \in 1..windows'[u][g] : x = <<u, g, i>>
  BY WindowOf DEF AllWindows, Made
<1>4. \A i : i \in 1..(n - d) <=> i \in 1..n /\ i \notin I
  BY <1>1
<1>5. AllWindows' = AllWindows \ D
  <2>1. ASSUME NEW x \in AllWindows' PROVE x \in AllWindows /\ x \notin D
    <3>1. PICK u \in UiThreads, g \in Handles, i \in Nat :
            i \in 1..windows'[u][g] /\ x = <<u, g, i>>
      BY <1>3, <2>1
    <3>2. CASE u = t /\ g = h
      BY <1>2, <1>4, <3>1, <3>2, WindowsNow
    <3>3. CASE ~(u = t /\ g = h)
      BY <1>2, <3>1, <3>3, WindowsNow
    <3> QED
      BY <3>2, <3>3
  <2>2. ASSUME NEW x \in AllWindows, x \notin D PROVE x \in AllWindows'
    <3>1. PICK u \in UiThreads, g \in Handles, i \in Nat :
            i \in 1..windows[u][g] /\ x = <<u, g, i>>
      BY <2>2, WindowsNow
    <3>2. i \in 1..windows'[u][g]
      <4>1. CASE u = t /\ g = h
        BY <1>2, <1>4, <2>2, <3>1, <4>1
      <4>2. CASE ~(u = t /\ g = h)
        BY <1>2, <3>1, <4>2
      <4> QED
        BY <4>1, <4>2
    <3> QED
      BY <1>3, <3>1, <3>2
  <2> QED
    BY <2>1, <2>2
<1>6. AllWindows \cap D = D
  <2>1. ASSUME NEW i \in I PROVE <<t, h, i>> \in AllWindows
    <3>1. i \in 1..windows[t][h]
      BY <1>1
    <3> QED
      BY <3>1, WindowsNow
  <2> QED
    BY <2>1
<1>7. Cardinality(D) = d
  <2>1. IsFiniteSet(I) /\ Cardinality(I) = d
    <3>1. n - d + 1 \in Int /\ n \in Int
      BY <1>1
    <3>2. IF n - d + 1 > n THEN 0 = d ELSE n - (n - d + 1) + 1 = d
      BY <1>1
    <3> QED
      BY <3>1, <3>2, FS_Interval
  <2> DEFINE f == [i \in I |-> <<t, h, i>>]
  <2>2. f \in Bijection(I, D)
    <3>1. f \in [I -> D]
      OBVIOUS
    <3>2. \A i, j \in I : f[i] = f[j] => i = j
      OBVIOUS
    <3>3. \A x \in D : \E i \in I : f[i] = x
      OBVIOUS
    <3> HIDE DEF f, I, D
    <3> QED
      BY <3>1, <3>2, <3>3, Fun_IsBij, Zenon
  <2>3. ExistsBijection(I, D)
    BY <2>2 DEF ExistsBijection
  <2> HIDE DEF I, D
  <2> QED
    BY <2>1, <2>3, FS_Bijection
<1> HIDE DEF D
<1> QED
  BY <1>5, <1>6, <1>7, FS_Difference

LEMMA InitCount == Init => CountInv
<1> SUFFICES ASSUME Init PROVE CountInv
  OBVIOUS
<1>1. AllWindows = {}
  <2>1. \A t \in UiThreads, h \in Handles : 1..windows[t][h] = {}
    BY DEF Init
  <2> QED
    BY <2>1, WindowsNow
<1>2. IsFiniteSet(AllWindows) /\ Cardinality(AllWindows) = 0
  BY <1>1, FS_EmptySet
<1>3. OneCounts
  BY DEF Init, OneCounts, Alive
<1>4. nWindowsOpen = 0 /\ unmade = 0
  BY DEF Init
<1> QED
  BY <1>2, <1>3, <1>4 DEF CountInv

(* The counter follows the windows.                                        *)
LEMMA CountStep ==
  ASSUME TypeOK, CountInv, [Next]_vars
  PROVE  CountInv'
<1>0. IsFiniteSet(AllWindows) /\ Cardinality(AllWindows) \in Nat
  BY FS_CardinalityType DEF CountInv
<1>1. /\ ui \in [UiThreads -> {"none", "starting", "loop", "quit", "dead"}]
      /\ windows \in [UiThreads -> [Handles -> Nat]]
      /\ nWindowsOpen \in Nat /\ unmade \in Nat
  BY DEF TypeOK
<1>2. "threads" \notin mixed =>
        OneCounts /\ nWindowsOpen = Cardinality(AllWindows) + unmade
  BY DEF CountInv
<1>3. ASSUME UNCHANGED <<windows, nWindowsOpen, unmade>>,
             "threads" \notin mixed' => "threads" \notin mixed,
             "threads" \notin mixed' => OneCounts'
      PROVE  CountInv'
  <2>1. AllWindows' = AllWindows
    BY <1>3 DEF AllWindows, Made
  <2> QED
    BY <1>0, <1>2, <1>3, <2>1 DEF CountInv
<1>4. ASSUME NEW s \in Scripts, CreateUi(s)
      PROVE  CountInv'
  <2>1. PICK t \in UiThreads : ui' = [ui EXCEPT ![t] = "starting"]
    BY <1>4 DEF CreateUi
  <2>2. "threads" \notin mixed' =>
          "threads" \notin mixed /\ \A u \in UiThreads : ~Alive(u)
    BY <1>4 DEF CreateUi
  <2>3. "threads" \notin mixed' => OneCounts'
    BY <1>1, <2>1, <2>2 DEF OneCounts, Alive
  <2> QED
    BY <1>3, <1>4, <2>2, <2>3 DEF CreateUi
<1>5. ASSUME NEW s \in Scripts, ScriptStep(s), ~CreateUi(s)
      PROVE  CountInv'
  <2>1. UNCHANGED <<ui, windows, nWindowsOpen, unmade>>
    BY <1>5 DEF ScriptStep, StartUI, StopUI, Post, Finalize, Close, SetExceptions,
                FreeList, Unregister, AddRecord, Register, uiVars
  <2>2. "threads" \notin mixed' => "threads" \notin mixed
    BY <1>5 DEF ScriptStep, StartUI, StopUI, Post, Finalize, Close, SetExceptions,
                FreeList, Unregister, AddRecord, Register
  <2>3. OneCounts => OneCounts'
    BY <2>1 DEF OneCounts, Alive
  <2> QED
    BY <1>2, <1>3, <2>1, <2>2, <2>3
<1>6. ASSUME NEW t \in UiThreads, EnterLoop(t) \/ Quit(t)
      PROVE  CountInv'
  <2>1. /\ UNCHANGED <<windows, nWindowsOpen, unmade, mixed>>
        /\ Alive(t)
        /\ \A u \in UiThreads : u # t => ui'[u] = ui[u]
    BY <1>1, <1>6 DEF EnterLoop, Quit, Alive
  <2>2. OneCounts => OneCounts'
    BY <2>1 DEF OneCounts, Alive
  <2> QED
    BY <1>2, <1>3, <2>1, <2>2
<1>7. ASSUME NEW t \in UiThreads, NEW n, Counted(t, n), Alive(t), OneCounts
      PROVE  nWindowsOpen' = n
  BY <1>7 DEF Counted, OneCounts
<1>8. ASSUME NEW t \in UiThreads, OpenWindow(t)
      PROVE  CountInv'
  <2>1. PICK h \in Handles :
          /\ Take(t, "open", h)
          /\ \/ windows' = [windows EXCEPT ![t][h] = @ + 1] /\ UNCHANGED unmade
             \/ unmade' = unmade + 1 /\ UNCHANGED windows
    BY <1>8 DEF OpenWindow
  <2>2. /\ UNCHANGED <<ui, mixed>> /\ Alive(t) /\ Counted(t, nWindowsOpen + 1)
    BY <1>8, <2>1 DEF OpenWindow, Take, Alive
  <2>3. OneCounts => OneCounts' /\ nWindowsOpen' = nWindowsOpen + 1
    BY <1>7, <2>2 DEF OneCounts, Alive
  <2>4. CASE windows' = [windows EXCEPT ![t][h] = @ + 1] /\ UNCHANGED unmade
    <3>1. /\ IsFiniteSet(AllWindows')
          /\ Cardinality(AllWindows') = Cardinality(AllWindows) + 1
      BY <1>0, <2>4, WindowMade
    <3> QED
      BY <1>0, <1>1, <1>2, <2>2, <2>3, <2>4, <3>1 DEF CountInv
  <2>5. CASE unmade' = unmade + 1 /\ UNCHANGED windows
    <3>1. AllWindows' = AllWindows
      BY <2>5 DEF AllWindows, Made
    <3> QED
      BY <1>0, <1>1, <1>2, <2>2, <2>3, <2>5, <3>1 DEF CountInv
  <2> QED
    BY <2>1, <2>4, <2>5
<1>9. ASSUME NEW t \in UiThreads, CloseWindows(t)
      PROVE  CountInv'
  <2>1. PICK h \in Handles :
          /\ Take(t, "close", h)
          /\ Destroyed(t, h) <= nWindowsOpen
          /\ windows' = [windows EXCEPT ![t][h] = @ - Destroyed(t, h)]
          /\ Counted(t, nWindowsOpen - Destroyed(t, h))
          /\ ui' = [ui EXCEPT ![t] = "quit"] \/ UNCHANGED ui
    BY <1>9 DEF CloseWindows
  <2> DEFINE d == Destroyed(t, h)
  <2>2. d \in Nat /\ d <= windows[t][h]
    BY <1>1 DEF Destroyed
  <2>3. UNCHANGED <<unmade, mixed>> /\ Alive(t) /\ Alive(t)'
        /\ \A u \in UiThreads : u # t => ui'[u] = ui[u]
    BY <1>1, <1>9, <2>1 DEF CloseWindows, Take, Alive
  <2> HIDE DEF d
  <2>4. OneCounts => OneCounts'
    BY <2>3 DEF OneCounts, Alive
  <2>5. OneCounts => nWindowsOpen' = nWindowsOpen - d
    BY <1>7, <2>1, <2>3 DEF d
  <2>6. /\ IsFiniteSet(AllWindows')
        /\ Cardinality(AllWindows') = Cardinality(AllWindows) - d
    <3>1. windows' = [windows EXCEPT ![t][h] = @ - d]
      BY <2>1 DEF d
    <3> QED
      BY <1>0, <2>2, <3>1, WindowsGone
  <2> QED
    <3>1. nWindowsOpen = Cardinality(AllWindows) + unmade =>
            nWindowsOpen - d = (Cardinality(AllWindows) - d) + unmade
      BY <1>0, <1>1, <2>2
    <3>2. unmade' = unmade /\ mixed' = mixed
      BY <2>3
    <3> QED
      BY <1>2, <2>4, <2>5, <2>6, <3>1, <3>2, Zenon DEF CountInv
<1>10. CASE UNCHANGED vars
  <2>1. UNCHANGED <<ui, windows, nWindowsOpen, unmade, mixed>>
    BY <1>10 DEF vars, uiVars
  <2>2. OneCounts => OneCounts'
    BY <2>1 DEF OneCounts, Alive
  <2> QED
    BY <1>2, <1>3, <2>1, <2>2
<1> QED
  BY <1>4, <1>5, <1>6, <1>8, <1>9, <1>10 DEF Next, UiStep

(* The counter of the progress windows is the number of those that are     *)
(* there and of those that could not be made, for any number of scripts,   *)
(* files and calls, until two progress threads were there at once.         *)
THEOREM CountsWindowsAlways == Spec => []CountsWindows
<1>1. Init => TypeOK /\ CountInv
  BY InitList, InitCount DEF ListInv
<1>2. TypeOK /\ CountInv /\ [Next]_vars => (TypeOK /\ CountInv)'
  <2> SUFFICES ASSUME TypeOK, CountInv, [Next]_vars
               PROVE  TypeOK' /\ CountInv'
    OBVIOUS
  <2> QED
    BY TypeOKStep, CountStep
<1>3. CountInv => CountsWindows
  BY DEF CountInv, CountsWindows
<1> QED
  BY <1>1, <1>2, <1>3, PTL DEF Spec
-----------------------------------------------------------------------------
(* The match of names (MatchEntry, exceptions.cpp:20-88).                 *)

(* A set of numbers that is not empty has a least element.                 *)
LEMMA Least ==
  ASSUME NEW T \in SUBSET Nat, T # {}
  PROVE  \E k \in T : \A j \in T : k <= j
<1>1. \E k \in T : \A j \in T : ~ (<<j, k>> \in OpToRel(<, Nat))
  BY NatLessThanWellFounded, WFMin, Zenon
<1>2. PICK k \in T : \A j \in T : ~ (<<j, k>> \in OpToRel(<, Nat))
  BY <1>1
<1>3. ASSUME NEW j \in T PROVE k <= j
  <2>1. <<j, k>> \notin OpToRel(<, Nat)
    BY <1>2
  <2>2. j \in Nat /\ k \in Nat
    BY <1>2
  <2>3. ~ (j < k)
    BY <2>1, <2>2 DEF OpToRel
  <2> QED
    BY <2>2, <2>3
<1> QED
  BY <1>2, <1>3

(* The table a pattern and a string fill in: Glob, position by position.   *)
Entry(p, s, f, i, j) ==
  IF i > Len(p) THEN j > Len(s)
  ELSE IF p[i] = Star
       THEN f[<<i + 1, j>>] \/ (j <= Len(s) /\ f[<<i, j + 1>>])
  ELSE /\ j <= Len(s)
       /\ p[i] \in {Question, s[j]}
       /\ f[<<i + 1, j + 1>>]

Cells(p, s) == (1..(Len(p) + 1)) \X (1..(Len(s) + 1))

IsTable(p, s, f) == f = [c \in Cells(p, s) |-> Entry(p, s, f, c[1], c[2])]

Table(p, s) == CHOOSE f : IsTable(p, s, f)

LEMMA GlobIsTable ==
  ASSUME NEW p, NEW s
  PROVE  Glob(p, s) = Table(p, s)[<<1, 1>>]
BY DEF Glob, Table, IsTable, Entry, Cells

(* How far a cell is from the end of the two strings.                      *)
Left(p, s, c) == (Len(p) + 1 - c[1]) + (Len(s) + 1 - c[2])

(* The table exists: it is filled in from the ends of the two strings.     *)
LEMMA TableExists ==
  ASSUME NEW p, NEW s, Len(p) \in Nat, Len(s) \in Nat
  PROVE  \E f : IsTable(p, s, f)
<1> DEFINE Right(f, n) ==
      \A c \in Cells(p, s) : Left(p, s, c) < n => f[c] = Entry(p, s, f, c[1], c[2])
           Filled(n) == \E f : f = [c \in Cells(p, s) |-> f[c]] /\ Right(f, n)
           Bad == {n \in Nat : ~Filled(n)}
<1>1. \A c \in Cells(p, s) :
        /\ c[1] \in 1..(Len(p) + 1) /\ c[2] \in 1..(Len(s) + 1) /\ c = <<c[1], c[2]>>
        /\ Left(p, s, c) \in 0..(Len(p) + Len(s))
  BY DEF Cells, Left
<1>2. 0 \notin Bad
  <2> DEFINE f == [c \in Cells(p, s) |-> 0]
  <2>1. f = [c \in Cells(p, s) |-> f[c]]
    OBVIOUS
  <2>2. Right(f, 0)
    BY <1>1
  <2> QED
    BY <2>1, <2>2
<1>3. ASSUME NEW n \in Nat, Filled(n)
      PROVE  Filled(n + 1)
  <2>1. PICK f : f = [c \in Cells(p, s) |-> f[c]] /\ Right(f, n)
    BY <1>3
  <2> DEFINE g == [c \in Cells(p, s) |-> Entry(p, s, f, c[1], c[2])]
  <2>2. g = [c \in Cells(p, s) |-> g[c]]
    OBVIOUS
  <2>3. ASSUME NEW c \in Cells(p, s), Left(p, s, c) < n + 1
        PROVE  g[c] = Entry(p, s, g, c[1], c[2])
    <3>1. \A d \in Cells(p, s) : Left(p, s, d) < n => g[d] = f[d]
      BY <2>1
    <3>2. PICK i \in 1..(Len(p) + 1), j \in 1..(Len(s) + 1) :
            /\ i = c[1] /\ j = c[2]
            /\ (Len(p) + 1 - i) + (Len(s) + 1 - j) < n + 1
      BY <1>1, <2>3 DEF Left
    <3>3. ASSUME NEW k \in 1..(Len(p) + 1), NEW l \in 1..(Len(s) + 1), k + l > i + j
          PROVE  g[<<k, l>>] = f[<<k, l>>]
      <4>1. <<k, l>> \in Cells(p, s)
        BY DEF Cells
      <4>2. (Len(p) + 1 - k) + (Len(s) + 1 - l) < n
        <5>1. (Len(p) + 1 - i) + (Len(s) + 1 - j) < n + 1
          BY <3>2
        <5> QED
          BY ONLY <3>3, <5>1, Len(p) \in Nat, Len(s) \in Nat, n \in Nat,
               i \in Nat, j \in Nat, k \in Nat, l \in Nat
      <4>3. <<k, l>>[1] = k /\ <<k, l>>[2] = l
        OBVIOUS
      <4>4. Left(p, s, <<k, l>>) < n
        BY ONLY <4>2, <4>3, Zenon DEF Left
      <4> QED
        BY <3>1, <4>1, <4>4
    <3>4. Entry(p, s, f, i, j) = Entry(p, s, g, i, j)
      <4> HIDE DEF g
      <4>1. CASE i > Len(p)
        BY <4>1 DEF Entry
      <4>2. CASE i <= Len(p) /\ j <= Len(s)
        <5>1. i + 1 \in 1..(Len(p) + 1) /\ j + 1 \in 1..(Len(s) + 1)
          BY <4>2
        <5>2. i + 1 + j > i + j /\ i + (j + 1) > i + j /\ i + 1 + (j + 1) > i + j
          OBVIOUS
        <5>3. g[<<i + 1, j>>] = f[<<i + 1, j>>]
          BY ONLY <3>3, <5>1, <5>2, i \in 1..(Len(p) + 1), j \in 1..(Len(s) + 1)
        <5>4. g[<<i, j + 1>>] = f[<<i, j + 1>>]
          BY ONLY <3>3, <5>1, <5>2, i \in 1..(Len(p) + 1), j \in 1..(Len(s) + 1)
        <5>5. g[<<i + 1, j + 1>>] = f[<<i + 1, j + 1>>]
          BY ONLY <3>3, <5>1, <5>2
        <5> QED
          BY <5>3, <5>4, <5>5, Zenon DEF Entry
      <4>3. CASE i <= Len(p) /\ ~(j <= Len(s))
        <5>1. i + 1 \in 1..(Len(p) + 1) /\ i + 1 + j > i + j
          BY <4>3
        <5>2. g[<<i + 1, j>>] = f[<<i + 1, j>>]
          BY <3>3, <5>1
        <5> QED
          BY <4>3, <5>2, Zenon DEF Entry
      <4> QED
        BY <4>1, <4>2, <4>3
    <3>5. g[c] = Entry(p, s, f, i, j)
      BY <3>2
    <3> QED
      BY <3>2, <3>4, <3>5, Zenon
  <2> QED
    BY <2>2, <2>3
<1>4. Bad = {}
  <2> SUFFICES ASSUME Bad # {} PROVE FALSE
    OBVIOUS
  <2>1. PICK n \in Bad : \A k \in Bad : n <= k
    <3>1. Bad \in SUBSET Nat
      OBVIOUS
    <3> HIDE DEF Bad
    <3> QED
      BY <3>1, Least
  <2>2. n \in Nat /\ n # 0
    BY <1>2, <2>1
  <2>3. n - 1 \in Nat /\ n - 1 \notin Bad
    <3>1. n - 1 \in Nat /\ ~(n <= n - 1)
      BY <2>2
    <3> HIDE DEF Bad
    <3> QED
      BY <2>1, <3>1
  <2>4. Filled(n - 1)
    BY <2>3
  <2>5. Filled((n - 1) + 1)
    <3> HIDE DEF Filled
    <3> QED
      BY <1>3, <2>3, <2>4
  <2>6. (n - 1) + 1 = n
    BY <2>2
  <2> HIDE DEF Filled
  <2> QED
    BY <2>1, <2>5, <2>6
<1>5. Filled(Len(p) + Len(s) + 1)
  <2>1. Len(p) + Len(s) + 1 \in Nat
    OBVIOUS
  <2> HIDE DEF Filled
  <2> QED
    BY <1>4, <2>1
<1>6. PICK f : f = [c \in Cells(p, s) |-> f[c]] /\ Right(f, Len(p) + Len(s) + 1)
  BY <1>5
<1>7. \A c \in Cells(p, s) : f[c] = Entry(p, s, f, c[1], c[2])
  BY <1>1, <1>6
<1>8. IsTable(p, s, f)
  BY <1>6, <1>7 DEF IsTable
<1> QED
  BY <1>8

(* What an entry says.                                                     *)
Hit(p, s, i, j) == Table(p, s)[<<i, j>>]

LEMMA GlobHit == \A p, s : Glob(p, s) = Hit(p, s, 1, 1)
BY GlobIsTable DEF Hit

LEMMA HitEntry ==
  ASSUME NEW p, NEW s, Len(p) \in Nat, Len(s) \in Nat,
         NEW i \in 1..(Len(p) + 1), NEW j \in 1..(Len(s) + 1)
  PROVE  /\ i > Len(p) => (Hit(p, s, i, j) <=> j > Len(s))
         /\ i <= Len(p) /\ p[i] = Star =>
              (Hit(p, s, i, j) <=>
                 Hit(p, s, i + 1, j) \/ (j <= Len(s) /\ Hit(p, s, i, j + 1)))
         /\ i <= Len(p) /\ p[i] # Star =>
              (Hit(p, s, i, j) <=>
                 j <= Len(s) /\ p[i] \in {Question, s[j]} /\ Hit(p, s, i + 1, j + 1))
<1>1. IsTable(p, s, Table(p, s))
  BY TableExists DEF Table
<1>2. <<i, j>> \in Cells(p, s)
  BY DEF Cells
<1>3. Table(p, s)[<<i, j>>] = Entry(p, s, Table(p, s), i, j)
  BY <1>1, <1>2 DEF IsTable
<1>4. Hit(p, s, i, j) = Entry(p, s, Table(p, s), i, j)
  BY <1>3, Zenon DEF Hit
<1>5. Hit(p, s, i, j) =
        IF i > Len(p) THEN j > Len(s)
        ELSE IF p[i] = Star
             THEN Hit(p, s, i + 1, j) \/ (j <= Len(s) /\ Hit(p, s, i, j + 1))
        ELSE /\ j <= Len(s)
             /\ p[i] \in {Question, s[j]}
             /\ Hit(p, s, i + 1, j + 1)
  BY ONLY <1>4, Zenon DEF Hit, Entry
<1>6. i <= Len(p) <=> ~(i > Len(p))
  OBVIOUS
<1> QED
  BY <1>5, <1>6, Zenon

(* A set of cells that holds a cell whenever it holds all those to the     *)
(* right and below is the whole table.                                     *)
LEMMA CellInduction ==
  ASSUME NEW P \in Nat, NEW S \in Nat,
         NEW H,
         \A i \in 1..(P + 1), j \in 1..(S + 1) :
           (\A k \in i..(P + 1), l \in j..(S + 1) :
              k + l > i + j => <<k, l>> \in H) => <<i, j>> \in H
  PROVE  \A i \in 1..(P + 1), j \in 1..(S + 1) : <<i, j>> \in H
<1> DEFINE Bad == {n \in Nat : \E i \in 1..(P + 1), j \in 1..(S + 1) :
                     <<i, j>> \notin H /\ n = P + 1 - i + (S + 1 - j)}
<1> SUFFICES ASSUME NEW a \in 1..(P + 1), NEW b \in 1..(S + 1), <<a, b>> \notin H
             PROVE  FALSE
  OBVIOUS
<1>1. P + 1 - a + (S + 1 - b) \in Bad
  <2>1. P + 1 - a + (S + 1 - b) \in Nat
    OBVIOUS
  <2> QED
    BY <2>1
<1>2. PICK n \in Bad : \A k \in Bad : n <= k
  <2>1. Bad \in SUBSET Nat /\ Bad # {}
    BY <1>1
  <2> HIDE DEF Bad
  <2> QED
    BY <2>1, Least
<1>3. PICK i \in 1..(P + 1), j \in 1..(S + 1) :
        <<i, j>> \notin H /\ n = P + 1 - i + (S + 1 - j)
  BY <1>2
<1>4. ASSUME NEW k \in i..(P + 1), NEW l \in j..(S + 1), k + l > i + j
      PROVE  <<k, l>> \in H
  <2> SUFFICES ASSUME <<k, l>> \notin H PROVE FALSE
    OBVIOUS
  <2>1. k \in 1..(P + 1) /\ l \in 1..(S + 1)
    OBVIOUS
  <2>2. P + 1 - k + (S + 1 - l) \in Nat
    BY <2>1
  <2>3. P + 1 - k + (S + 1 - l) \in Bad
    BY <2>1, <2>2
  <2>4. P + 1 - k + (S + 1 - l) < n
    BY <1>3, <1>4, <2>1
  <2>5. n <= P + 1 - k + (S + 1 - l)
    <3> HIDE DEF Bad
    <3> QED
      BY <1>2, <2>3
  <2>6. n \in Nat
    BY <1>2
  <2> QED
    BY <2>2, <2>4, <2>5, <2>6
<1> QED
  BY <1>3, <1>4

(* A pattern that ends in stars takes whatever the string ends in.         *)
LEMMA StarsAbsorb ==
  ASSUME NEW p, NEW s, Len(p) \in Nat, Len(s) \in Nat,
         NEW a \in 1..Len(p), \A k \in a..Len(p) : p[k] = Star,
         NEW b \in 1..(Len(s) + 1)
  PROVE  Hit(p, s, a, b)
<1> DEFINE H == {c \in Cells(p, s) : c[1] \in a..Len(p) => Hit(p, s, c[1], c[2])}
<1>1. \A i \in 1..(Len(p) + 1), j \in 1..(Len(s) + 1) :
        <<i, j>> \in H <=> (i \in a..Len(p) => Hit(p, s, i, j))
  BY Zenon DEF Cells
<1>2. ASSUME NEW i \in 1..(Len(p) + 1), NEW j \in 1..(Len(s) + 1),
             \A k \in i..(Len(p) + 1), l \in j..(Len(s) + 1) :
               k + l > i + j => <<k, l>> \in H
      PROVE  <<i, j>> \in H
  <2> HIDE DEF H
  <2> SUFFICES ASSUME i \in a..Len(p) PROVE Hit(p, s, i, j)
    BY <1>1
  <2>1. i <= Len(p) /\ p[i] = Star
    OBVIOUS
  <2>2. Hit(p, s, i, j) <=> Hit(p, s, i + 1, j) \/ (j <= Len(s) /\ Hit(p, s, i, j + 1))
    BY <2>1, HitEntry
  <2>3. CASE j <= Len(s)
    <3>1. <<i, j + 1>> \in H
      BY <1>2, <2>3
    <3>2. Hit(p, s, i, j + 1)
      BY <1>1, <2>3, <3>1
    <3> QED
      BY <2>2, <2>3, <3>2, Zenon
  <2>4. CASE j = Len(s) + 1 /\ i < Len(p)
    <3>1. <<i + 1, j>> \in H
      BY <1>2, <2>4
    <3>2. Hit(p, s, i + 1, j)
      BY <1>1, <2>4, <3>1
    <3> QED
      BY <2>2, <3>2, Zenon
  <2>5. CASE j = Len(s) + 1 /\ i = Len(p)
    <3>1. Hit(p, s, i + 1, j) <=> j > Len(s)
      BY <2>5, HitEntry
    <3>2. j > Len(s)
      BY <2>5
    <3> QED
      BY <2>2, <3>1, <3>2, Zenon
  <2> QED
    BY <2>3, <2>4, <2>5
<1> HIDE DEF H
<1>3. \A i \in 1..(Len(p) + 1), j \in 1..(Len(s) + 1) : <<i, j>> \in H
  BY <1>2, CellInduction
<1> QED
  <2>1. a \in 1..(Len(p) + 1) /\ b \in 1..(Len(s) + 1) /\ a \in a..Len(p)
    OBVIOUS
  <2> QED
    BY <1>1, <1>3, <2>1, Zenon

(* A match of a beginning of the pattern with a beginning of the string is *)
(* a match of the whole when the two ends match.                           *)
LEMMA HitExtends ==
  ASSUME NEW p, NEW s, Len(p) \in Nat, Len(s) \in Nat,
         NEW q, NEW r, Len(q) \in Nat, Len(r) \in Nat,
         Len(p) <= Len(q), \A i \in 1..Len(p) : p[i] = q[i],
         Len(s) <= Len(r), \A j \in 1..Len(s) : s[j] = r[j],
         Hit(q, r, Len(p) + 1, Len(s) + 1),
         Hit(p, s, 1, 1)
  PROVE  Hit(q, r, 1, 1)
<1> DEFINE H == {c \in Cells(p, s) : Hit(p, s, c[1], c[2]) => Hit(q, r, c[1], c[2])}
<1>1. \A i \in 1..(Len(p) + 1), j \in 1..(Len(s) + 1) :
        <<i, j>> \in H <=> (Hit(p, s, i, j) => Hit(q, r, i, j))
  BY Zenon DEF Cells
<1>2. ASSUME NEW i \in 1..(Len(p) + 1), NEW j \in 1..(Len(s) + 1),
             \A k \in i..(Len(p) + 1), l \in j..(Len(s) + 1) :
               k + l > i + j => <<k, l>> \in H
      PROVE  <<i, j>> \in H
  <2> HIDE DEF H
  <2> SUFFICES ASSUME Hit(p, s, i, j) PROVE Hit(q, r, i, j)
    BY <1>1
  <2>1. i \in 1..(Len(q) + 1) /\ j \in 1..(Len(r) + 1)
    OBVIOUS
  <2>2. CASE i = Len(p) + 1
    <3>1. Hit(p, s, i, j) <=> j > Len(s)
      BY <2>2, HitEntry
    <3>2. j = Len(s) + 1
      BY <3>1
    <3> QED
      BY <2>2, <3>2
  <2>3. CASE i <= Len(p) /\ p[i] = Star
    <3>1. Hit(p, s, i + 1, j) \/ (j <= Len(s) /\ Hit(p, s, i, j + 1))
      BY <2>3, HitEntry
    <3>2. i <= Len(q) /\ q[i] = Star
      BY <2>3
    <3>3. Hit(q, r, i, j) <=> Hit(q, r, i + 1, j) \/ (j <= Len(r) /\ Hit(q, r, i, j + 1))
      BY <2>1, <3>2, HitEntry
    <3>4. CASE Hit(p, s, i + 1, j)
      <4>1. <<i + 1, j>> \in H
        BY <1>2, <2>3
      <4>2. Hit(q, r, i + 1, j)
        BY <1>1, <2>3, <3>4, <4>1
      <4> QED
        BY <3>3, <4>2, Zenon
    <3>5. CASE j <= Len(s) /\ Hit(p, s, i, j + 1)
      <4>1. <<i, j + 1>> \in H
        BY <1>2, <3>5
      <4>2. Hit(q, r, i, j + 1)
        BY <1>1, <3>5, <4>1
      <4>3. j <= Len(r)
        BY <3>5
      <4> QED
        BY <3>3, <4>2, <4>3, Zenon
    <3> QED
      BY <3>1, <3>4, <3>5
  <2>4. CASE i <= Len(p) /\ p[i] # Star
    <3>1. j <= Len(s) /\ p[i] \in {Question, s[j]} /\ Hit(p, s, i + 1, j + 1)
      BY <2>4, HitEntry
    <3>2. i <= Len(q) /\ q[i] # Star /\ j <= Len(r) /\ q[i] \in {Question, r[j]}
      BY <2>4, <3>1
    <3>3. <<i + 1, j + 1>> \in H
      BY <1>2, <2>4, <3>1
    <3>4. Hit(q, r, i + 1, j + 1)
      BY <1>1, <2>4, <3>1, <3>3
    <3> QED
      BY <2>1, <3>2, <3>4, HitEntry
  <2> QED
    BY <2>2, <2>3, <2>4
<1> HIDE DEF H
<1>3. \A i \in 1..(Len(p) + 1), j \in 1..(Len(s) + 1) : <<i, j>> \in H
  BY <1>2, CellInduction
<1> QED
  <2>1. 1 \in 1..(Len(p) + 1) /\ 1 \in 1..(Len(s) + 1)
    OBVIOUS
  <2>2. Hit(p, s, 1, 1) => Hit(q, r, 1, 1)
    BY <1>1, <1>3, <2>1, Zenon
  <2> QED
    BY <2>2, Zenon
(* The loop over stars ends at a position of the string or at its NUL.     *)
LEMMA FirstNotBounds ==
  ASSUME NEW S, NEW s \in Seq(S), NEW i \in 1..(Len(s) + 1), NEW c, c # NUL
  PROVE  /\ FirstNot(s, i, c) \in i..(Len(s) + 1)
         /\ At(s, FirstNot(s, i, c)) # c
         /\ \A j \in i..(FirstNot(s, i, c) - 1) : At(s, j) = c
<1> DEFINE T == {k \in i..(Len(s) + 1) : At(s, k) # c}
<1>1. Len(s) + 1 \in T
  BY DEF At
<1>2. PICK k \in T : \A j \in T : k <= j
  <2>1. T \in SUBSET Nat /\ T # {}
    BY <1>1
  <2> HIDE DEF T
  <2> QED
    BY <2>1, Least
<1>3. /\ k \in i..(Len(s) + 1)
      /\ At(s, k) # c
      /\ \A j \in i..(k - 1) : At(s, j) = c
  BY <1>2
<1> QED
  BY <1>3 DEF FirstNot

(* The loop over the target does, too.                                     *)
LEMMA FirstOrBounds ==
  ASSUME NEW S, NEW s \in Seq(S), NEW i \in 1..(Len(s) + 1), NEW c
  PROVE  FirstOr(s, i, c) \in i..(Len(s) + 1)
<1> DEFINE T == {k \in i..(Len(s) + 1) : At(s, k) \in {c, NUL}}
<1>1. Len(s) + 1 \in T
  BY DEF At
<1>2. PICK k \in T : \A j \in T : k <= j
  <2>1. T \in SUBSET Nat /\ T # {}
    BY <1>1
  <2> HIDE DEF T
  <2> QED
    BY <2>1, Least
<1>3. /\ k \in i..(Len(s) + 1)
      /\ At(s, k) \in {c, NUL}
      /\ \A j \in i..(k - 1) : At(s, j) \notin {c, NUL}
  BY <1>2
<1> QED
  BY <1>3 DEF FirstOr
-----------------------------------------------------------------------------
(* The type invariant, the bounds of the two pointers, and the bound of    *)
(* the backslash one of them goes back to.                                 *)
IInv == MatchTypeOK /\ InBounds /\ sp <= Len(target) + 1

(* Every pattern and every path is a sequence of its alphabet.             *)
LEMMA InitIInv ==
  ASSUME MatchInit
  PROVE  IInv
<1> USE WildMatchAssumption DEF MatchInit
<1>1. target \in Seq(PathChars) /\ Len(target) \in Nat
  <2>1. PICK n \in 0..MaxTarget : target \in [1..n -> PathChars]
    BY DEF Strings
  <2> QED
    BY <2>1
<1>2. match \in Seq(PatternChars) /\ Len(match) \in Nat /\ fileName \in BOOLEAN
  <2>1. PICK p \in Strings(PatternChars, MaxPattern) :
          match = NewEntry(p) /\ fileName = IsFileName(p)
    OBVIOUS
  <2>2. PICK n \in 0..MaxPattern : p \in [1..n -> PatternChars]
    BY DEF Strings
  <2>3. Len(p) = n
    BY <2>2
  <2>4. \A c \in PatternChars : LowerCase(c) \in PatternChars
    BY DEF LowerCase, PatternChars, PathChars
  <2>5. match \in [1..n -> PatternChars]
    BY <2>1, <2>2, <2>3, <2>4 DEF NewEntry
  <2>6. fileName \in BOOLEAN
    BY <2>1 DEF IsFileName
  <2> QED
    BY <2>5, <2>6
<1>3. /\ tp = 1 /\ mp = 1 /\ sp = 1 /\ result = FALSE
      /\ at \in {"name", "drive", "match", "done"}
  OBVIOUS
<1> QED
  <2>1. MatchTypeOK
    <3>1. tp \in Nat \ {0} /\ mp \in Nat \ {0} /\ sp \in Nat \ {0}
      BY ONLY <1>3
    <3>2. result \in BOOLEAN
      BY <1>3, Zenon
    <3> QED
      BY ONLY <1>1, <1>2, <1>3, <3>1, <3>2, Zenon DEF MatchTypeOK
  <2>2. InBounds /\ sp <= Len(target) + 1
    BY ONLY <1>1, <1>2, <1>3 DEF InBounds
  <2> QED
    BY ONLY <2>1, <2>2 DEF IInv

(* No step takes a pointer past the NUL it stands at or before.            *)
LEMMA NextIInv ==
  ASSUME IInv, [MatchNext]_matchVars
  PROVE  IInv'
<1> USE WildMatchAssumption DEF IInv, MatchTypeOK, InBounds, Special
<1>1. CASE AdvanceName
  BY <1>1 DEF AdvanceName, At
<1>2. CASE NameReached
  BY <1>2 DEF NameReached
<1>3. CASE AdvanceDrive
  BY <1>3 DEF AdvanceDrive, At
<1>4. CASE DriveReached
  BY <1>4 DEF DriveReached, At
<1>5. CASE MatchStar
  <2>1. Star # NUL
    OBVIOUS
  <2>2. mp' \in mp..(Len(match) + 1)
    <3>1. mp \in 1..(Len(match) + 1)
      OBVIOUS
    <3> QED
      BY <1>5, <2>1, <3>1, FirstNotBounds DEF MatchStar
  <2>3. tp' \in tp..(Len(target) + 1)
    <3>1. tp \in 1..(Len(target) + 1)
      OBVIOUS
    <3>2. FirstOr(target, tp, At(match, mp')) \in tp..(Len(target) + 1)
      BY <3>1, FirstOrBounds
    <3>3. CASE At(match, mp') = NUL
      BY <1>5, <3>1, <3>3 DEF MatchStar
    <3>4. CASE At(match, mp') # NUL
      <4>1. tp' = FirstOr(target, tp, At(match, mp'))
        BY ONLY <1>5, <3>4 DEF MatchStar
      <4> QED
        BY <3>2, <4>1
    <3> QED
      BY <3>3, <3>4
  <2>4. UNCHANGED <<target, match, fileName, sp>>
    BY <1>5 DEF MatchStar
  <2>5. at' \in {"name", "drive", "match", "done"} /\ result' \in BOOLEAN
    BY <1>5 DEF MatchStar, Returns
  <2> QED
    BY <2>2, <2>3, <2>4, <2>5
<1>6. CASE MatchQuestion
  <2>1. tp \in 1..Len(target) /\ mp \in 1..Len(match)
    BY <1>6 DEF MatchQuestion, Reading, At
  <2>2. tp' = tp + 1 /\ mp' = mp + 1 /\ UNCHANGED <<target, match, fileName, sp>>
    BY <1>6 DEF MatchQuestion
  <2>3. at' \in {"name", "drive", "match", "done"} /\ result' \in BOOLEAN
    BY <1>6 DEF MatchQuestion, Returns
  <2> QED
    BY <2>1, <2>2, <2>3
<1>7. CASE MatchLiteral
  <2>1. /\ UNCHANGED <<target, match, fileName, sp>>
        /\ at' \in {"name", "drive", "match", "done"} /\ result' \in BOOLEAN
    BY <1>7 DEF MatchLiteral, Returns
  <2>2. CASE At(match, mp) = At(target, tp)
    <3>1. tp \in 1..Len(target) /\ mp \in 1..Len(match)
      BY <1>7, <2>2 DEF MatchLiteral, Reading, At
    <3>2. tp' = tp + 1 /\ mp' = mp + 1
      BY <1>7, <2>2 DEF MatchLiteral
    <3> QED
      BY <2>1, <3>1, <3>2
  <2>3. CASE At(match, mp) # At(target, tp)
    <3>1. UNCHANGED <<mp, tp>>
      BY <1>7, <2>3 DEF MatchLiteral
    <3> QED
      BY <2>1, <3>1
  <2> QED
    BY <2>2, <2>3
<1>8. CASE TargetEnds
  BY <1>8 DEF TargetEnds, Returns
<1>9. CASE UNCHANGED matchVars
  BY <1>9 DEF matchVars
<1> QED
  BY <1>1, <1>2, <1>3, <1>4, <1>5, <1>6, <1>7, <1>8, <1>9 DEF MatchNext

(* The two pointers of Match, moved past wildcards and characters before   *)
(* they are compared, stay inside their strings (exceptions.cpp:37-88).    *)
THEOREM MatchStaysInBounds == MatchSpec => []InBounds
<1>1. IInv => InBounds
  BY DEF IInv
<1> QED
  BY InitIInv, NextIInv, <1>1, PTL DEF MatchSpec
-----------------------------------------------------------------------------
(* Before the match itself one pointer moves, up to From: the other is at  *)
(* the start of the pattern.                                               *)
Advancing ==
  /\ at \in {"name", "drive"} => mp = 1 /\ result = FALSE
  /\ at = "name" =>
       /\ fileName
       /\ \A i \in Inner : i < tp => i <= sp
       /\ \/ sp \in Inner
          \/ sp = 1 /\ \A i \in Inner : i >= tp
  /\ at = "drive" => ~fileName /\ \A i \in Slashes : i >= tp

(* During the match what lies behind the two pointers matches, ...         *)
Behind(m, t) ==
  /\ From <= t
  /\ Glob(SubSeq(match, 1, m - 1), SubSeq(target, From, t - 1))

(* ... and what lies before them does, when the whole does.                *)
Before(m, t) ==
  OnePass /\ Glob(match, Part) => Hit(match, Part, m, t - From + 1)

MatchInv ==
  /\ IInv /\ Advancing
  /\ at = "match" => Behind(mp, tp) /\ Before(mp, tp)
  /\ MatchMeans

(* The characters of the two strings.                                      *)
LEMMA Reads ==
  ASSUME IInv
  PROVE  /\ Len(target) \in Nat /\ Len(match) \in Nat
         /\ \A i \in Nat \ {0} : At(target, i) = NUL <=> i > Len(target)
         /\ \A i \in Nat \ {0} : At(match, i) = NUL <=> i > Len(match)
         /\ \A i \in 1..Len(target) :
              At(target, i) = target[i] /\ target[i] \notin {Star, Question}
         /\ \A i \in 1..Len(match) : At(match, i) = match[i]
<1>1. target \in Seq(PathChars) /\ match \in Seq(PatternChars)
  BY DEF IInv, MatchTypeOK
<1>2. /\ NUL \notin PathChars /\ NUL \notin PatternChars
      /\ Star \notin PathChars /\ Question \notin PathChars
  BY WildMatchAssumption DEF PathChars, PatternChars, Special
<1>3. Len(target) \in Nat /\ Len(match) \in Nat
  BY <1>1
<1>4. /\ \A i \in 1..Len(target) : target[i] \in PathChars
      /\ \A i \in 1..Len(match) : match[i] \in PatternChars
  BY <1>1
<1>5. ASSUME NEW i \in Nat \ {0}
      PROVE  /\ At(target, i) = NUL <=> i > Len(target)
             /\ At(match, i) = NUL <=> i > Len(match)
  BY <1>2, <1>3, <1>4 DEF At
<1>6. ASSUME NEW i \in 1..Len(target)
      PROVE  At(target, i) = target[i] /\ target[i] \notin {Star, Question}
  BY <1>2, <1>4 DEF At
<1>7. ASSUME NEW i \in 1..Len(match)
      PROVE  At(match, i) = match[i]
  BY DEF At
<1> QED
  BY <1>3, <1>5, <1>6, <1>7

(* From is a position of the target, or the start of an empty one.         *)
LEMMA FromBounds ==
  ASSUME Len(target) \in Nat
  PROVE  From \in 1..(Len(target) + 1)
<1>1. Slashes \in SUBSET Nat /\ Inner \subseteq Slashes
      /\ Slashes \subseteq 1..Len(target)
  BY DEF Slashes, Inner
<1>2. ASSUME NEW S \in SUBSET (1..Len(target)), S # {}
      PROVE  First(S) \in S /\ Last(S) \in S
  <2>1. PICK k \in S : \A j \in S : k <= j
    <3>1. S \in SUBSET Nat
      OBVIOUS
    <3> QED
      BY <1>2, <3>1, Least
  <2>2. First(S) \in S
    BY <2>1 DEF First
  <2>3. Last(S) \in S
    <3> DEFINE T == {n \in Nat : \E i \in S : n = Len(target) - i}
    <3>1. PICK n \in T : \A j \in T : n <= j
      <4>1. PICK i \in S : TRUE
        BY <1>2
      <4>2. Len(target) - i \in T
        OBVIOUS
      <4>3. T \in SUBSET Nat /\ T # {}
        BY <4>2
      <4> HIDE DEF T
      <4> QED
        BY <4>3, Least
    <3>2. PICK i \in S : n = Len(target) - i
      BY <3>1
    <3>3. ASSUME NEW j \in S PROVE j <= i
      <4>1. Len(target) - j \in T
        OBVIOUS
      <4>2. n <= Len(target) - j
        BY <3>1, <4>1
      <4> QED
        BY <3>2, <4>2
    <3> QED
      BY <3>3 DEF Last
  <2> QED
    BY <2>2, <2>3
<1>3. CASE fileName
  <2>1. CASE Inner = {}
    BY <1>3, <2>1 DEF From
  <2>2. CASE Inner # {}
    <3>1. Last(Inner) \in 1..Len(target)
      BY <1>1, <1>2, <2>2
    <3> QED
      BY <1>3, <2>2, <3>1 DEF From
  <2> QED
    BY <2>1, <2>2
<1>4. CASE ~fileName
  <2>1. CASE Slashes = {}
    BY <1>4, <2>1 DEF From
  <2>2. CASE Slashes # {}
    <3>1. First(Slashes) \in 1..Len(target)
      BY <1>1, <1>2, <2>2
    <3> QED
      BY <1>4, <2>2, <3>1 DEF From
  <2> QED
    BY <2>1, <2>2
<1> QED
  BY <1>3, <1>4

(* A part of a string.                                                     *)
LEMMA Slice ==
  ASSUME NEW S, NEW s \in Seq(S), NEW a \in 1..(Len(s) + 1), NEW b \in (a - 1)..Len(s)
  PROVE  /\ Len(SubSeq(s, a, b)) = b - a + 1
         /\ \A j \in 1..(b - a + 1) : SubSeq(s, a, b)[j] = s[a + j - 1]
OBVIOUS

LEMMA Prefix ==
  ASSUME NEW S, NEW s \in Seq(S), NEW b \in 0..Len(s)
  PROVE  /\ Len(SubSeq(s, 1, b)) = b
         /\ \A j \in 1..b : SubSeq(s, 1, b)[j] = s[j]
OBVIOUS

LEMMA StringsTyped ==
  ASSUME IInv
  PROVE  /\ target \in Seq(PathChars) /\ match \in Seq(PatternChars)
         /\ Len(target) \in Nat /\ Len(match) \in Nat
         /\ mp \in 1..(Len(match) + 1) /\ tp \in 1..(Len(target) + 1)
         /\ From \in 1..(Len(target) + 1)
<1>1. /\ target \in Seq(PathChars) /\ match \in Seq(PatternChars)
      /\ tp \in Nat \ {0} /\ mp \in Nat \ {0}
      /\ tp <= Len(target) + 1 /\ mp <= Len(match) + 1
  BY DEF IInv, MatchTypeOK, InBounds
<1>2. Len(target) \in Nat /\ Len(match) \in Nat
  BY <1>1
<1> QED
  BY <1>1, <1>2, FromBounds

(* The part of the path that is matched, character by character.           *)
LEMMA PartIs ==
  ASSUME IInv
  PROVE  /\ Len(Part) = Len(target) - From + 1
         /\ \A j \in 1..Len(Part) : Part[j] = target[From + j - 1]
<1>1. Len(target) \in (From - 1)..Len(target)
  BY StringsTyped
<1> QED
  BY <1>1, StringsTyped, Slice DEF Part

(* When the ends of two longer beginnings match, the beginnings do.        *)
LEMMA BehindGrows ==
  ASSUME IInv, Behind(mp, tp),
         NEW k \in mp..(Len(match) + 1), NEW l \in tp..(Len(target) + 1),
         Hit(SubSeq(match, 1, k - 1), SubSeq(target, From, l - 1), mp, tp - From + 1)
  PROVE  Behind(k, l)
<1> DEFINE p == SubSeq(match, 1, mp - 1)
           s == SubSeq(target, From, tp - 1)
           q == SubSeq(match, 1, k - 1)
           r == SubSeq(target, From, l - 1)
<1>0. From <= tp
  BY DEF Behind
<1>a. mp - 1 \in 0..Len(match) /\ k - 1 \in 0..Len(match)
  BY StringsTyped
<1>1. Len(p) = mp - 1 /\ \A i \in 1..(mp - 1) : p[i] = match[i]
  BY <1>a, StringsTyped, Prefix
<1>2. Len(q) = k - 1 /\ \A i \in 1..(k - 1) : q[i] = match[i]
  BY <1>a, StringsTyped, Prefix
<1>b. /\ From \in 1..(Len(target) + 1)
      /\ tp - 1 \in (From - 1)..Len(target) /\ l - 1 \in (From - 1)..Len(target)
      /\ (tp - 1) - From + 1 = tp - From /\ (l - 1) - From + 1 = l - From
  <2>1. /\ Len(target) \in Nat /\ From \in 1..(Len(target) + 1)
        /\ tp \in From..(Len(target) + 1) /\ l \in From..(Len(target) + 1)
    BY <1>0, StringsTyped
  <2> QED
    BY ONLY <2>1
<1>3. Len(s) = tp - From /\ \A j \in 1..(tp - From) : s[j] = target[From + j - 1]
  <2>1. /\ Len(s) = (tp - 1) - From + 1
        /\ \A j \in 1..((tp - 1) - From + 1) : s[j] = target[From + j - 1]
    BY <1>b, StringsTyped, Slice, Zenon
  <2> QED
    BY <1>b, <2>1, Zenon
<1>4. Len(r) = l - From /\ \A j \in 1..(l - From) : r[j] = target[From + j - 1]
  <2>1. /\ Len(r) = (l - 1) - From + 1
        /\ \A j \in 1..((l - 1) - From + 1) : r[j] = target[From + j - 1]
    BY <1>b, StringsTyped, Slice, Zenon
  <2> QED
    BY <1>b, <2>1, Zenon
<1>5. Hit(p, s, 1, 1)
  BY GlobHit DEF Behind
<1>6. Hit(q, r, mp, tp - From + 1)
  OBVIOUS
<1> HIDE DEF p, s, q, r
<1>7. /\ Len(p) \in Nat /\ Len(s) \in Nat /\ Len(q) \in Nat /\ Len(r) \in Nat
      /\ Len(p) <= Len(q) /\ Len(s) <= Len(r)
      /\ Len(p) + 1 = mp /\ Len(s) + 1 = tp - From + 1
  <2>1. /\ Len(p) = mp - 1 /\ Len(q) = k - 1
        /\ Len(s) = tp - From /\ Len(r) = l - From
    BY <1>1, <1>2, <1>3, <1>4, Zenon
  <2>2. /\ mp \in Nat \ {0} /\ k \in Nat /\ mp <= k /\ tp \in Nat /\ l \in Nat /\ tp <= l
        /\ From \in Nat
    BY StringsTyped
  <2> QED
    BY ONLY <1>0, <2>1, <2>2
<1>8. \A i \in 1..Len(p) : p[i] = q[i]
  BY <1>1, <1>2, StringsTyped
<1>9. \A j \in 1..Len(s) : s[j] = r[j]
  <2>1. /\ Len(target) \in Nat /\ From \in Nat
        /\ tp \in Nat /\ l \in Nat /\ tp <= l
    BY StringsTyped
  <2>2. \A j \in 1..(tp - From) : j \in 1..(l - From)
    BY ONLY <2>1
  <2> QED
    BY <1>3, <1>4, <2>2, Zenon
<1>10. Hit(q, r, Len(p) + 1, Len(s) + 1)
  <2>1. Len(p) + 1 = mp /\ Len(s) + 1 = tp - From + 1
    BY <1>7
  <2> QED
    BY ONLY <1>6, <2>1
<1>11. Hit(q, r, 1, 1)
  <2>1. /\ Len(p) \in Nat /\ Len(s) \in Nat /\ Len(q) \in Nat /\ Len(r) \in Nat
        /\ Len(p) <= Len(q) /\ Len(s) <= Len(r)
    BY <1>7
  <2> QED
    BY ONLY <1>5, <1>8, <1>9, <1>10, <2>1, HitExtends, Zenon
<1>12. Glob(q, r)
  BY <1>11, GlobHit
<1>13. From <= l
  <2>1. l \in Nat /\ tp \in Nat /\ From \in Nat /\ tp <= l
    BY StringsTyped
  <2> QED
    BY ONLY <1>0, <2>1
<1> QED
  BY <1>12, <1>13 DEF q, r, Behind

(* The match begins with nothing behind it and everything before it.       *)
LEMMA Starts ==
  ASSUME IInv
  PROVE  Behind(1, From) /\ Before(1, From)
<1> DEFINE p == SubSeq(match, 1, 0)
           s == SubSeq(target, From, From - 1)
<1>1. From \in Nat /\ From <= From /\ From - From + 1 = 1 /\ 1 - 1 = 0
  BY StringsTyped
<1>2. Len(p) = 0
  BY StringsTyped
<1>3. Len(s) = 0
  BY StringsTyped
<1> HIDE DEF p, s
<1>4. Hit(p, s, 1, 1) <=> 1 > Len(s)
  BY <1>2, <1>3, HitEntry
<1>5. Glob(p, s)
  BY <1>3, <1>4, GlobHit
<1>6. Behind(1, From)
  BY <1>1, <1>5, Zenon DEF Behind, p, s
<1>7. Before(1, From)
  BY <1>1, GlobHit, Zenon DEF Before
<1> QED
  BY <1>6, <1>7

(* A character that the pattern takes.                                     *)
LEMMA BehindOne ==
  ASSUME IInv, Behind(mp, tp),
         mp <= Len(match), tp <= Len(target),
         match[mp] \in {Question, target[tp]}
  PROVE  Behind(mp + 1, tp + 1)
<1> DEFINE q == SubSeq(match, 1, (mp + 1) - 1)
           r == SubSeq(target, From, (tp + 1) - 1)
           j == tp - From + 1
<1>0. /\ From <= tp /\ From \in Nat /\ tp \in Nat /\ mp \in Nat
      /\ Len(match) \in Nat /\ Len(target) \in Nat /\ 1 <= From /\ 1 <= mp
  BY StringsTyped DEF Behind
<1>1. Len(q) = mp /\ q[mp] = match[mp]
  <2>1. (mp + 1) - 1 = mp /\ mp \in 0..Len(match) /\ mp \in 1..mp
    BY ONLY <1>0, mp <= Len(match)
  <2> QED
    BY <2>1, StringsTyped, Prefix
<1>2. Len(r) = j /\ r[j] = target[tp]
  <2>1. /\ From \in 1..(Len(target) + 1) /\ (tp + 1) - 1 \in (From - 1)..Len(target)
        /\ ((tp + 1) - 1) - From + 1 = j /\ j \in 1..j /\ From + j - 1 = tp
    BY ONLY <1>0, tp <= Len(target)
  <2> HIDE DEF j
  <2>2. /\ Len(r) = ((tp + 1) - 1) - From + 1
        /\ \A i \in 1..(((tp + 1) - 1) - From + 1) : r[i] = target[From + i - 1]
    BY <2>1, StringsTyped, Slice, Zenon
  <2> QED
    BY <2>1, <2>2, Zenon
<1>3. j \in Nat /\ j \in 1..(j + 1) /\ mp \in 1..(mp + 1) /\ j + 1 > j /\ mp + 1 > mp
      /\ j + 1 \in 1..(j + 1) /\ mp + 1 \in 1..(mp + 1) /\ mp <= mp /\ j <= j
  BY ONLY <1>0
<1>4. match[mp] # Star
  <2>1. target[tp] # Star
    <3>1. tp \in 1..Len(target)
      BY <1>0
    <3> QED
      BY <3>1, Reads
  <2>2. Question # Star
    BY WildMatchAssumption
  <2> QED
    BY <2>1, <2>2
<1> HIDE DEF q, r, j
<1>5. Hit(q, r, mp + 1, j + 1)
  BY ONLY <1>1, <1>2, <1>3, HitEntry
<1>6. Hit(q, r, mp, j)
  <2>1. q[mp] \in {Question, r[j]} /\ q[mp] # Star
    BY <1>1, <1>2, <1>4
  <2> QED
    BY ONLY <1>1, <1>2, <1>3, <1>5, <2>1, HitEntry
<1>7. mp + 1 \in mp..(Len(match) + 1) /\ tp + 1 \in tp..(Len(target) + 1)
  BY <1>0
<1> QED
  BY <1>6, <1>7, BehindGrows DEF q, r, j

(* Stars, and any characters of the path.                                  *)
LEMMA BehindStars ==
  ASSUME IInv, Behind(mp, tp),
         NEW k \in (mp + 1)..(Len(match) + 1), NEW l \in tp..(Len(target) + 1),
         \A i \in mp..(k - 1) : match[i] = Star
  PROVE  Behind(k, l)
<1> DEFINE q == SubSeq(match, 1, k - 1)
           r == SubSeq(target, From, l - 1)
           j == tp - From + 1
<1>0. /\ From <= tp /\ From \in Nat /\ tp \in Nat /\ mp \in Nat /\ k \in Nat
      /\ l \in Nat /\ tp <= l /\ l <= Len(target) + 1 /\ k >= mp + 1 /\ k <= Len(match) + 1
      /\ Len(match) \in Nat /\ Len(target) \in Nat /\ 1 <= From /\ 1 <= mp
  BY StringsTyped DEF Behind
<1>1. Len(q) = k - 1 /\ \A i \in 1..(k - 1) : q[i] = match[i]
  <2>1. k - 1 \in 0..Len(match)
    BY ONLY <1>0
  <2> QED
    BY <2>1, StringsTyped, Prefix
<1>2. Len(r) = l - From
  <2>1. /\ From \in 1..(Len(target) + 1) /\ l - 1 \in (From - 1)..Len(target)
        /\ (l - 1) - From + 1 = l - From
    BY ONLY <1>0
  <2>2. Len(r) = (l - 1) - From + 1
    BY <2>1, StringsTyped, Slice, Zenon
  <2> QED
    BY <2>1, <2>2, Zenon
<1>3. /\ k - 1 \in Nat /\ l - From \in Nat /\ mp \in 1..(k - 1)
      /\ j \in 1..((l - From) + 1)
  BY ONLY <1>0
<1>4. \A i \in mp..(k - 1) : q[i] = Star
  <2>1. \A i \in mp..(k - 1) : i \in 1..(k - 1)
    BY ONLY <1>0
  <2> QED
    BY <1>1, <2>1, Zenon
<1> HIDE DEF q, r, j
<1>5. Hit(q, r, mp, j)
  BY ONLY <1>1, <1>2, <1>3, <1>4, StarsAbsorb
<1>6. k \in mp..(Len(match) + 1)
  BY ONLY <1>0
<1> QED
  BY <1>5, <1>6, BehindGrows DEF q, r, j

(* What a whole that matches says of the next character.                   *)
LEMMA BeforeOne ==
  ASSUME IInv, From <= tp, Before(mp, tp), tp <= Len(target),
         OnePass, Glob(match, Part)
  PROVE  /\ mp <= Len(match)
         /\ match[mp] # Star =>
              match[mp] \in {Question, target[tp]} /\ Before(mp + 1, tp + 1)
<1> DEFINE j == tp - From + 1
<1>0. /\ From \in Nat /\ tp \in Nat /\ mp \in Nat /\ mp <= Len(match) + 1
      /\ Len(match) \in Nat /\ Len(target) \in Nat /\ 1 <= From /\ 1 <= mp
  BY StringsTyped
<1>1. Len(Part) = Len(target) - From + 1
  BY PartIs
<1>2. /\ Len(Part) \in Nat /\ mp \in 1..(Len(match) + 1)
      /\ j \in 1..(Len(Part) + 1) /\ j <= Len(Part) /\ ~(j > Len(Part))
      /\ j \in 1..Len(Part) /\ From + j - 1 = tp /\ j + 1 = (tp + 1) - From + 1
  BY ONLY <1>0, <1>1, From <= tp, tp <= Len(target)
<1>3. Part[j] = target[tp]
  <2> HIDE DEF j
  <2> QED
    BY <1>2, PartIs, Zenon
<1>4. Hit(match, Part, mp, j)
  BY DEF Before
<1> HIDE DEF j
<1>5. mp <= Len(match)
  <2>1. ~(mp > Len(match))
    BY ONLY <1>0, <1>2, <1>4, HitEntry
  <2> QED
    BY ONLY <1>0, <2>1
<1>6. ASSUME match[mp] # Star
      PROVE  match[mp] \in {Question, target[tp]} /\ Before(mp + 1, tp + 1)
  <2>1. match[mp] \in {Question, Part[j]} /\ Hit(match, Part, mp + 1, j + 1)
    BY ONLY <1>0, <1>2, <1>4, <1>5, <1>6, HitEntry
  <2>2. Hit(match, Part, mp + 1, (tp + 1) - From + 1)
    BY <1>2, <2>1, Zenon
  <2> QED
    BY <1>3, <2>1, <2>2 DEF Before
<1> QED
  BY <1>5, <1>6

(* Behind a question mark the two next characters are equal.               *)
LEMMA BeforeQuestion ==
  ASSUME IInv, From <= tp, Before(mp, tp), tp <= Len(target),
         match[mp] = Question, OnePass, Glob(match, Part)
  PROVE  At(target, tp + 1) = At(match, mp + 1)
<1> DEFINE j == (tp + 1) - From + 1
<1>0. /\ From \in Nat /\ tp \in Nat /\ mp \in Nat
      /\ Len(match) \in Nat /\ Len(target) \in Nat /\ 1 <= From /\ 1 <= mp
  BY StringsTyped
<1>a. Question # Star
  BY WildMatchAssumption
<1>b. mp <= Len(match) /\ Before(mp + 1, tp + 1)
  BY <1>a, BeforeOne
<1>1. Len(Part) = Len(target) - From + 1
  BY PartIs
<1>2. /\ Len(Part) \in Nat /\ mp + 1 \in 1..(Len(match) + 1)
      /\ j \in 1..(Len(Part) + 1)
      /\ j <= Len(Part) <=> tp + 1 <= Len(target)
      /\ From + j - 1 = tp + 1 /\ j \in Nat
  BY ONLY <1>0, <1>1, <1>b, From <= tp, tp <= Len(target)
<1>4. Hit(match, Part, mp + 1, j)
  BY <1>b DEF Before
<1> HIDE DEF j
<1>5. CASE mp + 1 <= Len(match)
  <2>1. match[mp + 1] # Star /\ match[mp + 1] # Question
    <3>1. mp \in 1..(Len(match) - 1)
      BY ONLY <1>0, <1>5
    <3> QED
      BY <3>1 DEF OnePass
  <2>2. j <= Len(Part) /\ match[mp + 1] \in {Question, Part[j]}
    BY ONLY <1>0, <1>2, <1>4, <1>5, <2>1, HitEntry
  <2>3. match[mp + 1] = Part[j]
    BY <2>1, <2>2
  <2>4. tp + 1 \in 1..Len(target) /\ mp + 1 \in 1..Len(match) /\ j \in 1..Len(Part)
    BY ONLY <1>0, <1>2, <1>5, <2>2
  <2>5. Part[j] = target[tp + 1]
    BY <1>2, <2>4, PartIs, Zenon
  <2> QED
    BY <2>3, <2>4, <2>5, Reads
<1>6. CASE ~(mp + 1 <= Len(match))
  <2>1. mp + 1 > Len(match)
    BY ONLY <1>0, <1>6
  <2>2. j > Len(Part)
    BY ONLY <1>0, <1>2, <1>4, <2>1, HitEntry
  <2>3. tp + 1 > Len(target)
    BY ONLY <1>0, <1>2, <2>2
  <2>4. tp + 1 \in Nat \ {0} /\ mp + 1 \in Nat \ {0}
    BY ONLY <1>0
  <2> QED
    BY <2>1, <2>3, <2>4, Reads
<1> QED
  BY <1>5, <1>6

(* Behind a star the whole is all stars, when it matches in one pass.      *)
LEMMA StarsToTheEnd ==
  ASSUME IInv, OnePass, mp <= Len(match), match[mp] = Star
  PROVE  At(match, FirstNot(match, mp, Star)) = NUL
<1> DEFINE k == FirstNot(match, mp, Star)
<1>0. Star # NUL
  BY WildMatchAssumption
<1>1. mp \in 1..(Len(match) + 1) /\ match \in Seq(PatternChars) /\ Len(match) \in Nat
  BY StringsTyped
<1>2. /\ k \in mp..(Len(match) + 1) /\ At(match, k) # Star
      /\ \A j \in mp..(k - 1) : At(match, j) = Star
  BY <1>0, <1>1, FirstNotBounds, Zenon
<1> HIDE DEF k
<1>3. CASE k > Len(match)
  <2>1. k \in Nat \ {0}
    BY <1>1, <1>2
  <2> QED
    BY <1>3, <2>1, Reads DEF k
<1>4. CASE k <= Len(match)
  <2>1. k # mp
    <3>1. mp \in 1..Len(match)
      BY <1>1
    <3>2. At(match, mp) = Star
      BY <3>1, Reads
    <3> QED
      BY <1>2, <3>2
  <2>2. /\ k - 1 \in mp..(k - 1) /\ k - 1 \in 1..(Len(match) - 1) /\ k - 1 + 1 = k
        /\ k - 1 \in 1..Len(match) /\ k \in 1..Len(match)
    BY ONLY <1>1, <1>2, <1>4, <2>1
  <2>3. match[k - 1] = Star
    <3>1. At(match, k - 1) = Star
      BY <1>2, <2>2
    <3> QED
      BY <2>2, <3>1, Reads
  <2>4. match[k] = Star
    BY <2>2, <2>3 DEF OnePass
  <2>5. At(match, k) = Star
    BY <2>2, <2>4, Reads
  <2> QED
    BY <1>2, <2>5
<1> QED
  BY <1>1, <1>2, <1>3, <1>4

(* Both ways of advancing lead to From.                                    *)
LEMMA NameReachesFrom ==
  ASSUME IInv, Advancing, at = "name", At(target, tp) = NUL
  PROVE  sp = From
<1>0. /\ Len(target) \in Nat /\ tp \in Nat \ {0} /\ tp > Len(target)
      /\ Inner \subseteq 1..Len(target)
  <2>1. tp \in Nat \ {0}
    BY DEF IInv, MatchTypeOK
  <2> QED
    BY <2>1, Reads DEF Inner, Slashes
<1>1. /\ fileName
      /\ \A i \in Inner : i < tp => i <= sp
      /\ \/ sp \in Inner
         \/ sp = 1 /\ \A i \in Inner : i >= tp
  BY DEF Advancing
<1>2. CASE Inner = {}
  BY <1>1, <1>2 DEF From
<1>3. CASE Inner # {}
  <2>1. \A i \in Inner : i < tp /\ ~(i >= tp)
    BY <1>0
  <2>2. sp \in Inner /\ \A i \in Inner : i <= sp
    BY <1>1, <1>3, <2>1
  <2>3. Last(Inner) = sp
    <3>1. \A i \in Inner : (\A j \in Inner : j <= i) => i = sp
      BY <1>0, <2>2
    <3> QED
      BY <2>2, <3>1 DEF Last
  <2> QED
    BY <1>1, <1>3, <2>3 DEF From
<1> QED
  BY <1>2, <1>3

LEMMA DriveReachesFrom ==
  ASSUME IInv, Advancing, DriveReached
  PROVE  tp' = From
<1>0. /\ Len(target) \in Nat /\ tp \in Nat \ {0}
      /\ Slashes \subseteq 1..Len(target)
  <2>1. tp \in Nat \ {0}
    BY DEF IInv, MatchTypeOK
  <2> QED
    BY <2>1, Reads DEF Slashes
<1>1. ~fileName /\ \A i \in Slashes : i >= tp
  BY DEF Advancing, DriveReached
<1>2. CASE At(target, tp) = NUL
  <2>1. tp > Len(target) /\ tp' = 1
    BY <1>0, <1>2, Reads DEF DriveReached
  <2>2. Slashes = {}
    BY <1>0, <1>1, <2>1
  <2> QED
    BY <1>1, <2>1, <2>2 DEF From
<1>3. CASE At(target, tp) # NUL
  <2>1. At(target, tp) = Slash
    BY <1>3 DEF DriveReached
  <2>2. tp \in 1..Len(target)
    BY <1>0, <1>3, Reads
  <2>3. tp \in Slashes
    BY <2>1, <2>2, Reads DEF Slashes
  <2>4. First(Slashes) = tp
    <3>1. \A i \in Slashes : (\A j \in Slashes : i <= j) => i = tp
      BY <1>0, <1>1, <2>3
    <3>2. \A j \in Slashes : tp <= j
      BY <1>0, <1>1
    <3> QED
      BY <2>3, <3>1, <3>2 DEF First
  <2>5. At(target, tp + 1) = NUL <=> tp = Len(target)
    <3>1. tp + 1 \in Nat \ {0}
      BY <1>0
    <3>2. tp + 1 > Len(target) <=> tp = Len(target)
      BY ONLY <1>0, <2>2
    <3> QED
      BY <3>1, <3>2, Reads
  <2>6. tp' = IF At(target, tp + 1) # NUL THEN tp + 1 ELSE tp
    BY <1>3 DEF DriveReached
  <2> QED
    BY <1>1, <2>3, <2>4, <2>5, <2>6 DEF From
<1> QED
  BY <1>2, <1>3

LEMMA InitMatch ==
  ASSUME MatchInit
  PROVE  MatchInv
<1>1. IInv
  BY InitIInv
<1>2. /\ tp = 1 /\ mp = 1 /\ sp = 1 /\ result = FALSE
      /\ at = IF fileName THEN "name" ELSE "drive"
  BY DEF MatchInit
<1>3. \A i \in Slashes : i \in Nat /\ i >= 1
  BY DEF Slashes
<1>4. \A i \in Inner : i \in Slashes
  BY DEF Inner
<1>5. \A i \in Inner : ~(i < 1) /\ i >= 1
  BY <1>3, <1>4
<1>6. Advancing
  <2>1. at = "name" => fileName
    BY <1>2
  <2>2. at = "drive" => ~fileName
    BY <1>2
  <2> QED
    BY <1>2, <1>3, <1>5, <2>1, <2>2 DEF Advancing
<1>7. at # "match" /\ at # "done"
  BY <1>2
<1> QED
  BY <1>1, <1>6, <1>7 DEF MatchInv, MatchMeans

(* Advancing keeps to the last backslash seen, or to none.                 *)
LEMMA AdvanceStep ==
  ASSUME IInv, Advancing,
         AdvanceName \/ AdvanceDrive
  PROVE  Advancing'
<1>0. /\ Len(target) \in Nat /\ tp \in Nat \ {0} /\ tp' = tp + 1
      /\ At(target, tp) # NUL /\ mp' = mp /\ result' = result /\ fileName' = fileName
      /\ Slashes' = Slashes /\ Inner' = Inner /\ at' = at
      /\ \A i \in Slashes : i \in Nat
      /\ Inner \subseteq Slashes
  <2>1. tp \in Nat \ {0}
    BY DEF IInv, MatchTypeOK
  <2>2. Len(target) \in Nat
    BY Reads
  <2>3. \A i \in Slashes : i \in Nat
    BY DEF Slashes
  <2> QED
    BY <2>1, <2>2, <2>3 DEF AdvanceName, AdvanceDrive, Slashes, Inner
<1>1. tp \in 1..Len(target) /\ At(target, tp) = target[tp]
  <2>1. tp <= Len(target)
    BY <1>0, Reads
  <2> QED
    BY <1>0, <2>1, Reads
<1>2. tp \in Slashes <=> At(target, tp) = Slash
  BY <1>1 DEF Slashes
<1>3. \A i \in Slashes : i < tp' <=> i < tp \/ i = tp
  BY <1>0
<1>4. mp = 1 /\ result = FALSE
  BY DEF Advancing, AdvanceName, AdvanceDrive
<1>5. CASE AdvanceDrive
  <2>1. at = "drive" /\ tp \notin Slashes
    BY <1>2, <1>5 DEF AdvanceDrive
  <2>2. ~fileName /\ \A i \in Slashes : i >= tp
    BY <2>1 DEF Advancing
  <2>3. \A i \in Slashes : i >= tp'
    BY <1>0, <2>1, <2>2
  <2> QED
    BY <1>0, <1>4, <2>1, <2>2, <2>3 DEF Advancing
<1>6. CASE AdvanceName
  <2>1. tp \in Inner <=> At(target, tp) = Slash /\ At(target, tp + 1) # NUL
    <3>1. tp + 1 \in Nat \ {0}
      BY <1>0
    <3>2. tp + 1 > Len(target) <=> tp = Len(target)
      BY ONLY <1>0, <1>1
    <3> QED
      BY <1>2, <3>1, <3>2, Reads DEF Inner
  <2>2. at = "name" /\ sp' = IF tp \in Inner THEN tp ELSE sp
    BY <1>6, <2>1 DEF AdvanceName
  <2>3. /\ fileName
        /\ \A i \in Inner : i < tp => i <= sp
        /\ \/ sp \in Inner
           \/ sp = 1 /\ \A i \in Inner : i >= tp
    BY <2>2 DEF Advancing
  <2>4. \A i \in Inner : i < tp' => i <= sp'
    BY <1>0, <2>2, <2>3
  <2>5. \/ sp' \in Inner
        \/ sp' = 1 /\ \A i \in Inner : i >= tp'
    BY <1>0, <2>2, <2>3
  <2> QED
    BY <1>0, <1>4, <2>2, <2>3, <2>4, <2>5 DEF Advancing
<1> QED
  BY <1>5, <1>6

(* A round of the match keeps what is behind and before the pointers, and  *)
(* returns only what they justify.                                         *)
LEMMA NextMatch ==
  ASSUME MatchInv, [MatchNext]_matchVars
  PROVE  MatchInv'
<1>0. /\ IInv /\ Advancing /\ MatchMeans
      /\ at = "match" => Behind(mp, tp) /\ Before(mp, tp)
  BY DEF MatchInv
<1>1. IInv'
  BY <1>0, NextIInv
<1>2. UNCHANGED <<target, match, fileName>>
  BY DEF MatchNext, matchVars, AdvanceName, NameReached, AdvanceDrive, DriveReached,
         MatchStar, MatchQuestion, MatchLiteral, TargetEnds
<1>3. From' = From /\ Part' = Part /\ OnePass' = OnePass
  <2>1. Slashes' = Slashes /\ Inner' = Inner
    BY <1>2 DEF Slashes, Inner
  <2>2. From' = From
    BY <1>2, <2>1 DEF From
  <2>3. OnePass' = OnePass
    BY <1>2 DEF OnePass
  <2> QED
    BY <1>2, <2>2, <2>3 DEF Part
<1>4. Behind(mp', tp') => Behind(mp, tp)'
  BY <1>2, <1>3 DEF Behind
<1>5. Before(mp', tp') => Before(mp, tp)'
  BY <1>2, <1>3 DEF Before
<1>6. ASSUME at' \notin {"name", "drive", "done"},
             Behind(mp', tp') /\ Before(mp', tp')
      PROVE  MatchInv'
  BY <1>1, <1>4, <1>5, <1>6 DEF MatchInv, Advancing, MatchMeans
<1>7. ASSUME at' = "done",
             result' => \E n \in 0..Len(match) : Glob(SubSeq(match, 1, n), Part),
             OnePass /\ Glob(match, Part) => result'
      PROVE  MatchInv'
  <2>1. MatchMeans'
    BY <1>2, <1>3, <1>7 DEF MatchMeans
  <2> QED
    BY <1>1, <1>7, <2>1 DEF MatchInv, Advancing
<1>8. CASE AdvanceName \/ AdvanceDrive
  <2>1. Advancing'
    BY <1>0, <1>8, AdvanceStep
  <2>2. at' \in {"name", "drive"}
    BY <1>8 DEF AdvanceName, AdvanceDrive
  <2> QED
    BY <1>1, <2>1, <2>2 DEF MatchInv, MatchMeans
<1>9. CASE NameReached \/ DriveReached
  <2>1. tp' = From
    BY <1>0, <1>9, NameReachesFrom, DriveReachesFrom DEF NameReached
  <2>2. at' = "match" /\ mp' = mp /\ at \in {"name", "drive"}
    BY <1>9 DEF NameReached, DriveReached
  <2>3. mp = 1
    BY <1>0, <2>2 DEF Advancing
  <2>4. Behind(mp', tp') /\ Before(mp', tp')
    BY <1>0, <2>1, <2>2, <2>3, Starts
  <2> QED
    BY <1>6, <2>2, <2>4
<1>10. /\ Len(target) \in Nat /\ Len(match) \in Nat
       /\ tp \in 1..(Len(target) + 1) /\ mp \in 1..(Len(match) + 1)
       /\ tp \in Nat \ {0} /\ mp \in Nat \ {0}
       /\ match \in Seq(PatternChars) /\ target \in Seq(PathChars)
  <2>1. /\ Len(target) \in Nat /\ Len(match) \in Nat
        /\ tp \in 1..(Len(target) + 1) /\ mp \in 1..(Len(match) + 1)
        /\ match \in Seq(PatternChars) /\ target \in Seq(PathChars)
    BY <1>0, StringsTyped
  <2>2. tp \in Nat \ {0} /\ mp \in Nat \ {0}
    BY ONLY <2>1
  <2> QED
    BY <2>1, <2>2
<1>11. Reading => tp \in 1..Len(target) /\ tp <= Len(target) /\ At(target, tp) = target[tp]
                    /\ From <= tp
  <2>1. Reading => tp <= Len(target)
    BY <1>0, <1>10, Reads DEF Reading
  <2>2. Reading => From <= tp
    BY <1>0 DEF Reading, Behind
  <2> QED
    BY <1>0, <1>10, <2>1, <2>2, Reads
<1>12. At(match, mp) # NUL => mp \in 1..Len(match) /\ mp <= Len(match)
                                /\ At(match, mp) = match[mp]
  <2>1. At(match, mp) # NUL => mp <= Len(match)
    BY <1>0, <1>10, Reads
  <2> QED
    BY <1>0, <1>10, <2>1, Reads
<1>13. CASE MatchStar
  <2> DEFINE k == FirstNot(match, mp, Star)
  <2>0. Star # NUL
    BY WildMatchAssumption
  <2>1. Reading /\ At(match, mp) = Star /\ mp' = k
    BY <1>13 DEF MatchStar
  <2>2. mp <= Len(match) /\ match[mp] = Star
    BY <1>12, <2>0, <2>1
  <2>3. /\ k \in mp..(Len(match) + 1) /\ At(match, k) # Star
        /\ \A j \in mp..(k - 1) : At(match, j) = Star
    BY <1>10, <2>0, FirstNotBounds
  <2>4. OnePass => At(match, k) = NUL
    BY <1>0, <2>2, StarsToTheEnd
  <2> HIDE DEF k
  <2>5. k \in (mp + 1)..(Len(match) + 1)
    <3>1. k # mp
      BY <2>1, <2>3
    <3> QED
      BY ONLY <1>10, <2>3, <3>1
  <2>6. \A i \in mp..(k - 1) : match[i] = Star
    <3>1. \A i \in mp..(k - 1) : i \in 1..Len(match)
      BY ONLY <1>10, <2>5
    <3> QED
      BY <1>0, <2>3, <3>1, Reads
  <2>7. Behind(mp, tp) /\ Before(mp, tp)
    BY <1>0, <2>1 DEF Reading
  <2>8. \A l \in tp..(Len(target) + 1) : Behind(k, l)
    BY <1>0, <2>5, <2>6, <2>7, BehindStars
  <2>9. CASE At(match, mp') = NUL
    <3>1. at' = "done" /\ result' = TRUE
      BY <1>13, <2>9 DEF MatchStar, Returns
    <3>2. k = Len(match) + 1
      <4>1. k \in Nat \ {0} /\ k <= Len(match) + 1
        BY ONLY <1>10, <2>5
      <4>2. k > Len(match)
        BY <1>0, <2>1, <2>9, <4>1, Reads
      <4> QED
        BY ONLY <1>10, <4>1, <4>2
    <3>3. Behind(Len(match) + 1, Len(target) + 1)
      <4>1. Len(target) + 1 \in tp..(Len(target) + 1)
        BY ONLY <1>10
      <4> QED
        BY <2>8, <3>2, <4>1
    <3>4. (Len(match) + 1) - 1 = Len(match) /\ (Len(target) + 1) - 1 = Len(target)
          /\ Len(match) \in 0..Len(match)
      BY ONLY <1>10
    <3>5. Glob(SubSeq(match, 1, Len(match)), Part)
      BY <3>3, <3>4, Zenon DEF Behind, Part
    <3> QED
      BY <1>7, <3>1, <3>4, <3>5, Zenon
  <2>10. CASE At(match, mp') # NUL
    <3>1. ~OnePass
      BY <2>1, <2>4, <2>10
    <3>2. tp' = FirstOr(target, tp, At(match, mp'))
      BY <1>13, <2>10 DEF MatchStar
    <3>3. tp' \in tp..(Len(target) + 1)
      BY <1>10, <3>2, FirstOrBounds
    <3>4. CASE At(target, tp') = NUL
      <4>1. at' = "done" /\ result' = FALSE
        BY <1>13, <2>10, <3>4 DEF MatchStar, Returns
      <4> QED
        BY <1>7, <3>1, <4>1, Zenon
    <3>5. CASE At(target, tp') # NUL
      <4>1. at' = "match"
        BY <1>13, <2>10, <3>5 DEF MatchStar, Reading
      <4>2. Behind(mp', tp') /\ Before(mp', tp')
        BY <2>1, <2>8, <3>1, <3>3, Zenon DEF Before
      <4> QED
        BY <1>6, <4>1, <4>2
    <3> QED
      BY <3>4, <3>5
  <2> QED
    BY <2>9, <2>10
<1>14. ASSUME Reading, At(match, mp) # Star, mp' = mp + 1, tp' = tp + 1,
              mp <= Len(match), match[mp] \in {Question, target[tp]}, at' = "match"
       PROVE  MatchInv'
  <2>1. Behind(mp, tp) /\ Before(mp, tp)
    BY <1>0, <1>14 DEF Reading
  <2>2. Behind(mp', tp')
    BY <1>0, <1>11, <1>14, <2>1, BehindOne
  <2>3. match[mp] # Star
    <3>1. mp \in 1..Len(match)
      BY ONLY <1>10, <1>14
    <3> QED
      BY <1>0, <1>14, <3>1, Reads
  <2>4. Before(mp', tp')
    <3> SUFFICES ASSUME OnePass, Glob(match, Part)
                 PROVE  Before(mp', tp')
      BY DEF Before
    <3> QED
      BY <1>0, <1>11, <1>14, <2>1, <2>3, BeforeOne
  <2> QED
    BY <1>6, <1>14, <2>2, <2>4
<1>15. CASE MatchQuestion
  <2>1. /\ Reading /\ At(match, mp) = Question /\ mp' = mp + 1 /\ tp' = tp + 1
        /\ Question # NUL /\ Question # Star
    BY <1>15, WildMatchAssumption DEF MatchQuestion
  <2>2. mp <= Len(match) /\ match[mp] = Question
    BY <1>12, <2>1
  <2>3. CASE At(target, tp') # At(match, mp')
    <3>1. at' = "done" /\ result' = FALSE
      BY <1>15, <2>3 DEF MatchQuestion, Returns
    <3>2. Before(mp, tp)
      BY <1>0, <2>1 DEF Reading
    <3>3. ~(OnePass /\ Glob(match, Part))
      BY <1>0, <1>11, <2>1, <2>2, <2>3, <3>2, BeforeQuestion
    <3> QED
      BY <1>7, <3>1, <3>3, Zenon
  <2>4. CASE At(target, tp') = At(match, mp')
    <3>1. at' = "match"
      BY <1>15, <2>4 DEF MatchQuestion, Reading
    <3> QED
      BY <1>14, <2>1, <2>2, <3>1
  <2> QED
    BY <2>3, <2>4
<1>16. CASE MatchLiteral
  <2>1. Reading /\ At(match, mp) \notin {Star, Question}
    BY <1>16 DEF MatchLiteral
  <2>2. At(target, tp) # NUL
    BY <2>1 DEF Reading
  <2>3. CASE At(match, mp) = At(target, tp)
    <3>1. at' = "match" /\ mp' = mp + 1 /\ tp' = tp + 1
      BY <1>16, <2>3 DEF MatchLiteral, Reading
    <3>2. mp <= Len(match) /\ match[mp] = target[tp]
      BY <1>11, <1>12, <2>1, <2>2, <2>3
    <3> QED
      BY <1>14, <2>1, <3>1, <3>2
  <2>4. CASE At(match, mp) # At(target, tp)
    <3>1. at' = "done" /\ result' = FALSE
      BY <1>16, <2>4 DEF MatchLiteral, Returns
    <3>2. Before(mp, tp)
      BY <1>0, <2>1 DEF Reading
    <3>3. ASSUME OnePass, Glob(match, Part)
          PROVE  FALSE
      <4>1. mp <= Len(match)
        BY <1>0, <1>11, <2>1, <3>2, <3>3, BeforeOne
      <4>2. At(match, mp) = match[mp]
        <5>1. mp \in 1..Len(match)
          BY ONLY <1>10, <4>1
        <5> QED
          BY <1>0, <5>1, Reads
      <4>3. match[mp] \in {Question, target[tp]}
        BY <1>0, <1>11, <2>1, <3>2, <3>3, <4>2, BeforeOne
      <4> QED
        BY <1>11, <2>1, <2>4, <4>2, <4>3
    <3> QED
      BY <1>7, <3>1, <3>3, Zenon
  <2> QED
    BY <2>3, <2>4
<1>17. CASE TargetEnds
  <2>1. at = "match" /\ at' = "done" /\ result' = TRUE /\ At(target, tp) = NUL
    BY <1>17 DEF TargetEnds, Returns
  <2>2. tp > Len(target)
    BY <1>0, <1>10, <2>1, Reads
  <2>3. tp - 1 = Len(target) /\ mp - 1 \in 0..Len(match)
    BY ONLY <1>10, <2>2
  <2>4. Glob(SubSeq(match, 1, mp - 1), Part)
    BY <1>0, <2>1, <2>3, Zenon DEF Behind, Part
  <2> QED
    BY <1>7, <2>1, <2>3, <2>4, Zenon
<1>18. CASE UNCHANGED matchVars
  <2>1. UNCHANGED <<tp, mp, at, sp, result>>
    BY <1>18 DEF matchVars
  <2>2. Advancing'
    <3>1. Slashes' = Slashes /\ Inner' = Inner
      BY <1>2 DEF Slashes, Inner
    <3> QED
      BY <1>0, <1>2, <2>1, <3>1 DEF Advancing
  <2>3. MatchMeans'
    BY <1>0, <1>2, <1>3, <2>1 DEF MatchMeans
  <2>4. (at = "match" => Behind(mp, tp) /\ Before(mp, tp))'
    BY <1>0, <1>4, <1>5, <2>1
  <2> QED
    BY <1>1, <2>2, <2>3, <2>4 DEF MatchInv
<1> QED
  BY <1>8, <1>9, <1>13, <1>15, <1>16, <1>17, <1>18 DEF MatchNext

(* A path that Match says TRUE of is described by a beginning of the       *)
(* pattern, and in the patterns without backtracking every path that the   *)
(* whole pattern describes is found, for every alphabet, every path and    *)
(* every pattern.                                                          *)
THEOREM MatchMeansAlways == MatchSpec => []MatchMeans
<1>1. MatchInv => MatchMeans
  BY DEF MatchInv
<1> QED
  BY InitMatch, NextMatch, <1>1, PTL DEF MatchSpec
=============================================================================
