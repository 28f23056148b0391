------------------------------ MODULE WimFiles ------------------------------
(***************************************************************************)
(* The WIM extension (js_wimg/js_wimg.cpp, uiworker.cpp, exceptions.cpp):  *)
(* image files with a handle each, one thread that shows a progress window *)
(* for every file that asks for one, and the lists of files a capture is   *)
(* to skip.  Scripts reach the thread by posting to threadID, over and     *)
(* over until the post succeeds.  setsInUse is never raised, so that all   *)
(* files share sets[0]: one owner, one list.  Reading the array a list is  *)
(* made from may run a script, which may call the extension again.         *)
(***************************************************************************)
EXTENDS Naturals, Sequences, FiniteSets

CONSTANTS Scripts,    \* script threads
          Files,      \* image files the scripts have opened, by number
          MaxThreads, \* bound: progress threads StartUI starts
          MaxCalls,   \* bound: calls of StartUI, StopUI, SetExceptionsList
          MaxRecords  \* bound: records SetExceptionsList makes

ASSUME WimFilesAssumption ==
  /\ Files \subseteq Nat \ {0}
  /\ MaxThreads \in Nat /\ MaxCalls \in Nat /\ MaxRecords \in Nat

UiThreads == 1..MaxThreads
NULL == 0
Handles == Files \union {NULL}

VARIABLES
  threadID, \* the progress thread scripts post to, or 0
  ui,       \* [UiThreads -> ..], where a progress thread is
  queue,    \* [UiThreads -> Seq(..)], what was posted to it
  windows,  \* [UiThreads -> [Handles -> Nat]], the windows a thread has made and
            \* not destroyed, by their GWLP_USERDATA
  nWindowsOpen,
  objects,  \* files whose object is not yet collected
  private,  \* [Files -> ..], what the object of a file has as its private
  open,     \* files whose handle is open
  owner,    \* sets[0].wimFile
  head,     \* sets[0].head, a record by its number, or NULL
  listed,   \* [Handles -> ..], the head ExceptionCallback was registered with
  records,  \* records made so far
  live,     \* those that were not deleted: the list from sets[0].head
  pc,       \* [Scripts -> ..], where a script is
  arg,      \* [Scripts -> Handles], the handle it works with
  outer,    \* [Scripts -> Seq(Handles)], those of the calls of SetExceptionsList
            \* whose arrays are being read meanwhile
  calls,    \* calls so far
  unmade,   \* history: windows that were counted and could not be made
  sharing,  \* history: files registered since sets[0] was last emptied
  mixed     \* history: "threads" when two progress threads were there at once,
            \* "lists" when two scripts were in SetExceptionsList at once,
            \* "nested" when one was in two calls of it at once

uiVars == <<threadID, ui, queue, windows, nWindowsOpen, unmade>>
fileVars == <<objects, private, open>>
listVars == <<owner, head, listed, records, live, sharing>>
scriptVars == <<pc, arg, outer, calls>>
vars == <<uiVars, fileVars, listVars, scriptVars, mixed>>

Posting == {"open", "close", "finalize"}
Setting == {"free", "unregister", "build"}
Messages == [op : {"open", "close"}, file : Handles]

TypeOK ==
  /\ threadID \in UiThreads \union {0}
  /\ ui \in [UiThreads -> {"none", "starting", "loop", "quit", "dead"}]
  /\ queue \in [UiThreads -> Seq(Messages)]
  /\ windows \in [UiThreads -> [Handles -> Nat]]
  /\ nWindowsOpen \in Nat /\ unmade \in Nat
  /\ objects \in SUBSET Files /\ open \in SUBSET Files
  /\ private \in [Files -> Handles]
  /\ owner \in Handles /\ head \in Nat
  /\ listed \in [Handles -> Nat]
  /\ records \in 0..MaxRecords /\ live \in SUBSET (1..MaxRecords)
  /\ sharing \in SUBSET Handles
  /\ pc \in [Scripts -> {"idle", "create"} \union Posting \union Setting]
  /\ arg \in [Scripts -> Handles] /\ calls \in 0..MaxCalls
  /\ outer \in [Scripts -> Seq(Handles)]
  /\ mixed \in SUBSET {"threads", "lists", "nested"}

Init ==
  /\ threadID = 0
  /\ ui = [t \in UiThreads |-> "none"]
  /\ queue = [t \in UiThreads |-> <<>>]
  /\ windows = [t \in UiThreads |-> [h \in Handles |-> 0]]
  /\ nWindowsOpen = 0 /\ unmade = 0
  /\ objects = Files /\ open = Files
  /\ private = [f \in Files |-> f]
  /\ owner = NULL /\ head = NULL
  /\ listed = [h \in Handles |-> NULL]
  /\ records = 0 /\ live = {} /\ sharing = {}
  /\ pc = [s \in Scripts |-> "idle"]
  /\ arg = [s \in Scripts |-> NULL] /\ calls = 0
  /\ outer = [s \in Scripts |-> <<>>]
  /\ mixed = {}
-----------------------------------------------------------------------------
Goto(s, l, h) == pc' = [pc EXCEPT ![s] = l] /\ arg' = [arg EXCEPT ![s] = h]

(* A script runs between its calls, and while SetExceptionsList reads an   *)
(* array: its elements may be computed, and become strings, by functions   *)
(* of the script (exceptions.cpp 140-142).                                 *)
Runs(s) == pc[s] \in {"idle", "build"}

Call(s, l, h) ==
  /\ Goto(s, l, h)
  /\ outer' = [outer EXCEPT ![s] = IF pc[s] = "build" THEN <<arg[s]>> \o @ ELSE @]

Return(s) ==
  IF outer[s] = <<>>
  THEN Goto(s, "idle", NULL) /\ UNCHANGED outer
  ELSE Goto(s, "build", Head(outer[s])) /\ outer' = [outer EXCEPT ![s] = Tail(@)]

Alive(t) == ui[t] \in {"starting", "loop", "quit"}

(* StartUI: without a thread it goes on to make one (282-286).             *)
StartUI(s) ==
  /\ Runs(s) /\ calls < MaxCalls
  /\ calls' = calls + 1
  /\ \E f \in objects :
       Call(s, IF threadID = 0 THEN "create" ELSE "open", private[f])
  /\ UNCHANGED <<uiVars, fileVars, listVars, mixed>>

(* CreateThread writes threadID.  The test of its result is an assignment, *)
(* so that StartUI then returns FALSE and posts nothing (287-293).         *)
CreateUi(s) ==
  /\ pc[s] = "create"
  /\ \E t \in UiThreads :
       /\ ui[t] = "none" /\ \A u \in 1..(t - 1) : ui[u] # "none"
       /\ threadID' = t
       /\ ui' = [ui EXCEPT ![t] = "starting"]
  /\ mixed' = mixed \union IF \E u \in UiThreads : Alive(u) THEN {"threads"} ELSE {}
  /\ Return(s)
  /\ UNCHANGED <<queue, windows, nWindowsOpen, unmade, fileVars, listVars, calls>>

(* StopUI posts when there is a thread (301-305).                          *)
StopUI(s) ==
  /\ Runs(s) /\ threadID # 0 /\ calls < MaxCalls
  /\ calls' = calls + 1
  /\ \E f \in objects : Call(s, "close", private[f])
  /\ UNCHANGED <<uiVars, fileVars, listVars, mixed>>

(* The file's handle is closed, with all that is registered for it.        *)
CloseHandle(h) ==
  /\ open' = open \ {h}
  /\ listed' = [listed EXCEPT ![h] = NULL]

(* The post reaches a thread that has a queue; until then it is tried      *)
(* again, with what threadID then is (55-57, 295-297, 306-307).  The       *)
(* finalizer goes on to close the handle (58-59).                          *)
Post(s) ==
  /\ pc[s] \in Posting
  /\ threadID # 0 /\ ui[threadID] \in {"loop", "quit"}
  /\ queue' = [queue EXCEPT ![threadID] =
                 Append(@, [op |-> IF pc[s] = "open" THEN "open" ELSE "close",
                            file |-> arg[s]])]
  /\ IF pc[s] = "finalize" THEN CloseHandle(arg[s]) ELSE UNCHANGED <<open, listed>>
  /\ Return(s)
  /\ UNCHANGED <<threadID, ui, windows, nWindowsOpen, unmade, objects,
                 private, owner, head, records, live, sharing, calls, mixed>>

InUse(h) ==
  \E s \in Scripts :
    \/ pc[s] # "idle" /\ arg[s] = h
    \/ \E i \in DOMAIN outer[s] : outer[s][i] = h

(* The collector finalizes the object of a file no script is using         *)
(* (48-60): with a thread it posts first.                                  *)
Finalize(s) ==
  /\ Runs(s)
  /\ \E f \in objects :
       /\ ~InUse(f)
       /\ objects' = objects \ {f}
       /\ IF private[f] # NULL /\ threadID # 0
          THEN Call(s, "finalize", f) /\ UNCHANGED <<open, listed>>
          ELSE /\ UNCHANGED <<pc, arg, outer>>
               /\ IF private[f] # NULL THEN CloseHandle(f)
                  ELSE UNCHANGED <<open, listed>>
  /\ UNCHANGED <<uiVars, private, owner, head, records, live, sharing, calls, mixed>>

(* Close does not tell the thread (104-110).                               *)
Close(s) ==
  /\ Runs(s)
  /\ \E f \in objects :
       /\ private[f] # NULL
       /\ CloseHandle(f)
       /\ private' = [private EXCEPT ![f] = NULL]
  /\ UNCHANGED <<uiVars, scriptVars, objects, owner, head, records, live, sharing,
                 mixed>>
-----------------------------------------------------------------------------
(* The progress thread (uiworker.cpp).                                     *)

(* The windows there are, those of a thread and a handle by number.        *)
Made(t, h) == {<<t, h, i>> : i \in 1..windows[t][h]}
AllWindows == UNION {Made(t, h) : t \in UiThreads, h \in Handles}

(* Its message queue is made when it first needs one (89-99).              *)
EnterLoop(t) ==
  /\ ui[t] = "starting"
  /\ ui' = [ui EXCEPT ![t] = "loop"]
  /\ UNCHANGED <<threadID, queue, windows, nWindowsOpen, unmade, mixed, fileVars,
                 listVars, scriptVars>>

Take(t, op, h) ==
  /\ ui[t] \in {"loop", "quit"} /\ queue[t] # <<>>
  /\ Head(queue[t]) = [op |-> op, file |-> h]
  /\ queue' = [queue EXCEPT ![t] = Tail(@)]

(* The counter is not protected: when another thread counts as well, its   *)
(* change or this one may be gone.                                         *)
Counted(t, new) ==
  \/ nWindowsOpen' = new
  \/ /\ \E u \in UiThreads \ {t} : Alive(u)
     /\ UNCHANGED nWindowsOpen

(* WM_APP + 1: a window, which is counted also when it cannot be made      *)
(* (103-110).                                                              *)
OpenWindow(t) ==
  /\ \E h \in Handles :
       /\ Take(t, "open", h)
       /\ \/ windows' = [windows EXCEPT ![t][h] = @ + 1] /\ UNCHANGED unmade
          \/ unmade' = unmade + 1 /\ UNCHANGED windows
  /\ Counted(t, nWindowsOpen + 1)
  /\ UNCHANGED <<threadID, ui, mixed, fileVars, listVars, scriptVars>>

(* Windows of the handle are destroyed one by one until the counter is     *)
(* zero (76-87).  That a counter too low falls below zero is left out.     *)
Destroyed(t, h) ==
  IF nWindowsOpen \in 1..windows[t][h] THEN nWindowsOpen ELSE windows[t][h]

(* EnumThreadWindows fails when the counter has become zero, and may also  *)
(* when the thread has no window.                                          *)
EnumFails(t, h) ==
  \/ windows[t][h] > 0 /\ nWindowsOpen = Destroyed(t, h)
  \/ \A g \in Handles : windows[t][g] = 0

EnumSucceeds(t, h) == ~(windows[t][h] > 0 /\ nWindowsOpen = Destroyed(t, h))

(* Mutant: the windows are destroyed and not counted.                      *)
CloseWindowsUncounted(t) ==
  /\ \E h \in Handles :
       /\ Take(t, "close", h)
       /\ windows' = [windows EXCEPT ![t][h] = 0]
       /\ IF \A g \in Handles \ {h} : windows[t][g] = 0
          THEN threadID' = 0 /\ ui' = [ui EXCEPT ![t] = "quit"]
          ELSE UNCHANGED <<threadID, ui>>
  /\ UNCHANGED <<nWindowsOpen, unmade, mixed, fileVars, listVars, scriptVars>>

(* Mutant: threadID keeps the thread that ends.                            *)
CloseWindowsKeepId(t) ==
  /\ \E h \in Handles :
       /\ Take(t, "close", h)
       /\ windows' = [windows EXCEPT ![t][h] = @ - Destroyed(t, h)]
       /\ Counted(t, nWindowsOpen - Destroyed(t, h))
       /\ \/ EnumFails(t, h) /\ ui' = [ui EXCEPT ![t] = "quit"]
          \/ EnumSucceeds(t, h) /\ UNCHANGED ui
  /\ UNCHANGED <<threadID, unmade, mixed, fileVars, listVars, scriptVars>>

(* WM_APP + 2: the windows of a handle go, and with the last one the       *)
(* thread decides to end; what is queued is still taken (111-117).         *)
CloseWindows(t) ==
  /\ \E h \in Handles :
       /\ Take(t, "close", h)
       /\ Destroyed(t, h) <= nWindowsOpen
       /\ windows' = [windows EXCEPT ![t][h] = @ - Destroyed(t, h)]
       /\ Counted(t, nWindowsOpen - Destroyed(t, h))
       /\ \/ /\ EnumFails(t, h)
             /\ threadID' = 0
             /\ ui' = [ui EXCEPT ![t] = "quit"]
          \/ EnumSucceeds(t, h) /\ UNCHANGED <<threadID, ui>>
  /\ UNCHANGED <<unmade, mixed, fileVars, listVars, scriptVars>>

(* WM_QUIT comes last; windows of the thread go with it, and nobody counts *)
(* them (99, 125).                                                         *)
Quit(t) ==
  /\ ui[t] = "quit" /\ queue[t] = <<>>
  /\ ui' = [ui EXCEPT ![t] = "dead"]
  /\ UNCHANGED <<threadID, queue, windows, nWindowsOpen, unmade, mixed, fileVars,
                 listVars, scriptVars>>
-----------------------------------------------------------------------------
(* Lists of what a capture skips (exceptions.cpp).                         *)

InSet(s) == pc[s] \in Setting \/ outer[s] # <<>>

(* SetExceptionsList finds sets[0], whoever has it (107-125).              *)
SetExceptions(s) ==
  /\ Runs(s) /\ calls < MaxCalls
  /\ calls' = calls + 1
  /\ \E f \in objects :
       /\ owner' = private[f]
       /\ Call(s, IF head = NULL THEN "build" ELSE "free", private[f])
  /\ sharing' = IF head = NULL THEN {} ELSE sharing
  /\ mixed' = mixed
       \union (IF \E t \in Scripts \ {s} : InSet(t) THEN {"lists"} ELSE {})
       \union (IF InSet(s) THEN {"nested"} ELSE {})
  /\ UNCHANGED <<uiVars, fileVars, head, listed, records, live>>

(* Mutant: the records are deleted, and sets[0].head is not reset.         *)
FreeListKeepsHead(s) ==
  /\ pc[s] = "free"
  /\ live' = {} /\ sharing' = {}
  /\ Goto(s, "unregister", arg[s])
  /\ UNCHANGED <<uiVars, fileVars, owner, head, listed, records, outer, calls, mixed>>

(* The list is deleted while callbacks lead to it (126-132).               *)
FreeList(s) ==
  /\ pc[s] = "free"
  /\ head' = NULL /\ live' = {} /\ sharing' = {}
  /\ Goto(s, "unregister", arg[s])
  /\ UNCHANGED <<uiVars, fileVars, owner, listed, records, outer, calls, mixed>>

Unregister(s) ==
  /\ pc[s] = "unregister"
  /\ listed' = [listed EXCEPT ![arg[s]] = NULL]
  /\ Goto(s, "build", arg[s])
  /\ UNCHANGED <<uiVars, fileVars, owner, head, records, live, sharing, outer, calls,
                 mixed>>

(* The next element becomes a record, before the head there is by now: the *)
(* one of this call, or what a call from within has left (136-146).        *)
AddRecord(s) ==
  /\ pc[s] = "build" /\ records < MaxRecords
  /\ records' = records + 1
  /\ head' = records' /\ live' = live \union {records'}
  /\ UNCHANGED <<uiVars, fileVars, owner, listed, sharing, scriptVars, mixed>>

(* The callback is registered with the list, perhaps an empty one.  That   *)
(* may fail, and does for a handle that was closed meanwhile (148-151).    *)
Register(s) ==
  /\ pc[s] = "build"
  /\ \/ /\ arg[s] \in open \union {NULL}
        /\ listed' = [listed EXCEPT ![arg[s]] = head]
        /\ sharing' = sharing \union {arg[s]}
     \/ UNCHANGED <<listed, sharing>>
  /\ Return(s)
  /\ UNCHANGED <<uiVars, fileVars, owner, head, records, live, calls, mixed>>
-----------------------------------------------------------------------------
ScriptStep(s) ==
  \/ StartUI(s) \/ CreateUi(s) \/ StopUI(s) \/ Post(s) \/ Finalize(s) \/ Close(s)
  \/ SetExceptions(s) \/ FreeList(s) \/ Unregister(s) \/ AddRecord(s) \/ Register(s)

UiStep(t) == EnterLoop(t) \/ OpenWindow(t) \/ CloseWindows(t) \/ Quit(t)

Next == (\E s \in Scripts : ScriptStep(s)) \/ (\E t \in UiThreads : UiStep(t))

(* A script in a native runs on; the progress thread takes what is posted. *)
Fairness ==
  /\ \A s \in Scripts : WF_vars(Post(s))
  /\ \A t \in UiThreads : WF_vars(UiStep(t))

Spec == Init /\ [][Next]_vars /\ Fairness
-----------------------------------------------------------------------------
(* Properties.                                                             *)

(* The counter is the number of windows that were made and not destroyed,  *)
(* and of those that could not be made, so that a thread decides to end    *)
(* only when its last window is gone; until two threads count at once,     *)
(* which takes two calls of StartUI that both find threadID 0 (76-125).    *)
CountsWindows ==
  "threads" \notin mixed => nWindowsOpen = Cardinality(AllWindows) + unmade

(* The callback of a file leads to records that are there exactly if the   *)
(* file was registered since the shared list was last emptied; and that is *)
(* at most the file whose call of SetExceptionsList came last, unless a    *)
(* script called it while its own array was read.  A capture, which runs   *)
(* outside any request and may begin at any moment, walks deleted records  *)
(* for any other file that had exceptions (93-151).                        *)
ListIsOwners ==
  "lists" \notin mixed =>
    /\ \A f \in open \union {NULL} :
         listed[f] # NULL => (listed[f] \in live <=> f \in sharing)
    /\ "nested" \notin mixed /\ (\A s \in Scripts : ~InSet(s)) => sharing \subseteq {owner}

(* A post is accepted in the end, unless the thread has ended meanwhile:   *)
(* nobody then resets the loops of StartUI, StopUI and of the finalizer,   *)
(* which runs inside the collector (55-57, 295-297, 306-307).              *)
PostsEnd ==
  \A s \in Scripts : pc[s] \in Posting ~> pc[s] \notin Posting \/ threadID = 0
=============================================================================
