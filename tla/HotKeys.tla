------------------------------- MODULE HotKeys ------------------------------
(***************************************************************************)
(* The hot-key extension (js_hotkey/js_hotkey.cpp): scripts register key   *)
(* combinations with a thread that owns them and runs a script function    *)
(* for each press.  Scripts talk to it through its Windows message queue;  *)
(* a RegisterHotKey call waits for the answer by polling the record it     *)
(* posted.  The callback itself may call the extension, on the hot-key     *)
(* thread.  The code gives every registration the same id (curId is never  *)
(* incremented), so an unregister message matches whatever comes first.    *)
(***************************************************************************)
EXTENDS Naturals, Sequences, FiniteSets

CONSTANTS Scripts,    \* script threads that use the extension
          HkThreads,  \* names for hot-key threads
          Callbacks,  \* bound: hot-key threads whose callbacks call back
          Modifiers, VKeys,
          NoThread,   \* threadId = 0
          MaxRegs,    \* bound: RegisterHotKey calls
          MaxQueue    \* bound: [HkThreads -> Nat], messages in a queue

ASSUME HotKeysAssumption ==
  /\ Scripts \intersect HkThreads = {} /\ Callbacks \subseteq HkThreads
  /\ NoThread \notin HkThreads
  /\ Modifiers # {} /\ VKeys # {}
  /\ MaxRegs \in Nat /\ MaxQueue \in [HkThreads -> Nat]

Keys == Modifiers \X VKeys
Regs == 1..MaxRegs
Callers == Scripts \union Callbacks

VARIABLES
  threadId,  \* the global threadId
  state,     \* [HkThreads -> ..], where a hot-key thread is
  creator,   \* [HkThreads -> ..], whose context it was given
  queue,     \* [HkThreads -> Seq(messages)], its message queue
  list,      \* [HkThreads -> Seq(Regs)], hotKeyHead
  sys,       \* [HkThreads -> SUBSET Keys], what Windows has for it
  rec,       \* [Regs -> ..], the hotKeyRegistration records, by id
  key,       \* [Regs -> Keys], their fsModifiers and vk
  pc, hold,  \* where a caller is, and the record it registers
  stopped    \* history: a WM_QUIT was posted

callVars == <<pc, hold>>
recVars == <<rec, key>>
threadVars == <<state, creator, queue, list, sys>>
vars == <<threadId, threadVars, recVars, callVars, stopped>>

Messages ==
  [type : {"register"}, reg : Regs] \union [type : {"hotkey"}, key : Keys]
    \union [type : {"unregister"}, known : BOOLEAN] \union [type : {"quit"}]

TypeOK ==
  /\ threadId \in HkThreads \union {NoThread}
  /\ state \in [HkThreads -> {"none", "starting", "looping", "callback", "ending", "dead"}]
  /\ creator \in [HkThreads -> Callers \union {NoThread}]
  /\ queue \in [HkThreads -> Seq(Messages)]
  /\ list \in [HkThreads -> Seq(Regs)]
  /\ sys \in [HkThreads -> SUBSET Keys]
  /\ rec \in [Regs -> {"none", "waiting", "listed", "failed", "freed"}]
  /\ key \in [Regs -> Keys]
  /\ pc \in [Callers -> {"idle", "create", "postReg", "poll", "posting"}]
  /\ hold \in [Callers -> Regs \union {0}]
  /\ stopped \in BOOLEAN

Init ==
  /\ threadId = NoThread
  /\ state = [h \in HkThreads |-> "none"]
  /\ creator = [h \in HkThreads |-> NoThread]
  /\ queue = [h \in HkThreads |-> <<>>]
  /\ list = [h \in HkThreads |-> <<>>]
  /\ sys = [h \in HkThreads |-> {}]
  /\ rec = [r \in Regs |-> "none"]
  /\ key = [r \in Regs |-> CHOOSE k \in Keys : TRUE]
  /\ pc = [c \in Callers |-> "idle"]
  /\ hold = [c \in Callers |-> 0]
  /\ stopped = FALSE
-----------------------------------------------------------------------------
(* A script thread calls when it likes, a hot-key thread from a callback.  *)
MayCall(c) == pc[c] = "idle" /\ (c \in HkThreads => state[c] = "callback")

Goto(c, l) == pc' = [pc EXCEPT ![c] = l]

(* PostThreadMessage fails until the thread has a message queue, and again *)
(* once the thread is gone; the caller then sleeps and tries again.        *)
Accepts(h) == h \in HkThreads /\ state[h] \in {"looping", "callback", "ending"}

(* A thread that ends still accepts messages, and they are lost.           *)
Post(m) ==
  /\ Accepts(threadId)
  /\ \/ /\ state[threadId] # "ending" /\ Len(queue[threadId]) < MaxQueue[threadId]
        /\ queue' = [queue EXCEPT ![threadId] = Append(@, m)]
     \/ state[threadId] = "ending" /\ UNCHANGED queue
  /\ UNCHANGED <<threadId, state, creator, list, sys, recVars>>

(* Mutant: the record is not kept for the post that follows.               *)
CallRegisterForgets(c) ==
  /\ MayCall(c)
  /\ \E r \in Regs : rec[r] = "none" /\ rec' = [rec EXCEPT ![r] = "waiting"]
  /\ Goto(c, IF threadId = NoThread THEN "create" ELSE "postReg")
  /\ UNCHANGED <<threadId, threadVars, key, hold, stopped>>

CallRegister(c) ==
  /\ MayCall(c)
  /\ \E r \in Regs :
       /\ rec[r] = "none" /\ \A q \in 1..(r - 1) : rec[q] # "none"
       /\ rec' = [rec EXCEPT ![r] = "waiting"]
       /\ \E k \in Keys : key' = [key EXCEPT ![r] = k]
       /\ hold' = [hold EXCEPT ![c] = r]
  /\ Goto(c, IF threadId = NoThread THEN "create" ELSE "postReg")
  /\ UNCHANGED <<threadId, threadVars, stopped>>

(* A failed CreateThread returns NULL, which the code takes for a handle.  *)
CreateHotkeyThread(c) ==
  /\ pc[c] = "create"
  /\ \/ \E h \in HkThreads :
          /\ state[h] = "none"
          /\ threadId' = h
          /\ state' = [state EXCEPT ![h] = "starting"]
          /\ creator' = [creator EXCEPT ![h] = c]
     \/ UNCHANGED <<threadId, state, creator>>
  /\ Goto(c, "postReg")
  /\ UNCHANGED <<queue, list, sys, recVars, hold, stopped>>

(* Mutant: the post is tried once, and the call returns when it fails.     *)
PostRegisterOnce(c) ==
  /\ pc[c] = "postReg"
  /\ IF Accepts(threadId)
     THEN Post([type |-> "register", reg |-> hold[c]]) /\ Goto(c, "poll")
     ELSE Goto(c, "idle") /\ UNCHANGED <<threadId, threadVars, recVars>>
  /\ UNCHANGED <<hold, stopped>>

PostRegister(c) ==
  /\ pc[c] = "postReg"
  /\ Post([type |-> "register", reg |-> hold[c]])
  /\ Goto(c, "poll")
  /\ UNCHANGED <<hold, stopped>>

(* The record may have been freed by then, and its memory may still read   *)
(* as -1: in that case the call need not return.                           *)
RegisterReturns(c) ==
  /\ pc[c] = "poll" /\ rec[hold[c]] # "waiting"
  /\ Goto(c, "idle")
  /\ hold' = [hold EXCEPT ![c] = 0]
  /\ UNCHANGED <<threadId, threadVars, recVars, stopped>>

(* UnregisterHotKey, StopHotKeys, and CleanupExports when the extension is *)
(* unloaded: they look at threadId, then post until the post succeeds.     *)
(* Which of them it is shows in the message only.                          *)
CallCommand(c) ==
  /\ MayCall(c) /\ threadId # NoThread
  /\ Goto(c, "posting")
  /\ UNCHANGED <<threadId, threadVars, recVars, hold, stopped>>

(* The id is read with format "c", which writes two of its four bytes: the *)
(* rest is whatever was on the stack, so the id may match no record.       *)
PostUnregister(c) ==
  /\ pc[c] = "posting"
  /\ \E b \in BOOLEAN : Post([type |-> "unregister", known |-> b])
  /\ Goto(c, "idle")
  /\ UNCHANGED <<hold, stopped>>

PostQuit(c) ==
  /\ pc[c] = "posting"
  /\ Post([type |-> "quit"])
  /\ Goto(c, "idle")
  /\ stopped' = TRUE
  /\ UNCHANGED hold
-----------------------------------------------------------------------------
(* hotkeyThread: its first GetMessage creates the queue.                   *)
StartLoop(h) ==
  /\ state[h] = "starting"
  /\ state' = [state EXCEPT ![h] = "looping"]
  /\ UNCHANGED <<threadId, creator, queue, list, sys, recVars, callVars, stopped>>

Gets(h, type) ==
  /\ state[h] = "looping" /\ queue[h] # <<>> /\ Head(queue[h]).type = type
  /\ queue' = [queue EXCEPT ![h] = Tail(@)]
  /\ UNCHANGED <<threadId, creator, key, callVars, stopped>>

(* Windows grants a combination to one thread of the whole session; it may *)
(* also belong to another program.                                         *)
Granted(h) ==
  /\ Gets(h, "register")
  /\ LET r == Head(queue[h]).reg IN
       /\ \A g \in HkThreads : key[r] \notin sys[g]
       /\ sys' = [sys EXCEPT ![h] = @ \union {key[r]}]
       /\ rec' = [rec EXCEPT ![r] = "listed"]
       /\ list' = [list EXCEPT ![h] = <<r>> \o @]
  /\ UNCHANGED state

(* Mutant: a refused record does not get the id -2.                        *)
RefusedSilently(h) == Gets(h, "register") /\ UNCHANGED <<rec, state, list, sys>>

(* Mutant: a refused record is freed.                                      *)
RefusedAndFreed(h) ==
  /\ Gets(h, "register")
  /\ rec' = [rec EXCEPT ![Head(queue[h]).reg] = "freed"]
  /\ UNCHANGED <<state, list, sys>>

Refused(h) ==
  /\ Gets(h, "register")
  /\ rec' = [rec EXCEPT ![Head(queue[h]).reg] = "failed"]
  /\ UNCHANGED <<state, list, sys>>

(* Mutant: the record is freed and not unlinked.                           *)
UnregisterKeepsLink(h) ==
  /\ Gets(h, "unregister")
  /\ IF Head(queue[h]).known /\ list[h] # <<>>
     THEN /\ rec' = [rec EXCEPT ![Head(list[h])] = "freed"]
          /\ \E k \in sys[h] : sys' = [sys EXCEPT ![h] = @ \ {k}]
     ELSE UNCHANGED <<rec, sys>>
  /\ UNCHANGED <<state, list>>

(* Mutant: the combination stays registered with Windows.                  *)
UnregisterKeepsKey(h) ==
  /\ Gets(h, "unregister")
  /\ IF Head(queue[h]).known /\ list[h] # <<>>
     THEN /\ list' = [list EXCEPT ![h] = Tail(@)]
          /\ rec' = [rec EXCEPT ![Head(list[h])] = "freed"]
     ELSE UNCHANGED <<list, rec>>
  /\ UNCHANGED <<state, sys>>

(* All records carry id 0, so the newest one goes; which of the            *)
(* combinations registered under id 0 Windows drops is up to Windows.      *)
Unregister(h) ==
  /\ Gets(h, "unregister")
  /\ IF Head(queue[h]).known /\ list[h] # <<>>
     THEN /\ list' = [list EXCEPT ![h] = Tail(@)]
          /\ rec' = [rec EXCEPT ![Head(list[h])] = "freed"]
          /\ \E k \in sys[h] : sys' = [sys EXCEPT ![h] = @ \ {k}]
     ELSE UNCHANGED <<list, rec, sys>>
  /\ UNCHANGED state

(* The search stops at the first record with the same modifiers or the     *)
(* same key, and its function runs.                                        *)
Shares(r, k) == key[r][1] = k[1] \/ key[r][2] = k[2]

HotKeyPressed(h) ==
  /\ Gets(h, "hotkey")
  /\ state' = IF \E i \in DOMAIN list[h] : Shares(list[h][i], Head(queue[h]).key)
              THEN [state EXCEPT ![h] = "callback"] ELSE state
  /\ UNCHANGED <<list, sys, rec>>

CallbackReturns(h) ==
  /\ state[h] = "callback" /\ (h \in Callbacks => pc[h] = "idle")
  /\ state' = [state EXCEPT ![h] = "looping"]
  /\ UNCHANGED <<threadId, creator, queue, list, sys, recVars, callVars, stopped>>

(* The loop ends and the context is destroyed, which may wait for a        *)
(* collection.  Messages are still accepted, but nobody takes them, nor    *)
(* those that are in the queue already.                                    *)
Quit(h) ==
  /\ state[h] = "looping" /\ queue[h] # <<>> /\ Head(queue[h]).type = "quit"
  /\ state' = [state EXCEPT ![h] = "ending"]
  /\ queue' = [queue EXCEPT ![h] = <<>>]
  /\ UNCHANGED <<threadId, creator, list, sys, recVars, callVars, stopped>>

(* The list is freed record by record (88-95).                             *)
FreeNext(h) ==
  /\ state[h] = "ending" /\ list[h] # <<>>
  /\ list' = [list EXCEPT ![h] = Tail(@)]
  /\ rec' = [rec EXCEPT ![Head(list[h])] = "freed"]
  /\ UNCHANGED <<threadId, state, creator, queue, sys, key, callVars, stopped>>

(* With the thread go the combinations Windows held for it.  threadId      *)
(* keeps its value.                                                        *)
ThreadEnds(h) ==
  /\ state[h] = "ending" /\ list[h] = <<>>
  /\ state' = [state EXCEPT ![h] = "dead"]
  /\ sys' = [sys EXCEPT ![h] = {}]
  /\ UNCHANGED <<threadId, creator, queue, list, recVars, callVars, stopped>>

(* The user presses a combination that Windows holds for a thread that is  *)
(* in its loop; a thread that ends does not see it.                        *)
Press(h) ==
  /\ state[h] \in {"looping", "callback"} /\ Len(queue[h]) < MaxQueue[h]
  /\ \E k \in sys[h] :
       queue' = [queue EXCEPT ![h] = Append(@, [type |-> "hotkey", key |-> k])]
  /\ UNCHANGED <<threadId, state, creator, list, sys, recVars, callVars, stopped>>
-----------------------------------------------------------------------------
CallerStep(c) ==
  \/ CallRegister(c) \/ CreateHotkeyThread(c) \/ PostRegister(c)
  \/ RegisterReturns(c) \/ CallCommand(c) \/ PostUnregister(c) \/ PostQuit(c)

LoopStep(h) ==
  \/ StartLoop(h) \/ Granted(h) \/ Refused(h) \/ Unregister(h)
  \/ HotKeyPressed(h) \/ Quit(h)

EndStep(h) == CallbackReturns(h) \/ FreeNext(h) \/ ThreadEnds(h)

Next ==
  \/ \E c \in Callers : CallerStep(c)
  \/ \E h \in HkThreads : LoopStep(h) \/ EndStep(h) \/ Press(h)

(* Only the message loops must run: what is claimed to happen starts with  *)
(* a posted message.  A callback may wait for a collection to end before   *)
(* it begins (76), and is a script: nothing says that it returns.          *)
Fairness == \A h \in HkThreads : WF_vars(LoopStep(h))

Spec == Init /\ [][Next]_vars /\ Fairness
-----------------------------------------------------------------------------
(* Properties.                                                             *)

OnList(r, h) == \E i \in DOMAIN list[h] : list[h][i] = r
Posted(r, h) == \E i \in DOMAIN queue[h] :
                  queue[h][i] = [type |-> "register", reg |-> r]

(* A record is owned in one place at a time: a posted one is waiting and   *)
(* in no list, a listed one is in exactly one list of a thread that still  *)
(* runs and in no queue, so no message and no list ever leads to a freed   *)
(* record.                                                                 *)
RecordsInOnePlace ==
  \A r \in Regs, h \in HkThreads :
    /\ Posted(r, h) => rec[r] = "waiting"
    /\ OnList(r, h) => rec[r] = "listed" /\ \A g \in HkThreads \ {h} : ~OnList(r, g)
    /\ rec[r] = "listed" => \E g \in HkThreads : OnList(r, g) /\ Accepts(g)

(* The list and what Windows holds keep the same length, although the      *)
(* shared id lets them hold different combinations (40-44, 51-66); when    *)
(* the thread ends, Windows gives up none before its record is freed.      *)
SystemMatchesList ==
  \A h \in HkThreads :
    IF state[h] = "ending" THEN Len(list[h]) <= Cardinality(sys[h])
                           ELSE Cardinality(sys[h]) = Len(list[h])

(* A hot-key thread reads the context it was given when it starts (31-32,  *)
(* 134): while its creator is inside RegisterHotKey and the context lives, *)
(* or, whenever that is, when the thread of another caller has taken its   *)
(* place since: both had found no thread (132).  Its creator then posts to *)
(* that other thread, returns, and may end with its context.               *)
LateStartMeansRace ==
  \A h \in HkThreads :
    state[h] = "starting" /\ pc[creator[h]] \notin {"postReg", "poll"} =>
      threadId \in HkThreads \ {h} /\ creator[threadId] # creator[h]

(* A posted registration is answered, unless the service was stopped or    *)
(* the hot-key thread stays in a callback for ever, which it does when the *)
(* callback registers a combination itself and polls for its own answer.   *)
RegistrationAnswered ==
  \A r \in Regs, h \in HkThreads :
    \/ Posted(r, h) ~> (rec[r] # "waiting" \/ stopped)
    \/ <>[](state[h] = "callback")

(* The registrations seen by callers: one answer each, released once.      *)
Status(r) ==
  CASE rec[r] = "none" -> "new"          [] rec[r] = "waiting" -> "asked"
    [] rec[r] = "listed" -> "granted"    [] rec[r] = "failed" -> "refused"
    [] rec[r] = "freed" -> "released"

Service == INSTANCE Registrations WITH status <- [r \in Regs |-> Status(r)]

(* Every step of the extension is a step of that service or invisible.     *)
ServesRegistrations == Service!Spec
=============================================================================
