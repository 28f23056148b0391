--------------------------- MODULE HotKeys_proofs ---------------------------
(***************************************************************************)
(* For any scripts, hot-key threads, combinations and number of calls: a   *)
(* registration record is in one place at a time, Windows holds as many    *)
(* combinations for a thread as its list has records, and a hot-key thread *)
(* starts while its creator still waits, or after the thread of another    *)
(* caller has taken its place.  To its callers the extension is the        *)
(* service of Registrations.                                               *)
(***************************************************************************)
EXTENDS HotKeys, TLAPS, FiniteSetTheorems

Register(r) == [type |-> "register", reg |-> r]

(* A caller that has not posted its record owns it alone.                  *)
Owning == {"create", "postReg"}

OwnersApart ==
  \A c \in Callers : pc[c] \in Owning =>
    /\ hold[c] \in Regs /\ rec[hold[c]] = "waiting"
    /\ \A h \in HkThreads : ~Posted(hold[c], h)
    /\ \A d \in Callers : pc[d] \in Owning /\ hold[d] = hold[c] => d = c

(* A record is posted once, and stands on a list once.                     *)
PostedOnce ==
  \A h, g \in HkThreads : \A i \in DOMAIN queue[h], j \in DOMAIN queue[g] :
    queue[h][i].type = "register" /\ queue[h][i] = queue[g][j] => h = g /\ i = j

ListedOnce ==
  \A h \in HkThreads : \A i, j \in DOMAIN list[h] : list[h][i] = list[h][j] => i = j

SysFinite == \A h \in HkThreads : IsFiniteSet(sys[h])

(* The creator of the thread in use cannot post before the thread loops.   *)
(* A caller creates at most one thread: once there is one, there is always *)
(* one in use, and no further caller finds none.                           *)
CreatorWaits ==
  /\ \A h \in HkThreads : state[h] = "starting" /\ threadId = h =>
       pc[creator[h]] = "postReg"
  /\ \A h \in HkThreads : state[h] # "none" =>
       /\ creator[h] \in Callers /\ pc[creator[h]] # "create"
       /\ threadId \in HkThreads /\ state[threadId] # "none"
       /\ \A g \in HkThreads : state[g] # "none" /\ creator[g] = creator[h] => g = h

HotKeysInv ==
  /\ TypeOK /\ OwnersApart /\ PostedOnce /\ RecordsInOnePlace /\ ListedOnce
  /\ SysFinite /\ SystemMatchesList /\ CreatorWaits
-----------------------------------------------------------------------------
(* What a post, a GetMessage and the end of a thread do to the queues.     *)
LEMMA MessageKinds ==
  /\ \A r \in Regs : Register(r) \in Messages
  /\ \A k \in Keys : [type |-> "hotkey", key |-> k] \in Messages
  /\ \A b \in BOOLEAN : [type |-> "unregister", known |-> b] \in Messages
  /\ [type |-> "quit"] \in Messages
BY DEF Messages, Register

LEMMA RegisterCarries ==
  ASSUME NEW m \in Messages, m.type = "register"
  PROVE  m.reg \in Regs /\ m = Register(m.reg)
<1>1. m \in [type : {"register"}, reg : Regs]
  BY DEF Messages
<1> QED
  BY <1>1 DEF Register

LEMMA Posting ==
  ASSUME queue \in [HkThreads -> Seq(Messages)], NEW t \in HkThreads, NEW m \in Messages,
         queue' = [queue EXCEPT ![t] = Append(@, m)]
  PROVE  /\ queue' \in [HkThreads -> Seq(Messages)]
         /\ \A r, h : h \in HkThreads /\ Posted(r, h)' =>
              Posted(r, h) \/ (h = t /\ m = Register(r))
         /\ (m.type = "register" =>
               \A h \in HkThreads : \A i \in DOMAIN queue[h] : queue[h][i] # m)
              /\ PostedOnce => PostedOnce'
<1>1. \A h \in HkThreads : queue[h] \in Seq(Messages)
  OBVIOUS
<1>2. queue' \in [HkThreads -> Seq(Messages)]
  BY <1>1
<1>3. \A h \in HkThreads : queue'[h] = IF h = t THEN Append(queue[t], m) ELSE queue[h]
  OBVIOUS
<1>4. ASSUME NEW h \in HkThreads, NEW i \in DOMAIN queue'[h]
      PROVE  \/ i \in DOMAIN queue[h] /\ queue'[h][i] = queue[h][i]
             \/ h = t /\ i = Len(queue[t]) + 1 /\ queue'[h][i] = m
  BY <1>1, <1>3
<1>5. ASSUME NEW r, NEW h \in HkThreads, Posted(r, h)'
      PROVE  Posted(r, h) \/ (h = t /\ m = Register(r))
  BY <1>4, <1>5 DEF Posted, Register
<1>6. ASSUME PostedOnce,
             m.type = "register" =>
               \A h \in HkThreads : \A i \in DOMAIN queue[h] : queue[h][i] # m
      PROVE  PostedOnce'
  <2> SUFFICES ASSUME NEW h \in HkThreads, NEW g \in HkThreads,
                      NEW i \in DOMAIN queue'[h], NEW j \in DOMAIN queue'[g],
                      queue'[h][i].type = "register", queue'[h][i] = queue'[g][j]
               PROVE  h = g /\ i = j
    BY DEF PostedOnce
  <2> QED
    BY <1>4, <1>6 DEF PostedOnce
<1> QED
  BY <1>2, <1>5, <1>6

LEMMA Getting ==
  ASSUME queue \in [HkThreads -> Seq(Messages)], NEW t \in HkThreads, queue[t] # <<>>,
         queue' = [queue EXCEPT ![t] = Tail(@)]
  PROVE  /\ queue' \in [HkThreads -> Seq(Messages)]
         /\ Head(queue[t]) \in Messages
         /\ \A r, h : h \in HkThreads /\ Posted(r, h)' => Posted(r, h)
         /\ \A r : Head(queue[t]) = Register(r) => Posted(r, t)
         /\ PostedOnce =>
              /\ PostedOnce'
              /\ \A r, h : h \in HkThreads /\ Head(queue[t]) = Register(r) => ~Posted(r, h)'
<1>1. \A h \in HkThreads : queue[h] \in Seq(Messages)
  OBVIOUS
<1>2. queue' \in [HkThreads -> Seq(Messages)]
  BY <1>1
<1>3. \A h \in HkThreads : queue'[h] = IF h = t THEN Tail(queue[t]) ELSE queue[h]
  OBVIOUS
<1>4. ASSUME NEW h \in HkThreads, NEW i \in DOMAIN queue'[h]
      PROVE  \/ h # t /\ i \in DOMAIN queue[h] /\ queue'[h][i] = queue[h][i]
             \/ /\ h = t /\ i \in Nat \ {0} /\ i + 1 \in DOMAIN queue[t]
                /\ queue'[h][i] = queue[t][i + 1]
  BY <1>1, <1>3
<1>5. 1 \in DOMAIN queue[t] /\ Head(queue[t]) = queue[t][1] /\ queue[t][1] \in Messages
  BY <1>1
<1>6. ASSUME NEW r, NEW h \in HkThreads, Posted(r, h)'
      PROVE  Posted(r, h)
  BY <1>4, <1>6 DEF Posted
<1>7. \A r : Head(queue[t]) = Register(r) => Posted(r, t)
  BY <1>5 DEF Posted, Register
<1>8. ASSUME PostedOnce PROVE PostedOnce'
  <2> SUFFICES ASSUME NEW h \in HkThreads, NEW g \in HkThreads,
                      NEW i \in DOMAIN queue'[h], NEW j \in DOMAIN queue'[g],
                      queue'[h][i].type = "register", queue'[h][i] = queue'[g][j]
               PROVE  h = g /\ i = j
    BY DEF PostedOnce
  <2> QED
    BY <1>4, <1>8 DEF PostedOnce
<1>9. ASSUME PostedOnce, NEW r, NEW h \in HkThreads, Head(queue[t]) = Register(r), Posted(r, h)'
      PROVE  FALSE
  <2>1. PICK i \in DOMAIN queue'[h] : queue'[h][i] = Register(r)
    BY <1>9 DEF Posted, Register
  <2>2. queue[t][1].type = "register"
    BY <1>5, <1>9 DEF Register
  <2> QED
    BY <1>4, <1>5, <1>9, <2>1, <2>2 DEF PostedOnce
<1> QED
  BY <1>2, <1>5, <1>6, <1>7, <1>8, <1>9

LEMMA Clearing ==
  ASSUME queue \in [HkThreads -> Seq(Messages)], NEW t \in HkThreads,
         queue' = [queue EXCEPT ![t] = <<>>]
  PROVE  /\ queue' \in [HkThreads -> Seq(Messages)]
         /\ \A r, h : h \in HkThreads /\ Posted(r, h)' => Posted(r, h)
         /\ PostedOnce => PostedOnce'
<1>1. /\ queue' \in [HkThreads -> Seq(Messages)]
      /\ queue'[t] = <<>>
      /\ \A h \in HkThreads \ {t} : queue'[h] = queue[h]
  OBVIOUS
<1>2. \A h \in HkThreads : \A i \in DOMAIN queue'[h] : h # t
  BY <1>1
<1> QED
  BY <1>1, <1>2 DEF Posted, PostedOnce

(* What registering and unregistering do to a list.                        *)
LEMMA Listing ==
  ASSUME list \in [HkThreads -> Seq(Regs)], NEW t \in HkThreads, NEW r \in Regs,
         list' = [list EXCEPT ![t] = <<r>> \o @]
  PROVE  /\ list' \in [HkThreads -> Seq(Regs)]
         /\ Len(list'[t]) = Len(list[t]) + 1
         /\ \A q, h : h \in HkThreads =>
              (OnList(q, h)' <=> OnList(q, h) \/ (h = t /\ q = r))
         /\ ListedOnce /\ ~OnList(r, t) => ListedOnce'
<1>1. \A h \in HkThreads : list[h] \in Seq(Regs)
  OBVIOUS
<1>2. \A h \in HkThreads : list'[h] = IF h = t THEN <<r>> \o list[t] ELSE list[h]
  OBVIOUS
<1>3. /\ <<r>> \o list[t] \in Seq(Regs) /\ Len(<<r>> \o list[t]) = Len(list[t]) + 1
      /\ (<<r>> \o list[t])[1] = r
      /\ \A i \in DOMAIN list[t] : /\ i + 1 \in DOMAIN (<<r>> \o list[t])
                                   /\ (<<r>> \o list[t])[i + 1] = list[t][i]
      /\ \A i \in DOMAIN (<<r>> \o list[t]) :
           i # 1 => i - 1 \in DOMAIN list[t] /\ (<<r>> \o list[t])[i] = list[t][i - 1]
      /\ 1 \in DOMAIN (<<r>> \o list[t])
  BY <1>1
<1>4. list' \in [HkThreads -> Seq(Regs)]
  BY <1>1, <1>3
<1>5. ASSUME NEW q, NEW h \in HkThreads
      PROVE  OnList(q, h)' <=> OnList(q, h) \/ (h = t /\ q = r)
  <2>1. CASE h # t
    BY <1>2, <2>1 DEF OnList
  <2>2. CASE h = t
    <3>1. OnList(q, t)' => OnList(q, t) \/ q = r
      BY <1>2, <1>3 DEF OnList
    <3>2. OnList(q, t) \/ q = r => OnList(q, t)'
      BY <1>2, <1>3 DEF OnList
    <3> QED
      BY <2>2, <3>1, <3>2
  <2> QED
    BY <2>1, <2>2
<1>6. ASSUME ListedOnce, ~OnList(r, t) PROVE ListedOnce'
  <2> SUFFICES ASSUME NEW h \in HkThreads, NEW i \in DOMAIN list'[h],
                      NEW j \in DOMAIN list'[h], list'[h][i] = list'[h][j]
               PROVE  i = j
    BY DEF ListedOnce
  <2>1. CASE h # t
    BY <1>2, <1>6, <2>1 DEF ListedOnce
  <2>2. CASE h = t
    <3>1. /\ i # 1 => i - 1 \in DOMAIN list[t] /\ list'[t][i] = list[t][i - 1]
          /\ j # 1 => j - 1 \in DOMAIN list[t] /\ list'[t][j] = list[t][j - 1]
          /\ list'[t][1] = r
      BY <1>2, <1>3, <2>2
    <3>2. i = 1 <=> j = 1
      BY <1>6, <2>2, <3>1 DEF OnList
    <3>3. i # 1 => i - 1 = j - 1
      BY <1>6, <2>2, <3>1, <3>2 DEF ListedOnce
    <3>4. i \in Nat /\ j \in Nat
      BY <1>2, <1>3, <2>2
    <3> QED
      BY <3>2, <3>3, <3>4
  <2> QED
    BY <2>1, <2>2
<1> QED
  BY <1>2, <1>3, <1>4, <1>5, <1>6

LEMMA Dropping ==
  ASSUME list \in [HkThreads -> Seq(Regs)], NEW t \in HkThreads, list[t] # <<>>,
         list' = [list EXCEPT ![t] = Tail(@)]
  PROVE  /\ list' \in [HkThreads -> Seq(Regs)]
         /\ Len(list[t]) # 0 /\ Len(list'[t]) = Len(list[t]) - 1
         /\ Head(list[t]) \in Regs /\ OnList(Head(list[t]), t)
         /\ \A q, h : h \in HkThreads /\ OnList(q, h)' => OnList(q, h)
         /\ \A q, h : h \in HkThreads /\ OnList(q, h) =>
              OnList(q, h)' \/ (h = t /\ q = Head(list[t]))
         /\ ListedOnce =>
              ListedOnce' /\ \A q : q = Head(list[t]) => ~OnList(q, t)'
<1>1. \A h \in HkThreads : list[h] \in Seq(Regs)
  OBVIOUS
<1>2. \A h \in HkThreads : list'[h] = IF h = t THEN Tail(list[t]) ELSE list[h]
  OBVIOUS
<1>3. /\ Tail(list[t]) \in Seq(Regs) /\ Len(list[t]) \in Nat \ {0}
      /\ Len(Tail(list[t])) = Len(list[t]) - 1
      /\ Head(list[t]) = list[t][1] /\ list[t][1] \in Regs /\ 1 \in DOMAIN list[t]
      /\ \A i \in DOMAIN Tail(list[t]) :
           /\ i \in Nat \ {0} /\ i + 1 \in DOMAIN list[t]
           /\ Tail(list[t])[i] = list[t][i + 1]
      /\ \A i \in DOMAIN list[t] : i # 1 =>
           i - 1 \in DOMAIN Tail(list[t]) /\ Tail(list[t])[i - 1] = list[t][i]
  BY <1>1
<1>4. list' \in [HkThreads -> Seq(Regs)]
  BY <1>1, <1>3
<1>5. ASSUME NEW q, NEW h \in HkThreads, OnList(q, h)'
      PROVE  OnList(q, h)
  <2>1. PICK i \in DOMAIN list'[h] : list'[h][i] = q
    BY <1>5 DEF OnList
  <2>2. CASE h # t
    BY <1>2, <2>1, <2>2 DEF OnList
  <2>3. CASE h = t
    <3>1. i + 1 \in DOMAIN list[t] /\ list[t][i + 1] = q
      BY <1>2, <1>3, <2>1, <2>3
    <3> QED
      BY <2>3, <3>1 DEF OnList
  <2> QED
    BY <2>2, <2>3
<1>6. ASSUME NEW q, NEW h \in HkThreads, OnList(q, h)
      PROVE  OnList(q, h)' \/ (h = t /\ q = Head(list[t]))
  <2>1. CASE h # t
    BY <1>2, <1>6, <2>1 DEF OnList
  <2>2. CASE h = t
    <3>1. PICK i \in DOMAIN list[t] : list[t][i] = q
      BY <1>6, <2>2 DEF OnList
    <3>2. CASE i = 1
      BY <1>3, <2>2, <3>1, <3>2
    <3>3. CASE i # 1
      <4>1. i - 1 \in DOMAIN list'[t] /\ list'[t][i - 1] = q
        BY <1>2, <1>3, <3>1, <3>3
      <4> QED
        BY <2>2, <4>1 DEF OnList
    <3> QED
      BY <3>2, <3>3
  <2> QED
    BY <2>1, <2>2
<1>7. ASSUME ListedOnce PROVE ListedOnce'
  <2> SUFFICES ASSUME NEW h \in HkThreads, NEW i \in DOMAIN list'[h],
                      NEW j \in DOMAIN list'[h], list'[h][i] = list'[h][j]
               PROVE  i = j
    BY DEF ListedOnce
  <2>1. CASE h # t
    BY <1>2, <1>7, <2>1 DEF ListedOnce
  <2>2. CASE h = t
    <3>1. i + 1 = j + 1
      BY <1>2, <1>3, <1>7, <2>2 DEF ListedOnce
    <3> QED
      BY <1>2, <1>3, <2>2, <3>1
  <2> QED
    BY <2>1, <2>2
<1>8. ASSUME ListedOnce, NEW q, q = Head(list[t]), OnList(q, t)' PROVE FALSE
  <2>1. PICK i \in DOMAIN list'[t] : list'[t][i] = list[t][1]
    BY <1>2, <1>3, <1>8 DEF OnList
  <2>2. i + 1 = 1 /\ i \in Nat \ {0}
    BY <1>2, <1>3, <1>8, <2>1 DEF ListedOnce
  <2> QED
    BY <2>2
<1>9. OnList(Head(list[t]), t)
  BY <1>3 DEF OnList
<1> QED
  BY <1>2, <1>3, <1>4, <1>5, <1>6, <1>7, <1>8, <1>9
-----------------------------------------------------------------------------
LEMMA InitHotKeys == Init => HotKeysInv
<1> SUFFICES ASSUME Init PROVE HotKeysInv
  OBVIOUS
<1>1. \A r \in Regs, h \in HkThreads : ~Posted(r, h) /\ ~OnList(r, h)
  BY DEF Init, Posted, OnList
<1>2. TypeOK
  <2>1. (CHOOSE k \in Keys : TRUE) \in Keys
    <3>1. PICK m \in Modifiers, v \in VKeys : TRUE
      BY HotKeysAssumption
    <3>2. <<m, v>> \in Keys
      BY DEF Keys
    <3> QED
      BY <3>2
  <2>2. queue \in [HkThreads -> Seq(Messages)] /\ list \in [HkThreads -> Seq(Regs)]
    BY DEF Init
  <2>3. key \in [Regs -> Keys]
    BY <2>1 DEF Init
  <2> QED
    BY <2>2, <2>3 DEF Init, TypeOK
<1>3. PostedOnce /\ ListedOnce
  BY DEF Init, PostedOnce, ListedOnce
<1>4. OwnersApart /\ CreatorWaits
  BY DEF Init, OwnersApart, CreatorWaits, Owning
<1>5. RecordsInOnePlace
  BY <1>1 DEF Init, RecordsInOnePlace
<1>6. SysFinite /\ SystemMatchesList
  BY FS_EmptySet DEF Init, SysFinite, SystemMatchesList
<1> QED
  BY <1>2, <1>3, <1>4, <1>5, <1>6 DEF HotKeysInv
-----------------------------------------------------------------------------
(* Every step keeps every variable in its type.                            *)
LEMMA PostKeeps ==
  ASSUME TypeOK, NEW m \in Messages, Post(m)
  PROVE  /\ queue' \in [HkThreads -> Seq(Messages)]
         /\ UNCHANGED <<threadId, state, creator, list, sys, rec, key>>
         /\ threadId \in HkThreads
         /\ \/ queue' = [queue EXCEPT ![threadId] = Append(@, m)]
            \/ queue' = queue
<1>1. /\ threadId \in HkThreads
      /\ \/ queue' = [queue EXCEPT ![threadId] = Append(@, m)]
         \/ queue' = queue
  BY DEF Post, Accepts
<1>2. queue' \in [HkThreads -> Seq(Messages)]
  BY <1>1, Posting DEF TypeOK
<1> QED
  BY <1>1, <1>2 DEF Post, recVars

LEMMA GetsKeeps ==
  ASSUME TypeOK, NEW h \in HkThreads, NEW type, Gets(h, type)
  PROVE  /\ queue' \in [HkThreads -> Seq(Messages)]
         /\ queue[h] # <<>> /\ queue' = [queue EXCEPT ![h] = Tail(@)]
         /\ Head(queue[h]) \in Messages
         /\ UNCHANGED <<threadId, creator, key, pc, hold, stopped>>
<1>1. queue[h] # <<>> /\ queue' = [queue EXCEPT ![h] = Tail(@)]
  BY DEF Gets
<1> QED
  BY <1>1, Getting DEF Gets, TypeOK, callVars

LEMMA TypeOKStep ==
  ASSUME TypeOK, OwnersApart, [Next]_vars
  PROVE  TypeOK'
<1>1. ASSUME NEW c \in Callers, CallRegister(c)
      PROVE  TypeOK'
  <2>1. PICK r \in Regs : /\ rec' = [rec EXCEPT ![r] = "waiting"]
                          /\ \E k \in Keys : key' = [key EXCEPT ![r] = k]
                          /\ hold' = [hold EXCEPT ![c] = r]
    BY <1>1 DEF CallRegister
  <2> QED
    BY <1>1, <2>1 DEF TypeOK, CallRegister, Goto, threadVars
<1>2. ASSUME NEW c \in Callers, CreateHotkeyThread(c)
      PROVE  TypeOK'
  <2>1. /\ threadId' \in HkThreads \union {NoThread}
        /\ state' \in [HkThreads -> {"none", "starting", "looping", "callback", "ending", "dead"}]
        /\ creator' \in [HkThreads -> Callers \union {NoThread}]
    BY <1>2 DEF TypeOK, CreateHotkeyThread
  <2>2. UNCHANGED <<queue, list, sys, rec, key, hold, stopped>> /\ pc' = [pc EXCEPT ![c] = "postReg"]
    BY <1>2 DEF CreateHotkeyThread, Goto, recVars
  <2> QED
    BY <2>1, <2>2 DEF TypeOK
<1>3. ASSUME NEW c \in Callers, PostRegister(c)
      PROVE  TypeOK'
  <2>1. hold[c] \in Regs
    BY <1>3 DEF PostRegister, OwnersApart, Owning
  <2>2. Register(hold[c]) \in Messages /\ Post(Register(hold[c]))
    BY <1>3, <2>1, MessageKinds DEF PostRegister, Register
  <2> QED
    BY <1>3, <2>2, PostKeeps DEF TypeOK, PostRegister, Goto
<1>4. ASSUME NEW c \in Callers, RegisterReturns(c)
      PROVE  TypeOK'
  BY <1>4 DEF TypeOK, RegisterReturns, Goto, recVars, threadVars
<1>5. ASSUME NEW c \in Callers, CallCommand(c)
      PROVE  TypeOK'
  BY <1>5 DEF TypeOK, CallCommand, Goto, recVars, threadVars
<1>6. ASSUME NEW c \in Callers, PostUnregister(c)
      PROVE  TypeOK'
  <2>1. PICK b \in BOOLEAN : Post([type |-> "unregister", known |-> b])
    BY <1>6 DEF PostUnregister
  <2>2. [type |-> "unregister", known |-> b] \in Messages
    BY MessageKinds
  <2> QED
    BY <1>6, <2>1, <2>2, PostKeeps DEF TypeOK, PostUnregister, Goto
<1>7. ASSUME NEW c \in Callers, PostQuit(c)
      PROVE  TypeOK'
  <2>1. [type |-> "quit"] \in Messages /\ Post([type |-> "quit"])
    BY <1>7, MessageKinds DEF PostQuit
  <2> QED
    BY <1>7, <2>1, PostKeeps DEF TypeOK, PostQuit, Goto
<1>8. ASSUME NEW h \in HkThreads, StartLoop(h)
      PROVE  TypeOK'
  BY <1>8 DEF TypeOK, StartLoop, recVars, callVars
<1>9. ASSUME NEW h \in HkThreads, Granted(h)
      PROVE  TypeOK'
  <2>1. Gets(h, "register") /\ Head(queue[h]).type = "register"
    BY <1>9 DEF Granted, Gets
  <2>2. Head(queue[h]).reg \in Regs
    BY <2>1, GetsKeeps, RegisterCarries
  <2>3. /\ sys' = [sys EXCEPT ![h] = @ \union {key[Head(queue[h]).reg]}]
        /\ rec' = [rec EXCEPT ![Head(queue[h]).reg] = "listed"]
        /\ list' = [list EXCEPT ![h] = <<Head(queue[h]).reg>> \o @]
    BY <1>9 DEF Granted
  <2>4. list' \in [HkThreads -> Seq(Regs)]
    BY <2>2, <2>3, Listing DEF TypeOK
  <2>5. sys' \in [HkThreads -> SUBSET Keys]
    BY <2>2, <2>3 DEF TypeOK
  <2> QED
    BY <1>9, <2>1, <2>2, <2>3, <2>4, <2>5, GetsKeeps DEF TypeOK, Granted
<1>10. ASSUME NEW h \in HkThreads, Refused(h)
       PROVE  TypeOK'
  <2>1. Gets(h, "register")
    BY <1>10 DEF Refused
  <2> QED
    BY <1>10, <2>1, GetsKeeps DEF TypeOK, Refused
<1>11. ASSUME NEW h \in HkThreads, Unregister(h)
       PROVE  TypeOK'
  <2>1. Gets(h, "unregister")
    BY <1>11 DEF Unregister
  <2>2. CASE Head(queue[h]).known /\ list[h] # <<>>
    <3>1. list' = [list EXCEPT ![h] = Tail(@)] /\ rec' = [rec EXCEPT ![Head(list[h])] = "freed"]
      BY <1>11, <2>2 DEF Unregister
    <3>2. list' \in [HkThreads -> Seq(Regs)]
      BY <2>2, <3>1, Dropping DEF TypeOK
    <3>3. sys' \in [HkThreads -> SUBSET Keys]
      <4>1. PICK k \in sys[h] : sys' = [sys EXCEPT ![h] = @ \ {k}]
        BY <1>11, <2>2 DEF Unregister
      <4> QED
        BY <4>1 DEF TypeOK
    <3> QED
      BY <1>11, <2>1, <3>1, <3>2, <3>3, GetsKeeps DEF TypeOK, Unregister
  <2>3. CASE ~(Head(queue[h]).known /\ list[h] # <<>>)
    <3>1. UNCHANGED <<list, rec, sys>>
      BY <1>11, <2>3 DEF Unregister
    <3> QED
      BY <1>11, <2>1, <3>1, GetsKeeps DEF TypeOK, Unregister
  <2> QED
    BY <2>2, <2>3
<1>12. ASSUME NEW h \in HkThreads, HotKeyPressed(h)
       PROVE  TypeOK'
  <2>1. Gets(h, "hotkey")
    BY <1>12 DEF HotKeyPressed
  <2> QED
    BY <1>12, <2>1, GetsKeeps DEF TypeOK, HotKeyPressed
<1>13. ASSUME NEW h \in HkThreads, Quit(h)
       PROVE  TypeOK'
  <2>1. queue' \in [HkThreads -> Seq(Messages)]
    BY <1>13, Clearing DEF TypeOK, Quit
  <2> QED
    BY <1>13, <2>1 DEF TypeOK, Quit, recVars, callVars
<1>14. ASSUME NEW h \in HkThreads, CallbackReturns(h)
       PROVE  TypeOK'
  BY <1>14 DEF TypeOK, CallbackReturns, recVars, callVars
<1>15. ASSUME NEW h \in HkThreads, Press(h)
       PROVE  TypeOK'
  <2>1. PICK k \in Keys :
          queue' = [queue EXCEPT ![h] = Append(@, [type |-> "hotkey", key |-> k])]
    BY <1>15 DEF Press, TypeOK
  <2>2. queue' \in [HkThreads -> Seq(Messages)]
    BY <2>1, MessageKinds, Posting DEF TypeOK
  <2> QED
    BY <1>15, <2>2 DEF TypeOK, Press, recVars, callVars
<1>16. ASSUME NEW h \in HkThreads, FreeNext(h)
       PROVE  TypeOK'
  <2>1. list[h] # <<>> /\ list' = [list EXCEPT ![h] = Tail(@)]
    BY <1>16 DEF FreeNext
  <2>2. list' \in [HkThreads -> Seq(Regs)]
    BY <2>1, Dropping DEF TypeOK
  <2> QED
    BY <1>16, <2>2 DEF TypeOK, FreeNext, callVars
<1>17. ASSUME NEW h \in HkThreads, ThreadEnds(h)
       PROVE  TypeOK'
  BY <1>17 DEF TypeOK, ThreadEnds, recVars, callVars
<1>18. CASE UNCHANGED vars
  BY <1>18 DEF TypeOK, vars, threadVars, recVars, callVars
<1> QED
  BY <1>1, <1>2, <1>3, <1>4, <1>5, <1>6, <1>7, <1>8, <1>9, <1>10, <1>11, <1>12, <1>13,
     <1>14, <1>15, <1>16, <1>17, <1>18 DEF Next, CallerStep, LoopStep, EndStep
-----------------------------------------------------------------------------
(* What a step must leave alone to keep each part of the invariant.        *)
LEMMA OwnersKept ==
  ASSUME OwnersApart,
         \A c \in Callers : pc'[c] \in Owning => pc[c] \in Owning /\ hold'[c] = hold[c],
         \A r \in Regs : rec[r] = "waiting" /\ (\A h \in HkThreads : ~Posted(r, h)) =>
                           rec'[r] = "waiting",
         \A r, h : h \in HkThreads /\ Posted(r, h)' => Posted(r, h)
  PROVE  OwnersApart'
<1> SUFFICES ASSUME NEW c \in Callers, pc'[c] \in Owning
             PROVE  /\ hold'[c] \in Regs /\ rec'[hold'[c]] = "waiting"
                    /\ \A r : r = hold'[c] => \A h \in HkThreads : ~Posted(r, h)'
                    /\ \A d \in Callers : pc'[d] \in Owning /\ hold'[d] = hold'[c] => d = c
  BY DEF OwnersApart, Owning
<1>1. /\ hold'[c] = hold[c] /\ hold[c] \in Regs /\ rec[hold[c]] = "waiting"
      /\ \A h \in HkThreads : ~Posted(hold[c], h)
  BY DEF OwnersApart
<1>2. \A d \in Callers : pc'[d] \in Owning /\ hold'[d] = hold'[c] => d = c
  BY DEF OwnersApart
<1> QED
  BY <1>1, <1>2

LEMMA RecordsKept ==
  ASSUME RecordsInOnePlace, rec' = rec, list' = list,
         \A r, h : h \in HkThreads /\ Posted(r, h)' => Posted(r, h),
         \A h \in HkThreads : Accepts(h) => Accepts(h)'
  PROVE  RecordsInOnePlace'
<1>1. \A r, h : OnList(r, h)' <=> OnList(r, h)
  BY DEF OnList
<1> QED
  BY <1>1 DEF RecordsInOnePlace

LEMMA ListsKept ==
  ASSUME TypeOK, ListedOnce, SysFinite, SystemMatchesList, list' = list, sys' = sys,
         \A h \in HkThreads : state[h] = "ending" => state'[h] = "ending"
  PROVE  ListedOnce' /\ SysFinite' /\ SystemMatchesList'
<1>1. \A h \in HkThreads : Len(list[h]) \in Nat
  BY DEF TypeOK
<1> QED
  BY <1>1 DEF ListedOnce, SysFinite, SystemMatchesList

LEMMA CreatorKept ==
  ASSUME CreatorWaits, threadId' = threadId, creator' = creator,
         \A h \in HkThreads : state'[h] = "starting" => state[h] = "starting",
         \A h \in HkThreads : state'[h] = "none" <=> state[h] = "none",
         \A c \in Callers : pc'[c] = "create" => pc[c] = "create",
         \A c \in Callers : pc[c] = "postReg" => pc'[c] = "postReg" \/ Accepts(threadId)
  PROVE  CreatorWaits'
BY DEF CreatorWaits, Accepts

LEMMA QueuesKept ==
  ASSUME PostedOnce, queue' = queue
  PROVE  PostedOnce' /\ \A r, h : Posted(r, h)' <=> Posted(r, h)
BY DEF PostedOnce, Posted

LEMMA AcceptsKept ==
  ASSUME NEW h, state'[h] = state[h]
  PROVE  Accepts(h)' <=> Accepts(h)
BY DEF Accepts

(* Posting anything that is not a registration.                            *)
LEMMA CommandPosted ==
  ASSUME HotKeysInv, NEW c \in Callers, NEW m \in Messages, Post(m),
         m.type # "register", pc[c] = "posting", Goto(c, "idle"), hold' = hold
  PROVE  /\ OwnersApart' /\ PostedOnce' /\ RecordsInOnePlace' /\ ListedOnce'
         /\ SysFinite' /\ SystemMatchesList' /\ CreatorWaits'
<1> USE DEF HotKeysInv
<1>1. /\ threadId \in HkThreads
      /\ queue' = [queue EXCEPT ![threadId] = Append(@, m)] \/ queue' = queue
      /\ UNCHANGED <<threadId, state, creator, list, sys, rec, key>>
  BY PostKeeps
<1>2. queue \in [HkThreads -> Seq(Messages)]
  BY DEF TypeOK
<1>3. PostedOnce' /\ \A r, h : h \in HkThreads /\ Posted(r, h)' => Posted(r, h)
  <2>1. \A r : m # Register(r)
    BY DEF Register
  <2>2. PostedOnce
    OBVIOUS
  <2> HIDE DEF HotKeysInv
  <2> QED
    BY <1>1, <1>2, <2>1, <2>2, Posting, QueuesKept
<1>4. /\ pc'[c] = "idle"
      /\ \A d \in Callers : d # c => pc'[d] = pc[d]
  BY DEF Goto, TypeOK
<1>5. OwnersApart'
  <2>1. \A d \in Callers : pc'[d] \in Owning => pc[d] \in Owning /\ hold'[d] = hold[d]
    BY <1>4 DEF Owning
  <2> QED
    BY <1>1, <1>3, <2>1, OwnersKept
<1>6. RecordsInOnePlace'
  BY <1>1, <1>3, RecordsKept, AcceptsKept
<1>7. CreatorWaits'
  BY <1>1, <1>4, CreatorKept
<1> QED
  BY <1>1, <1>3, <1>5, <1>6, <1>7, ListsKept
-----------------------------------------------------------------------------
(* Every step of a caller keeps the parts of the invariant.                *)
Parts ==
  /\ OwnersApart /\ PostedOnce /\ RecordsInOnePlace /\ ListedOnce
  /\ SysFinite /\ SystemMatchesList /\ CreatorWaits

LEMMA CallRegisterKeeps ==
  ASSUME HotKeysInv, NEW c \in Callers, CallRegister(c)
  PROVE  Parts'
<1> USE DEF HotKeysInv
<1>1. PICK r \in Regs : /\ rec[r] = "none" /\ rec' = [rec EXCEPT ![r] = "waiting"]
                        /\ hold' = [hold EXCEPT ![c] = r]
  BY DEF CallRegister
<1>2. /\ pc[c] = "idle" /\ UNCHANGED <<threadId, state, creator, queue, list, sys>>
      /\ \A d \in Callers : d # c => pc'[d] = pc[d] /\ hold'[d] = hold[d]
      /\ hold'[c] = r
  BY <1>1 DEF CallRegister, MayCall, threadVars, Goto, TypeOK
<1>3. /\ rec'[r] = "waiting" /\ \A q \in Regs : q # r => rec'[q] = rec[q]
  BY <1>1 DEF TypeOK
<1>4. PostedOnce' /\ \A q, h : Posted(q, h)' <=> Posted(q, h)
  BY <1>2, QueuesKept
<1>5. \A q, h : OnList(q, h)' <=> OnList(q, h)
  BY <1>2 DEF OnList
<1>6. \A h \in HkThreads : ~Posted(r, h) /\ ~OnList(r, h)
  BY <1>1 DEF RecordsInOnePlace
<1>7. \A h \in HkThreads : Accepts(h)' <=> Accepts(h)
  BY <1>2, AcceptsKept
<1>8. RecordsInOnePlace'
  BY <1>1, <1>3, <1>4, <1>5, <1>6, <1>7 DEF RecordsInOnePlace
<1>9. OwnersApart'
  <2> SUFFICES ASSUME NEW d \in Callers, pc'[d] \in Owning
               PROVE  /\ hold'[d] \in Regs /\ rec'[hold'[d]] = "waiting"
                      /\ \A q : q = hold'[d] => \A h \in HkThreads : ~Posted(q, h)'
                      /\ \A e \in Callers : pc'[e] \in Owning /\ hold'[e] = hold'[d] => e = d
    BY DEF OwnersApart, Owning
  <2>1. \A e \in Callers : e # c /\ pc'[e] \in Owning =>
          /\ pc[e] \in Owning /\ hold'[e] = hold[e] /\ hold[e] \in Regs
          /\ rec[hold[e]] = "waiting" /\ hold[e] # r
          /\ \A h \in HkThreads : ~Posted(hold[e], h)
    BY <1>1, <1>2 DEF OwnersApart
  <2>2. CASE d = c
    BY <1>2, <1>3, <1>4, <1>6, <2>1, <2>2
  <2>3. CASE d # c
    <3>1. \A e \in Callers : pc'[e] \in Owning /\ hold'[e] = hold'[d] => e = d
      BY <1>2, <2>1, <2>3 DEF OwnersApart
    <3> QED
      BY <1>3, <1>4, <2>1, <2>3, <3>1
  <2> QED
    BY <2>2, <2>3
<1>10. CreatorWaits'
  <2>1. /\ pc'[c] = IF threadId = NoThread THEN "create" ELSE "postReg"
        /\ NoThread \notin HkThreads
    BY HotKeysAssumption DEF CallRegister, Goto, TypeOK
  <2>2. \A h \in HkThreads : state[h] # "none" => pc'[c] = "postReg"
    BY <2>1 DEF CreatorWaits
  <2> QED
    BY <1>2, <2>2 DEF CreatorWaits
<1> QED
  BY <1>2, <1>4, <1>8, <1>9, <1>10, ListsKept DEF Parts

LEMMA CreateKeeps ==
  ASSUME HotKeysInv, NEW c \in Callers, CreateHotkeyThread(c)
  PROVE  Parts'
<1> USE DEF HotKeysInv
<1>1. /\ pc[c] = "create" /\ UNCHANGED <<queue, list, sys, rec, hold>>
      /\ pc'[c] = "postReg" /\ \A d \in Callers : d # c => pc'[d] = pc[d]
  BY DEF CreateHotkeyThread, recVars, Goto, TypeOK
<1>2. PostedOnce' /\ \A q, h : Posted(q, h)' <=> Posted(q, h)
  BY <1>1, QueuesKept
<1>3. \/ UNCHANGED <<threadId, state, creator>>
      \/ \E h \in HkThreads :
           /\ state[h] = "none" /\ threadId' = h
           /\ state' = [state EXCEPT ![h] = "starting"]
           /\ creator' = [creator EXCEPT ![h] = c]
  BY DEF CreateHotkeyThread
<1>4. \A h \in HkThreads : Accepts(h) => Accepts(h)'
  BY <1>3 DEF Accepts, TypeOK
<1>5. RecordsInOnePlace'
  BY <1>1, <1>2, <1>4, RecordsKept
<1>6. OwnersApart'
  <2>1. \A d \in Callers : pc'[d] \in Owning => pc[d] \in Owning /\ hold'[d] = hold[d]
    BY <1>1 DEF Owning
  <2> QED
    BY <1>1, <1>2, <2>1, OwnersKept
<1>7. CreatorWaits'
  <2>1. CASE UNCHANGED <<threadId, state, creator>>
    BY <1>1, <2>1 DEF CreatorWaits
  <2>2. CASE ~UNCHANGED <<threadId, state, creator>>
    <3>1. PICK h \in HkThreads :
            /\ state[h] = "none" /\ threadId' = h
            /\ state' = [state EXCEPT ![h] = "starting"]
            /\ creator' = [creator EXCEPT ![h] = c]
      BY <1>3, <2>2
    <3>2. /\ state'[h] = "starting" /\ creator'[h] = c
          /\ \A g \in HkThreads : g # h => state'[g] = state[g] /\ creator'[g] = creator[g]
      BY <3>1 DEF TypeOK
    <3>3. \A g \in HkThreads : g # h /\ state'[g] # "none" =>
            creator[g] \in Callers /\ creator[g] # c /\ pc[creator[g]] # "create"
      BY <1>1, <3>2 DEF CreatorWaits
    <3>4. \A g, f \in HkThreads :
            g # h /\ f # h /\ state'[g] # "none" /\ state'[f] # "none"
              /\ creator[g] = creator[f] => g = f
      BY <3>2 DEF CreatorWaits
    <3>5. threadId' = h /\ pc'[c] = "postReg" /\ c \in Callers
      BY <1>1, <3>1
    <3> QED
      BY <1>1, <3>2, <3>3, <3>4, <3>5 DEF CreatorWaits
  <2> QED
    BY <2>1, <2>2
<1>8. \A h \in HkThreads : state[h] = "ending" => state'[h] = "ending"
  BY <1>3 DEF TypeOK
<1> QED
  BY <1>1, <1>2, <1>5, <1>6, <1>7, <1>8, ListsKept DEF Parts

LEMMA PostRegisterKeeps ==
  ASSUME HotKeysInv, NEW c \in Callers, PostRegister(c)
  PROVE  Parts'
<1> USE DEF HotKeysInv
<1>1. /\ pc[c] = "postReg" /\ hold[c] \in Regs /\ rec[hold[c]] = "waiting"
      /\ \A h \in HkThreads : ~Posted(hold[c], h)
  BY DEF PostRegister, OwnersApart, Owning
<1>2. Register(hold[c]) \in Messages /\ Post(Register(hold[c])) /\ hold' = hold
  BY <1>1, MessageKinds DEF PostRegister, Register
<1>3. /\ threadId \in HkThreads /\ Accepts(threadId)
      /\ queue' = [queue EXCEPT ![threadId] = Append(@, Register(hold[c]))] \/ queue' = queue
      /\ UNCHANGED <<threadId, state, creator, list, sys, rec, key>>
  BY <1>2, PostKeeps DEF Post
<1>4. queue \in [HkThreads -> Seq(Messages)]
  BY DEF TypeOK
<1>5. /\ PostedOnce'
      /\ \A r, h : h \in HkThreads /\ Posted(r, h)' => Posted(r, h) \/ r = hold[c]
  <2>1. \A h \in HkThreads : \A i \in DOMAIN queue[h] : queue[h][i] # Register(hold[c])
    BY <1>1 DEF Posted, Register
  <2>2. \A r : Register(hold[c]) = Register(r) => r = hold[c]
    BY DEF Register
  <2>3. PostedOnce
    OBVIOUS
  <2> HIDE DEF HotKeysInv
  <2> QED
    BY <1>2, <1>3, <1>4, <2>1, <2>2, <2>3, Posting, QueuesKept
<1>6. pc'[c] = "poll" /\ \A d \in Callers : d # c => pc'[d] = pc[d]
  BY DEF PostRegister, Goto, TypeOK
<1>7. OwnersApart'
  <2> SUFFICES ASSUME NEW d \in Callers, pc'[d] \in Owning
               PROVE  /\ hold'[d] \in Regs /\ rec'[hold'[d]] = "waiting"
                      /\ \A q : q = hold'[d] => \A h \in HkThreads : ~Posted(q, h)'
                      /\ \A e \in Callers : pc'[e] \in Owning /\ hold'[e] = hold'[d] => e = d
    BY DEF OwnersApart, Owning
  <2>1. d # c /\ pc[d] \in Owning /\ pc[c] \in Owning
    BY <1>1, <1>6 DEF Owning
  <2>2. /\ hold[d] \in Regs /\ rec[hold[d]] = "waiting" /\ hold[d] # hold[c]
        /\ \A h \in HkThreads : ~Posted(hold[d], h)
    BY <2>1 DEF OwnersApart
  <2>3. \A e \in Callers : pc'[e] \in Owning => pc[e] \in Owning
    BY <1>6 DEF Owning
  <2>4. \A e \in Callers : pc'[e] \in Owning /\ hold'[e] = hold'[d] => e = d
    BY <1>2, <2>1, <2>3 DEF OwnersApart
  <2> QED
    BY <1>2, <1>3, <1>5, <2>2, <2>4
<1>8. RecordsInOnePlace'
  <2>1. \A r, h : OnList(r, h)' <=> OnList(r, h)
    BY <1>3 DEF OnList
  <2>2. \A h \in HkThreads : Accepts(h)' <=> Accepts(h)
    BY <1>3, AcceptsKept
  <2> QED
    BY <1>1, <1>3, <1>5, <2>1, <2>2 DEF RecordsInOnePlace
<1>9. CreatorWaits'
  <2>1. CreatorWaits /\ Accepts(threadId) /\ threadId' = threadId /\ creator' = creator
        /\ state' = state
    BY <1>3
  <2>2. \A d \in Callers : pc'[d] = "create" => pc[d] = "create"
    BY <1>6
  <2> HIDE DEF HotKeysInv
  <2> QED
    BY <2>1, <2>2, CreatorKept
<1> QED
  BY <1>3, <1>5, <1>7, <1>8, <1>9, ListsKept DEF Parts

LEMMA CallerKeeps ==
  ASSUME HotKeysInv, NEW c \in Callers, CallerStep(c)
  PROVE  Parts'
<1>1. CASE CallRegister(c)
  BY <1>1, CallRegisterKeeps
<1>2. CASE CreateHotkeyThread(c)
  BY <1>2, CreateKeeps
<1>3. CASE PostRegister(c)
  BY <1>3, PostRegisterKeeps
<1>4. CASE RegisterReturns(c) \/ CallCommand(c)
  <2> USE DEF HotKeysInv
  <2>1. /\ UNCHANGED <<threadId, state, creator, queue, list, sys, rec>>
        /\ pc'[c] \notin Owning /\ pc'[c] # "create" /\ pc[c] # "postReg"
        /\ \A d \in Callers : d # c => pc'[d] = pc[d] /\ hold'[d] = hold[d]
    BY <1>4 DEF RegisterReturns, CallCommand, MayCall, threadVars, recVars, Goto, TypeOK,
                Owning
  <2>2. PostedOnce' /\ \A q, h : Posted(q, h)' <=> Posted(q, h)
    BY <2>1, QueuesKept
  <2>3. RecordsInOnePlace'
    BY <2>1, <2>2, RecordsKept, AcceptsKept
  <2>4. \A d \in Callers : pc'[d] \in Owning => pc[d] \in Owning /\ hold'[d] = hold[d]
    BY <2>1
  <2>5. OwnersApart'
    BY <2>1, <2>2, <2>4, OwnersKept
  <2>6. CreatorWaits'
    BY <2>1, CreatorKept
  <2> QED
    BY <2>1, <2>2, <2>3, <2>5, <2>6, ListsKept DEF Parts
<1>5. CASE PostUnregister(c)
  <2>1. PICK b \in BOOLEAN : Post([type |-> "unregister", known |-> b])
    BY <1>5 DEF PostUnregister
  <2>2. [type |-> "unregister", known |-> b] \in Messages
    BY MessageKinds
  <2> QED
    BY <1>5, <2>1, <2>2, CommandPosted DEF PostUnregister, Parts
<1>6. CASE PostQuit(c)
  <2>1. [type |-> "quit"] \in Messages
    BY MessageKinds
  <2> QED
    BY <1>6, <2>1, CommandPosted DEF PostQuit, Parts
<1> QED
  BY <1>1, <1>2, <1>3, <1>4, <1>5, <1>6 DEF CallerStep
-----------------------------------------------------------------------------
(* Every step of a hot-key thread keeps the parts of the invariant.        *)
LEMMA GotMessage ==
  ASSUME HotKeysInv, NEW h \in HkThreads, NEW type, Gets(h, type)
  PROVE  /\ PostedOnce'
         /\ \A r, g : g \in HkThreads /\ Posted(r, g)' => Posted(r, g)
         /\ type = "register" => \E r \in Regs :
              /\ r = Head(queue[h]).reg /\ Posted(r, h)
              /\ \A g \in HkThreads : ~Posted(r, g)'
         /\ UNCHANGED <<threadId, creator, pc, hold>> /\ state[h] = "looping"
<1>1. /\ TypeOK /\ PostedOnce /\ queue \in [HkThreads -> Seq(Messages)]
      /\ state[h] = "looping" /\ Head(queue[h]).type = type
  BY DEF HotKeysInv, TypeOK, Gets
<1>2. /\ queue[h] # <<>> /\ queue' = [queue EXCEPT ![h] = Tail(@)]
      /\ Head(queue[h]) \in Messages /\ UNCHANGED <<threadId, creator, pc, hold>>
  BY <1>1, GetsKeeps
<1>3. type = "register" =>
        \E r \in Regs : r = Head(queue[h]).reg /\ Head(queue[h]) = Register(r)
  BY <1>1, <1>2, RegisterCarries
<1>4. /\ PostedOnce'
      /\ \A r, g : g \in HkThreads /\ Posted(r, g)' => Posted(r, g)
      /\ \A r : Head(queue[h]) = Register(r) =>
           Posted(r, h) /\ \A g \in HkThreads : ~Posted(r, g)'
  BY <1>1, <1>2, Getting
<1> QED
  BY <1>1, <1>2, <1>3, <1>4

LEMMA GrantedKeeps ==
  ASSUME HotKeysInv, NEW h \in HkThreads, Granted(h)
  PROVE  Parts'
<1> USE DEF HotKeysInv
<1>1. PICK r \in Regs :
        /\ r = Head(queue[h]).reg /\ Posted(r, h)
        /\ \A g \in HkThreads : ~Posted(r, g)'
        /\ PostedOnce' /\ state' = state /\ state[h] = "looping"
        /\ \A q, g : g \in HkThreads /\ Posted(q, g)' => Posted(q, g)
        /\ UNCHANGED <<threadId, creator, pc, hold>>
  BY GotMessage DEF Granted
<1>2. /\ key[r] \notin sys[h] /\ sys' = [sys EXCEPT ![h] = @ \union {key[r]}]
      /\ rec' = [rec EXCEPT ![r] = "listed"] /\ list' = [list EXCEPT ![h] = <<r>> \o @]
  BY <1>1 DEF Granted
<1>3. /\ rec[r] = "waiting" /\ \A g \in HkThreads : ~OnList(r, g)
  BY <1>1 DEF RecordsInOnePlace
<1>4. /\ Len(list'[h]) = Len(list[h]) + 1 /\ ListedOnce'
      /\ \A q, g : g \in HkThreads =>
           (OnList(q, g)' <=> OnList(q, g) \/ (g = h /\ q = r))
  <2>1. list \in [HkThreads -> Seq(Regs)] /\ ListedOnce
    BY DEF TypeOK
  <2> HIDE DEF HotKeysInv
  <2> QED
    BY <1>2, <1>3, <2>1, Listing
<1>5. /\ rec'[r] = "listed" /\ \A q \in Regs : q # r => rec'[q] = rec[q]
  BY <1>1, <1>2 DEF TypeOK
<1>6. \A g \in HkThreads : Accepts(g)' <=> Accepts(g)
  BY <1>1, AcceptsKept
<1>7. RecordsInOnePlace'
  <2> SUFFICES ASSUME NEW q \in Regs, NEW g \in HkThreads
               PROVE  /\ Posted(q, g)' => rec'[q] = "waiting"
                      /\ OnList(q, g)' =>
                           rec'[q] = "listed" /\ \A f \in HkThreads \ {g} : ~OnList(q, f)'
                      /\ rec'[q] = "listed" =>
                           \E f \in HkThreads : OnList(q, f)' /\ Accepts(f)'
    BY DEF RecordsInOnePlace
  <2>1. CASE q = r
    BY <1>1, <1>3, <1>4, <1>5, <1>6, <2>1 DEF Accepts
  <2>2. CASE q # r
    BY <1>1, <1>4, <1>5, <1>6, <2>2 DEF RecordsInOnePlace
  <2> QED
    BY <2>1, <2>2
<1>8. OwnersApart'
  <2>1. \A q \in Regs : rec[q] = "waiting" /\ (\A g \in HkThreads : ~Posted(q, g)) =>
                          rec'[q] = "waiting"
    BY <1>1, <1>5
  <2> QED
    BY <1>1, <2>1, OwnersKept
<1>9. SysFinite' /\ SystemMatchesList'
  <2>1. /\ \A g \in HkThreads : g # h => sys'[g] = sys[g] /\ list'[g] = list[g]
        /\ sys'[h] = sys[h] \union {key[r]}
    BY <1>2 DEF TypeOK
  <2>2. IsFiniteSet(sys[h]) /\ Cardinality(sys[h]) = Len(list[h])
    BY <1>1 DEF SysFinite, SystemMatchesList
  <2>3. IsFiniteSet(sys'[h]) /\ Cardinality(sys'[h]) = Cardinality(sys[h]) + 1
    BY <1>2, <2>1, <2>2, FS_AddElement
  <2> QED
    BY <1>1, <1>4, <2>1, <2>2, <2>3 DEF SysFinite, SystemMatchesList
<1>10. CreatorWaits'
  BY <1>1, CreatorKept
<1> QED
  BY <1>1, <1>4, <1>7, <1>8, <1>9, <1>10 DEF Parts

LEMMA RefusedKeeps ==
  ASSUME HotKeysInv, NEW h \in HkThreads, Refused(h)
  PROVE  Parts'
<1> USE DEF HotKeysInv
<1>1. PICK r \in Regs :
        /\ r = Head(queue[h]).reg /\ Posted(r, h)
        /\ \A g \in HkThreads : ~Posted(r, g)'
        /\ PostedOnce' /\ UNCHANGED <<state, list, sys>>
        /\ \A q, g : g \in HkThreads /\ Posted(q, g)' => Posted(q, g)
        /\ UNCHANGED <<threadId, creator, pc, hold>>
  BY GotMessage DEF Refused
<1>2. rec' = [rec EXCEPT ![r] = "failed"]
  BY <1>1 DEF Refused
<1>3. /\ rec'[r] = "failed" /\ \A q \in Regs : q # r => rec'[q] = rec[q]
  BY <1>1, <1>2 DEF TypeOK
<1>4. \A g \in HkThreads : Accepts(g)' <=> Accepts(g)
  BY <1>1, AcceptsKept
<1>5. \A q, g : OnList(q, g)' <=> OnList(q, g)
  BY <1>1 DEF OnList
<1>6. RecordsInOnePlace'
  BY <1>1, <1>3, <1>4, <1>5 DEF RecordsInOnePlace
<1>7. OwnersApart'
  <2>1. \A q \in Regs : rec[q] = "waiting" /\ (\A g \in HkThreads : ~Posted(q, g)) =>
                          rec'[q] = "waiting"
    BY <1>1, <1>3
  <2> QED
    BY <1>1, <2>1, OwnersKept
<1>8. CreatorWaits'
  BY <1>1, CreatorKept
<1> QED
  BY <1>1, <1>6, <1>7, <1>8, ListsKept DEF Parts

LEMMA UnregisterKeeps ==
  ASSUME HotKeysInv, NEW h \in HkThreads, Unregister(h)
  PROVE  Parts'
<1> USE DEF HotKeysInv
<1>1. /\ PostedOnce' /\ state' = state /\ state[h] = "looping"
      /\ \A q, g : g \in HkThreads /\ Posted(q, g)' => Posted(q, g)
      /\ UNCHANGED <<threadId, creator, pc, hold>>
  BY GotMessage DEF Unregister
<1>2. \A g \in HkThreads : Accepts(g)' <=> Accepts(g)
  BY <1>1, AcceptsKept
<1>3. CreatorWaits'
  BY <1>1, CreatorKept
<1>4. CASE ~(Head(queue[h]).known /\ list[h] # <<>>)
  <2>1. UNCHANGED <<list, rec, sys>>
    BY <1>4 DEF Unregister
  <2>2. RecordsInOnePlace'
    BY <1>1, <1>2, <2>1, RecordsKept
  <2>3. OwnersApart'
    BY <1>1, <2>1, OwnersKept
  <2> QED
    BY <1>1, <1>3, <2>1, <2>2, <2>3, ListsKept DEF Parts
<1>5. CASE Head(queue[h]).known /\ list[h] # <<>>
  <2>0. PICK r : r = Head(list[h])
    OBVIOUS
  <2>1. /\ list' = [list EXCEPT ![h] = Tail(@)] /\ rec' = [rec EXCEPT ![r] = "freed"]
        /\ \E k \in sys[h] : sys' = [sys EXCEPT ![h] = @ \ {k}]
    BY <1>5, <2>0 DEF Unregister
  <2>2. /\ Len(list'[h]) = Len(list[h]) - 1 /\ ListedOnce'
        /\ r \in Regs /\ OnList(r, h)
        /\ \A q, g : g \in HkThreads /\ OnList(q, g)' => OnList(q, g)
        /\ \A q, g : g \in HkThreads /\ OnList(q, g) => OnList(q, g)' \/ (g = h /\ q = r)
        /\ ~OnList(r, h)'
    BY <1>5, <2>0, <2>1, Dropping DEF TypeOK
  <2>3. rec[r] = "listed" /\ \A g \in HkThreads : ~OnList(r, g)'
    BY <2>2 DEF RecordsInOnePlace
  <2>4. rec'[r] = "freed" /\ \A q \in Regs : q # r => rec'[q] = rec[q]
    BY <2>1, <2>2 DEF TypeOK
  <2>5. RecordsInOnePlace'
    <3> SUFFICES ASSUME NEW q \in Regs, NEW g \in HkThreads
                 PROVE  /\ Posted(q, g)' => rec'[q] = "waiting"
                        /\ OnList(q, g)' =>
                             rec'[q] = "listed" /\ \A f \in HkThreads \ {g} : ~OnList(q, f)'
                        /\ rec'[q] = "listed" =>
                             \E f \in HkThreads : OnList(q, f)' /\ Accepts(f)'
      BY DEF RecordsInOnePlace
    <3>1. CASE q = r
      BY <1>1, <2>3, <2>4, <3>1 DEF RecordsInOnePlace
    <3>2. CASE q # r
      BY <1>1, <1>2, <2>2, <2>4, <3>2 DEF RecordsInOnePlace
    <3> QED
      BY <3>1, <3>2
  <2>6. OwnersApart'
    <3>1. \A q \in Regs : rec[q] = "waiting" /\ (\A g \in HkThreads : ~Posted(q, g)) =>
                            rec'[q] = "waiting"
      BY <2>3, <2>4
    <3> QED
      BY <1>1, <3>1, OwnersKept
  <2>7. SysFinite' /\ SystemMatchesList'
    <3>1. PICK k \in sys[h] : sys' = [sys EXCEPT ![h] = @ \ {k}]
      BY <2>1
    <3>2. /\ \A g \in HkThreads : g # h => sys'[g] = sys[g] /\ list'[g] = list[g]
          /\ sys'[h] = sys[h] \ {k}
      BY <2>1, <3>1 DEF TypeOK
    <3>3. IsFiniteSet(sys[h]) /\ Cardinality(sys[h]) = Len(list[h])
      BY <1>1 DEF SysFinite, SystemMatchesList
    <3>4. IsFiniteSet(sys'[h]) /\ Cardinality(sys'[h]) = Cardinality(sys[h]) - 1
      BY <3>1, <3>2, <3>3, FS_RemoveElement
    <3> QED
      BY <1>1, <2>2, <3>2, <3>3, <3>4 DEF SysFinite, SystemMatchesList
  <2> QED
    BY <1>1, <1>3, <2>2, <2>5, <2>6, <2>7 DEF Parts
<1> QED
  BY <1>4, <1>5

LEMMA QuitKeeps ==
  ASSUME HotKeysInv, NEW h \in HkThreads, Quit(h)
  PROVE  Parts'
<1> USE DEF HotKeysInv
<1>1. /\ queue' = [queue EXCEPT ![h] = <<>>] /\ state[h] = "looping"
      /\ state' = [state EXCEPT ![h] = "ending"]
      /\ UNCHANGED <<threadId, creator, list, sys, rec, pc, hold>>
  BY DEF Quit, recVars, callVars
<1>2. PostedOnce' /\ \A q, g : g \in HkThreads /\ Posted(q, g)' => Posted(q, g)
  BY <1>1, Clearing DEF TypeOK
<1>3. /\ state'[h] = "ending"
      /\ \A g \in HkThreads : g # h => state'[g] = state[g]
  BY <1>1 DEF TypeOK
<1>4. \A g \in HkThreads : Accepts(g) => Accepts(g)'
  BY <1>3 DEF Accepts
<1>5. RecordsInOnePlace'
  BY <1>1, <1>2, <1>4, RecordsKept
<1>6. OwnersApart'
  BY <1>1, <1>2, OwnersKept
<1>7. CreatorWaits'
  BY <1>1, <1>3, CreatorKept
<1> QED
  BY <1>1, <1>2, <1>3, <1>5, <1>6, <1>7, ListsKept DEF Parts

LEMMA FreeNextKeeps ==
  ASSUME HotKeysInv, NEW h \in HkThreads, FreeNext(h)
  PROVE  Parts'
<1> USE DEF HotKeysInv
<1>0. PICK r : r = Head(list[h])
  OBVIOUS
<1>1. /\ state[h] = "ending" /\ list[h] # <<>>
      /\ list' = [list EXCEPT ![h] = Tail(@)] /\ rec' = [rec EXCEPT ![r] = "freed"]
      /\ UNCHANGED <<threadId, state, creator, queue, sys, pc, hold>>
  BY <1>0 DEF FreeNext, callVars
<1>2. PostedOnce' /\ \A q, g : Posted(q, g)' <=> Posted(q, g)
  BY <1>1, QueuesKept
<1>3. /\ Len(list[h]) # 0 /\ Len(list'[h]) = Len(list[h]) - 1 /\ ListedOnce'
      /\ r \in Regs /\ OnList(r, h)
      /\ \A q, g : g \in HkThreads /\ OnList(q, g)' => OnList(q, g)
      /\ \A q, g : g \in HkThreads /\ OnList(q, g) => OnList(q, g)' \/ (g = h /\ q = r)
      /\ ~OnList(r, h)'
  <2>1. list \in [HkThreads -> Seq(Regs)] /\ ListedOnce
    BY DEF TypeOK
  <2> HIDE DEF HotKeysInv
  <2> QED
    BY <1>0, <1>1, <2>1, Dropping
<1>4. rec[r] = "listed" /\ \A g \in HkThreads : ~OnList(r, g)'
  BY <1>3 DEF RecordsInOnePlace
<1>5. rec'[r] = "freed" /\ \A q \in Regs : q # r => rec'[q] = rec[q]
  BY <1>1, <1>3 DEF TypeOK
<1>6. \A g \in HkThreads : Accepts(g)' <=> Accepts(g)
  BY <1>1, AcceptsKept
<1>7. RecordsInOnePlace'
  <2> SUFFICES ASSUME NEW q \in Regs, NEW g \in HkThreads
               PROVE  /\ Posted(q, g)' => rec'[q] = "waiting"
                      /\ OnList(q, g)' =>
                           rec'[q] = "listed" /\ \A f \in HkThreads \ {g} : ~OnList(q, f)'
                      /\ rec'[q] = "listed" =>
                           \E f \in HkThreads : OnList(q, f)' /\ Accepts(f)'
    BY DEF RecordsInOnePlace
  <2>1. CASE q = r
    BY <1>2, <1>4, <1>5, <2>1 DEF RecordsInOnePlace
  <2>2. CASE q # r
    BY <1>2, <1>3, <1>5, <1>6, <2>2 DEF RecordsInOnePlace
  <2> QED
    BY <2>1, <2>2
<1>8. OwnersApart'
  <2>1. \A q \in Regs : rec[q] = "waiting" /\ (\A g \in HkThreads : ~Posted(q, g)) =>
                          rec'[q] = "waiting"
    BY <1>4, <1>5
  <2> QED
    BY <1>1, <1>2, <2>1, OwnersKept
<1>9. SysFinite' /\ SystemMatchesList'
  <2>1. \A g \in HkThreads : g # h => list'[g] = list[g]
    BY <1>1 DEF TypeOK
  <2>2. /\ IsFiniteSet(sys[h]) /\ Len(list[h]) <= Cardinality(sys[h])
        /\ Len(list[h]) \in Nat
    BY <1>1 DEF SysFinite, SystemMatchesList, TypeOK
  <2>3. Cardinality(sys[h]) \in Nat
    BY <2>2, FS_CardinalityType
  <2>4. Len(list'[h]) <= Cardinality(sys[h])
    BY <1>3, <2>2, <2>3
  <2> QED
    BY <1>1, <2>1, <2>4 DEF SysFinite, SystemMatchesList
<1>10. CreatorWaits'
  BY <1>1, CreatorKept
<1> QED
  BY <1>2, <1>3, <1>7, <1>8, <1>9, <1>10 DEF Parts

LEMMA ThreadEndsKeeps ==
  ASSUME HotKeysInv, NEW h \in HkThreads, ThreadEnds(h)
  PROVE  Parts'
<1> USE DEF HotKeysInv
<1>1. /\ state[h] = "ending" /\ list[h] = <<>>
      /\ state' = [state EXCEPT ![h] = "dead"] /\ sys' = [sys EXCEPT ![h] = {}]
      /\ UNCHANGED <<threadId, creator, queue, list, rec, pc, hold>>
  BY DEF ThreadEnds, recVars, callVars
<1>2. PostedOnce' /\ \A q, g : Posted(q, g)' <=> Posted(q, g)
  BY <1>1, QueuesKept
<1>3. /\ state'[h] = "dead" /\ sys'[h] = {}
      /\ \A g \in HkThreads : g # h => state'[g] = state[g] /\ sys'[g] = sys[g]
  BY <1>1 DEF TypeOK
<1>4. \A q : ~OnList(q, h) /\ \A g \in HkThreads : OnList(q, g)' <=> OnList(q, g)
  BY <1>1 DEF OnList
<1>5. \A g \in HkThreads : g # h => (Accepts(g)' <=> Accepts(g))
  BY <1>3, AcceptsKept
<1>6. RecordsInOnePlace'
  BY <1>1, <1>2, <1>4, <1>5 DEF RecordsInOnePlace
<1>7. OwnersApart'
  BY <1>1, <1>2, OwnersKept
<1>8. ListedOnce' /\ SysFinite' /\ SystemMatchesList'
  <2>1. IsFiniteSet({}) /\ Cardinality({}) = 0 /\ Len(<<>>) = 0
    BY FS_EmptySet
  <2>2. ListedOnce'
    BY <1>1 DEF ListedOnce
  <2>3. SysFinite' /\ SystemMatchesList'
    BY <1>1, <1>3, <2>1 DEF SysFinite, SystemMatchesList
  <2> QED
    BY <2>2, <2>3
<1>9. CreatorWaits'
  BY <1>1, <1>3, CreatorKept
<1> QED
  BY <1>2, <1>6, <1>7, <1>8, <1>9 DEF Parts

LEMMA ThreadKeeps ==
  ASSUME HotKeysInv, NEW h \in HkThreads, LoopStep(h) \/ EndStep(h) \/ Press(h)
  PROVE  Parts'
<1>1. CASE Granted(h)
  BY <1>1, GrantedKeeps
<1>2. CASE Refused(h)
  BY <1>2, RefusedKeeps
<1>3. CASE Unregister(h)
  BY <1>3, UnregisterKeeps
<1>4. CASE Quit(h)
  BY <1>4, QuitKeeps
<1>5. CASE StartLoop(h) \/ CallbackReturns(h) \/ HotKeyPressed(h) \/ Press(h)
  <2> USE DEF HotKeysInv
  <2>1. /\ UNCHANGED <<threadId, creator, list, sys, rec, pc, hold>>
        /\ \A g \in HkThreads : Accepts(g) => Accepts(g)'
        /\ \A g \in HkThreads : state'[g] = "starting" => state[g] = "starting"
        /\ \A g \in HkThreads : state'[g] = "none" <=> state[g] = "none"
        /\ \A g \in HkThreads : state[g] = "ending" => state'[g] = "ending"
    BY <1>5 DEF StartLoop, CallbackReturns, HotKeyPressed, Press, Gets, recVars, callVars,
                TypeOK, Accepts
  <2>2. PostedOnce' /\ \A q, g : g \in HkThreads /\ Posted(q, g)' => Posted(q, g)
    <3>1. CASE StartLoop(h) \/ CallbackReturns(h)
      BY <3>1, QueuesKept DEF StartLoop, CallbackReturns
    <3>2. CASE HotKeyPressed(h)
      BY <3>2, GotMessage DEF HotKeyPressed
    <3>3. CASE Press(h)
      <4>1. PICK k \in Keys :
              queue' = [queue EXCEPT ![h] = Append(@, [type |-> "hotkey", key |-> k])]
        BY <3>3 DEF Press, TypeOK
      <4> DEFINE m == [type |-> "hotkey", key |-> k]
      <4>2. m \in Messages /\ m.type # "register" /\ \A q : m # Register(q)
        BY MessageKinds DEF Register
      <4>3. queue \in [HkThreads -> Seq(Messages)] /\ PostedOnce
        BY DEF TypeOK
      <4> HIDE DEF m, HotKeysInv
      <4>4. queue' = [queue EXCEPT ![h] = Append(@, m)]
        BY <4>1 DEF m
      <4> QED
        BY <4>2, <4>3, <4>4, Posting
    <3> QED
      BY <1>5, <3>1, <3>2, <3>3
  <2>3. RecordsInOnePlace'
    BY <2>1, <2>2, RecordsKept
  <2>4. OwnersApart'
    BY <2>1, <2>2, OwnersKept
  <2>5. CreatorWaits'
    BY <2>1, CreatorKept
  <2> QED
    BY <2>1, <2>2, <2>3, <2>4, <2>5, ListsKept DEF Parts
<1>6. CASE FreeNext(h)
  BY <1>6, FreeNextKeeps
<1>7. CASE ThreadEnds(h)
  BY <1>7, ThreadEndsKeeps
<1> QED
  BY <1>1, <1>2, <1>3, <1>4, <1>5, <1>6, <1>7 DEF LoopStep, EndStep

LEMMA HotKeysStep == HotKeysInv /\ [Next]_vars => HotKeysInv'
<1> SUFFICES ASSUME HotKeysInv, [Next]_vars PROVE HotKeysInv'
  OBVIOUS
<1>1. TypeOK'
  BY TypeOKStep DEF HotKeysInv
<1>2. Parts'
  <2>1. CASE UNCHANGED vars
    <3> USE DEF HotKeysInv
    <3>1. UNCHANGED <<threadId, state, creator, queue, list, sys, rec, pc, hold>>
      BY <2>1 DEF vars, threadVars, recVars, callVars
    <3>2. PostedOnce' /\ \A q, h : Posted(q, h)' <=> Posted(q, h)
      BY <3>1, QueuesKept
    <3>3. RecordsInOnePlace'
      BY <3>1, <3>2, RecordsKept, AcceptsKept
    <3>4. OwnersApart'
      BY <3>1, <3>2, OwnersKept
    <3>5. CreatorWaits'
      BY <3>1, CreatorKept
    <3> QED
      BY <3>1, <3>2, <3>3, <3>4, <3>5, ListsKept DEF Parts
  <2> QED
    BY <2>1, CallerKeeps, ThreadKeeps DEF Next
<1> QED
  BY <1>1, <1>2 DEF HotKeysInv, Parts

LEMMA HotKeysAlways == Spec => []HotKeysInv
BY InitHotKeys, HotKeysStep, PTL DEF Spec
-----------------------------------------------------------------------------
(* Every variable of the extension keeps its type.                         *)
THEOREM TypeCorrect == Spec => []TypeOK
<1>1. HotKeysInv => TypeOK
  BY DEF HotKeysInv
<1> QED
  BY <1>1, HotKeysAlways, PTL

(* A posted record is waiting and on no list, a listed one is on one list  *)
(* of a thread that takes messages, and nothing leads to a freed record,   *)
(* although scripts post and poll records that the hot-key thread frees    *)
(* without any lock (js_hotkey.cpp:34-66, 89-96, 142-146).                 *)
THEOREM RecordsInOnePlaceAlways == Spec => []RecordsInOnePlace
<1>1. HotKeysInv => RecordsInOnePlace
  BY DEF HotKeysInv
<1> QED
  BY <1>1, HotKeysAlways, PTL

(* Windows holds as many combinations for a thread as its list has         *)
(* records, whichever of them an unregister message finds (40-66), and no  *)
(* fewer while the thread ends and frees its list (86-96).                 *)
THEOREM SystemMatchesListAlways == Spec => []SystemMatchesList
<1>1. HotKeysInv => SystemMatchesList
  BY DEF HotKeysInv
<1> QED
  BY <1>1, HotKeysAlways, PTL

(* The context a hot-key thread is given is that of a caller that cannot   *)
(* have left RegisterHotKey when the thread reads it, unless two callers   *)
(* raced: then another caller's thread is the one in use (31-32, 132-143). *)
THEOREM LateStartMeansRaceAlways == Spec => []LateStartMeansRace
<1>1. ASSUME CreatorWaits PROVE LateStartMeansRace
  <2> SUFFICES ASSUME NEW h \in HkThreads, state[h] = "starting",
                      pc[creator[h]] \notin {"postReg", "poll"}
               PROVE  threadId \in HkThreads \ {h} /\ creator[threadId] # creator[h]
    BY DEF LateStartMeansRace
  <2>1. threadId \in HkThreads /\ state[threadId] # "none" /\ threadId # h
    BY <1>1 DEF CreatorWaits
  <2> QED
    BY <1>1, <2>1 DEF CreatorWaits
<1>2. HotKeysInv => LateStartMeansRace
  BY <1>1 DEF HotKeysInv
<1> QED
  BY <1>2, HotKeysAlways, PTL
-----------------------------------------------------------------------------
(* The extension seen from the callers: what a step does to the answers.   *)
Answers == [r \in Regs |-> Status(r)]

(* A step that changes no record is invisible.                             *)
LEMMA SameAnswers ==
  ASSUME rec' = rec
  PROVE  Answers' = Answers
BY DEF Answers, Status

(* One record goes from one answer to another, and no other does.          *)
LEMMA Moved ==
  ASSUME NEW r \in Regs, NEW from, NEW to, Status(r) = from, Status(r)' = to,
         \A q \in Regs : q # r => rec'[q] = rec[q]
  PROVE  Service!Move(r, from, to)
<1>1. \A q \in Regs : q # r => Status(q)' = Status(q)
  BY DEF Status
<1> QED
  BY <1>1 DEF Service!Move

(* What the answer of a record is, by where the record is.                 *)
LEMMA StatusOf ==
  ASSUME NEW r \in Regs
  PROVE  /\ rec[r] = "none" => Status(r) = "new"
         /\ rec[r] = "waiting" => Status(r) = "asked"
         /\ rec[r] = "listed" => Status(r) = "granted"
         /\ rec[r] = "failed" => Status(r) = "refused"
         /\ rec[r] = "freed" => Status(r) = "released"
         /\ rec'[r] = "waiting" => Status(r)' = "asked"
         /\ rec'[r] = "listed" => Status(r)' = "granted"
         /\ rec'[r] = "failed" => Status(r)' = "refused"
         /\ rec'[r] = "freed" => Status(r)' = "released"
BY DEF Status

LEMMA InitServes == Init => Service!Init
BY DEF Init, Service!Init, Status

(* A caller asks, and nothing else it does is seen.                        *)
LEMMA CallerServes ==
  ASSUME TypeOK, NEW c \in Callers, CallerStep(c)
  PROVE  Service!Next \/ Answers' = Answers
<1>1. CASE CallRegister(c)
  <2>1. PICK r \in Regs : rec[r] = "none" /\ rec' = [rec EXCEPT ![r] = "waiting"]
    BY <1>1 DEF CallRegister
  <2>2. rec'[r] = "waiting" /\ \A q \in Regs : q # r => rec'[q] = rec[q]
    BY <2>1 DEF TypeOK
  <2>3. Status(r) = "new" /\ Status(r)' = "asked"
    BY <2>1, <2>2, StatusOf
  <2>4. Service!Move(r, "new", "asked")
    BY <2>2, <2>3, Moved
  <2> QED
    BY <2>4 DEF Service!Next, Service!Ask
<1>2. CASE ~CallRegister(c)
  <2>1. rec' = rec
    BY <1>2 DEF CallerStep, CreateHotkeyThread, PostRegister, RegisterReturns, CallCommand,
                PostUnregister, PostQuit, Post, recVars
  <2> QED
    BY <2>1, SameAnswers
<1> QED
  BY <1>1, <1>2

(* A hot-key thread grants, refuses, or releases what is on top of its     *)
(* list, on a message or when it ends.                                     *)
LEMMA LoopServes ==
  ASSUME HotKeysInv, NEW h \in HkThreads, LoopStep(h) \/ EndStep(h) \/ Press(h)
  PROVE  Service!Next \/ Answers' = Answers
<1>0. TypeOK /\ RecordsInOnePlace /\ rec \in [Regs -> {"none", "waiting", "listed", "failed", "freed"}]
  BY DEF HotKeysInv, TypeOK
<1>1. ASSUME Granted(h) \/ Refused(h)
      PROVE  Service!Next
  <2>1. PICK r \in Regs : r = Head(queue[h]).reg /\ Posted(r, h)
    BY <1>1, GotMessage DEF Granted, Refused
  <2>2. rec[r] = "waiting"
    BY <1>0, <2>1 DEF RecordsInOnePlace
  <2>3. PICK w \in {"listed", "failed"} :
          /\ Granted(h) => w = "listed"
          /\ ~Granted(h) => w = "failed"
          /\ rec' = [rec EXCEPT ![r] = w]
    BY <1>1, <2>1 DEF Granted, Refused
  <2>4. rec'[r] = w /\ \A q \in Regs : q # r => rec'[q] = rec[q]
    BY <1>0, <2>3
  <2>5. CASE w = "listed"
    <3>1. Service!Move(r, "asked", "granted")
      BY <2>2, <2>4, <2>5, StatusOf, Moved
    <3> QED
      BY <3>1 DEF Service!Next, Service!Grant
  <2>6. CASE w = "failed"
    <3>1. Service!Move(r, "asked", "refused")
      BY <2>2, <2>4, <2>6, StatusOf, Moved
    <3> QED
      BY <3>1 DEF Service!Next, Service!Refuse
  <2> QED
    BY <2>5, <2>6
<1>2. ASSUME Unregister(h) \/ FreeNext(h)
      PROVE  Service!Next \/ Answers' = Answers
  <2>1. CASE rec' = rec
    BY <2>1, SameAnswers
  <2>2. CASE rec' # rec
    <3>1. PICK r : r = Head(list[h])
      OBVIOUS
    <3>2. /\ list[h] # <<>> /\ list' = [list EXCEPT ![h] = Tail(@)]
          /\ rec' = [rec EXCEPT ![r] = "freed"]
      BY <1>2, <2>2, <3>1 DEF Unregister, FreeNext
    <3>3. r \in Regs /\ OnList(r, h)
      <4>1. list \in [HkThreads -> Seq(Regs)]
        BY <1>0 DEF TypeOK
      <4> QED
        BY <3>1, <3>2, <4>1, Dropping
    <3>4. rec[r] = "listed"
      BY <1>0, <3>3 DEF RecordsInOnePlace
    <3>5. rec'[r] = "freed" /\ \A q \in Regs : q # r => rec'[q] = rec[q]
      BY <1>0, <3>2, <3>3
    <3>6. Service!Move(r, "granted", "released")
      BY <3>3, <3>4, <3>5, StatusOf, Moved
    <3> QED
      BY <3>3, <3>6 DEF Service!Next, Service!Release
  <2> QED
    BY <2>1, <2>2
<1>3. ASSUME \/ StartLoop(h) \/ HotKeyPressed(h) \/ Quit(h) \/ CallbackReturns(h)
             \/ ThreadEnds(h) \/ Press(h)
      PROVE  Answers' = Answers
  <2>1. rec' = rec
    BY <1>3 DEF StartLoop, HotKeyPressed, Quit, CallbackReturns, ThreadEnds, Press, recVars
  <2> QED
    BY <2>1, SameAnswers
<1> QED
  BY <1>1, <1>2, <1>3 DEF LoopStep, EndStep

(* To its callers the extension is a registration service: what it does,   *)
(* on whichever thread and in whichever order the messages are taken, asks,*)
(* grants, refuses and releases each registration at most once and in that *)
(* order (js_hotkey.cpp:31-72, 119-190).                                   *)
THEOREM ServesRegistrationsAlways == Spec => ServesRegistrations
<1>1. HotKeysInv /\ [Next]_vars => [Service!Next]_Answers
  <2> SUFFICES ASSUME HotKeysInv, [Next]_vars PROVE Service!Next \/ Answers' = Answers
    OBVIOUS
  <2>1. TypeOK
    BY DEF HotKeysInv
  <2>2. CASE UNCHANGED vars
    <3>1. rec' = rec
      BY <2>2 DEF vars, recVars
    <3> QED
      BY <3>1, SameAnswers
  <2> QED
    BY <2>1, <2>2, CallerServes, LoopServes DEF Next
<1> QED
  BY InitServes, HotKeysAlways, <1>1, PTL DEF Spec, ServesRegistrations, Service!Spec, Answers
=============================================================================
