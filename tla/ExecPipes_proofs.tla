-------------------------- MODULE ExecPipes_proofs --------------------------
(***************************************************************************)
(* The safety properties of ExecPipes hold for any number of calls and     *)
(* streams, any capacity of a pipe and any sizes of the buffers.  The      *)
(* inductive invariant IInv says what each stage of a call means for its   *)
(* arguments and its request, who holds the ends of its pipes, and that    *)
(* the bytes written are those read and those still in the pipe.           *)
(* From it follows as well that Exec implements the service Executions     *)
(* states.                                                                 *)
(***************************************************************************)
EXTENDS ExecPipes, TLAPS

(* How far a call has come tells what its arguments were, whether it has   *)
(* failed, whether it is in its request and whether it has a process.      *)
CallOK(c) ==
  /\ pc[c] \in {"idle", "create", "wait", "close", "join", "collect"}
       => ~failed[c]
  /\ pc[c] = "wait" => wait[c]
  /\ pc[c] \in {"close", "join", "collect"} => Piped(c)
  /\ pc[c] = "fail" => capture[c] /\ failed[c]
  /\ pc[c] \in {"create", "close", "join", "collect", "fail"} => depth[c] = 1
  /\ pc[c] \in {"idle", "wait"} => depth[c] = 0
  /\ pc[c] \in {"idle", "create"} => process[c] = "none"
  /\ pc[c] \in {"close", "join", "collect"} => process[c] = "ended"
  /\ pc[c] = "done" => depth[c] = 0 \/ (failed[c] /\ ~capture[c])

(* Who holds the ends of a pipe, and which reader it has.                  *)
PipeOK(c, p) ==
  /\ readEnd[p] <=> Piped(c) /\ pc[c] \notin {"idle", "done"}
  /\ Parent \in writers[p] =>
       Piped(c) /\ pc[c] \in {"create", "wait", "close", "fail"}
  /\ pc[c] \in {"create", "wait", "close"} /\ Piped(c) =>
       Parent \in writers[p]
  /\ Piped(c) /\ process[c] = "running" => c \in writers[p]
  /\ reader[p] = "none" <=> pc[c] = "idle" \/ ~Piped(c)

(* No byte is lost between a process and its reader, and a reader that has *)
(* seen the end of a pipe has seen it all.                                 *)
BytesOK(c, p) ==
  /\ used[p] + inPipe[p] = written[p]
  /\ pc[c] = "idle" => used[p] = 0
  /\ readEnd[p] /\ reader[p] = "ended" => writers[p] = {} /\ inPipe[p] = 0
  /\ pc[c] = "collect" \/ (pc[c] = "done" /\ Piped(c) /\ ~failed[c]) =>
       ~Running(p)
  /\ pc[c] = "done" /\ Piped(c) /\ ~failed[c] /\ reader[p] = "ended" =>
       output[p] = written[p]

CallState == \A c \in Calls : CallOK(c)
PipeState == \A c \in Calls : \A s \in Streams : PipeOK(c, <<c, s>>)
BytesState == \A c \in Calls : \A s \in Streams : BytesOK(c, <<c, s>>)

IInv == TypeOK /\ ReaderHasRoom /\ CallState /\ PipeState /\ BytesState
-----------------------------------------------------------------------------
(* The invariant holds when no call has begun.                             *)
LEMMA InitIInv == Init => IInv
<1> SUFFICES ASSUME Init PROVE IInv
  OBVIOUS
<1> USE ExecPipesAssumption DEF Init, Pipes
<1>1. TypeOK
  BY DEF TypeOK
<1>2. ReaderHasRoom
  BY DEF ReaderHasRoom, Running
<1>3. CallState
  BY DEF CallState, CallOK
<1>4. PipeState
  BY DEF PipeState, PipeOK, Piped
<1>5. BytesState
  BY DEF BytesState, BytesOK, Running
<1> QED
  BY <1>1, <1>2, <1>3, <1>4, <1>5 DEF IInv
-----------------------------------------------------------------------------
(* Every step keeps every variable in its type.                            *)
LEMMA TypeOKStep ==
  ASSUME IInv, [Next]_vars
  PROVE  TypeOK'
<1>0. TypeOK /\ CallState /\ ReaderHasRoom
  BY DEF IInv
<1> USE <1>0, ExecPipesAssumption DEF TypeOK, Pipes
<1>1. ASSUME NEW c \in Calls, Exec(c)
      PROVE  TypeOK'
  <2>1. depth[c] = 0
    BY <1>1, <1>0 DEF Exec, CallState, CallOK
  <2>2. depth' \in [Calls -> 0..1]
    BY <1>1, <2>1 DEF Exec, BeginRequest
  <2>3. pc' \in [Calls -> {"idle", "create", "wait", "close", "join",
                            "collect", "fail", "done"}]
    BY <1>1 DEF Exec, Goto
  <2>4. /\ capture' \in [Calls -> BOOLEAN]
        /\ wait' \in [Calls -> BOOLEAN]
    BY <1>1 DEF Exec
  <2>5. \/ /\ writers' = SetPipes(writers, c, {Parent})
           /\ readEnd' = SetPipes(readEnd, c, TRUE)
           /\ reader' = SetPipes(reader, c, "reading")
           /\ size' = SetPipes(size, c, Initial)
        \/ UNCHANGED <<writers, readEnd, reader, size>>
    BY <1>1, Zenon DEF Exec, InitReaders
  <2>6. /\ SetPipes(writers, c, {Parent})
              \in [Pipes -> SUBSET (Calls \union {Parent})]
        /\ SetPipes(readEnd, c, TRUE) \in [Pipes -> BOOLEAN]
        /\ SetPipes(reader, c, "reading")
              \in [Pipes -> {"none", "reading", "ended", "outOfMemory"}]
        /\ SetPipes(size, c, Initial) \in [Pipes -> Nat]
    BY DEF SetPipes
  <2>7. /\ writers' \in [Pipes -> SUBSET (Calls \union {Parent})]
        /\ readEnd' \in [Pipes -> BOOLEAN]
        /\ reader' \in [Pipes -> {"none", "reading", "ended", "outOfMemory"}]
        /\ size' \in [Pipes -> Nat]
    <3>1. CASE UNCHANGED <<writers, readEnd, reader, size>>
      BY <3>1
    <3>2. CASE ~UNCHANGED <<writers, readEnd, reader, size>>
      BY <2>5, <2>6, <3>2, Zenon
    <3> QED
      BY <3>1, <3>2
  <2>8. UNCHANGED <<failed, process, inPipe, written, used, output>>
    BY <1>1 DEF Exec
  <2> QED
    BY <2>2, <2>3, <2>4, <2>7, <2>8 DEF callVars, pipeVars, readerVars
<1>2. ASSUME NEW c \in Calls, CreateProcess(c)
      PROVE  TypeOK'
  <2>1. depth[c] = 1
    BY <1>2, <1>0 DEF CreateProcess, CallState, CallOK
  <2>2. depth' \in [Calls -> 0..1]
    BY <1>2, <2>1 DEF CreateProcess, EndRequest
  <2>3. pc' \in [Calls -> {"idle", "create", "wait", "close", "join",
                            "collect", "fail", "done"}]
    BY <1>2 DEF CreateProcess, Goto
  <2>4. process' \in [Calls -> {"none", "running", "ended"}]
    BY <1>2 DEF CreateProcess
  <2>5. writers' \in [Pipes -> SUBSET (Calls \union {Parent})]
    BY <1>2 DEF CreateProcess
  <2>6. UNCHANGED <<capture, wait, failed, readEnd, inPipe, written, readerVars,
                   output>>
    BY <1>2 DEF CreateProcess
  <2> QED
    BY <2>2, <2>3, <2>4, <2>5, <2>6 DEF callVars, pipeVars,
       readerVars
<1>3. ASSUME NEW c \in Calls, CreateProcessFails(c)
      PROVE  TypeOK'
  BY <1>3 DEF CreateProcessFails, Goto, callVars, pipeVars, readerVars
<1>4. ASSUME NEW c \in Calls, ProcessWaited(c)
      PROVE  TypeOK'
  <2>1. depth[c] = 0
    BY <1>4, <1>0 DEF ProcessWaited, CallState, CallOK
  <2>2. depth' \in [Calls -> 0..1]
    BY <1>4, <2>1 DEF ProcessWaited, BeginRequest
  <2>3. pc' \in [Calls -> {"idle", "create", "wait", "close", "join",
                            "collect", "fail", "done"}]
    BY <1>4 DEF ProcessWaited, Goto
  <2>4. UNCHANGED <<capture, wait, failed, process, pipeVars, written, readerVars,
                   output>>
    BY <1>4 DEF ProcessWaited
  <2> QED
    BY <2>2, <2>3, <2>4 DEF callVars, pipeVars,
       readerVars
<1>5. ASSUME NEW c \in Calls, WaitFails(c)
      PROVE  TypeOK'
  <2>1. depth[c] = 0
    BY <1>5, <1>0 DEF WaitFails, CallState, CallOK
  <2>2. depth' \in [Calls -> 0..1]
    BY <1>5, <2>1 DEF WaitFails, BeginRequest
  <2>3. pc' \in [Calls -> {"idle", "create", "wait", "close", "join",
                            "collect", "fail", "done"}]
    <3>1. pc' = [pc EXCEPT ![c] = "fail"] \/ pc' = [pc EXCEPT ![c] = "done"]
      BY <1>5 DEF WaitFails, Goto
    <3>2. CASE pc' = [pc EXCEPT ![c] = "fail"]
      BY <3>2
    <3>3. CASE pc' = [pc EXCEPT ![c] = "done"]
      BY <3>3
    <3> QED
      BY <3>1, <3>2, <3>3
  <2>4. failed' \in [Calls -> BOOLEAN]
    BY <1>5 DEF WaitFails
  <2>5. UNCHANGED <<capture, wait, process, pipeVars, written, readerVars, output>>
    BY <1>5 DEF WaitFails
  <2> QED
    BY <2>2, <2>3, <2>4, <2>5 DEF callVars, pipeVars,
       readerVars
<1>6. ASSUME NEW c \in Calls, ClosePipes(c)
      PROVE  TypeOK'
  BY <1>6 DEF ClosePipes, CloseWriteEnds, Goto, callVars, pipeVars, readerVars
<1>7. ASSUME NEW c \in Calls, ReadersJoined(c)
      PROVE  TypeOK'
  BY <1>7 DEF ReadersJoined, Goto, callVars, pipeVars, readerVars
<1>8. ASSUME NEW c \in Calls, Collect(c)
      PROVE  TypeOK'
  <2>1. depth[c] = 1
    BY <1>8, <1>0 DEF Collect, CallState, CallOK
  <2>2. depth' \in [Calls -> 0..1]
    BY <1>8, <2>1 DEF Collect, EndRequest
  <2>3. pc' \in [Calls -> {"idle", "create", "wait", "close", "join",
                            "collect", "fail", "done"}]
    BY <1>8 DEF Collect, Goto
  <2>4. output' \in [Pipes -> Nat]
    BY <1>8 DEF Collect
  <2>5. readEnd' \in [Pipes -> BOOLEAN]
    BY <1>8 DEF Collect, SetPipes, CloseReadEnds
  <2>6. UNCHANGED <<capture, wait, failed, process, writers, inPipe, written,
                   readerVars>>
    BY <1>8 DEF Collect
  <2> QED
    BY <2>2, <2>3, <2>4, <2>5, <2>6 DEF callVars, pipeVars,
       readerVars
<1>9. ASSUME NEW c \in Calls, FunctionEnd(c)
      PROVE  TypeOK'
  <2>1. depth[c] = 1
    BY <1>9, <1>0 DEF FunctionEnd, CallState, CallOK
  <2>2. depth' \in [Calls -> 0..1]
    BY <1>9, <2>1 DEF FunctionEnd, EndRequest
  <2>3. pc' \in [Calls -> {"idle", "create", "wait", "close", "join",
                            "collect", "fail", "done"}]
    BY <1>9 DEF FunctionEnd, Goto
  <2>4. writers' \in [Pipes -> SUBSET (Calls \union {Parent})]
    BY <1>9 DEF FunctionEnd, SetPipes, CloseReadEnds, CloseWriteEnds
  <2>5. readEnd' \in [Pipes -> BOOLEAN]
    BY <1>9 DEF FunctionEnd, SetPipes, CloseReadEnds, CloseWriteEnds
  <2>6. UNCHANGED <<capture, wait, failed, process, inPipe, written, readerVars,
                   output>>
    BY <1>9 DEF FunctionEnd
  <2> QED
    BY <2>2, <2>3, <2>4, <2>5, <2>6 DEF callVars, pipeVars,
       readerVars
<1>10. ASSUME NEW c \in Calls, Write(c)
      PROVE  TypeOK'
  BY <1>10 DEF Write, callVars, pipeVars, readerVars
<1>11. ASSUME NEW c \in Calls, ProcessEnds(c)
      PROVE  TypeOK'
  BY <1>11 DEF ProcessEnds, callVars, pipeVars, readerVars
<1>12. ASSUME NEW q \in Pipes, Read(q)
      PROVE  TypeOK'
  <2>1. /\ inPipe[q] \in Nat /\ used[q] \in Nat /\ size[q] \in Nat
        /\ used[q] + Slack <= size[q]
    BY <1>0, <1>12 DEF Read, Running, ReaderHasRoom
  <2> DEFINE n == IF inPipe[q] < Room(q) THEN inPipe[q] ELSE Room(q)
  <2>2. n \in 0..inPipe[q]
    BY <2>1 DEF Room
  <2>3. /\ inPipe' = [inPipe EXCEPT ![q] = @ - n]
        /\ used' = [used EXCEPT ![q] = @ + n]
    BY <1>12 DEF Read
  <2>4. size' \in [Pipes -> Nat]
    BY <1>12 DEF Read
  <2>5. reader' \in [Pipes -> {"none", "reading", "ended", "outOfMemory"}]
    BY <1>12 DEF Read
  <2>6. UNCHANGED <<callVars, process, writers, readEnd, written, output>>
    BY <1>12 DEF Read
  <2> HIDE DEF n
  <2>7. inPipe' \in [Pipes -> 0..Capacity] /\ used' \in [Pipes -> Nat]
    BY <2>1, <2>2, <2>3
  <2> QED
    BY <2>4, <2>5, <2>6, <2>7 DEF callVars
<1>13. ASSUME NEW q \in Pipes, ReadEnds(q)
      PROVE  TypeOK'
  BY <1>13 DEF ReadEnds, Running, callVars, pipeVars, readerVars
<1>14. CASE UNCHANGED vars
  BY <1>14 DEF vars, callVars, pipeVars, readerVars
<1> QED
  BY <1>1, <1>2, <1>3, <1>4, <1>5, <1>6, <1>7, <1>8, <1>9,
     <1>10, <1>11, <1>12, <1>13, <1>14
  DEF Next, CallStep, CallGoesOn, ReaderStep
-----------------------------------------------------------------------------
(* What the beginning of a call does to each pipe.                         *)
LEMMA ExecEffect ==
  ASSUME TypeOK, NEW c \in Calls, Exec(c), NEW p \in Pipes
  PROVE  /\ p[1] = c /\ Piped(c)' =>
               /\ writers'[p] = {Parent} /\ readEnd'[p]
               /\ reader'[p] = "reading" /\ size'[p] = Initial
         /\ p[1] # c \/ ~Piped(c)' =>
               /\ writers'[p] = writers[p] /\ (readEnd'[p] <=> readEnd[p])
               /\ reader'[p] = reader[p] /\ size'[p] = size[p]
<1>1. PICK cap \in BOOLEAN, w \in BOOLEAN :
        /\ capture' = [capture EXCEPT ![c] = cap]
        /\ wait' = [wait EXCEPT ![c] = w]
        /\ IF cap /\ w
           THEN /\ writers' = SetPipes(writers, c, {Parent})
                /\ readEnd' = SetPipes(readEnd, c, TRUE)
                /\ reader' = SetPipes(reader, c, "reading")
                /\ size' = SetPipes(size, c, Initial)
           ELSE UNCHANGED <<writers, readEnd, reader, size>>
  BY Zenon DEF Exec, InitReaders
<1>2. Piped(c)' <=> cap /\ w
  <2>1. capture'[c] = cap /\ wait'[c] = w
    BY <1>1 DEF TypeOK
  <2> QED
    BY <2>1, Zenon DEF Piped
<1>3. CASE cap /\ w
  <2>1. /\ writers' = SetPipes(writers, c, {Parent})
        /\ readEnd' = SetPipes(readEnd, c, TRUE)
        /\ reader' = SetPipes(reader, c, "reading")
        /\ size' = SetPipes(size, c, Initial)
    BY <1>1, <1>3, Zenon
  <2> QED
    BY <1>2, <1>3, <2>1 DEF SetPipes
<1>4. CASE ~(cap /\ w)
  <2>1. UNCHANGED <<writers, readEnd, reader, size>>
    BY <1>1, <1>4, Zenon
  <2> QED
    BY <1>2, <1>4, <2>1
<1> QED
  BY <1>3, <1>4
-----------------------------------------------------------------------------
(* A buffer that has little room left has grown before the next read.      *)
LEMMA ReaderHasRoomStep ==
  ASSUME IInv, TypeOK', [Next]_vars
  PROVE  ReaderHasRoom'
<1> SUFFICES ASSUME NEW p \in Pipes, Running(p)'
             PROVE  (used[p] + Slack <= size[p])'
  BY DEF ReaderHasRoom
<1>0. /\ TypeOK
      /\ Running(p) => used[p] + Slack <= size[p]
      /\ pc[p[1]] = "idle" => used[p] = 0
  BY DEF IInv, ReaderHasRoom, BytesState, BytesOK, Pipes
<1> USE <1>0, ExecPipesAssumption DEF TypeOK, Running
<1>1. ASSUME NEW c \in Calls, Exec(c)
      PROVE  (used[p] + Slack <= size[p])'
  <2>1. /\ p[1] = c /\ Piped(c)' => size'[p] = Initial
        /\ p[1] # c \/ ~Piped(c)' =>
             size'[p] = size[p] /\ reader'[p] = reader[p]
    BY <1>1, ExecEffect
  <2>2. used' = used /\ pc[c] = "idle"
    BY <1>1 DEF Exec
  <2> QED
    BY <2>1, <2>2
<1>2. ASSUME NEW c \in Calls, CreateProcess(c)
      PROVE  (used[p] + Slack <= size[p])'
  BY <1>2 DEF CreateProcess, EndRequest, Goto, callVars, pipeVars, readerVars
<1>3. ASSUME NEW c \in Calls, CreateProcessFails(c)
      PROVE  (used[p] + Slack <= size[p])'
  BY <1>3 DEF CreateProcessFails, Goto, callVars, pipeVars, readerVars
<1>4. ASSUME NEW c \in Calls, ProcessWaited(c)
      PROVE  (used[p] + Slack <= size[p])'
  BY <1>4 DEF ProcessWaited, BeginRequest, Goto, callVars, pipeVars,
        readerVars
<1>5. ASSUME NEW c \in Calls, WaitFails(c)
      PROVE  (used[p] + Slack <= size[p])'
  BY <1>5 DEF WaitFails, BeginRequest, Goto, callVars, pipeVars, readerVars
<1>6. ASSUME NEW c \in Calls, ClosePipes(c)
      PROVE  (used[p] + Slack <= size[p])'
  BY <1>6 DEF ClosePipes, CloseWriteEnds, Goto, callVars, pipeVars, readerVars
<1>7. ASSUME NEW c \in Calls, ReadersJoined(c)
      PROVE  (used[p] + Slack <= size[p])'
  BY <1>7 DEF ReadersJoined, Goto, callVars, pipeVars, readerVars
<1>8. ASSUME NEW c \in Calls, Collect(c)
      PROVE  (used[p] + Slack <= size[p])'
  BY <1>8 DEF Collect, EndRequest, CloseReadEnds, SetPipes, Goto, callVars,
        pipeVars, readerVars
<1>9. ASSUME NEW c \in Calls, FunctionEnd(c)
      PROVE  (used[p] + Slack <= size[p])'
  BY <1>9 DEF FunctionEnd, EndRequest, CloseWriteEnds, CloseReadEnds,
        SetPipes, Goto, callVars, pipeVars, readerVars
<1>10. ASSUME NEW c \in Calls, Write(c)
      PROVE  (used[p] + Slack <= size[p])'
  BY <1>10 DEF Write, callVars, pipeVars, readerVars
<1>11. ASSUME NEW c \in Calls, ProcessEnds(c)
      PROVE  (used[p] + Slack <= size[p])'
  BY <1>11 DEF ProcessEnds, callVars, pipeVars, readerVars
<1>12. ASSUME NEW q \in Pipes, Read(q)
      PROVE  (used[p] + Slack <= size[p])'
  BY <1>12 DEF Read, Running, Room, FrameLive, callVars, pipeVars, readerVars
<1>13. ASSUME NEW q \in Pipes, ReadEnds(q)
      PROVE  (used[p] + Slack <= size[p])'
  BY <1>13 DEF ReadEnds, Running, callVars, pipeVars, readerVars
<1>14. CASE UNCHANGED vars
  BY <1>14 DEF vars, callVars, pipeVars, readerVars
<1> QED
  BY <1>1, <1>2, <1>3, <1>4, <1>5, <1>6, <1>7, <1>8, <1>9,
     <1>10, <1>11, <1>12, <1>13, <1>14
  DEF Next, CallStep, CallGoesOn, ReaderStep
-----------------------------------------------------------------------------
(* Every step of a call leaves it in a stage that is what it should be.    *)
LEMMA CallStateStep ==
  ASSUME IInv, TypeOK', [Next]_vars
  PROVE  CallState'
<1> SUFFICES ASSUME NEW d \in Calls PROVE CallOK(d)'
  BY DEF CallState
<1>0. TypeOK /\ CallOK(d)
  BY DEF IInv, CallState
<1> USE <1>0, ExecPipesAssumption DEF TypeOK, CallOK, Piped
<1>1. ASSUME NEW c \in Calls, Exec(c)
      PROVE  CallOK(d)'
  BY <1>1 DEF Exec, BeginRequest, Goto, SetPipes, callVars, pipeVars,
        readerVars
<1>2. ASSUME NEW c \in Calls, CreateProcess(c)
      PROVE  CallOK(d)'
  BY <1>2 DEF CreateProcess, EndRequest, Goto, callVars, pipeVars, readerVars
<1>3. ASSUME NEW c \in Calls, CreateProcessFails(c)
      PROVE  CallOK(d)'
  BY <1>3 DEF CreateProcessFails, Goto, callVars, pipeVars, readerVars
<1>4. ASSUME NEW c \in Calls, ProcessWaited(c)
      PROVE  CallOK(d)'
  BY <1>4 DEF ProcessWaited, BeginRequest, Goto, callVars, pipeVars,
        readerVars
<1>5. ASSUME NEW c \in Calls, WaitFails(c)
      PROVE  CallOK(d)'
  BY <1>5 DEF WaitFails, BeginRequest, Goto, callVars, pipeVars, readerVars
<1>6. ASSUME NEW c \in Calls, ClosePipes(c)
      PROVE  CallOK(d)'
  BY <1>6 DEF ClosePipes, CloseWriteEnds, Goto, callVars, pipeVars, readerVars
<1>7. ASSUME NEW c \in Calls, ReadersJoined(c)
      PROVE  CallOK(d)'
  BY <1>7 DEF ReadersJoined, Goto, callVars, pipeVars, readerVars
<1>8. ASSUME NEW c \in Calls, Collect(c)
      PROVE  CallOK(d)'
  BY <1>8 DEF Collect, EndRequest, CloseReadEnds, SetPipes, Goto, callVars,
        pipeVars, readerVars
<1>9. ASSUME NEW c \in Calls, FunctionEnd(c)
      PROVE  CallOK(d)'
  BY <1>9 DEF FunctionEnd, EndRequest, CloseWriteEnds, CloseReadEnds,
        SetPipes, Goto, callVars, pipeVars, readerVars
<1>10. ASSUME NEW c \in Calls, Write(c)
      PROVE  CallOK(d)'
  BY <1>10 DEF Write, callVars, pipeVars, readerVars
<1>11. ASSUME NEW c \in Calls, ProcessEnds(c)
      PROVE  CallOK(d)'
  BY <1>11 DEF ProcessEnds, callVars, pipeVars, readerVars
<1>12. ASSUME NEW q \in Pipes, Read(q)
      PROVE  CallOK(d)'
  BY <1>12 DEF Read, Running, Room, FrameLive, callVars, pipeVars, readerVars
<1>13. ASSUME NEW q \in Pipes, ReadEnds(q)
      PROVE  CallOK(d)'
  BY <1>13 DEF ReadEnds, Running, callVars, pipeVars, readerVars
<1>14. CASE UNCHANGED vars
  BY <1>14 DEF vars, callVars, pipeVars, readerVars
<1> QED
  BY <1>1, <1>2, <1>3, <1>4, <1>5, <1>6, <1>7, <1>8, <1>9,
     <1>10, <1>11, <1>12, <1>13, <1>14
  DEF Next, CallStep, CallGoesOn, ReaderStep
-----------------------------------------------------------------------------
(* Every step opens, inherits and closes the ends of a pipe as the stage   *)
(* of its call says.                                                       *)
LEMMA PipeStateStep ==
  ASSUME IInv, TypeOK', [Next]_vars
  PROVE  PipeState'
<1> SUFFICES ASSUME NEW d \in Calls, NEW p \in Pipes, p[1] = d
             PROVE  PipeOK(d, p)'
  BY DEF PipeState, Pipes
<1>0. TypeOK /\ CallOK(d) /\ PipeOK(d, p)
  BY DEF IInv, CallState, PipeState, Pipes
<1> USE <1>0, ExecPipesAssumption DEF TypeOK, CallOK, PipeOK, Piped
<1>1. ASSUME NEW c \in Calls, Exec(c)
      PROVE  PipeOK(d, p)'
  <2>1. CASE d = c
    <3>1. /\ pc[c] = "idle" /\ pc'[c] = "create"
          /\ process' = process /\ process[c] = "none"
      BY <1>1, <2>1 DEF Exec, Goto
    <3>2. CASE Piped(c)'
      <4>1. /\ writers'[p] = {Parent} /\ readEnd'[p]
            /\ reader'[p] = "reading"
        BY <1>1, <2>1, <3>2, ExecEffect
      <4> QED
        BY ONLY ExecPipesAssumption, <2>1, <3>1, <3>2, <4>1 DEF PipeOK, Piped
    <3>3. CASE ~Piped(c)'
      <4>1. /\ writers'[p] = writers[p] /\ (readEnd'[p] <=> readEnd[p])
            /\ reader'[p] = reader[p]
        BY <1>1, <2>1, <3>3, ExecEffect
      <4>2. Parent \notin writers[p] /\ ~readEnd[p] /\ reader[p] = "none"
        BY <2>1, <3>1
      <4> QED
        BY ONLY <2>1, <3>1, <3>3, <4>1, <4>2 DEF PipeOK, Piped
    <3> QED
      BY <3>2, <3>3
  <2>2. CASE d # c
    <3>1. /\ writers'[p] = writers[p] /\ (readEnd'[p] <=> readEnd[p])
          /\ reader'[p] = reader[p]
      BY <1>1, <2>2, ExecEffect
    <3>2. /\ pc'[d] = pc[d] /\ process'[d] = process[d]
          /\ capture'[d] = capture[d] /\ wait'[d] = wait[d]
      BY <1>1, <2>2 DEF Exec, Goto
    <3> QED
      BY <3>1, <3>2
  <2> QED
    BY <2>1, <2>2
<1>2. ASSUME NEW c \in Calls, CreateProcess(c)
      PROVE  PipeOK(d, p)'
  BY <1>2 DEF CreateProcess, EndRequest, Goto, callVars, pipeVars, readerVars
<1>3. ASSUME NEW c \in Calls, CreateProcessFails(c)
      PROVE  PipeOK(d, p)'
  BY <1>3 DEF CreateProcessFails, Goto, callVars, pipeVars, readerVars
<1>4. ASSUME NEW c \in Calls, ProcessWaited(c)
      PROVE  PipeOK(d, p)'
  BY <1>4 DEF ProcessWaited, BeginRequest, Goto, callVars, pipeVars,
        readerVars
<1>5. ASSUME NEW c \in Calls, WaitFails(c)
      PROVE  PipeOK(d, p)'
  BY <1>5 DEF WaitFails, BeginRequest, Goto, callVars, pipeVars, readerVars
<1>6. ASSUME NEW c \in Calls, ClosePipes(c)
      PROVE  PipeOK(d, p)'
  BY <1>6 DEF ClosePipes, CloseWriteEnds, Goto, callVars, pipeVars, readerVars
<1>7. ASSUME NEW c \in Calls, ReadersJoined(c)
      PROVE  PipeOK(d, p)'
  BY <1>7 DEF ReadersJoined, Goto, callVars, pipeVars, readerVars
<1>8. ASSUME NEW c \in Calls, Collect(c)
      PROVE  PipeOK(d, p)'
  BY <1>8 DEF Collect, EndRequest, CloseReadEnds, SetPipes, Goto, callVars,
        pipeVars, readerVars
<1>9. ASSUME NEW c \in Calls, FunctionEnd(c)
      PROVE  PipeOK(d, p)'
  BY <1>9 DEF FunctionEnd, EndRequest, CloseWriteEnds, CloseReadEnds,
        SetPipes, Goto, callVars, pipeVars, readerVars
<1>10. ASSUME NEW c \in Calls, Write(c)
      PROVE  PipeOK(d, p)'
  BY <1>10 DEF Write, callVars, pipeVars, readerVars
<1>11. ASSUME NEW c \in Calls, ProcessEnds(c)
      PROVE  PipeOK(d, p)'
  BY <1>11 DEF ProcessEnds, callVars, pipeVars, readerVars
<1>12. ASSUME NEW q \in Pipes, Read(q)
      PROVE  PipeOK(d, p)'
  BY <1>12 DEF Read, Running, Room, FrameLive, callVars, pipeVars, readerVars
<1>13. ASSUME NEW q \in Pipes, ReadEnds(q)
      PROVE  PipeOK(d, p)'
  BY <1>13 DEF ReadEnds, Running, callVars, pipeVars, readerVars
<1>14. CASE UNCHANGED vars
  BY <1>14 DEF vars, callVars, pipeVars, readerVars
<1> QED
  BY <1>1, <1>2, <1>3, <1>4, <1>5, <1>6, <1>7, <1>8, <1>9,
     <1>10, <1>11, <1>12, <1>13, <1>14
  DEF Next, CallStep, CallGoesOn, ReaderStep
-----------------------------------------------------------------------------
(* Every step keeps count of the bytes.                                    *)
LEMMA BytesStateStep ==
  ASSUME IInv, TypeOK', [Next]_vars
  PROVE  BytesState'
<1> SUFFICES ASSUME NEW d \in Calls, NEW p \in Pipes, p[1] = d
             PROVE  BytesOK(d, p)'
  BY DEF BytesState, Pipes
<1>0. /\ TypeOK /\ CallOK(d) /\ PipeOK(d, p) /\ BytesOK(d, p)
      /\ Running(p) => used[p] + Slack <= size[p]
  BY DEF IInv, CallState, PipeState, BytesState, ReaderHasRoom, Pipes
<1> USE <1>0, ExecPipesAssumption
    DEF TypeOK, CallOK, PipeOK, BytesOK, Piped, Running
<1>1. ASSUME NEW c \in Calls, Exec(c)
      PROVE  BytesOK(d, p)'
  <2>1. /\ UNCHANGED <<used, inPipe, written, output, failed>>
        /\ pc[c] = "idle" /\ pc' = [pc EXCEPT ![c] = "create"]
    BY <1>1 DEF Exec, Goto
  <2>2. CASE d = c
    <3>1. reader'[p] # "ended"
      BY <1>1, <2>1, <2>2, ExecEffect
    <3> QED
      BY <2>1, <2>2, <3>1
  <2>3. CASE d # c
    <3>1. /\ writers'[p] = writers[p] /\ (readEnd'[p] <=> readEnd[p])
          /\ reader'[p] = reader[p]
      BY <1>1, <2>3, ExecEffect
    <3>2. capture'[d] = capture[d] /\ wait'[d] = wait[d] /\ pc'[d] = pc[d]
      BY <1>1, <2>3 DEF Exec, Goto
    <3> QED
      BY <2>1, <3>1, <3>2
  <2> QED
    BY <2>2, <2>3
<1>2. ASSUME NEW c \in Calls, CreateProcess(c)
      PROVE  BytesOK(d, p)'
  BY <1>2 DEF CreateProcess, EndRequest, Goto, callVars, pipeVars, readerVars
<1>3. ASSUME NEW c \in Calls, CreateProcessFails(c)
      PROVE  BytesOK(d, p)'
  BY <1>3 DEF CreateProcessFails, Goto, callVars, pipeVars, readerVars
<1>4. ASSUME NEW c \in Calls, ProcessWaited(c)
      PROVE  BytesOK(d, p)'
  BY <1>4 DEF ProcessWaited, BeginRequest, Goto, callVars, pipeVars,
        readerVars
<1>5. ASSUME NEW c \in Calls, WaitFails(c)
      PROVE  BytesOK(d, p)'
  BY <1>5 DEF WaitFails, BeginRequest, Goto, callVars, pipeVars, readerVars
<1>6. ASSUME NEW c \in Calls, ClosePipes(c)
      PROVE  BytesOK(d, p)'
  BY <1>6 DEF ClosePipes, CloseWriteEnds, Goto, callVars, pipeVars, readerVars
<1>7. ASSUME NEW c \in Calls, ReadersJoined(c)
      PROVE  BytesOK(d, p)'
  <2>1. p = <<d, p[2]>> /\ p[2] \in Streams
    BY DEF Pipes
  <2>2. d = c => ~Running(p)
    BY <1>7, <2>1 DEF ReadersJoined
  <2> QED
    BY <1>7, <2>2 DEF ReadersJoined, Goto, callVars, pipeVars, readerVars
<1>8. ASSUME NEW c \in Calls, Collect(c)
      PROVE  BytesOK(d, p)'
  BY <1>8 DEF Collect, EndRequest, CloseReadEnds, SetPipes, Goto, callVars,
        pipeVars, readerVars
<1>9. ASSUME NEW c \in Calls, FunctionEnd(c)
      PROVE  BytesOK(d, p)'
  BY <1>9 DEF FunctionEnd, EndRequest, CloseWriteEnds, CloseReadEnds,
        SetPipes, Goto, callVars, pipeVars, readerVars
<1>10. ASSUME NEW c \in Calls, Write(c)
      PROVE  BytesOK(d, p)'
  BY <1>10 DEF Write, callVars, pipeVars, readerVars
<1>11. ASSUME NEW c \in Calls, ProcessEnds(c)
      PROVE  BytesOK(d, p)'
  BY <1>11 DEF ProcessEnds, callVars, pipeVars, readerVars
<1>12. ASSUME NEW q \in Pipes, Read(q)
      PROVE  BytesOK(d, p)'
  <2>1. /\ UNCHANGED <<pc, capture, wait, failed, writers, readEnd, written, output>>
        /\ reader[q] = "reading" /\ readEnd[q]
    BY <1>12 DEF Read, callVars
  <2>2. PICK n : /\ n = (IF inPipe[q] < Room(q) THEN inPipe[q] ELSE Room(q))
                 /\ inPipe' = [inPipe EXCEPT ![q] = @ - n]
                 /\ used' = [used EXCEPT ![q] = @ + n]
    BY <1>12 DEF Read
  <2>3. reader' = reader \/ reader' = [reader EXCEPT ![q] = "outOfMemory"]
    BY <1>12 DEF Read
  <2>4. CASE p = q
    <3>1. n \in Nat /\ used[p] \in Nat /\ inPipe[p] \in Nat
      BY <2>1, <2>2, <2>4 DEF Room
    <3>2. used'[p] = used[p] + n /\ inPipe'[p] = inPipe[p] - n
      BY <2>2, <2>4
    <3>3. used'[p] + inPipe'[p] = written'[p]
      BY <2>1, <3>1, <3>2
    <3>4. reader'[p] \in {"reading", "outOfMemory"}
      BY <2>1, <2>3, <2>4
    <3>5. pc[d] # "idle" /\ pc[d] # "collect" /\ ~(pc[d] = "done" /\ Piped(d) /\ ~failed[d])
      BY <2>1, <2>4
    <3> QED
      BY <2>1, <3>3, <3>4, <3>5
  <2>5. CASE p # q
    <3>1. used'[p] = used[p] /\ inPipe'[p] = inPipe[p] /\ reader'[p] = reader[p]
      BY <2>2, <2>3, <2>5
    <3> QED
      BY <2>1, <3>1
  <2> QED
    BY <2>4, <2>5
<1>13. ASSUME NEW q \in Pipes, ReadEnds(q)
      PROVE  BytesOK(d, p)'
  BY <1>13 DEF ReadEnds, Running, callVars, pipeVars, readerVars
<1>14. CASE UNCHANGED vars
  BY <1>14 DEF vars, callVars, pipeVars, readerVars
<1> QED
  BY <1>1, <1>2, <1>3, <1>4, <1>5, <1>6, <1>7, <1>8, <1>9,
     <1>10, <1>11, <1>12, <1>13, <1>14
  DEF Next, CallStep, CallGoesOn, ReaderStep
-----------------------------------------------------------------------------
(* Every step keeps the invariant.                                        *)
LEMMA NextIInv ==
  ASSUME IInv, [Next]_vars
  PROVE  IInv'
<1>1. TypeOK'
  BY TypeOKStep
<1> QED
  BY <1>1, ReaderHasRoomStep, CallStateStep, PipeStateStep, BytesStateStep
  DEF IInv

(* The invariant holds in every state of every behaviour.                  *)
THEOREM Invariance == Spec => []IInv
  BY InitIInv, NextIInv, PTL DEF Spec

(* The types of the model.                                                 *)
THEOREM TypeCorrect == Spec => []TypeOK
<1>1. IInv => TypeOK
  BY DEF IInv
<1> QED
  BY Invariance, <1>1, PTL

(* No reader ever calls ReadFile with a full buffer, whatever the sizes.   *)
THEOREM ReadersHaveRoom == Spec => []ReaderHasRoom
<1>1. IInv => ReaderHasRoom
  BY DEF IInv
<1> QED
  BY Invariance, <1>1, PTL

(* A call that succeeds returns every byte its process wrote, for any      *)
(* number of calls that inherit each other's pipes.                        *)
THEOREM OutputIsComplete == Spec => []OutputComplete
<1>1. IInv => OutputComplete
  <2> SUFFICES ASSUME IInv, NEW c \in Calls, pc[c] = "done", Piped(c),
                      ~failed[c], ~Starved(c), NEW s \in Streams
               PROVE  output[<<c, s>>] = written[<<c, s>>]
    BY DEF OutputComplete
  <2>1. /\ reader[<<c, s>>] \in {"none", "reading", "ended", "outOfMemory"}
        /\ PipeOK(c, <<c, s>>) /\ BytesOK(c, <<c, s>>)
    BY DEF IInv, TypeOK, PipeState, BytesState, Pipes
  <2>2. reader[<<c, s>>] # "outOfMemory"
    BY DEF Starved
  <2>3. reader[<<c, s>>] = "ended"
    BY <2>1, <2>2 DEF PipeOK, BytesOK, Running
  <2> QED
    BY <2>1, <2>3 DEF BytesOK
<1> QED
  BY Invariance, <1>1, PTL

(* A reader whose record is in a dead frame belongs to a failed call.      *)
THEOREM OnlyFailureLeavesReaders == Spec => []ReadersOutliveOnlyFailure
<1>1. IInv => ReadersOutliveOnlyFailure
  <2> SUFFICES ASSUME IInv, NEW p \in Pipes, Running(p), pc[p[1]] = "done"
               PROVE  failed[p[1]]
    BY DEF ReadersOutliveOnlyFailure, FrameLive
  <2>1. p[1] \in Calls /\ PipeOK(p[1], p) /\ BytesOK(p[1], p)
    BY DEF IInv, PipeState, BytesState, Pipes
  <2> QED
    BY <2>1 DEF PipeOK, BytesOK, Running
<1> QED
  BY Invariance, <1>1, PTL

(* A call that has returned has closed its pipes and left its request, but *)
(* for the one way out that forgets to.                                    *)
THEOREM CallsRelease == Spec => []CallReleases
<1>1. IInv => CallReleases
  <2> SUFFICES ASSUME IInv, NEW c \in Calls, pc[c] = "done"
               PROVE  /\ \A s \in Streams : /\ ~readEnd[<<c, s>>]
                                            /\ Parent \notin writers[<<c, s>>]
                      /\ depth[c] = 0 \/ (failed[c] /\ ~capture[c])
    BY DEF CallReleases
  <2>1. CallOK(c) /\ \A s \in Streams : PipeOK(c, <<c, s>>)
    BY DEF IInv, CallState, PipeState
  <2> QED
    BY <2>1 DEF CallOK, PipeOK
<1> QED
  BY Invariance, <1>1, PTL
-----------------------------------------------------------------------------
(* The refinement.  What a step does to the calls as their scripts see     *)
(* them: c alone moves, and what it moves to is for the step to say.       *)
OnlyMoves(c) == \A d \in Calls \ {c} : pc'[d] = pc[d] /\ failed'[d] = failed[d]

LEMMA StageMoved ==
  ASSUME NEW c \in Calls, OnlyMoves(c)
  PROVE  Stages' = [Stages EXCEPT ![c] = Stage(c)']
BY DEF OnlyMoves, Stages, Stage

LEMMA StageKept ==
  ASSUME NEW c \in Calls, OnlyMoves(c), Stage(c)' = Stage(c)
  PROVE  Stages' = Stages
BY DEF OnlyMoves, Stages, Stage

LEMMA SameKinds ==
  ASSUME capture' = capture, wait' = wait
  PROVE  Kinds' = Kinds
BY DEF Kinds, Kind

LEMMA SameShort ==
  ASSUME \A c \in Calls : \A s \in Streams :
           reader'[<<c, s>>] = "outOfMemory" <=> reader[<<c, s>>] = "outOfMemory"
  PROVE  Short' = Short
BY DEF Short

(* All that the scripts see.                                               *)
Seen == <<Stages, Kinds, process, written, Short, output>>

LEMMA InitServes == Init => Service!Init
<1> SUFFICES ASSUME Init PROVE Service!Init
  OBVIOUS
<1>1. Stages = [c \in Calls |-> "new"]
  BY DEF Init, Stages, Stage
<1>2. Kinds = [c \in Calls |-> "captures"]
  BY DEF Init, Kinds, Kind
<1>3. Short = [c \in Calls |-> {}]
  BY DEF Init, Short, Pipes
<1> QED
  BY <1>1, <1>2, <1>3 DEF Service!Init, Init, Pipes
-----------------------------------------------------------------------------
(* Exec asks.                                                              *)
LEMMA Asks ==
  ASSUME IInv, NEW c \in Calls, Exec(c)
  PROVE  Service!Ask(c)
<1>0. TypeOK /\ CallState /\ PipeState
  BY DEF IInv
<1>1. pc[c] = "idle" /\ pc' = [pc EXCEPT ![c] = "create"]
  BY DEF Exec, Goto
<1>2. UNCHANGED <<failed, process, written, output>>
  BY DEF Exec
<1>3. Stages[c] = "new" /\ Stages' = [Stages EXCEPT ![c] = "asked"]
  <2>1. OnlyMoves(c) /\ pc'[c] = "create"
    BY <1>0, <1>1, <1>2 DEF OnlyMoves, TypeOK
  <2>2. Stage(c) = "new" /\ Stage(c)' = "asked"
    BY <1>1, <2>1 DEF Stage
  <2> QED
    BY <2>1, <2>2, StageMoved DEF Stages
<1>4. \E k \in {"captures", "waits", "detached"} : Kinds' = [Kinds EXCEPT ![c] = k]
  <2>1. \A d \in Calls \ {c} : capture'[d] = capture[d] /\ wait'[d] = wait[d]
    BY <1>0 DEF Exec, TypeOK
  <2>2. Kinds' = [Kinds EXCEPT ![c] = Kind(c)']
    BY <2>1 DEF Kinds, Kind
  <2>3. Kind(c)' \in {"captures", "waits", "detached"}
    BY DEF Kind
  <2> QED
    BY <2>2, <2>3
<1>5. Short' = Short
  <2> SUFFICES ASSUME NEW d \in Calls, NEW s \in Streams
               PROVE  reader'[<<d, s>>] = "outOfMemory" <=> reader[<<d, s>>] = "outOfMemory"
    BY SameShort
  <2>1. <<d, s>> \in Pipes /\ <<d, s>>[1] = d
    BY DEF Pipes
  <2>2. CASE d = c /\ Piped(c)'
    <3>1. reader'[<<d, s>>] = "reading"
      BY <1>0, <2>1, <2>2, ExecEffect
    <3>2. reader[<<d, s>>] = "none"
      BY <1>0, <1>1, <2>2 DEF PipeState, PipeOK
    <3> QED
      BY <3>1, <3>2
  <2>3. CASE ~(d = c /\ Piped(c)')
    BY <1>0, <2>1, <2>3, ExecEffect
  <2> QED
    BY <2>2, <2>3
<1> QED
  BY <1>2, <1>3, <1>4, <1>5 DEF Service!Ask

(* CreateProcess starts, and answers a call that does not wait.            *)
LEMMA Starts ==
  ASSUME IInv, NEW c \in Calls, CreateProcess(c)
  PROVE  Service!Start(c)
<1>0. TypeOK /\ CallOK(c)
  BY DEF IInv, CallState
<1>1. /\ pc[c] = "create" /\ process[c] = "none" /\ ~failed[c]
      /\ process' = [process EXCEPT ![c] = "running"]
  BY <1>0 DEF CreateProcess, CallOK
<1>2. UNCHANGED <<capture, wait, failed, reader, written, output>>
  BY DEF CreateProcess, readerVars
<1>3. Kinds' = Kinds /\ Short' = Short
  BY <1>2, SameKinds, SameShort
<1>4. Stages[c] = "asked" /\ (Kinds[c] = "detached" <=> ~wait[c])
  BY <1>1 DEF Stages, Stage, Kinds, Kind
<1>5. OnlyMoves(c) /\ pc'[c] = IF wait[c] THEN "wait" ELSE "done"
  BY <1>0, <1>2 DEF CreateProcess, Goto, OnlyMoves, TypeOK
<1>6. Stage(c) = "asked" /\ Stage(c)' = IF wait[c] THEN "asked" ELSE "answered"
  BY <1>1, <1>2, <1>5 DEF Stage
<1>7. Stages' = IF Kinds[c] = "detached" THEN [Stages EXCEPT ![c] = "answered"] ELSE Stages
  BY <1>4, <1>5, <1>6, StageMoved, StageKept
<1> QED
  BY <1>1, <1>2, <1>3, <1>4, <1>7 DEF Service!Start

(* A call that ends as failed.                                             *)
LEMMA Fails ==
  ASSUME NEW c \in Calls, OnlyMoves(c), Stage(c) = "asked",
         pc'[c] = "done", failed'[c],
         UNCHANGED <<capture, wait, process, written, reader, output>>
  PROVE  Service!Fail(c)
<1>1. Stage(c)' = "failed" /\ Stages[c] = "asked"
  BY DEF Stage, Stages
<1>2. Stages' = [Stages EXCEPT ![c] = "failed"]
  BY <1>1, StageMoved
<1>3. Kinds' = Kinds /\ Short' = Short
  BY SameKinds, SameShort
<1> QED
  BY <1>1, <1>2, <1>3 DEF Service!Fail

(* A step on the way, of which a script sees nothing.                      *)
LEMMA Unseen ==
  ASSUME NEW c \in Calls, OnlyMoves(c), Stage(c) = "asked", Stage(c)' = "asked",
         UNCHANGED <<capture, wait, process, written, reader, output>>
  PROVE  Seen' = Seen
BY StageKept, SameKinds, SameShort DEF Seen

LEMMA StepsOut ==
  ASSUME TypeOK, NEW c \in Calls,
         \/ CreateProcessFails(c) \/ WaitFails(c) \/ ClosePipes(c)
         \/ ReadersJoined(c)
  PROVE  Service!Fail(c) \/ Seen' = Seen
<1>1. /\ UNCHANGED <<capture, wait, process, written, reader, output>>
      /\ pc[c] \in {"create", "wait", "close", "join"}
  BY DEF CreateProcessFails, WaitFails, ClosePipes, ReadersJoined, readerVars
<1>2. Stage(c) = "asked"
  BY <1>1 DEF Stage
<1>3. OnlyMoves(c)
  BY DEF CreateProcessFails, WaitFails, ClosePipes, ReadersJoined, Goto,
         OnlyMoves, TypeOK
<1>4. pc'[c] \in {"fail", "join", "collect"} \/ (pc'[c] = "done" /\ failed'[c])
  BY DEF CreateProcessFails, WaitFails, ClosePipes, ReadersJoined, Goto, TypeOK
<1>5. CASE pc'[c] \in {"fail", "join", "collect"}
  <2>1. Stage(c)' = "asked"
    BY <1>5 DEF Stage
  <2> QED
    BY <1>1, <1>2, <1>3, <2>1, Unseen
<1>6. CASE pc'[c] = "done" /\ failed'[c]
  BY <1>1, <1>2, <1>3, <1>6, Fails
<1> QED
  BY <1>4, <1>5, <1>6

LEMMA EndFails ==
  ASSUME IInv, NEW c \in Calls, FunctionEnd(c)
  PROVE  Service!Fail(c)
<1>1. UNCHANGED <<capture, wait, process, written, reader, output>> /\ pc[c] = "fail"
  BY DEF FunctionEnd, readerVars
<1>2. OnlyMoves(c) /\ pc'[c] = "done" /\ failed' = failed
  BY DEF FunctionEnd, Goto, OnlyMoves, IInv, TypeOK
<1>3. Stage(c) = "asked" /\ failed'[c]
  BY <1>1, <1>2 DEF Stage, IInv, CallState, CallOK
<1> QED
  BY <1>1, <1>2, <1>3, Fails
-----------------------------------------------------------------------------
(* The wait for the process answers a call that does not capture.          *)
LEMMA WaitAnswers ==
  ASSUME IInv, NEW c \in Calls, ProcessWaited(c)
  PROVE  Service!Answer(c) \/ Seen' = Seen
<1>0. TypeOK /\ CallOK(c)
  BY DEF IInv, CallState
<1>1. /\ pc[c] = "wait" /\ process[c] = "ended" /\ ~failed[c] /\ wait[c]
      /\ UNCHANGED <<capture, wait, failed, process, written, reader, output>>
  BY <1>0 DEF ProcessWaited, CallOK, readerVars
<1>2. OnlyMoves(c) /\ pc'[c] = IF capture[c] THEN "close" ELSE "done"
  BY <1>0, <1>1 DEF ProcessWaited, Goto, OnlyMoves, TypeOK
<1>3. Stage(c) = "asked"
  BY <1>1 DEF Stage
<1>4. CASE capture[c]
  <2>1. Stage(c)' = "asked"
    BY <1>2, <1>4 DEF Stage
  <2> QED
    BY <1>1, <1>2, <1>3, <2>1, Unseen
<1>5. CASE ~capture[c]
  <2>1. Stage(c)' = "answered" /\ Stages[c] = "asked" /\ Kinds[c] = "waits"
    BY <1>1, <1>2, <1>3, <1>5 DEF Stage, Stages, Kinds, Kind
  <2>2. Stages' = [Stages EXCEPT ![c] = "answered"]
    BY <1>2, <2>1, StageMoved
  <2>3. Kinds' = Kinds /\ Short' = Short
    BY <1>1, SameKinds, SameShort
  <2> QED
    BY <1>1, <2>1, <2>2, <2>3 DEF Service!Answer
<1> QED
  BY <1>4, <1>5

(* Both readers are done when the answer is made: one that has seen the    *)
(* end of its pipe has read what was written, one that has not, a part.    *)
LEMMA Collects ==
  ASSUME IInv, NEW c \in Calls, Collect(c)
  PROVE  Service!Answer(c)
<1>0. TypeOK /\ CallOK(c)
  BY DEF IInv, CallState
<1>1. /\ pc[c] = "collect" /\ ~failed[c] /\ Piped(c)
      /\ UNCHANGED <<capture, wait, failed, process, written, reader, used>>
      /\ output' = [p \in Pipes |-> IF p[1] = c THEN used[p] ELSE output[p]]
  BY <1>0 DEF Collect, CallOK, readerVars
<1>2. OnlyMoves(c) /\ pc'[c] = "done"
  BY <1>0, <1>1 DEF Collect, Goto, OnlyMoves, TypeOK
<1>3. /\ Stage(c)' = "answered" /\ Stages[c] = "asked"
      /\ Kinds[c] = "captures"
  BY <1>1, <1>2 DEF Stage, Stages, Kinds, Kind, Piped
<1>4. Stages' = [Stages EXCEPT ![c] = "answered"]
  BY <1>2, <1>3, StageMoved
<1>5. Kinds' = Kinds /\ Short' = Short
  BY <1>1, SameKinds, SameShort
<1>6. ASSUME NEW s \in Streams PROVE Service!Tells(c, s)
  <2>1. <<c, s>> \in Pipes /\ output'[<<c, s>>] = used[<<c, s>>]
    BY <1>1 DEF Pipes
  <2>2. /\ PipeOK(c, <<c, s>>) /\ BytesOK(c, <<c, s>>)
        /\ used[<<c, s>>] \in Nat /\ inPipe[<<c, s>>] \in Nat
        /\ written[<<c, s>>] \in Nat
        /\ reader[<<c, s>>] \in {"none", "reading", "ended", "outOfMemory"}
    BY <1>0, <2>1, ExecPipesAssumption DEF IInv, PipeState, BytesState, TypeOK
  <2>3. used[<<c, s>>] \in 0..written[<<c, s>>]
    BY <2>2 DEF BytesOK
  <2>4. s \in Short[c] <=> reader[<<c, s>>] = "outOfMemory"
    BY DEF Short
  <2>5. reader[<<c, s>>] # "outOfMemory" => used[<<c, s>>] = written[<<c, s>>]
    BY <1>1, <2>2 DEF PipeOK, BytesOK, Running
  <2> QED
    BY <2>1, <2>3, <2>4, <2>5 DEF Service!Tells
<1>7. \A d \in Calls \ {c}, s \in Streams : output'[<<d, s>>] = output[<<d, s>>]
  BY <1>1 DEF Pipes
<1>8. process[c] = "ended"
  BY <1>0, <1>1 DEF CallOK
<1> QED
  BY <1>1, <1>3, <1>4, <1>5, <1>6, <1>7, <1>8 DEF Service!Answer
-----------------------------------------------------------------------------
(* The readers are not seen, but for one that gives up.                    *)
LEMMA ReadsServe ==
  ASSUME IInv, NEW c \in Calls, NEW s \in Streams, ReaderStep(<<c, s>>)
  PROVE  Service!RunShort(c) \/ Seen' = Seen
<1> DEFINE p == <<c, s>>
<1>0. TypeOK /\ p \in Pipes /\ p[1] = c /\ PipeOK(c, p)
  BY DEF IInv, PipeState, Pipes
<1>1. UNCHANGED <<callVars, process, written, output>> /\ reader[p] = "reading"
  BY DEF ReaderStep, Read, ReadEnds, Running, pipeVars
<1>2. Stages' = Stages /\ Kinds' = Kinds
  BY <1>1 DEF callVars, Stages, Stage, Kinds, Kind
<1>3. \/ reader' = reader \/ reader' = [reader EXCEPT ![p] = "ended"]
      \/ Read(p) /\ reader' = [reader EXCEPT ![p] = "outOfMemory"]
  BY DEF ReaderStep, Read, ReadEnds
<1>4. CASE reader' = reader \/ reader' = [reader EXCEPT ![p] = "ended"]
  <2>1. \A q \in Pipes : q # p => reader'[q] = reader[q]
    BY <1>0, <1>4 DEF TypeOK
  <2>2. reader'[p] # "outOfMemory" /\ reader[p] # "outOfMemory"
    BY <1>0, <1>1, <1>4 DEF TypeOK
  <2>3. \A q \in Pipes : reader'[q] = "outOfMemory" <=> reader[q] = "outOfMemory"
    BY <2>1, <2>2
  <2>4. Short' = Short
    BY <2>3, SameShort DEF Pipes
  <2> QED
    BY <1>1, <1>2, <2>4 DEF Seen
<1>5. CASE Read(p) /\ reader' = [reader EXCEPT ![p] = "outOfMemory"]
  <2>1. pc[c] # "done" /\ pc[c] # "idle" /\ Piped(c)
    BY <1>0, <1>1, <1>5 DEF Read, FrameLive, PipeOK
  <2>2. Stages[c] = "asked" /\ Kinds[c] = "captures"
    BY <2>1 DEF Stages, Stage, Kinds, Kind, Piped
  <2>3. Short' = [Short EXCEPT ![c] = @ \union {s}]
    <3>1. /\ reader'[p] = "outOfMemory"
          /\ \A q \in Pipes : q # p => reader'[q] = reader[q]
      BY <1>0, <1>5 DEF TypeOK
    <3>2. \A b \in Calls, r \in Streams :
            <<b, r>> \in Pipes /\ (<<b, r>> = p <=> b = c /\ r = s)
      BY DEF Pipes
    <3> HIDE DEF p
    <3>3. \A b \in Calls, r \in Streams :
            reader'[<<b, r>>] = "outOfMemory" <=>
              reader[<<b, r>>] = "outOfMemory" \/ (b = c /\ r = s)
      BY <3>1, <3>2
    <3>4. \A b \in Calls :
            {r \in Streams : reader'[<<b, r>>] = "outOfMemory"} =
              IF b = c THEN {r \in Streams : reader[<<b, r>>] = "outOfMemory"} \union {s}
                       ELSE {r \in Streams : reader[<<b, r>>] = "outOfMemory"}
      BY <3>3
    <3> QED
      BY <3>4 DEF Short
  <2> QED
    BY <1>1, <1>2, <2>2, <2>3 DEF Service!RunShort
<1> QED
  BY <1>3, <1>4, <1>5

LEMMA ProcessServes ==
  ASSUME IInv, NEW c \in Calls, Write(c) \/ ProcessEnds(c)
  PROVE  Service!Write(c) \/ Service!End(c)
<1>1. UNCHANGED <<callVars, reader, output>>
  BY DEF Write, ProcessEnds, readerVars
<1>2. Stages' = Stages /\ Kinds' = Kinds /\ Short' = Short
  BY <1>1 DEF callVars, Stages, Stage, Kinds, Kind, Short
<1> QED
  BY <1>1, <1>2 DEF Write, ProcessEnds, Service!Write, Service!End

(* Exec implements the service: every step of a call, of a reader or of a  *)
(* process is a step of the service or one that no script sees.            *)
THEOREM ServesExecutionsAlways == Spec => ServesExecutions
<1>1. IInv /\ [Next]_vars => [Service!Next]_Seen
  <2> SUFFICES ASSUME IInv, [Next]_vars PROVE Service!Next \/ Seen' = Seen
    OBVIOUS
  <2>1. ASSUME NEW c \in Calls, Exec(c) PROVE Service!Next
    BY <2>1, Asks DEF Service!Next
  <2>2. ASSUME NEW c \in Calls, CallStep(c) PROVE Service!Next \/ Seen' = Seen
    <3>1. TypeOK
      BY DEF IInv
    <3> QED
      BY <2>2, <3>1, Starts, StepsOut, EndFails, WaitAnswers, Collects
      DEF CallStep, CallGoesOn, Service!Next
  <2>3. ASSUME NEW c \in Calls, Write(c) \/ ProcessEnds(c) PROVE Service!Next
    BY <2>3, ProcessServes DEF Service!Next
  <2>4. ASSUME NEW p \in Pipes, ReaderStep(p) PROVE Service!Next \/ Seen' = Seen
    <3>1. PICK c \in Calls, s \in Streams : p = <<c, s>>
      BY DEF Pipes
    <3>2. ReaderStep(<<c, s>>)
      BY <2>4, <3>1
    <3> QED
      BY <3>2, ReadsServe DEF Service!Next
  <2>5. CASE UNCHANGED vars
    BY <2>5 DEF vars, callVars, readerVars, Seen, Stages, Stage, Kinds, Kind, Short
  <2> QED
    BY <2>1, <2>2, <2>3, <2>4, <2>5 DEF Next
<1> QED
  BY InitServes, Invariance, <1>1, PTL
  DEF Spec, ServesExecutions, Service!Spec, Seen, Service!vars
=============================================================================
