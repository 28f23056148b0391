----------------------------- MODULE ExecPipes -----------------------------
(***************************************************************************)
(* Exec (xprep/exec.cpp): a script runs a process, waits for it, and gets  *)
(* its exit code and what it wrote.  Each of the two output streams has a  *)
(* pipe and a reader thread that fills a growing buffer; the readers' own  *)
(* records lie in the frame of the native.  Several scripts call Exec at   *)
(* once: every process inherits all inheritable handles njord has at the   *)
(* moment, so a process may hold the pipes of another call.                *)
(* The bytes themselves are counted, not modelled.  What a process does is *)
(* external: it writes, and it ends.                                       *)
(***************************************************************************)
EXTENDS Naturals

CONSTANTS Calls,       \* the calls of Exec, each by a thread of its own
          Streams,     \* standard output and standard error
          Capacity,    \* bytes a pipe holds
          Initial,     \* bytes of a new buffer (4096 in the code)
          Slack,       \* free bytes a reader wants, and grows by (512)
          MaxWritten,  \* bound: [Streams -> Nat], bytes a process writes
          AllocFails   \* BOOLEAN, whether JS_realloc may fail

Parent == "njord"

ASSUME ExecPipesAssumption ==
  /\ Parent \notin Calls
  /\ Capacity \in Nat \ {0} /\ Slack \in Nat \ {0}
  /\ Initial \in Nat /\ Initial >= Slack
  /\ MaxWritten \in [Streams -> Nat]
  /\ AllocFails \in BOOLEAN

Pipes == Calls \X Streams

VARIABLES
  pc,       \* [Calls -> ..], where a call of Exec is
  capture,  \* [Calls -> BOOLEAN], jsCapture
  wait,     \* [Calls -> BOOLEAN], jsWait
  depth,    \* [Calls -> Nat], requests its thread is in because of the call
  failed,   \* [Calls -> BOOLEAN], CreateProcess or the wait for it failed
  process,  \* [Calls -> ..], the process of the call
  writers,  \* [Pipes -> SUBSET ..], who holds the end to write to
  readEnd,  \* [Pipes -> BOOLEAN], njord has the other end open
  inPipe,   \* [Pipes -> Nat], bytes in the pipe
  written,  \* [Pipes -> Nat], history: bytes the process wrote
  reader,   \* [Pipes -> ..], the reader threads
  used,     \* [Pipes -> Nat], PipeReaderInfo.used
  size,     \* [Pipes -> Nat], PipeReaderInfo.bufferSize
  output    \* [Pipes -> Nat], bytes the string for the script is made from

callVars == <<pc, capture, wait, depth, failed>>
pipeVars == <<writers, readEnd, inPipe>>
readerVars == <<reader, used, size>>
vars == <<callVars, process, pipeVars, written, readerVars, output>>

TypeOK ==
  /\ pc \in [Calls -> {"idle", "create", "wait", "close", "join", "collect",
                       "fail", "done"}]
  /\ capture \in [Calls -> BOOLEAN] /\ wait \in [Calls -> BOOLEAN]
  /\ depth \in [Calls -> 0..1] /\ failed \in [Calls -> BOOLEAN]
  /\ process \in [Calls -> {"none", "running", "ended"}]
  /\ writers \in [Pipes -> SUBSET (Calls \union {Parent})]
  /\ readEnd \in [Pipes -> BOOLEAN]
  /\ inPipe \in [Pipes -> 0..Capacity]
  /\ written \in [Pipes -> Nat]
  /\ reader \in [Pipes -> {"none", "reading", "ended", "outOfMemory"}]
  /\ used \in [Pipes -> Nat] /\ size \in [Pipes -> Nat]
  /\ output \in [Pipes -> Nat]

Init ==
  /\ pc = [c \in Calls |-> "idle"]
  /\ capture = [c \in Calls |-> TRUE] /\ wait = [c \in Calls |-> TRUE]
  /\ depth = [c \in Calls |-> 0] /\ failed = [c \in Calls |-> FALSE]
  /\ process = [c \in Calls |-> "none"]
  /\ writers = [p \in Pipes |-> {}]
  /\ readEnd = [p \in Pipes |-> FALSE]
  /\ inPipe = [p \in Pipes |-> 0]
  /\ written = [p \in Pipes |-> 0]
  /\ reader = [p \in Pipes |-> "none"]
  /\ used = [p \in Pipes |-> 0] /\ size = [p \in Pipes |-> 0]
  /\ output = [p \in Pipes |-> 0]
-----------------------------------------------------------------------------
Goto(c, l) == pc' = [pc EXCEPT ![c] = l]

BeginRequest(c) == depth' = [depth EXCEPT ![c] = @ + 1]
EndRequest(c) == depth' = [depth EXCEPT ![c] = @ - 1]

(* f with the value v for both pipes of call c.                            *)
SetPipes(f, c, v) == [p \in Pipes |-> IF p[1] = c THEN v ELSE f[p]]

(* njord closes its ends to write to, or all its ends.                     *)
CloseWriteEnds(c) ==
  writers' = [p \in Pipes |->
                IF p[1] = c THEN writers[p] \ {Parent} ELSE writers[p]]
CloseReadEnds(c) == readEnd' = SetPipes(readEnd, c, FALSE)

Piped(c) == capture[c] /\ wait[c]

(* A buffer and a thread for each of the two pipes.                        *)
InitReaders(c) ==
  /\ reader' = SetPipes(reader, c, "reading")
  /\ size' = SetPipes(size, c, Initial)

(* Arguments, and for a call that captures the pipes and their readers.    *)
Exec(c) ==
  /\ pc[c] = "idle"
  /\ BeginRequest(c)
  /\ \E cap, w \in BOOLEAN :
       /\ capture' = [capture EXCEPT ![c] = cap]
       /\ wait' = [wait EXCEPT ![c] = w]
       /\ IF cap /\ w
          THEN /\ writers' = SetPipes(writers, c, {Parent})
               /\ readEnd' = SetPipes(readEnd, c, TRUE)
               /\ InitReaders(c)
          ELSE UNCHANGED <<writers, readEnd, reader, size>>
  /\ Goto(c, "create")
  /\ UNCHANGED <<failed, process, inPipe, written, used, output>>

(* The process inherits every end to write to that njord has open now; so  *)
(* it does without a wait, which ends the call at once.                    *)
CreateProcess(c) ==
  /\ pc[c] = "create"
  /\ process' = [process EXCEPT ![c] = "running"]
  /\ writers' = [p \in Pipes |->
                   IF Parent \in writers[p] THEN writers[p] \union {c}
                   ELSE writers[p]]
  /\ IF wait[c]
     THEN Goto(c, "wait")
     ELSE Goto(c, "done")
  (* The wait for the process is outside the request.                      *)
  /\ EndRequest(c)
  /\ UNCHANGED <<capture, wait, failed, readEnd, inPipe, written, readerVars,
                 output>>

(* Without a capture the native returns before it ends its request.        *)
CreateProcessFails(c) ==
  /\ pc[c] = "create"
  /\ failed' = [failed EXCEPT ![c] = TRUE]
  /\ Goto(c, IF capture[c] THEN "fail" ELSE "done")
  /\ UNCHANGED <<capture, wait, depth, process, pipeVars, written, readerVars,
                 output>>

(* Mutant: the call goes on whether the process has ended or not.          *)
ProcessNotWaited(c) ==
  /\ pc[c] = "wait"
  /\ IF capture[c]
     THEN BeginRequest(c) /\ Goto(c, "close")
     ELSE UNCHANGED depth /\ Goto(c, "done")
  /\ UNCHANGED <<capture, wait, failed, process, pipeVars, written, readerVars,
                 output>>

(* The process has ended: back in the request.  Without a capture the exit *)
(* code is the result.                                                     *)
ProcessWaited(c) ==
  /\ pc[c] = "wait" /\ process[c] = "ended"
  /\ IF capture[c]
     THEN BeginRequest(c) /\ Goto(c, "close")
     ELSE UNCHANGED depth /\ Goto(c, "done")
  /\ UNCHANGED <<capture, wait, failed, process, pipeVars, written, readerVars,
                 output>>

(* Mutant: a capturing call goes on without resuming its request.          *)
WaitFailsOutside(c) ==
  /\ pc[c] = "wait"
  /\ failed' = [failed EXCEPT ![c] = TRUE]
  /\ Goto(c, IF capture[c] THEN "fail" ELSE "done")
  /\ UNCHANGED <<capture, wait, depth, process, pipeVars, written, readerVars,
                 output>>

WaitFails(c) ==
  /\ pc[c] = "wait"
  /\ failed' = [failed EXCEPT ![c] = TRUE]
  /\ IF capture[c]
     THEN BeginRequest(c) /\ Goto(c, "fail")
     ELSE UNCHANGED depth /\ Goto(c, "done")
  /\ UNCHANGED <<capture, wait, process, pipeVars, written, readerVars, output>>

(* Mutant: njord keeps its own ends to write to.                           *)
KeepWriteEnds(c) ==
  /\ pc[c] = "close"
  /\ Goto(c, "join")
  /\ UNCHANGED <<capture, wait, depth, failed, process, pipeVars, written,
                 readerVars, output>>

ClosePipes(c) ==
  /\ pc[c] = "close"
  /\ CloseWriteEnds(c)
  /\ Goto(c, "join")
  /\ UNCHANGED <<capture, wait, depth, failed, process, readEnd, inPipe,
                 written, readerVars, output>>

Running(p) == reader[p] = "reading"

(* Mutant: the wait ends with the first reader.                            *)
FirstReaderJoined(c) ==
  /\ pc[c] = "join"
  /\ \E s \in Streams : ~Running(<<c, s>>)
  /\ Goto(c, "collect")
  /\ UNCHANGED <<capture, wait, depth, failed, process, pipeVars, written,
                 readerVars, output>>

ReadersJoined(c) ==
  /\ pc[c] = "join"
  /\ \A s \in Streams : ~Running(<<c, s>>)
  /\ Goto(c, "collect")
  /\ UNCHANGED <<capture, wait, depth, failed, process, pipeVars, written,
                 readerVars, output>>

(* The result object: exit code and the two strings.                       *)
Collect(c) ==
  /\ pc[c] = "collect"
  /\ output' = [p \in Pipes |-> IF p[1] = c THEN used[p] ELSE output[p]]
  /\ EndRequest(c)
  /\ CloseReadEnds(c)
  /\ Goto(c, "done")
  /\ UNCHANGED <<capture, wait, failed, process, writers, inPipe, written,
                 readerVars>>

(* Mutant: the failing call leaves the ends to write to open.              *)
FunctionEndLeavesPipes(c) ==
  /\ pc[c] = "fail"
  /\ EndRequest(c)
  /\ CloseReadEnds(c)
  /\ Goto(c, "done")
  /\ UNCHANGED <<capture, wait, failed, process, writers, inPipe, written,
                 readerVars, output>>

(* functionEnd after a failure: the readers are not waited for.            *)
FunctionEnd(c) ==
  /\ pc[c] = "fail"
  /\ EndRequest(c)
  /\ CloseWriteEnds(c)
  /\ CloseReadEnds(c)
  /\ Goto(c, "done")
  /\ UNCHANGED <<capture, wait, failed, process, inPipe, written, readerVars,
                 output>>
-----------------------------------------------------------------------------
(* The reader threads.  Once the call has returned their records are dead  *)
(* stack: what such a reader still does to them is not defined, and here   *)
(* it is left out.                                                         *)
FrameLive(c) == pc[c] # "done"

Room(p) == size[p] - used[p]

(* Mutant: the buffer does not grow.                                       *)
ReadWithoutGrowing(p) ==
  /\ Running(p) /\ readEnd[p] /\ inPipe[p] > 0
  /\ FrameLive(p[1])
  /\ LET n == IF inPipe[p] < Room(p) THEN inPipe[p] ELSE Room(p)
     IN /\ inPipe' = [inPipe EXCEPT ![p] = @ - n]
        /\ used' = [used EXCEPT ![p] = @ + n]
  /\ UNCHANGED <<callVars, process, writers, readEnd, written, reader, size,
                 output>>

(* One round: ReadFile gives what there is, up to the room in the buffer,  *)
(* and the buffer grows when little is left.                               *)
Read(p) ==
  /\ Running(p) /\ readEnd[p] /\ inPipe[p] > 0
  /\ FrameLive(p[1])
  /\ LET n == IF inPipe[p] < Room(p) THEN inPipe[p] ELSE Room(p)
         short == Room(p) - n < Slack
     IN /\ inPipe' = [inPipe EXCEPT ![p] = @ - n]
        /\ used' = [used EXCEPT ![p] = @ + n]
        /\ size' = [size EXCEPT ![p] = @ + IF short THEN Slack ELSE 0]
        /\ \/ UNCHANGED reader
           \/ /\ short /\ AllocFails
              /\ reader' = [reader EXCEPT ![p] = "outOfMemory"]
  /\ UNCHANGED <<callVars, process, writers, readEnd, written, output>>

(* Mutant: an empty pipe is taken for its end.                             *)
ReadEndsWhenEmpty(p) ==
  /\ Running(p)
  /\ ~readEnd[p] \/ inPipe[p] = 0
  /\ reader' = [reader EXCEPT ![p] = "ended"]
  /\ UNCHANGED <<callVars, process, pipeVars, written, used, size, output>>

(* ReadFile fails: nobody can write any more and the pipe is empty, or the *)
(* handle was closed meanwhile.                                            *)
ReadEnds(p) ==
  /\ Running(p)
  /\ ~readEnd[p] \/ (writers[p] = {} /\ inPipe[p] = 0)
  /\ reader' = [reader EXCEPT ![p] = "ended"]
  /\ UNCHANGED <<callVars, process, pipeVars, written, used, size, output>>

(* The processes.  A process writes to its own two streams only; a pipe    *)
(* nobody can read from takes nothing.                                     *)
Write(c) ==
  /\ process[c] = "running" /\ Piped(c)
  /\ \E s \in Streams :
       LET p == <<c, s>> IN
       /\ readEnd[p] /\ inPipe[p] < Capacity /\ written[p] < MaxWritten[s]
       /\ inPipe' = [inPipe EXCEPT ![p] = @ + 1]
       /\ written' = [written EXCEPT ![p] = @ + 1]
  /\ UNCHANGED <<callVars, process, writers, readEnd, readerVars, output>>

(* It may end at any time, with bytes still in its pipes.                  *)
ProcessEnds(c) ==
  /\ process[c] = "running"
  /\ process' = [process EXCEPT ![c] = "ended"]
  /\ writers' = [p \in Pipes |-> writers[p] \ {c}]
  /\ UNCHANGED <<callVars, readEnd, inPipe, written, readerVars, output>>

(* It may be waiting for room in a pipe.                                   *)
Blocked(c) ==
  Piped(c) /\ \E s \in Streams :
                readEnd[<<c, s>>] /\ inPipe[<<c, s>>] = Capacity
-----------------------------------------------------------------------------
CallGoesOn(c) ==
  \/ CreateProcess(c) \/ CreateProcessFails(c) \/ ProcessWaited(c)
  \/ ClosePipes(c) \/ ReadersJoined(c) \/ Collect(c) \/ FunctionEnd(c)

CallStep(c) == CallGoesOn(c) \/ WaitFails(c)

ReaderStep(p) == Read(p) \/ ReadEnds(p)

Next ==
  \/ \E c \in Calls : Exec(c) \/ CallStep(c) \/ Write(c) \/ ProcessEnds(c)
  \/ \E p \in Pipes : ReaderStep(p)

(* The threads of njord run.  Nothing makes a wait for a process fail, and *)
(* nothing makes a process end.                                            *)
Fairness ==
  /\ \A c \in Calls : WF_vars(CallGoesOn(c))
  /\ \A p \in Pipes : WF_vars(ReaderStep(p))

Spec == Init /\ [][Next]_vars /\ Fairness
-----------------------------------------------------------------------------
(* A reader always has room for what it reads, and never more bytes than   *)
(* its buffer: a ReadFile of no bytes at all would spin for ever.          *)
ReaderHasRoom ==
  \A p \in Pipes : Running(p) => used[p] + Slack <= size[p]

Starved(c) == \E s \in Streams : reader[<<c, s>>] = "outOfMemory"

(* What the script gets is made from all that the process wrote, unless    *)
(* memory was short: both readers have seen the end of their pipes.        *)
OutputComplete ==
  \A c \in Calls :
    pc[c] = "done" /\ Piped(c) /\ ~failed[c] /\ ~Starved(c) =>
      \A s \in Streams : output[<<c, s>>] = written[<<c, s>>]

(* A reader that outlives the frame its record is in belongs to a call     *)
(* that failed; a call that succeeds has waited for both.                  *)
ReadersOutliveOnlyFailure ==
  \A p \in Pipes : Running(p) /\ ~FrameLive(p[1]) => failed[p[1]]

(* A call leaves no end of its pipes open in njord and no request behind   *)
(* on any way out, but for the request of a call without a capture whose   *)
(* CreateProcess failed (exec.cpp:147 returns before it is ended).         *)
CallReleases ==
  \A c \in Calls :
    pc[c] = "done" =>
      /\ \A s \in Streams :
           ~readEnd[<<c, s>>] /\ Parent \notin writers[<<c, s>>]
      /\ depth[c] = 0 \/ (failed[c] /\ ~capture[c])

(* A call that never returns waits for a process that runs for ever of its *)
(* own accord, its own one or another that holds one of its pipes, and not *)
(* for room in a pipe: also when it captures more than a pipe holds, njord *)
(* and its processes do not wait for each other, unless some reader has    *)
(* given up for want of memory.                                            *)
HoldsUp(d, c) ==
  process[d] = "running" /\ (d = c \/ \E s \in Streams : d \in writers[<<c, s>>])

ExecReturns ==
  \A c \in Calls :
    <>[](pc[c] \notin {"idle", "done"}) =>
      \/ \E d \in Calls : <>[]HoldsUp(d, c) /\ []<>~Blocked(d)
      \/ <>(\E d \in Calls : Starved(d))
-----------------------------------------------------------------------------
(* What a script sees of its call: the way there from CreateProcess to the *)
(* result, and the readers on it, are one wait to it.                      *)
Stage(c) ==
  IF pc[c] = "idle" THEN "new"
  ELSE IF pc[c] # "done" THEN "asked"
  ELSE IF failed[c] THEN "failed" ELSE "answered"

Kind(c) ==
  IF ~wait[c] THEN "detached" ELSE IF capture[c] THEN "captures" ELSE "waits"

Stages == [c \in Calls |-> Stage(c)]
Kinds == [c \in Calls |-> Kind(c)]
Short == [c \in Calls |-> {s \in Streams : reader[<<c, s>>] = "outOfMemory"}]

Service == INSTANCE Executions WITH call <- Stages, kind <- Kinds, short <- Short

(* Each script is answered by its own process alone, once, after its end   *)
(* and with all of its output, however many calls hold each other's pipes  *)
(* and in whatever order processes, readers and callers come to their ends.*)
ServesExecutions == Service!Spec
=============================================================================
