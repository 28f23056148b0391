# A verification model of nJord

nJord is a script host for Windows: it embeds SpiderMonkey (JavaScript, built
thread-safe), runs one script given on the command line, and lets that script
start threads, evaluate code, run processes, load native extensions and exit.
The extensions bring their own threads: a hot-key loop, two generations of a
Gecko user interface, a progress window for WIM images.  What is hard in this
program is how these threads meet: in the request/collector interlock of the
engine, in Windows message queues, in critical sections, in polled variables.
That is what these modules model.

Paths below are relative to the repository.

## Inventory

| Part | Code | State | Operations | Status |
|---|---|---|---|---|
| Request/collector interlock | `spidermonkey/include` (headers only) | request depth per context, the collecting thread, roots | `JS_BeginRequest`, `JS_EndRequest`, `JS_SuspendRequest`, `JS_GC`, `JS_AddRoot`, `JS_DestroyContext` | `Requests`, external |
| Script host | `xprep/njord.cpp` | runtime, contexts, events and params of threads being created | `Exit`, `Eval`, `CreateThread`, thread function, branch callback, `_tWinMain` | `ScriptThreads` |
| Hot keys | `js_hotkey/` | `threadId`, message queue, list of registrations, what Windows holds | `RegisterHotKey`, `UnregisterHotKey`, `StopHotKeys`, `CleanupExports`, the loop | `HotKeys` |
| Gecko 2: session and views | `js_gecko2/uiwndthread.cpp`, `jsexports.cpp` | `keepUIGoing`, `ThreadInitialized`, `viewsLock`, `viewsHead`, views, `domStateLock` | `GeckoInit`, `GeckoTerm`, `CreateView`, `Destroy`, `UiThread` | `GeckoSession` |
| Gecko 2: events and document | `js_gecko2/domeventhandler.cpp`, `domnode.cpp`, `jsexports.cpp` | `domStateLock`, listeners and their counts and handles | register, unregister, wait (two kinds), load, DOM natives, dispatch, finalizers | `GeckoEvents` |
| Gecko 2: document and inputs | `js_gecko2/domnode.cpp`, `inputvalue.cpp` | references to nodes | DOM natives, `GetInputValue` | `GeckoNatives` |
| Gecko 1 | `js_gecko/uiproper.cpp` | top window, window class, running event, answer event, stores in use | `InitUI`, `ShowUI`, `ShowURI`, `ShutdownUI`, UI thread, the answer of a page | `ScriptUI` |
| Variable store | `js_gecko/varstore.cpp`, `uiutil.cpp` | list of named, tagged values | set, get, has; what a page's inputs put in | `VarStore` |
| Native extensions | `xprep/nativeimports.cpp` | table of loaded libraries, its count and size | `LoadNative`, `UnloadNative`, `UnloadAllNative` | `NativeTable` |
| Processes | `xprep/exec.cpp` | pipes, who holds their ends, two reader threads and their buffers | `Exec` | `ExecPipes` |
| Services | `xprep/exec.cpp` | none | `ControlService`, `QueryServiceStatus` | `XprepNatives` |
| Script signatures | `xprep/loadjsfile.cpp`, `signscript/` | settings, key, hash | load and check, sign | `ScriptSigning`; `LoadJSLib` in `XprepNatives` |
| WIM progress | `js_wimg/uiworker.cpp`, `js_wimg.cpp` | `threadID`, its queue, windows open and counted, image files | `StartUI`, `StopUI`, `Close`, finalizer, progress thread | `WimFiles` |
| WIM exceptions | `js_wimg/exceptions.cpp` | sets of patterns, the callback registered per file | match; `SetExceptionsList` | `WildMatch`, `WimFiles` |
| Deployment | `js_xdeploy/` | a progress dialog and its thread | installer, signing, account and domain calls | `LibraryNatives` |
| Files, registry, helpers | `xprep/basicfile.cpp`, `findfiles.cpp`, `registry.cpp`, `win32s.cpp` | none of their own | wrappers | `XprepNatives` |
| WMI, LDAP, curl, DIFx, WIM images | `js_wmi/`, `js_ldap/`, `js_curl/`, `js_difx/`, `js_wimg/` | handles in private slots | wrappers | `LibraryNatives` |
| Driver installer | `js_xdeploy/diinstalldriver/` | none | walks device nodes | not modelled |

How they interact: all natives run on the thread of the script that calls
them and bracket their use of the engine by requests; a collection waits until
every other thread is out of its requests.  A script thread created by
`CreateThread` runs its whole script inside one request, the top-level script
outside any.  A native that waits (for an event, a counter, a lock, a proxied
call) therefore waits with the collector locked out if it does not suspend its
request, and the thread it waits for must not need the collector.  That
pattern decides most of what follows.

What makes each part correct:

* Script host: a function handed to a new thread is not collected before it
  runs; the caller is let go only when nothing on its stack is needed, and is
  always let go; `Exit` frees no context that is still in use and ends the
  process.
* Hot keys: every registration is answered once, lives on one list, is
  released once; Windows and the list agree on how many there are.
* Gecko session: between `GeckoInit` and `GeckoTerm` one UI thread serves the
  views, afterwards none touches them.  Neither making a view nor terminating is
  sure to come to an end, and what can hold them up is a short list: a callback
  that does not return, a collection and a request that wait for each other
  around the UI thread, a finalizer and the UI thread around the document lock.
* Processes: a call that succeeds returns all its process wrote; a call never
  waits for anything but a process that runs on of its own accord (or for a
  reader without memory); whatever fails, pipes are closed and the request is
  ended.
* WIM exceptions: a file is left out exactly when a pattern describes it (it is
  not: see the runs); a capture walks a list that is there (it is, for the file
  whose list was set last, unless a script changed it from inside).
* WIM progress: the counter that ends the progress thread is the number of its
  windows; whoever posts to it gets on.
* Gecko 1: one UI thread serves at a time; a show returns for the answer to its
  own page, into a store that is there; every native returns.
* Variable store: what is read under a name is what was put there last (until a
  number is put over).
* Native extensions: the table is what is loaded (but for what drops out of it
  for an entry freed in its middle); every extension is cleaned up once; a script
  gets its requests back (but for what failures do to them).
* Script signatures: a script that was signed and not changed is loaded.
* All other natives: requests are given back, resources freed once, nobody waits
  in a request, on every way out.
* Gecko events: reference counts are exact (but where two threads count at
  once); an event at a listed listener is not lost; whoever waits for the document
  lock gets it, unless something inside it never ends.

## Modules

**`Requests`** is external: SpiderMonkey is in the tree as headers and
binaries.  It keeps, per thread (each thread of these programs owns one
context), the request depth, and the thread that is collecting.  An outermost
request waits while another thread collects; a collection waits until the
others are out of their requests; a second caller of the collector joins and
waits; root tables are locked while the collector marks.

**`ScriptThreads`** extends it with `xprep/njord.cpp`.  A thread goes `born`
(created), `context` (it has a context), `rooted`, `signalled`, `reading` (in
its request), `loaded`, `run`, `ended`, and through the collection of
`JS_DestroyContext` to `dead`.  The caller waits in `waitFn` (`CreateThread`,
inside a request) or `waitStr` (`Eval(.., true)`, whose own request is over).
`slot[w]` is the element of the caller's operand stack that holds the function
(`intact`, or `overwritten` once the caller has gone on), `rooted` the root
table.  `Exit` is a snapshot, one kill at a time, one context at a time, two
collections.  A thread whose context or runtime is gone takes no further step.
**`HandOver`** is the abstract specification of the hand-over: a function is
given, accepted, then taken or lost, and left; its caller waits and returns; the
collector frees.  It has no contexts, requests, roots or stack.  `HandsOver` says
that `ScriptThreads` implements it: `Function(w)` is read off the place of
`w` and its slot, `Callers` are those that wait in `CreateThread` or `Eval` for a
thread that was created (one that was not is waited for unseen), and a thread
created during another's `Exit` (`late`) is left out, as that is the race in
which `Exit` frees contexts in use.

**`HotKeys`** is `js_hotkey.cpp`: callers (scripts, and callbacks running on
the hot-key thread) post to a queue; the thread's loop takes a message per
step.  `rec[r]` is a registration record from its allocation to its release.
**`Registrations`** is the abstract service (asked, granted or refused,
released), and `ServesRegistrations` says that `HotKeys` implements it under
the mapping `Status`.

**`GeckoSession`** extends `Requests` with the session of Gecko 2: scripts call
`GeckoInit`/`GeckoTerm` and poll `ThreadInitialized`; the UI thread makes its
context, sets up the locks, counts itself, loops (scan the views inside
`viewsLock`, take one message), destroys its context, uncounts itself and
deletes the lock. A message is dispatched inside `domStateLock` and may call a
function of a script, for which the UI thread begins a request: it waits there
for a collection (`handling`, `depth`). Dispatching, callbacks, collections with
their finalizers, `Repaint` inside the lock, and the calls of `CreateView` that
are answered by the UI thread alone (show the window, the proxied calls,
103-107) are steps that can wait. `CreateView` polls and asks inside its
caller's request. A `GeckoInit` with bad arguments, or whose thread cannot be
created, leaves `keepUIGoing` as the code does (`CallInitFails`, `CallInit`). **`Sessions`**
is the abstract specification: a session that is off, starting, on, ending or
doubled, the threads that serve, and views that are asked for, made and shown,
with the scripts that wait for them; no counter, no flag, no lock, no requests.
`ServesSessions` says that `GeckoSession` implements it under `Phase` (from
`session` and the place of the driver), the threads in their loop, `Stages` and
`Waiters`. It exempts nothing: executions with `overlap` are included.

**`GeckoEvents`** extends `Requests` with what happens inside the loop: the UI
thread dispatches each message inside `domStateLock`; listeners, waits, loads,
DOM natives, proxied calls, finalizers and callbacks all meet there.  Reference
counts are changed as the code changes them, without interlock
(`domeventhandler.cpp:62`): where a change is made outside the lock that the UI
thread counts in (`g2_unregister_event`, 225-232), reading and writing the count
are two steps (`UnregisterReads`, `UnregisterWrites`), and a count that another
thread touched in between is `torn`: either value may be what is left.

**`ExecPipes`** is `Exec` with its readers and processes.  A call goes `create`,
`wait` (for the process, outside the request), `close`, `join` (the readers),
`collect`, `done`, or through `fail` when `CreateProcess` or the wait fails.
`writers[p]` is the set of processes with the end to write to of pipe `p`:
every process inherits all such ends njord has open when it is created, also
those of other calls.  `used`/`size` are the fields of `PipeReaderInfo`.  Bytes
are counted; the conversion of a buffer to a string (`ParseReaderOutput`: the
guess at Unicode, the empty string when the first byte is NUL) is left out.
That a thread or a pipe cannot be created, or a reader's first buffer, is left
out, too.  **`Executions`** is the abstract specification: a call is asked for
and answered or failed, its process writes and ends, and an answer tells what
the process wrote; no pipes, readers or buffers.  `ServesExecutions` says that
`ExecPipes` implements it: what is in a buffer or a pipe is not seen, and the
output of a call is what its readers have when it returns.

**`WildMatch`** is `MatchEntry`: the two pointers of `Match`, one step per round
of its loops (the two inner loops at a star are one step), over paths and
patterns of a small alphabet with letters in both cases.  `Glob` is the
reference: what a pattern with stars and question marks means.

**`NativeTable`** is the table of loaded extensions.  A load is `new`, `loading`
and then `failed` or `loaded`, `unloading`, `unloaded`; `table`, `count`, `size`
and `alloc` are `cleanupRoutines`, `jsExtCount`, `craSize` and the entries the
memory block really has.  `LoadNative` is a step up to `LoadLibrary`, one that
suspends the requests, one for `InitExports`, and three on the table; the unload
calls are split where they run foreign code.  Failures are ways out of each
step, with the request they leave open (`open`) or suspended (`dropped`).  An
entry taken out before the last one stays, freed, and the last one drops out
(`nativeimports.cpp:124`).  `upset` records what makes what follows undefined:
two scripts in the table at once, and a freed entry cleaned up again.

**`ScriptUI`** is the first Gecko extension: the two named events (`holders` and
`running` for `xprep_uithread_running`, which exists as long as somebody has it
open, `answer` for `xprep_uireturn_wait`, which is never closed), the window
class, the UI threads, `topWnd`, and each show from `SendMessage` over
`CreateEvent`, `ResetEvent` and the wait to its return.  A sent message is
served only inside `GetMessage`.  Serving a show points its window at the
store of the show and starts to load the page (`loading`); the old page is there
until the new one is displayed (`Loaded`), and may answer, into the new store.
`heap[k]` is the store of show `k`, which the collector may take once nothing
holds it.  **`VarStore`** is the store itself: `AddVariable` three times, the wipe
of `GetVarObj`, as a function over a history of puts.  The wipe of a number deletes
it like a pointer, after which nothing is known of the store (`Ruined`).

**`WimFiles`** is the progress thread of the WIM extension and what ties an image
file to it: `threadID`, the queue of each thread, the windows it has and
`nWindowsOpen`; the finalizer of a file, which posts before it closes; and the
set of exceptions with the callback of each file.  `SetExceptionsList` is as many
steps as it has conversions: the old list goes, the old callback is unregistered,
records are made one at a time, and while a name is converted a script may run
(`outer`) and call `SetExceptionsList` or `Close` itself.  A callback that cannot be
registered is a way out of it.

**`ScriptSigning`** is a pure model: `HashSomeStuff` as the rounds of its loop over
the characters that matter to it (`Round`; `Put` is what goes into the buffer),
the block the signer appends, and what `LoadFile` may do under every setting.
`NativeTable` extends it for the scripts that `LoadJSLib` loads, which changes
nothing in the table.

**`Natives`** describes a native by its *ways*: the sequences of begin, end,
suspend, resume, yield, wait, take, drop along each path of its code.
**`XprepNatives`**, **`LibraryNatives`** and **`GeckoNatives`** give the ways of
118 natives of the host, of the wrappers and of the document; **`NativeFaults`**
extends `NativeTable` and walks all of them, called at whatever depth of requests
the loader has left a script, and says which natives break which rule there.

**`MC...`** modules give the constants their values.  An operator whose comment
begins with "Mutant:" is a variant of the action after it with a plausible
bug; it is not part of the specification.  Each property has one that breaks
it.

The eight modules **`..._proofs`** hold the theorems.

`Requests` is composed with the host, both parts of Gecko 2 and so with every
native that waits; `WimFiles` and `NativeTable` keep what they need of requests
themselves; `VarStore` is the store whose life `ScriptUI` follows.

## Runs

| Run | What it shows | States | Bounds |
|---|---|---|---|
| `script_threads` | hand-over, collections, `Exit`; implements `HandOver` | 290 000 | two created threads and the main one, one nested `Eval` |
| `script_threads_roots` | a root on a stack slot that has been given back | violation | as above |
| `hot_keys` | records, Windows; implements `Registrations` | 690 000 | two scripts, a callback, two hot-key threads, two registrations, queues of 2 and 1 |
| `gecko_session` | two sessions, a view; what holds up `CreateView` and `GeckoTerm`; implements `Sessions` | 650 000 | two UI threads, a view, a driver and another script |
| `gecko_events` | counts, events, the lock | 740 000 | two listeners, two scripts, request depth 2 |
| `exec_pipes` | output, return, release; implements `Executions` | 540 000 | two calls, a pipe of 2 bytes, a buffer of 2 that grows by 1, processes that write 3 and 1 bytes |
| `wild_match` | what `Match` accepts | 330 000 | paths of 4, patterns of 3 characters, three letters |
| `native_table` | the table, requests; ways of natives; signing | 610 000 | two scripts, one of them in a request, two names, three loads, a table that grows by 2; texts of 5 and a hash buffer of 3 |
| `script_ui` | answers, the UI thread, the store | 980 000 | two scripts, two UI threads, two shows; three puts of two names |
| `wim_files` | windows, posts, which callbacks lead to records that are there | 2 390 000 | two scripts, two files, two threads, four calls, two records |
| `wild_match_name` | a pattern that is a file name misses the file | violation | paths of 3, patterns of 2 |
| `wild_match_drive` | so does one that is the path on the drive | violation | paths of 3, patterns of 2 |

Why the bounds are enough to be interesting: two created threads let one thread
collect or exit while another is between being created and running, and let two
threads exit at once; two hot-key threads are what the race on `threadId`
produces; two UI threads are a session and its successor; two listeners are one
on the list of the view and one of a wait in progress. A process that writes
more than pipe and buffer hold must wait for its reader, and a second call is
what inherits its pipes. Three characters hold a star or a question mark with
something on both sides. Three loads through a table that grows by two make it
grow, and leave a middle to take an entry out of. Two UI threads are one that is
late and its successor; two shows are one whose answer is old. A text longer
than the hash buffer crosses its edge at every position. What holds up
`CreateView` or `GeckoTerm` takes a script that waits, one that collects or
repaints, and the UI thread; each script may be either. Two records are a list
and one that replaces it, also while the first is still being made. A loop of a
native is taken up to twice: what it takes and does not free shows after one
round, what it frees twice after two. Queue bounds (`MaxQueue`), nesting
(`MaxNest`, `MaxDepth`) and the number of registrations, shows, calls and loads
(`MaxRegs`, `MaxShows`, `MaxCalls`, `MaxLoads`, `MaxRecords`) only cut off
longer sequences of the same calls.

Deadlock checking is off in all runs (`CHECK_DEADLOCK FALSE`): the programs may
stop (the process ends), and several natives can block for ever by design of
the code; the liveness properties say which blocks are possible.

### Properties

Script threads.  `NeverRunsCollected`: the hand-over.
`OnlyMainRunsUnderGC`: only the top-level script executes beside a collection.
`ExitFreesOnlyTheKilled`, `OneExitTearsDown`: `Exit`.  `CallerIsReleased`,
`ExitEndsProcess`: liveness.  `HandsOver` (refinement): a caller comes back
when its own thread has accepted the function or is gone, and nothing is freed
that its thread still has to take or is running.  The abstract specification
has a gap on purpose, which the code has: a function that was accepted may be
lost, when the caller's slot is overwritten before the thread has read it.
`RootsOnLiveStorage` is what the header of the engine asks
(`spidermonkey/include/jsapi.h:657-660`); the code does not keep it, the run
shows the caller back in its script while its old stack slot is still in the
root table.

Hot keys.  `RecordsInOnePlace`, `SystemMatchesList`: also while a thread ends,
which gives up its context and its list step by step (`ending`).
`LateStartMeansRace`: a hot-key thread reads the context of its creator when it
starts (`js_hotkey.cpp:31`), which may be late; the property says that it starts
within its creator's call, or else two callers had both found no thread (132) and
the other thread has taken its place.  The race is what makes a context that is
gone readable, and nothing else does.  `RegistrationAnswered` (liveness),
`ServesRegistrations` (refinement).

Gecko session.  `CreateViewHeldUp` and `TermHeldUp` (liveness) say what can keep
the two from returning, and that nothing else can.  A creator waits inside its
request; so when the UI thread waits, inside `domStateLock`, for a collection
before it may call a function (`domeventhandler.cpp:80`), the collection waits for
the creator and the creator for the UI thread.  `GeckoTerm` waits for the UI
thread's last collection, which every open request holds up; or, with no request
open, a finalizer in a collection waits for the document lock (`domnode.cpp:52`)
while the UI thread waits inside it for the collection to end.  A function of a
script that never returns holds up both, and a `Repaint` that waits inside the
lock the first.  `SessionIsServed`, `OneWindowPerView`,
`ServesSessions` (refinement): a thread enters its loop only while its
`GeckoInit` waits, leaves it only after a `GeckoTerm`, each call returns what it
says, and `CreateView` returns for a view that a thread in its loop has made and
shown.  A second `GeckoInit` inside a session voids the part about the threads
until a session starts anew with no thread left, never the part about views.
The history variable `overlap` marks the executions in which a new UI thread
initialises the lock its predecessor has still to delete (`uiwndthread.cpp`
317 against 376-377): what they do to the lock is not defined, and the
properties exempt them.

Gecko events.  `RefsAreExact`: the count of a listener is the number of those
who refer to it, but of a listener whose count two threads changed at once; and
that can only be one that a script unregistered while the document still knew it
(`domeventhandler.cpp:225-232`): no other release meets the UI thread outside the
lock, and a torn listener is on no list and in no native any more.
`EventNotForgotten`: an event between the end of a wait (195) and its reset of the
handles (198) is reset away unseen, and counts as taken by that wait.
`LockIsHandedOn` (liveness, with the three ways in which the lock is never handed
on named in the property).

Processes.  `ReaderHasRoom`, `OutputComplete`, `ReadersOutliveOnlyFailure`,
`CallReleases`, `ExecReturns` (liveness), `ServesExecutions` (refinement: a call
is answered once, after the end of its own process, with what that process
wrote, whatever other calls hold).  Two of them name what the code does
not do: after a failed `CreateProcess` the readers go on with records in a dead
frame (`exec.cpp:144-145`, 206), and without a capture that failure leaves the
request open (`exec.cpp:147`).  `ExecReturns`: a call that never returns waits
for a process that runs for ever and is not for ever waiting for room in a pipe:
its own, or one that holds one of its pipes.  So njord and its processes do not
wait for each other.  It exempts the calls made while some reader has given up
for want of memory: its process may wait for room in the pipe for ever, and it
may hold the pipes of other calls.

WIM exceptions.  `InBounds`; `MatchMeans`: what is left out is described by some
beginning of the pattern, and for the patterns that need no backtracking
(`OnePass`) everything described is left out.  It cannot say "by the pattern":
`Match` returns TRUE when the path ends first, whatever is left of the pattern,
although the comment above that return (`exceptions.cpp:86`) calls the strings
equivalent.  `NamedFileMatches` and `PathOnDriveMatches` state the comments at
lines 40 and 51, and are violated: in both branches the pointer starts one
character off.  `ListIsOwners`: a callback leads to records that are there
exactly if its file was registered since the shared list was last emptied, and
that is at most the file whose call came last, unless a script called
`SetExceptionsList` while its own array was read: every other file is left with a
callback to deleted records, as `setsInUse` never rises (`exceptions.cpp:91`,
119).  A capture holds no request, and so may begin at any of these moments; the
property is about all of them.

WIM progress.  `CountsWindows`: the counter is the number of windows made and
not destroyed, and of those that could not be made; until two threads count at
once.  `PostsEnd` (liveness): a post is accepted unless the thread has ended,
after which nobody resets the loops, one of which runs inside the collector.
`StartUI` compares with `=` (`js_wimg.cpp:288`), so the first call starts the
thread and posts nothing: that is in the model.

Native extensions.  `TableIsExact`: until two scripts use the table at once or
a freed entry is cleaned up again, which both end in memory that is not defined
(`Orderly`), the entries are inside the block, each of a load of its own, each load
is cleaned up once, and libraries drop out of the table only for freed entries
that stay in it, one for one.  `RequestsBalanced`: how many requests a script is in
after any loads, from what each kind of failure does: one more after a library that
does not load or has no `CleanupExports`, none at all after one without
`InitExports` or whose `InitExports` fails.

Natives.  `NativesKeepRequests`, `NativesFreeOnce`: the rules, each with the set
of natives that break it (20 leave a request open on some way, 40 wait inside
one, of which 14 in that of their caller, 12 make an object for a node without a
reference).  Waiting is for the user, a process or another computer, for the
thread of a window (a message sent to a dialog, a window shown, a proxied call)
or for the document lock.  A set is what the tables of ways give: it changes with
a native that is repaired or newly broken, and it is as complete as the tables,
which were read from the code by hand.

Signing.  `SignedScriptsLoad` (`SignedFilesLoad`, for the files a script outside
the loader may give to `LoadJSLib`, `nativeimports.cpp:159`): a signed,
unchanged script loads without a question, under every setting, unless it ends
one character before a hash buffer is full and not in a blank.  `LoadJSLib`
itself is among the natives of `XprepNatives`: it asks the user inside its
request (`loadjsfile.cpp:143`, 189), and goes on with a file that is not there, as
`LoadFile` tests for `NULL` what reports failure as `INVALID_HANDLE_VALUE` (105).

Gecko 1.  `AnswerIsOwn`: a show that overlaps no other and that a window got
returns exactly for an answer that came into its own store after its `ResetEvent`;
when its page was displayed by then, it is its own page's answer.  `LoadURI` only
starts a load (`uiproper.cpp:301-329`), so that until it is displayed the page of
an earlier show may answer, and its answer counts for the new one.  An answer
before the `ResetEvent` is lost, and the show then waits for ever:
the wait is the one native step that is not promised.  `RunningIsServed`, `NativesReturn`
(liveness; a shutdown is exempt that a late UI thread has set the event behind,
as `InitUI` takes its timeout for success).  `StoreKeepsValues` (`PutsAreKept`,
for the store of a show that is there): the histories that ruin a store are
exactly those in which a number or TRUE is put over, as the wipe deletes it like a
pointer (`varstore.cpp:166-167`); after any other the store holds what was put last,
and a string put over a FALSE or a 0 is read as a truth value or a number.

### Fairness

* Script threads: every step a thread takes of itself once it may (weak
  fairness), and strong fairness on taking the root-table lock, which other
  threads may keep locking; nothing about what scripts do or when they end.
* Hot keys: the message loops run.  Scripts, presses, callbacks and their ends
  are not promised; nor are the steps by which a thread ends.
* Gecko session: a thread goes on when it can; polls see what becomes true again
  and again; a critical section, the collector or a request is given to a thread
  that keeps asking (strong fairness: Windows does not starve a waiter for ever);
  `GetMessage` answers what is sent to it.  That a function called by the UI
  thread returns, that a script leaves its request, or that it calls anything, is
  not promised.
* Processes: the threads of a call and its readers run.  That a process ends is
  not promised, nor that a wait for one fails, which `WaitForSingleObject` may and
  no fairness makes it do.
* Gecko 1: a script inside a native and a UI thread outside `GetMessage` go on;
  `GetMessage` returns for what was sent.  Answers, other input and that a page
  is ever displayed are not promised.
* WIM progress: a post that is tried again and again is accepted once it can be;
  the progress thread takes what is posted.
* Gecko events: the same, grouped per thread.  A thread waits for one thing at
  a time, so strong fairness of the disjunction of its steps is that of the
  step it is at.  The end of a callback or of a wait is not promised.

## Theorems

`ScriptThreads_proofs`, for any set of created threads and any
`MaxNest`, from the two assumptions `NoThreadAssumption` and
`ScriptThreadsAssumption` (the threads are the main one and the created ones;
the null thread is not one of them):

| Theorem | States |
|---|---|
| `TypeCorrect` | `[]TypeOK` |
| `Invariance` | `[]IInv` |
| `NoCollectedFunctionRuns` | `[]NeverRunsCollected` |
| `ParamsStayValid` | `[]ParamsOutliveReads` |
| `CollectorRunsAlone` | `[]OnlyMainRunsUnderGC` |
| `ExitFreesNoOther` | `[]ExitFreesOnlyTheKilled` |
| `ExitIsExclusive` | `[]OneExitTearsDown` |
| `HandsOverAlways` | `HandsOver` |

`ExecPipes_proofs`, for any set of calls and streams, any capacity of a pipe,
any size and growth of the buffers, from `ExecPipesAssumption` (the sizes are
numbers, the first buffer holds at least `Slack`, njord is not its own child):

| Theorem | States |
|---|---|
| `TypeCorrect`, `Invariance` | `[]TypeOK`, `[]IInv` |
| `ReadersHaveRoom` | `[]ReaderHasRoom` |
| `OutputIsComplete` | `[]OutputComplete` |
| `OnlyFailureLeavesReaders` | `[]ReadersOutliveOnlyFailure` |
| `CallsRelease` | `[]CallReleases` |
| `ServesExecutionsAlways` | `ServesExecutions` |

Its `IInv` adds to `TypeOK` and `ReaderHasRoom` what each stage of a call means
(`CallOK`), who holds the ends of its pipes (`PipeOK`), and that bytes written
are bytes read plus bytes in the pipe (`BytesOK`): a reader that has ended while
its end was open has seen a pipe that is empty and that nobody can write to, and
that stays so because a running process holds its own pipes.  The beginning of a
call, which touches four functions at once, has a lemma of its own
(`ExecEffect`).

For the refinement `CallOK` also says that the process of a call past its wait
has ended: what it wrote is then what its readers have got, by `BytesOK`, if
they have seen the end of their pipes.  Each action is shown to be one action of
`Executions`, or to change nothing that it sees; a read moves bytes from a pipe
to a buffer, both of which are hidden.

The argument for the script threads. None of the safety properties is inductive
alone. `IInv` adds to `TypeOK`: `StartInv`: a thread that has not set its event
is awaited by a caller that cannot move, so the caller's frame, its slot and its
context stay. `RequestInv`: how deep in requests a thread must be at each place
while its context lives. `CollectorInv`: while the collector runs, a thread
outside it has depth 0; together with `RequestInv` this is what keeps every
created script out. `ExitInv`: whoever is alive beside a thread in `Exit` is
either still in its list of threads to kill or was created after the snapshot.
`SlotInv`: the function of a new thread is protected at each stage by something
else: the live frame, then the root, then the request, then the running frame;
it is what `NeverRunsCollected` needs and where `StartInv`, `RequestInv` and
`CollectorInv` are used (in the step of `Sweep`). There is one lemma per
conjunct, with one step per action of `Next`.

For the refinement, `HandInv` adds that a caller waits only for a thread it has
created itself, and that a thread which has started its work has accepted.  Why
a function is not freed too early comes from `SlotInv`, why its caller does not
come back too early from `StartInv`.

`HotKeys_proofs`, for any scripts, callbacks, hot-key threads, combinations and
bounds, from `HotKeysAssumption`:

| Theorem | States |
|---|---|
| `TypeCorrect` | `[]TypeOK` |
| `RecordsInOnePlaceAlways` | `[]RecordsInOnePlace` |
| `SystemMatchesListAlways` | `[]SystemMatchesList` |
| `LateStartMeansRaceAlways` | `[]LateStartMeansRace` |
| `ServesRegistrationsAlways` | `ServesRegistrations` |

Its `HotKeysInv` says that records belong to one caller at a time
(`OwnersApart`), that a record is posted at most once and to one thread
(`PostedOnce`), that a list names it once (`ListedOnce`), that what Windows holds is finite, and that a caller creates one
thread at most and, while its thread is the one in `threadId`, cannot post before
that loops (`CreatorWaits`). Most of the work is positions: an append, a head and a removal
from the middle, each with a lemma.

The refinement takes each registration `r` to `Status(r)`, what its record is as
its caller sees it: `waiting` is asked, `listed` granted, `failed` refused,
`freed` released.  The lemma `Moved` turns "the records of `R` went from one stage
to another and no other record changed" into the step of `Registrations` that it
is; every action is then such a change or none.  That a step of the loop never
answers a record twice, or releases one it has not granted, is what `HotKeysInv`
is for: a record on a list is on no queue.

`GeckoSession_proofs`, for any scripts, views and any finite set of UI threads:

| Theorem | States | Assumes besides |
|---|---|---|
| `TypeCorrect` | `[]TypeOK` | |
| `OneWindowPerViewAlways` | `[]OneWindowPerView` | |
| `SessionServed` | `[]SessionIsServed` | one driver (`OneDriver`) |
| `TermLeavesNoLoopAlways` | `[]TermLeavesNoLoop` | one driver |
| `ServesSessionsAlways` | `ServesSessions` | one driver |

`WindowInv` ties `ThreadInitialized` to the number of threads between their two
changes of it (`CounterExact`), and from it follows that without `overlap` there
is one UI thread.  `SessionInv` says for each stage of the driver what the UI
threads may be doing (`Served`, `Starting`, `Ending`, `Resting`).  The refinement
uses them for the steps that start and end sessions and those by which a thread
enters or leaves its loop, and `AskedInv` for the views: one that is not listed
is untouched, one that is being made is listed and has a window, and every
script waits for a view of its own.  `AskedInv` needs neither `OneDriver` nor
that no sessions overlap.  Without
`OneDriver` `SessionIsServed` is false: a second `GeckoInit` starts a second
thread, and the code does not look.

`NativeTable_proofs`, for any scripts, libraries, step of growth and number of
loads that a `WORD` can count: `TypeCorrect`, `TableIsExactAlways`
(`[]TableIsExact`), `RequestsBalancedAlways` (`[]RequestsBalanced`),
`SignedScriptsLoadAlways` (`[]SignedScriptsLoad`).  The invariant of the table
says for every entry what it stands for and who is at work on it (`EntriesApart`,
`EntriesGoing`), and that as many loaded libraries are not in it as it has entries
freed and left (`Balanced`): an unload adds one to each, or to neither when the
last entry is the one taken out, and an unload of all empties both.
`RequestsBalancedAlways` rests on what a script's depth is at each stage of a load
(`DepthOK`).  The last one holds for texts of
any length and buffers of any size, and its proof is about the loop of
`HashSomeStuff`: a round goes on by a character at least (`Progress`); what the scan
of a script has put after *n* rounds, the scan of the same script with the block
has put after as many or fewer, until the first one runs past its end
(`Lockstep`, with `SameRound` for one round: before the end of the script the two
see the same, and the newline or `*/` that a comment ends with is the same one in
both).  The block then adds one blank: its first characters are blanks, the rest
is one comment (`BlockRounds`).  So the two hashes differ exactly where that blank
fills a buffer (`SignedHash`, with `Modulus` for the edge).  The induction over
rounds is a set of numbers that contains 0 and the successor of each of its
members (`Counting`), as the theorems of the library for it cannot be used.

`GeckoEvents_proofs`, for any listeners, any other scripts and any depth of
requests, from `GeckoEventsAssumption` and `NoThreadAssumption`:

| Theorem | States |
|---|---|
| `TypeCorrect` | `[]TypeOK` |
| `RefsAreExactAlways` | `[]RefsAreExact` |
| `EventNotForgottenAlways` | `[]EventNotForgotten` |

Its `EventsInv` adds to the three who holds what: a listener that a native has
made is in `own` until it is listed or given up, and a new one is attached
nowhere and has no old event (`OwnInPlace`); the native, the list and the
forgotten ones share none (`HoldersApart`); a count that is read and not yet
written is that of a listener taken off the list, by a script in
`g2_unregister_event` (`ReleaseInPlace`); the UI thread calls listeners only
inside the document lock (`DispatchLocked`), so that none of those it has still
to call goes away meanwhile; a listener whose event was not seen is not deleted
(`UnseenLive`), so that no memory is used again while its event counts. The
proof of a step has one lemma for each way to change who holds a listener
(`Making`, `Attaching`, `Releasing`, ...), and treats the listeners
(`ListenersInv`) apart from the lock, the places and the requests, whose part is
proved first.

`WimExtension_proofs` has the theorems of the two models of the WIM extension:
of `WimFiles`, for any scripts, files, threads and calls, from
`WimFilesAssumption`, and of `WildMatch`, for every alphabet, path and pattern,
from `WildMatchAssumption`.  The two models share nothing (`WildMatch` calls its
initial states and steps `MatchInit` and `MatchNext`):

| Theorem | States |
|---|---|
| `TypeCorrect` | `[]TypeOK` of `WimFiles` |
| `ListIsOwnersAlways` | `[]ListIsOwners` |
| `CountsWindowsAlways` | `[]CountsWindows` |
| `MatchStaysInBounds` | `[]InBounds` |
| `MatchMeansAlways` | `[]MatchMeans` |

`ListInv` says that records are numbered as they are made and no callback leads
to one that is still to come (`RecordsCounted`), which files lead to the list as it
is (`SharersLead`), that one script at a time sets lists, until two do at once
(`OneSetter`), and, without calls from inside, that this script
works for the owner, and nobody shares the list while it is made (`OwnersOnly`).  `CountInv` counts the windows as
the elements of the set of them (`AllWindows`), which is ever finite although
files need not be: a window made adds an element, one destroyed takes one away,
and closing all takes those of one thread, which without a second thread are all
there are (`OneCounts`).

The inner loops of `Match` are defined by the first position at which they stop;
that there is one is a lemma about least elements (`Least`), applied to a set
that always holds the NUL. For `MatchMeansAlways`, `MatchInv` says that what
lies behind the two pointers matches (`Behind`: it becomes "a beginning of the
pattern describes the path" when `Match` says TRUE), and that in a pattern
without backtracking what lies before them matches when the whole does
(`Before`: it becomes FALSE when `Match` says FALSE). `Glob` is a table over
pairs of ends of the two strings; it is written as a recursive function, so that
it has an equation (`Table`) once it is known to exist, by well-founded
induction on the pairs. What the proof needs of the table, that stars absorb
what follows and that an entry depends only on the characters before it, is
carried from the corner to a cell by `CellInduction`, an induction over a set of
cells instead of a predicate.

`ScriptUI_proofs`: `TypeCorrect`, `RunningIsServedAlways` (`[]RunningIsServed`),
`AnswerIsOwnAlways` (`[]AnswerIsOwn`), for any scripts, shows and UI threads.
What makes the last one inductive: while a show is alone and a window got it,
every page that can be answered, displayed or still to be replaced, leads to
that show's store (`OwnStore`), once the show's own page is displayed it is the
only one (`OwnPage`), and the answer event is set exactly for an answer that
counts (`Answered`). `StoreKeepsValuesAlways` (`[]StoreKeepsValues`), for any
names, strings, numbers and length of history: a store is defined by recursion
over its history, and `AfterIsRun` gives that recursion its equation. `PutKeeps`
is one put more while none has done damage, `NextDamages` that the next one does
exactly when a number stands under its name, and `RuinedStays` that a store so
ruined stays so.

Two invariants are proved and no run checks them, as the refinements of their
models say nearly the same of a small instance: `ParamsOutliveReads` (the params
array outlives every read of it, also for threads created during an `Exit`) and
`TermLeavesNoLoop` (after `GeckoTerm` every UI thread has counted itself off).
Nor does a run check the type invariants, which are proved for every model with
theorems; that of `GeckoEvents` says that no thread ends a request it has not
begun.

With this every safety invariant that a run checks is proved, but two, and all four refinements.  Only model-checked:

* Liveness (`CallerIsReleased`, `ExitEndsProcess`, `RegistrationAnswered`,
  `CreateViewHeldUp`, `TermHeldUp`, `LockIsHandedOn`,
  `ExecReturns`, `NativesReturn`, `PostsEnd`): it rests on fairness, and with it
  on which steps are enabled.
* `NativesKeepRequests`, `NativesFreeOnce`: the ways of the natives are tables
  without parameters, walked by a fold, which takes an operator; there is nothing
  in them that TLC does not check exhaustively.

## What is left out

* A thread of `ScriptThreads` does nothing but the calls modelled; the natives
  of the extensions are in their own modules.
* One script per view in `GeckoEvents`: the list of listeners has no lock, and
  two scripts on one view would corrupt it.
* Memory that is read after it was freed (`jsexports.cpp:251`) is taken to hold
  what it held, where the code needs it to go on; where it decides whether a
  call returns (`js_hotkey.cpp:145`) both outcomes are possible.
* The rectangle and the context written into a view that is already listed
  (`jsexports.cpp:86-90` against `uiwndthread.cpp:329-335`) are data.  So the
  creator's late write of `mContext` (90), after the UI thread's (335), is not in
  the model.
* The parameter reads of a new script thread (`njord.cpp:166-175`) are one step:
  a caller let go before them all, by a failure, is seen, one let go between two
  of them is not.
* `TerminateThread` on a thread that holds a lock of the engine or of the heap
  leaves it held; `Exit` is taken to go on.
* In `GeckoSession`, a `CreateView` whose UI thread has shut Gecko down before it
  asks (104-107) is taken to wait, not to fail.  In `GeckoEvents`, a torn count is
  followed no further than to the delete that may come too early.
* A finalizer of a dialog (`progressdlg.cpp:10`) sends to the dialog's thread from
  inside a collection: finalizers are not among the natives.
* A capture that is walking a list when its records are deleted reads them
  (`ListIsOwners` says when a walk may begin that is safe, no lock protects it).
* `JS_ValueToString` returning NULL where the code uses its result ends the
  program, and is not modelled.
* In `ScriptUI`, child windows, modal dialogs and `ParseIntoXML`, which fills a
  page from a store.  `HideUI` changes no state of the program.
* In `WimFiles`, a counter that a race has made too low and that then falls below
  zero.  In `NativeTable`, what follows once the count has wrapped, or the block
  is gone under a running unload, and what else is read when a name that was freed
  is compared (both outcomes of the comparison are there).  In `VarStore`, which
  other memory a stray delete damages.
* The ways of the natives leave out that an allocation fails where the code does
  not test it, and count an object that keeps a resource as its owner.
* What a page's answer does to memory that was freed ends that execution of
  `ScriptUI` (`blame`); `AnswerIsOwn` says when it cannot happen.

## Not modelled

* **Headers of other projects.**  Most of the lines under the repository's `src`
  directories are interfaces it builds against: SpiderMonkey
  (`spidermonkey/include`), NSPR and Gecko (`geckoembed`), curl
  (`js_curl/curl`), WIM (`wimgapi`), and generated resource headers.  They
  declare, they do not do; what the code relies on in them is in `Requests` and
  in the definitions marked external.  Of some 46 000 lines about 10 000 are the
  program's own implementation, so the share of lines that any model of this
  program can be mapped to is bounded by that.
* **Driver installer** (`js_xdeploy/diinstalldriver`): a sequential program
  around the configuration manager of Windows.
* **Tables of functions, properties and classes**, the parsing of arguments,
  `DllMain`, resource scripts, and `jsxml`-like conversions: data.
* **The progress dialog of the deployment extension**: its message loop is
  three cases; what can go wrong in it (the thread that reads `create_ui`'s
  frame, `progressdlg.cpp:53`) is the way of `create_ui` in `LibraryNatives`.
* **`WIMCallback`, `ProgressDlgProc`**: formatting of a progress line.

## Plan

Done: every component but the driver installer has a model, and every component
model has its theorems; four have an abstract specification that they are proved
to implement.  What would add most now:

1. A second script per view in `GeckoEvents` (`domeventhandler.cpp:120`).
2. Abstract specifications of what is left: a show of the first Gecko extension,
   an answer that belongs to its page; the table of native extensions.
3. More than one script that starts and ends Gecko sessions: what holds then is
   less than `SessionIsServed` and `Sessions` say, and not stated yet.
