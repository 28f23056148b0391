---------------------------- MODULE NativeTable -----------------------------
(***************************************************************************)
(* The loader of native extensions (xprep/nativeimports.cpp).  LoadNative  *)
(* maps a library, lets it define its natives (InitExports) and enters its *)
(* CleanupExports in a growing table; UnloadNative and UnloadAllNative run *)
(* CleanupExports and take entries out.  An entry taken out of the middle  *)
(* stays, freed, as UnloadNative lowers the count and moves nothing: the   *)
(* last one drops out in its stead.  The table has no lock.  Two scripts   *)
(* in it at once, or a freed entry cleaned up again, are remembered in a   *)
(* history variable, so that the properties can say what holds until then; *)
(* others remember what failures do to the requests of a script.           *)
(* LoadJSLib, which loads a script (ScriptSigning), changes nothing here.  *)
(***************************************************************************)
EXTENDS ScriptSigning

CONSTANTS Scripts,   \* script threads
          InRequest, \* those whose script runs inside a request
          Libs,      \* names of libraries
          Chunk,     \* entries the table grows by (10 in the code)
          MaxLoads   \* bound: LoadNative calls

ASSUME NativeTableAssumption ==
  /\ InRequest \subseteq Scripts
  /\ Libs # {}
  /\ Chunk \in Nat \ {0}
  /\ MaxLoads \in Nat /\ MaxLoads + Chunk < 65536

Loads == 1..MaxLoads
Slots == 1..(MaxLoads + Chunk)
NoLoad == 0
Word == 65536  \* values of a WORD

VARIABLES
  table,   \* [Slots -> ..], cleanupRoutines; NoLoad is a zeroed entry
  alloc,   \* entries its memory block has, 0 when the pointer is NULL
  count,   \* jsExtCount
  size,    \* craSize
  state,   \* [Loads -> ..], what became of a LoadNative
  lib,     \* [Loads -> Libs], its argument
  name,    \* [Loads -> ..], the copy of the name in its entry
  cleaned, \* [Loads -> Nat], history: times its CleanupExports ran
  mapped,  \* loads whose library Windows was not told to let go
  pc,      \* [Scripts -> ..], where a script is
  cur,     \* [Scripts -> ..], the load in progress
  at,      \* [Scripts -> Nat], the index i of the unload in progress
  depth,   \* [Scripts -> Nat], requests its thread is in
  saved,   \* [Scripts -> Nat], what JS_SuspendRequest returned
  dropped, \* history: scripts whose requests a failure left suspended
  open,    \* [Scripts -> Nat], history: requests failures left open since
  upset    \* history: "overlap" when two scripts were in the table at once,
           \* "again" when a freed entry was cleaned up again

tableVars == <<table, alloc, count, size>>
loadVars == <<state, lib, name, cleaned, mapped>>
scriptVars == <<pc, cur, at, depth, saved>>
histVars == <<dropped, open, upset>>
vars == <<tableVars, loadVars, scriptVars, histVars>>

TablePCs == {"reserve", "store", "raise", "unload", "unloadAll"}
Base(s) == IF s \in InRequest THEN 1 ELSE 0

TypeOK ==
  /\ table \in [Slots -> Loads \union {NoLoad}]
  /\ alloc \in Nat /\ count \in Nat /\ size \in Nat
  /\ state \in [Loads -> {"new", "loading", "failed", "loaded", "unloading", "unloaded"}]
  /\ lib \in [Loads -> Libs]
  /\ name \in [Loads -> {"none", "live", "freed"}]
  /\ cleaned \in [Loads -> Nat]
  /\ mapped \in SUBSET Loads
  /\ pc \in [Scripts -> {"idle", "init", "exports"} \union TablePCs]
  /\ cur \in [Scripts -> Loads \union {NoLoad}]
  /\ at \in [Scripts -> Nat]
  /\ depth \in [Scripts -> Nat] /\ saved \in [Scripts -> Nat]
  /\ dropped \in SUBSET Scripts /\ open \in [Scripts -> Nat]
  /\ upset \in SUBSET {"overlap", "again"}

Init ==
  /\ table = [i \in Slots |-> NoLoad]
  /\ alloc = 0 /\ count = 0 /\ size = 0
  /\ state = [r \in Loads |-> "new"]
  /\ lib = [r \in Loads |-> CHOOSE l \in Libs : TRUE]
  /\ name = [r \in Loads |-> "none"]
  /\ cleaned = [r \in Loads |-> 0]
  /\ mapped = {}
  /\ pc = [s \in Scripts |-> "idle"]
  /\ cur = [s \in Scripts |-> NoLoad]
  /\ at = [s \in Scripts |-> 0]
  /\ depth = [s \in Scripts |-> Base(s)]
  /\ saved = [s \in Scripts |-> 0]
  /\ dropped = {} /\ open = [s \in Scripts |-> 0]
  /\ upset = {}
-----------------------------------------------------------------------------
Goto(s, l) == pc' = [pc EXCEPT ![s] = l]

(* What goes wrong when script s begins to use the table.                  *)
EnterTable(s) ==
  IF \E t \in Scripts \ {s} : pc[t] \in TablePCs THEN {"overlap"} ELSE {}

(* What a failure does to the requests of script s, for history.           *)
LeavesOpen(s) == open' = [open EXCEPT ![s] = @ + 1] /\ UNCHANGED dropped
DropsAll(s) == open' = [open EXCEPT ![s] = 0] /\ dropped' = dropped \union {s}

(* LoadNative: BeginRequest and LoadLibrary (36-44).  When that fails the  *)
(* call returns and the request stays open.                                *)
OpenLibrary(s) ==
  /\ pc[s] = "idle"
  /\ depth' = [depth EXCEPT ![s] = @ + 1]
  /\ \E r \in Loads :
       /\ state[r] = "new" /\ \A q \in 1..(r - 1) : state[q] # "new"
       /\ \/ /\ Goto(s, "init")
             /\ cur' = [cur EXCEPT ![s] = r]
             /\ state' = [state EXCEPT ![r] = "loading"]
             /\ \E l \in Libs : lib' = [lib EXCEPT ![r] = l]
             /\ mapped' = mapped \union {r}
             /\ UNCHANGED <<dropped, open>>
          \/ /\ state' = [state EXCEPT ![r] = "failed"]
             /\ LeavesOpen(s)
             /\ UNCHANGED <<pc, cur, lib, mapped>>
  /\ UNCHANGED <<tableVars, name, cleaned, at, saved, upset>>

(* The call of script s ends in failure.                                   *)
Fail(s) ==
  /\ Goto(s, "idle")
  /\ state' = [state EXCEPT ![cur[s]] = "failed"]
  /\ cur' = [cur EXCEPT ![s] = NoLoad]

(* All requests of the thread are suspended for the library (46-52); one   *)
(* without InitExports is left mapped, and the requests suspended.         *)
SuspendForInit(s) ==
  /\ pc[s] = "init"
  /\ depth' = [depth EXCEPT ![s] = 0]
  /\ \/ /\ Goto(s, "exports")
        /\ saved' = [saved EXCEPT ![s] = depth[s]]
        /\ UNCHANGED <<state, dropped, open, cur>>
     \/ Fail(s) /\ DropsAll(s) /\ UNCHANGED saved
  /\ UNCHANGED <<tableVars, lib, name, cleaned, mapped, at, upset>>

(* InitExports fails: the library is let go, the requests stay suspended.  *)
InitFails(s) ==
  /\ pc[s] = "exports"
  /\ Fail(s) /\ DropsAll(s)
  /\ mapped' = mapped \ {cur[s]}
  /\ saved' = [saved EXCEPT ![s] = 0]
  /\ UNCHANGED <<tableVars, lib, name, cleaned, at, depth, upset>>

(* InitExports succeeds; without CleanupExports the call fails, the        *)
(* library stays mapped and its request open (61-68).                      *)
InitReturns(s) ==
  /\ pc[s] = "exports"
  /\ depth' = [depth EXCEPT ![s] = saved[s]]
  /\ saved' = [saved EXCEPT ![s] = 0]
  /\ \/ /\ Goto(s, "reserve")
        /\ upset' = upset \union EnterTable(s)
        /\ UNCHANGED <<state, dropped, open, cur>>
     \/ Fail(s) /\ LeavesOpen(s) /\ UNCHANGED upset
  /\ UNCHANGED <<tableVars, lib, name, cleaned, mapped, at>>

(* Mutant: the table grows when it is already too small.                   *)
ReserveLate(s) ==
  /\ pc[s] = "reserve"
  /\ IF count = 0 THEN alloc' = Chunk /\ size' = Chunk
     ELSE IF count > size THEN alloc' = size + Chunk /\ size' = size + Chunk
     ELSE UNCHANGED <<alloc, size>>
  /\ Goto(s, "store")
  /\ UNCHANGED <<table, count, loadVars, cur, at, depth, saved, histVars>>

(* An empty table gets a new block, a full one a larger one (69-78).  The  *)
(* part added is zero.                                                     *)
Reserve(s) ==
  /\ pc[s] = "reserve"
  /\ IF count = 0
     THEN /\ table' = [i \in Slots |-> NoLoad]
          /\ alloc' = Chunk /\ size' = Chunk
     ELSE IF count >= size
     THEN /\ alloc' = size + Chunk /\ size' = size + Chunk
          /\ UNCHANGED table
     ELSE UNCHANGED <<table, alloc, size>>
  /\ Goto(s, "store")
  /\ UNCHANGED <<count, loadVars, cur, at, depth, saved, histVars>>

(* The entry is written (79-81): past the end of the block when another    *)
(* script got in between.                                                  *)
Store(s) ==
  /\ pc[s] = "store"
  /\ IF count < alloc /\ count + 1 \in Slots
     THEN table' = [table EXCEPT ![count + 1] = cur[s]] ELSE UNCHANGED table
  /\ name' = [name EXCEPT ![cur[s]] = "live"]
  /\ Goto(s, "raise")
  /\ UNCHANGED <<alloc, count, size, state, lib, cleaned, mapped, cur, at, depth,
                 saved, histVars>>

(* Mutant: the request is not ended on success either.                     *)
RaiseKeepsRequest(s) ==
  /\ pc[s] = "raise"
  /\ count' = (count + 1) % Word
  /\ state' = [state EXCEPT ![cur[s]] = "loaded"]
  /\ cur' = [cur EXCEPT ![s] = NoLoad]
  /\ Goto(s, "idle")
  /\ UNCHANGED <<table, alloc, size, lib, name, cleaned, mapped, at, depth, saved, histVars>>

Raise(s) ==
  /\ pc[s] = "raise"
  /\ count' = (count + 1) % Word
  /\ state' = [state EXCEPT ![cur[s]] = "loaded"]
  /\ cur' = [cur EXCEPT ![s] = NoLoad]
  /\ depth' = [depth EXCEPT ![s] = @ - 1]
  /\ Goto(s, "idle")
  /\ UNCHANGED <<table, alloc, size, lib, name, cleaned, mapped, at, saved, histVars>>
-----------------------------------------------------------------------------
(* What the loops read in entry i.  A zeroed one has no name to compare.   *)
Entry(i) == IF i \in Slots /\ i <= alloc THEN table[i] ELSE NoLoad

Named(i, l) == Entry(i) # NoLoad /\ lib[Entry(i)] = l /\ name[Entry(i)] = "live"

(* A name that was freed may still compare equal, or not.                  *)
Dangling(i) == Entry(i) # NoLoad /\ name[Entry(i)] = "freed"

(* What goes wrong when entry i is cleaned up.                             *)
Again(i) == IF Dangling(i) THEN {"again"} ELSE {}

Run(i) == cleaned' = [cleaned EXCEPT ![Entry(i)] = @ + 1]

(* UnloadNative: the first entry with that name, whose CleanupExports runs *)
(* (103-107).  A count that wrapped below zero ends the model.             *)
FindAndClean(s) ==
  /\ pc[s] = "idle" /\ count \in Loads
  /\ \E l \in Libs, i \in Slots :
       /\ i <= count /\ (Named(i, l) \/ Dangling(i))
       /\ \A j \in 1..(i - 1) : ~Named(j, l)
       /\ Run(i)
       /\ state' = [state EXCEPT ![Entry(i)] = "unloading"]
       /\ at' = [at EXCEPT ![s] = i]
       /\ upset' = upset \union EnterTable(s) \union Again(i)
  /\ Goto(s, "unload")
  /\ UNCHANGED <<tableVars, lib, name, mapped, cur, depth, saved, dropped, open>>

(* The library and its name are let go, and the count falls; an empty      *)
(* table is given back (108-131).  When the block is gone by then the      *)
(* process dies.                                                           *)
Unlink(s) ==
  /\ pc[s] = "unload" /\ at[s] <= alloc
  /\ LET r == Entry(at[s]) IN
       IF r = NoLoad THEN UNCHANGED <<name, mapped, state>>
       ELSE /\ name' = [name EXCEPT ![r] = "freed"]
            /\ mapped' = mapped \ {r}
            /\ state' = [state EXCEPT ![r] = "unloaded"]
  /\ count' = (count + Word - 1) % Word
  /\ IF count = 1 THEN alloc' = 0 /\ size' = 0 ELSE UNCHANGED <<alloc, size>>
  /\ at' = [at EXCEPT ![s] = 0]
  /\ Goto(s, "idle")
  /\ UNCHANGED <<table, lib, cleaned, cur, depth, saved, histVars>>

(* UnloadAllNative: nothing to do for an empty table, else entry by entry. *)
UnloadAll(s) ==
  /\ pc[s] = "idle" /\ count \in Loads
  /\ at' = [at EXCEPT ![s] = 1]
  /\ Goto(s, "unloadAll")
  /\ upset' = upset \union EnterTable(s)
  /\ UNCHANGED <<tableVars, loadVars, cur, depth, saved, dropped, open>>

(* CleanupExports runs and the name is freed (143-150); the library stays  *)
(* mapped.  An entry without a routine is skipped.                         *)
CleanNext(s) ==
  /\ pc[s] = "unloadAll" /\ at[s] <= count /\ at[s] <= alloc
  /\ IF Entry(at[s]) = NoLoad THEN UNCHANGED <<cleaned, name, state>>
     ELSE /\ Run(at[s])
          /\ name' = [name EXCEPT ![Entry(at[s])] = "freed"]
          /\ state' = [state EXCEPT ![Entry(at[s])] = "unloaded"]
  /\ at' = [at EXCEPT ![s] = @ + 1]
  /\ upset' = upset \union Again(at[s])
  /\ UNCHANGED <<tableVars, lib, mapped, pc, cur, depth, saved, dropped, open>>

(* The table is given back; craSize keeps its value (151-153).             *)
GiveTableBack(s) ==
  /\ pc[s] = "unloadAll" /\ at[s] > count
  /\ count' = 0 /\ alloc' = 0
  /\ at' = [at EXCEPT ![s] = 0]
  /\ Goto(s, "idle")
  /\ UNCHANGED <<table, size, loadVars, cur, depth, saved, histVars>>
-----------------------------------------------------------------------------
Next ==
  \E s \in Scripts :
    \/ OpenLibrary(s) \/ SuspendForInit(s) \/ InitFails(s) \/ InitReturns(s)
    \/ Reserve(s) \/ Store(s) \/ Raise(s)
    \/ FindAndClean(s) \/ Unlink(s)
    \/ UnloadAll(s) \/ CleanNext(s) \/ GiveTableBack(s)

Spec == Init /\ [][Next]_vars
-----------------------------------------------------------------------------
(* Properties.                                                             *)

Orderly == upset = {}

(* Entries in use that were freed and left, but for those UnloadAllNative  *)
(* has come past; loaded libraries that have no entry.                     *)
Passed(i) == \E s \in Scripts : pc[s] = "unloadAll" /\ i < at[s]
Stale == {i \in 1..count : Entry(i) # NoLoad /\ state[Entry(i)] = "unloaded" /\ ~Passed(i)}
Unlisted == {r \in Loads : state[r] = "loaded" /\ \A i \in 1..count : Entry(i) # r}

(* Until two scripts use the table at once or a freed entry is cleaned up  *)
(* again, the entries in use lie inside the block, each is of a different  *)
(* load, each load is cleaned up once when it is unloaded and is there     *)
(* before, and a library drops out of the table only for a freed entry     *)
(* that stays in it, one for one (69-82, 103-131, 143-153).                *)
TableIsExact ==
  Orderly =>
    /\ count <= alloc
    /\ \A i \in 1..count : Entry(i) # NoLoad /\ \A j \in 1..count : Entry(i) = Entry(j) => i = j
    /\ \A r \in Loads :
         /\ cleaned[r] = IF state[r] \in {"unloading", "unloaded"} THEN 1 ELSE 0
         /\ state[r] = "loaded" => name[r] = "live" /\ r \in mapped
    /\ Cardinality(Unlisted) = Cardinality(Stale)

(* A script that is back from the loader is in as many requests as it was, *)
(* but for what its failed calls did: a library that does not load or has  *)
(* no CleanupExports leaves one more open, and one without InitExports, or *)
(* whose InitExports fails, leaves none (43, 51, 58, 67).                  *)
RequestsBalanced ==
  \A s \in Scripts :
    pc[s] \in {"idle", "unload", "unloadAll"} =>
      depth[s] = (IF s \in dropped THEN 0 ELSE Base(s)) + open[s]

(* A script that is not in the loader may call any native.                 *)
MayCall == {s \in Scripts : pc[s] = "idle"}

(* The files a script may load with LoadJSLib, at any time it is not in    *)
(* the loader of libraries: what was signed and not changed is loaded      *)
(* without a question, but at the edge of a buffer (SignedFilesLoad;       *)
(* nativeimports.cpp 154-172).                                             *)
SignedScriptsLoad == MayCall # {} => SignedFilesLoad
=============================================================================
