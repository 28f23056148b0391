------------------------ MODULE NativeTable_proofs -------------------------
(***************************************************************************)
(* NativeTable keeps its types, its requests balanced and, until two       *)
(* scripts use the table at once or a freed entry is cleaned up again, its *)
(* table exact, for any scripts, libraries, growth and number of loads.    *)
(* The inductive invariant says how deep in requests each stage of a load  *)
(* is, what each entry of an orderly table stands for, and that as many    *)
(* libraries dropped out of it as freed entries stay in it.                *)
(*                                                                         *)
(* The scripts it may load meanwhile: the scan of a signed script runs     *)
(* beside that of the script, and its block adds one blank to the hash, at *)
(* the edge of a buffer only, for scripts and buffers of any size.         *)
(***************************************************************************)
EXTENDS NativeTable, Integers, FiniteSetTheorems, WellFoundedInduction, TLAPS

(* What the failures of a script leave of its requests.                    *)
Left(s) == (IF s \in dropped THEN 0 ELSE Base(s)) + open[s]

(* The depth of requests at each stage of a LoadNative: kept aside while   *)
(* the library initialises, one more than that in between.                 *)
DepthOK(s) ==
  /\ pc[s] \in {"init", "reserve", "store", "raise"} => depth[s] = Left(s) + 1
  /\ pc[s] = "exports" => saved[s] = Left(s) + 1 /\ depth[s] = 0
  /\ pc[s] \in {"idle", "unload", "unloadAll"} => depth[s] = Left(s)

DepthInv == TypeOK /\ \A s \in Scripts : DepthOK(s)
-----------------------------------------------------------------------------
LEMMA BaseType == \A s : Base(s) \in Nat
  BY DEF Base

LEMMA LeftType == ASSUME TypeOK, NEW s \in Scripts PROVE Left(s) \in Nat
  BY BaseType DEF Left, TypeOK

LEMMA InitDepth == Init => DepthInv
<1> SUFFICES ASSUME Init PROVE DepthInv
  OBVIOUS
<1> USE NativeTableAssumption
<1>1. TypeOK
  <2>1. (CHOOSE l \in Libs : TRUE) \in Libs
    OBVIOUS
  <2>2. depth \in [Scripts -> Nat]
    BY BaseType DEF Init
  <2>3. /\ cur \in [Scripts -> Loads \union {NoLoad}]
        /\ table \in [Slots -> Loads \union {NoLoad}]
    BY DEF Init, NoLoad
  <2>4. lib \in [Loads -> Libs]
    BY <2>1 DEF Init
  <2> QED
    BY <2>2, <2>3, <2>4 DEF TypeOK, Init
<1>2. ASSUME NEW s \in Scripts PROVE DepthOK(s)
  <2>1. pc[s] = "idle" /\ depth[s] = Base(s) /\ Left(s) = Base(s)
    BY BaseType DEF Init, Left
  <2> QED
    BY <2>1 DEF DepthOK
<1> QED
  BY <1>1, <1>2 DEF DepthInv
-----------------------------------------------------------------------------
(* Every step keeps every variable in its type.                            *)
LEMMA TypeOKStep ==
  ASSUME DepthInv, [Next]_vars
  PROVE  TypeOK'
<1>0. TypeOK /\ \A s \in Scripts : DepthOK(s)
  BY DEF DepthInv
<1>a. /\ count \in Nat /\ alloc \in Nat /\ size \in Nat /\ Chunk \in Nat
  BY <1>0, NativeTableAssumption DEF TypeOK
<1>b. \A s : EnterTable(s) \subseteq {"overlap", "again"}
  BY DEF EnterTable
<1>c. \A i : Again(i) \subseteq {"overlap", "again"}
  BY DEF Again
<1>1. ASSUME NEW s \in Scripts, OpenLibrary(s)
      PROVE  TypeOK'
  BY <1>0, <1>1
     DEF TypeOK, OpenLibrary, Goto, Fail, LeavesOpen, DropsAll, TablePCs, tableVars, loadVars, scriptVars,
         histVars
<1>2. ASSUME NEW s \in Scripts, SuspendForInit(s)
      PROVE  TypeOK'
  BY <1>0, <1>2
     DEF TypeOK, SuspendForInit, Goto, Fail, LeavesOpen, DropsAll, TablePCs, tableVars, loadVars,
         scriptVars, histVars
<1>3. ASSUME NEW s \in Scripts, InitFails(s)
      PROVE  TypeOK'
  BY <1>0, <1>3
     DEF TypeOK, InitFails, Goto, Fail, LeavesOpen, DropsAll, TablePCs, tableVars, loadVars, scriptVars,
         histVars
<1>4. ASSUME NEW s \in Scripts, InitReturns(s)
      PROVE  TypeOK'
  <2>1. open' \in [Scripts -> Nat] /\ dropped' = dropped
    BY <1>0, <1>4 DEF TypeOK, InitReturns, LeavesOpen
  <2>2. upset' \in SUBSET {"overlap", "again"}
    BY <1>0, <1>b, <1>4 DEF TypeOK, InitReturns
  <2>3. /\ pc' \in [Scripts -> {"idle", "init", "exports"} \union TablePCs]
        /\ cur' \in [Scripts -> Loads \union {NoLoad}]
        /\ state' \in [Loads -> {"new", "loading", "failed", "loaded", "unloading", "unloaded"}]
    BY <1>0, <1>4 DEF TypeOK, InitReturns, Fail, Goto, TablePCs
  <2>4. depth' \in [Scripts -> Nat] /\ saved' \in [Scripts -> Nat]
    BY <1>0, <1>4 DEF TypeOK, InitReturns
  <2>5. UNCHANGED <<tableVars, lib, name, cleaned, mapped, at>>
    BY <1>4 DEF InitReturns
  <2> QED
    BY <1>0, <2>1, <2>2, <2>3, <2>4, <2>5 DEF TypeOK, tableVars
<1>5. ASSUME NEW s \in Scripts, Reserve(s)
      PROVE  TypeOK'
  <2>1. /\ table' \in [Slots -> Loads \union {NoLoad}]
        /\ alloc' \in Nat /\ size' \in Nat
    BY <1>0, <1>a, <1>5 DEF TypeOK, Reserve
  <2> QED
    BY <1>0, <1>5, <2>1
       DEF TypeOK, Reserve, Goto, TablePCs, tableVars, loadVars, scriptVars, histVars
<1>6. ASSUME NEW s \in Scripts, Store(s)
      PROVE  TypeOK'
  BY <1>0, <1>6
     DEF TypeOK, Store, Goto, Fail, LeavesOpen, DropsAll, TablePCs, tableVars, loadVars, scriptVars,
         histVars
<1>7. ASSUME NEW s \in Scripts, Raise(s)
      PROVE  TypeOK'
  <2>1. count' \in Nat
    BY <1>a, <1>7 DEF Raise, Word
  <2>2. depth' \in [Scripts -> Nat]
    <3>1. depth[s] = Left(s) + 1 /\ Left(s) \in Nat
      BY <1>0, <1>7, LeftType DEF DepthOK, Raise
    <3>2. depth' = [depth EXCEPT ![s] = depth[s] - 1] /\ depth \in [Scripts -> Nat]
      BY <1>0, <1>7 DEF TypeOK, Raise
    <3> QED
      BY <3>1, <3>2
  <2> QED
    BY <1>0, <1>7, <2>1, <2>2
       DEF TypeOK, Raise, Goto, TablePCs, tableVars, loadVars, scriptVars, histVars
<1>8. ASSUME NEW s \in Scripts, FindAndClean(s)
      PROVE  TypeOK'
  <2>2. PICK i \in Slots :
          /\ Entry(i) # NoLoad
          /\ Run(i)
          /\ state' = [state EXCEPT ![Entry(i)] = "unloading"]
          /\ at' = [at EXCEPT ![s] = i]
          /\ upset' = upset \union EnterTable(s) \union Again(i)
    BY <1>8 DEF FindAndClean, Named, Dangling
  <2>3. upset' \in SUBSET {"overlap", "again"}
    BY <1>0, <1>b, <1>c, <2>2 DEF TypeOK
  <2>4. /\ cleaned' \in [Loads -> Nat] /\ at' \in [Scripts -> Nat]
        /\ state' \in
             [Loads -> {"new", "loading", "failed", "loaded", "unloading", "unloaded"}]
    <3>1. i \in Nat /\ cleaned \in [Loads -> Nat] /\ at \in [Scripts -> Nat]
      BY <1>0, NativeTableAssumption DEF TypeOK, Slots
    <3>2. state \in
            [Loads -> {"new", "loading", "failed", "loaded", "unloading", "unloaded"}]
      BY <1>0 DEF TypeOK
    <3>3. Entry(i) \in Loads
      <4>1. Entry(i) = table[i] /\ table[i] \in Loads \union {NoLoad}
        BY <1>0, <2>2 DEF TypeOK, Entry
      <4> QED
        BY <2>2, <4>1
    <3>4. cleaned' \in [Loads -> Nat]
      BY <2>2, <3>1, <3>3 DEF Run
    <3> QED
      BY <2>2, <3>1, <3>2, <3>4
  <2> QED
    BY <1>0, <1>8, <2>3, <2>4
       DEF TypeOK, FindAndClean, Goto, TablePCs, tableVars, loadVars, scriptVars,
           histVars
<1>9. ASSUME NEW s \in Scripts, Unlink(s)
      PROVE  TypeOK'
  <2>1. count' \in Nat
    BY <1>a, <1>9 DEF Unlink, Word
  <2>2. alloc' \in Nat /\ size' \in Nat
    BY <1>a, <1>9 DEF Unlink
  <2>3. /\ name' \in [Loads -> {"none", "live", "freed"}]
        /\ mapped' \in SUBSET Loads
        /\ state' \in
             [Loads -> {"new", "loading", "failed", "loaded", "unloading", "unloaded"}]
    BY <1>0, <1>9 DEF TypeOK, Unlink
  <2> QED
    BY <1>0, <1>9, <2>1, <2>2, <2>3
       DEF TypeOK, Unlink, Goto, TablePCs, tableVars, loadVars, scriptVars, histVars
<1>10. ASSUME NEW s \in Scripts, UnloadAll(s)
      PROVE  TypeOK'
  BY <1>0, <1>b, <1>10
     DEF TypeOK, UnloadAll, Goto, TablePCs, tableVars, loadVars, scriptVars,
         histVars
<1>11. ASSUME NEW s \in Scripts, CleanNext(s)
      PROVE  TypeOK'
  <2>1. /\ name' \in [Loads -> {"none", "live", "freed"}]
        /\ cleaned' \in [Loads -> Nat] /\ at' \in [Scripts -> Nat]
        /\ state' \in
             [Loads -> {"new", "loading", "failed", "loaded", "unloading", "unloaded"}]
    BY <1>0, <1>11 DEF TypeOK, CleanNext, Run
  <2>2. upset' \in SUBSET {"overlap", "again"}
    BY <1>0, <1>c, <1>11 DEF TypeOK, CleanNext
  <2> QED
    BY <1>0, <1>11, <2>1, <2>2
       DEF TypeOK, CleanNext, tableVars, loadVars, scriptVars, histVars
<1>12. ASSUME NEW s \in Scripts, GiveTableBack(s)
      PROVE  TypeOK'
  BY <1>0, <1>12
     DEF TypeOK, GiveTableBack, Goto, Fail, LeavesOpen, DropsAll, TablePCs, tableVars, loadVars, scriptVars,
         histVars
<1>13. CASE UNCHANGED vars
  BY <1>0, <1>13 DEF TypeOK, vars, tableVars, loadVars, scriptVars, histVars
<1> QED
  BY <1>1, <1>2, <1>3, <1>4, <1>5, <1>6, <1>7, <1>8, <1>9, <1>10, <1>11, <1>12, <1>13
     DEF Next
-----------------------------------------------------------------------------
(* Every step of a script leaves it as deep as its next stage says.        *)
LEMMA DepthStep ==
  ASSUME DepthInv, [Next]_vars
  PROVE  DepthInv'
<1>0. TypeOK /\ \A s \in Scripts : DepthOK(s)
  BY DEF DepthInv
<1>a. TypeOK'
  BY TypeOKStep
<1>b. ASSUME NEW t \in Scripts
      PROVE  DepthOK(t)'
  <2>0. DepthOK(t) /\ Base(t) \in Nat /\ Left(t) \in Nat
    BY <1>0, LeftType DEF Base
  <2> USE <1>0, <2>0
  <2>1. ASSUME NEW s \in Scripts, OpenLibrary(s)
        PROVE  DepthOK(t)'
    <3>1. /\ depth' = [depth EXCEPT ![s] = @ + 1] /\ UNCHANGED saved /\ pc[s] = "idle"
          /\ \/ pc' = [pc EXCEPT ![s] = "init"] /\ UNCHANGED <<dropped, open>>
             \/ UNCHANGED pc /\ LeavesOpen(s)
      BY <2>1 DEF OpenLibrary, Goto
    <3> QED
      BY <3>1 DEF DepthOK, Left, TypeOK, LeavesOpen
  <2>2. ASSUME NEW s \in Scripts, SuspendForInit(s)
        PROVE  DepthOK(t)'
    BY <2>2
       DEF DepthOK, Left, TypeOK, SuspendForInit, Goto, Fail, LeavesOpen, DropsAll, tableVars, loadVars,
           scriptVars, histVars
  <2>3. ASSUME NEW s \in Scripts, InitFails(s)
        PROVE  DepthOK(t)'
    BY <2>3
       DEF DepthOK, Left, TypeOK, InitFails, Goto, Fail, LeavesOpen, DropsAll, tableVars, loadVars, scriptVars,
           histVars
  <2>4. ASSUME NEW s \in Scripts, InitReturns(s)
        PROVE  DepthOK(t)'
    BY <2>4
       DEF DepthOK, Left, TypeOK, InitReturns, Goto, Fail, LeavesOpen, DropsAll, tableVars, loadVars, scriptVars,
           histVars
  <2>5. ASSUME NEW s \in Scripts, Reserve(s)
        PROVE  DepthOK(t)'
    BY <2>5
       DEF DepthOK, Left, TypeOK, Reserve, Goto, Fail, LeavesOpen, DropsAll, tableVars, loadVars, scriptVars,
           histVars
  <2>6. ASSUME NEW s \in Scripts, Store(s)
        PROVE  DepthOK(t)'
    BY <2>6
       DEF DepthOK, Left, TypeOK, Store, Goto, Fail, LeavesOpen, DropsAll, tableVars, loadVars, scriptVars,
           histVars
  <2>7. ASSUME NEW s \in Scripts, Raise(s)
        PROVE  DepthOK(t)'
    BY <2>7
       DEF DepthOK, Left, TypeOK, Raise, Goto, Fail, LeavesOpen, DropsAll, tableVars, loadVars, scriptVars,
           histVars
  <2>8. ASSUME NEW s \in Scripts, FindAndClean(s)
        PROVE  DepthOK(t)'
    <3>1. /\ pc[s] = "idle" /\ pc' = [pc EXCEPT ![s] = "unload"]
          /\ UNCHANGED <<depth, saved, dropped, open>>
      BY <2>8 DEF FindAndClean, Goto
    <3> QED
      BY <3>1 DEF DepthOK, Left, TypeOK
  <2>9. ASSUME NEW s \in Scripts, Unlink(s)
        PROVE  DepthOK(t)'
    BY <2>9
       DEF DepthOK, Left, TypeOK, Unlink, Goto, Fail, LeavesOpen, DropsAll, tableVars, loadVars, scriptVars,
           histVars
  <2>10. ASSUME NEW s \in Scripts, UnloadAll(s)
        PROVE  DepthOK(t)'
    BY <2>10
       DEF DepthOK, Left, TypeOK, UnloadAll, Goto, Fail, LeavesOpen, DropsAll, tableVars, loadVars, scriptVars,
           histVars
  <2>11. ASSUME NEW s \in Scripts, CleanNext(s)
        PROVE  DepthOK(t)'
    BY <2>11
       DEF DepthOK, Left, TypeOK, CleanNext, Goto, Fail, LeavesOpen, DropsAll, tableVars, loadVars, scriptVars,
           histVars
  <2>12. ASSUME NEW s \in Scripts, GiveTableBack(s)
        PROVE  DepthOK(t)'
    BY <2>12
       DEF DepthOK, Left, TypeOK, GiveTableBack, Goto, Fail, LeavesOpen, DropsAll, tableVars, loadVars,
           scriptVars, histVars
  <2>13. CASE UNCHANGED vars
    BY <2>13 DEF DepthOK, Left, vars, scriptVars, histVars
  <2> QED
    BY <2>1, <2>2, <2>3, <2>4, <2>5, <2>6, <2>7, <2>8, <2>9, <2>10, <2>11, <2>12,
       <2>13
       DEF Next
<1> QED
  BY <1>a, <1>b DEF DepthInv
-----------------------------------------------------------------------------
LEMMA DepthInvariant == Spec => []DepthInv
<1>1. Init => DepthInv
  BY InitDepth
<1>2. DepthInv /\ [Next]_vars => DepthInv'
  BY DepthStep
<1> QED
  BY <1>1, <1>2, PTL DEF Spec

(* The state of the table, of every load and of every script keeps its     *)
(* type: in particular no request is ended that was not begun.             *)
THEOREM TypeCorrect == Spec => []TypeOK
<1>1. DepthInv => TypeOK
  BY DEF DepthInv
<1> QED
  BY <1>1, DepthInvariant, PTL

(* A script that is back from the loader is as deep in requests as it was, *)
(* but for what its failed calls left open or suspended.                   *)
THEOREM RequestsBalancedAlways == Spec => []RequestsBalanced
<1>1. DepthInv => RequestsBalanced
  BY DEF DepthInv, DepthOK, Left, RequestsBalanced
<1> QED
  BY <1>1, DepthInvariant, PTL
-----------------------------------------------------------------------------
(* The table while no two scripts have used it at once and no freed entry  *)
(* was cleaned up again.                                                   *)

LoadPCs == {"init", "exports", "reserve", "store", "raise"}

(* At most one script is at work on the table.                             *)
OneInside ==
  \A s, t \in Scripts : pc[s] \in TablePCs /\ pc[t] \in TablePCs => s = t

(* A script that loads has a load of its own.                              *)
LoadsApart ==
  \A s \in Scripts : pc[s] \in LoadPCs =>
    /\ cur[s] \in Loads /\ state[cur[s]] = "loading" /\ cur[s] \in mapped
    /\ \A t \in Scripts : pc[t] \in LoadPCs /\ cur[t] = cur[s] => t = s

(* The block has room for what the count says, and for one more entry once *)
(* it was reserved.                                                        *)
BlockFits ==
  /\ count <= MaxLoads /\ count <= alloc /\ (count > 0 => alloc = size)
  /\ \A s \in Scripts :
       pc[s] \in {"store", "raise"} => alloc = size /\ count < alloc /\ count < MaxLoads

(* Each entry in use is of a different load.                               *)
EntriesApart ==
  \A i \in 1..count :
    /\ table[i] \in Loads /\ state[table[i]] \in {"loaded", "unloading", "unloaded"}
    /\ \A j \in 1..count : table[j] = table[i] => j = i

LoadedLive == \A r \in Loads : state[r] = "loaded" => name[r] = "live" /\ r \in mapped

CleanedOnce ==
  \A r \in Loads :
    cleaned[r] = IF state[r] \in {"unloading", "unloaded"} THEN 1 ELSE 0

(* An entry that goes is at the index of its unload; those UnloadAllNative *)
(* has passed are gone, and so is the name in every entry that is.         *)
EntriesGoing ==
  \A i \in 1..count :
    /\ state[table[i]] = "unloading" <=> \E s \in Scripts : pc[s] = "unload" /\ at[s] = i
    /\ Passed(i) => state[table[i]] = "unloaded"
    /\ state[table[i]] = "unloaded" => name[table[i]] = "freed"

UnloadAt ==
  \A s \in Scripts :
    /\ pc[s] = "unload" => at[s] \in 1..count
    /\ pc[s] = "unloadAll" => at[s] \in 1..(count + 1) /\ count >= 1

(* Before the count is raised the entry after the last is written.         *)
Written ==
  \A s \in Scripts : pc[s] = "raise" => table[count + 1] = cur[s] /\ name[cur[s]] = "live"

(* Loaded libraries without an entry, and entries freed and left: as many. *)
Gone == {r \in Loads : state[r] = "loaded" /\ \A i \in 1..count : table[i] # r}
Freed == {i \in 1..count : state[table[i]] = "unloaded" /\ ~Passed(i)}
Balanced == Cardinality(Gone) = Cardinality(Freed)

TableParts ==
  /\ OneInside /\ LoadsApart /\ BlockFits /\ EntriesApart /\ LoadedLive
  /\ CleanedOnce /\ EntriesGoing /\ UnloadAt /\ Written /\ Balanced

TableInv == TypeOK /\ (upset = {} => TableParts)
-----------------------------------------------------------------------------
(* As many loads as entries: distinct ones do not outnumber the loads.     *)
LEMMA Pigeons ==
  ASSUME NEW n \in Nat, NEW m \in Nat, NEW f,
         \A i \in 1..n : f[i] \in 1..m,
         \A i, j \in 1..n : f[i] = f[j] => i = j
  PROVE  n <= m
<1> DEFINE g == [i \in 1..n |-> f[i]]
<1>1. /\ IsFiniteSet(1..n) /\ Cardinality(1..n) = n
      /\ IsFiniteSet(1..m) /\ Cardinality(1..m) = m
  <2>1. ASSUME NEW k \in Nat PROVE IsFiniteSet(1..k) /\ Cardinality(1..k) = k
    <3>1. IsFiniteSet(1..k) /\ Cardinality(1..k) = IF 1 > k THEN 0 ELSE k - 1 + 1
      BY FS_Interval, 1 \in Int, k \in Int
    <3> QED
      BY <3>1
  <2> QED
    BY <2>1
<1>2. g \in [1..n -> 1..m]
  OBVIOUS
<1>3. ASSUME m < n PROVE FALSE
  <2>1. Cardinality(1..m) < Cardinality(1..n)
    BY <1>1, <1>3
  <2> HIDE DEF g
  <2>2. \E i, j \in 1..n : i # j /\ g[i] = g[j]
    BY <1>1, <1>2, <2>1, FS_PigeonHole
  <2> USE DEF g
  <2> QED
    BY <2>2
<1> QED
  BY <1>3

LEMMA InitTable == Init => TableInv
<1> SUFFICES ASSUME Init PROVE TableInv
  OBVIOUS
<1>1. TypeOK
  BY InitDepth DEF DepthInv
<1>2. Balanced
  <2>1. Gone = {} /\ Freed = {}
    BY DEF Init, Gone, Freed
  <2> QED
    BY <2>1 DEF Balanced
<1>3. TableParts
  BY <1>2, NativeTableAssumption
     DEF Init, TableParts, OneInside, LoadsApart, BlockFits, EntriesApart, LoadedLive,
         CleanedOnce, EntriesGoing, UnloadAt, Written, LoadPCs, TablePCs, Loads
<1> QED
  BY <1>1, <1>3 DEF TableInv
-----------------------------------------------------------------------------
(* What each operation does to an orderly table.                           *)

LEMMA OpenLibraryKeeps ==
  ASSUME TypeOK, TypeOK', TableParts, NEW s \in Scripts, OpenLibrary(s)
  PROVE  TableParts'
<1> USE DEF LoadPCs, TablePCs
<1>0. /\ OneInside /\ LoadsApart /\ BlockFits /\ EntriesApart /\ LoadedLive
      /\ CleanedOnce /\ EntriesGoing /\ UnloadAt /\ Written /\ Balanced /\ count \in Nat
  BY DEF TableParts, TypeOK
<1>1. /\ pc[s] = "idle" /\ UNCHANGED <<table, alloc, count, size, name, cleaned, at>>
      /\ \E r \in Loads :
           /\ state[r] = "new"
           /\ \/ /\ pc' = [pc EXCEPT ![s] = "init"] /\ cur' = [cur EXCEPT ![s] = r]
                 /\ state' = [state EXCEPT ![r] = "loading"]
                 /\ mapped' = mapped \union {r}
              \/ /\ state' = [state EXCEPT ![r] = "failed"]
                 /\ pc' = pc /\ cur' = cur /\ mapped' = mapped
  BY DEF OpenLibrary, Goto, tableVars
<1>2. PICK r \in Loads :
           /\ state[r] = "new"
           /\ \/ /\ pc' = [pc EXCEPT ![s] = "init"] /\ cur' = [cur EXCEPT ![s] = r]
                 /\ state' = [state EXCEPT ![r] = "loading"]
                 /\ mapped' = mapped \union {r}
              \/ /\ state' = [state EXCEPT ![r] = "failed"]
                 /\ pc' = pc /\ cur' = cur /\ mapped' = mapped
  BY <1>1
<1>3. /\ pc'[s] \in {"init", "idle"} /\ mapped \subseteq mapped'
      /\ state'[r] \in {"loading", "failed"} /\ state[r] = "new"
      /\ pc'[s] = "init" => cur'[s] = r /\ state'[r] = "loading" /\ r \in mapped'
      /\ \A t \in Scripts : t # s => pc'[t] = pc[t] /\ cur'[t] = cur[t]
      /\ \A q \in Loads : q # r => state'[q] = state[q]
  BY <1>1, <1>2 DEF TypeOK
<1>4. OneInside'
  BY <1>0, <1>1, <1>3 DEF OneInside
<1>5. LoadsApart'
  BY <1>0, <1>1, <1>3 DEF LoadsApart
<1>6. BlockFits'
  BY <1>0, <1>1, <1>3 DEF BlockFits
<1>7. EntriesApart'
  BY <1>0, <1>1, <1>3 DEF EntriesApart
<1>8. LoadedLive'
  BY <1>0, <1>1, <1>3 DEF LoadedLive, EntriesApart
<1>9. CleanedOnce'
  BY <1>0, <1>1, <1>3 DEF CleanedOnce
<1>10. EntriesGoing'
  BY <1>0, <1>1, <1>3 DEF EntriesGoing, EntriesApart, Passed
<1>11. UnloadAt'
  BY <1>0, <1>1, <1>3 DEF UnloadAt
<1>12. Written'
  BY <1>0, <1>1, <1>3 DEF Written
<1>b. Balanced'
  <2>1. Gone' = Gone
    BY <1>0, <1>1, <1>3 DEF Gone, EntriesApart
  <2>2. Freed' = Freed
    BY <1>0, <1>1, <1>3 DEF Freed, EntriesApart, Passed
  <2> QED
    BY <1>0, <2>1, <2>2 DEF Balanced
<1> QED
  BY <1>b, <1>4, <1>5, <1>6, <1>7, <1>8, <1>9, <1>10, <1>11, <1>12 DEF TableParts

LEMMA SuspendForInitKeeps ==
  ASSUME TypeOK, TypeOK', TableParts, NEW s \in Scripts, SuspendForInit(s)
  PROVE  TableParts'
<1> USE DEF LoadPCs, TablePCs
<1>0. /\ OneInside /\ LoadsApart /\ BlockFits /\ EntriesApart /\ LoadedLive
      /\ CleanedOnce /\ EntriesGoing /\ UnloadAt /\ Written /\ Balanced /\ count \in Nat
  BY DEF TableParts, TypeOK
<1>1. /\ pc[s] = "init" /\ cur[s] \in Loads /\ state[cur[s]] = "loading" /\ cur[s] \in mapped
      /\ UNCHANGED <<table, alloc, count, size, name, cleaned, at>>
  BY <1>0 DEF SuspendForInit, LoadsApart, tableVars
<1>2. /\ \/ pc'[s] = "exports" /\ state' = state /\ cur'[s] = cur[s] /\ cur[s] \in mapped'
         \/ /\ pc'[s] = "idle" /\ state'[cur[s]] = "failed"
            /\ \A q \in Loads : q # cur[s] => state'[q] = state[q]
      /\ \A q \in Loads : q # cur[s] => (q \in mapped' <=> q \in mapped)
      /\ \A t \in Scripts : t # s => pc'[t] = pc[t] /\ cur'[t] = cur[t]
  BY <1>1 DEF TypeOK, SuspendForInit, Fail, Goto
<1>3. OneInside'
  BY <1>0, <1>1, <1>2 DEF OneInside
<1>4. LoadsApart'
  BY <1>0, <1>1, <1>2 DEF LoadsApart
<1>5. BlockFits'
  BY <1>0, <1>1, <1>2 DEF BlockFits
<1>6. EntriesApart'
  BY <1>0, <1>1, <1>2 DEF EntriesApart
<1>7. LoadedLive'
  BY <1>0, <1>1, <1>2 DEF LoadedLive
<1>8. CleanedOnce'
  BY <1>0, <1>1, <1>2 DEF CleanedOnce
<1>9. EntriesGoing'
  BY <1>0, <1>1, <1>2 DEF EntriesGoing, EntriesApart, Passed
<1>10. UnloadAt'
  BY <1>0, <1>1, <1>2 DEF UnloadAt
<1>11. Written'
  BY <1>0, <1>1, <1>2 DEF Written
<1>b. Balanced'
  <2>1. Gone' = Gone
    BY <1>0, <1>1, <1>2 DEF Gone, EntriesApart
  <2>2. Freed' = Freed
    BY <1>0, <1>1, <1>2 DEF Freed, EntriesApart, Passed
  <2> QED
    BY <1>0, <2>1, <2>2 DEF Balanced
<1> QED
  BY <1>b, <1>3, <1>4, <1>5, <1>6, <1>7, <1>8, <1>9, <1>10, <1>11 DEF TableParts

LEMMA InitFailsKeeps ==
  ASSUME TypeOK, TypeOK', TableParts, NEW s \in Scripts, InitFails(s)
  PROVE  TableParts'
<1> USE DEF LoadPCs, TablePCs
<1>0. /\ OneInside /\ LoadsApart /\ BlockFits /\ EntriesApart /\ LoadedLive
      /\ CleanedOnce /\ EntriesGoing /\ UnloadAt /\ Written /\ Balanced /\ count \in Nat
  BY DEF TableParts, TypeOK
<1>1. /\ pc[s] = "exports" /\ cur[s] \in Loads /\ state[cur[s]] = "loading" /\ cur[s] \in mapped
      /\ UNCHANGED <<table, alloc, count, size, name, cleaned, at>>
  BY <1>0 DEF InitFails, LoadsApart, tableVars
<1>2. /\ \/ pc'[s] = "exports" /\ state' = state /\ cur'[s] = cur[s] /\ cur[s] \in mapped'
         \/ /\ pc'[s] = "idle" /\ state'[cur[s]] = "failed"
            /\ \A q \in Loads : q # cur[s] => state'[q] = state[q]
      /\ \A q \in Loads : q # cur[s] => (q \in mapped' <=> q \in mapped)
      /\ \A t \in Scripts : t # s => pc'[t] = pc[t] /\ cur'[t] = cur[t]
  BY <1>1 DEF TypeOK, InitFails, Fail, Goto
<1>3. OneInside'
  BY <1>0, <1>1, <1>2 DEF OneInside
<1>4. LoadsApart'
  BY <1>0, <1>1, <1>2 DEF LoadsApart
<1>5. BlockFits'
  BY <1>0, <1>1, <1>2 DEF BlockFits
<1>6. EntriesApart'
  BY <1>0, <1>1, <1>2 DEF EntriesApart
<1>7. LoadedLive'
  BY <1>0, <1>1, <1>2 DEF LoadedLive
<1>8. CleanedOnce'
  BY <1>0, <1>1, <1>2 DEF CleanedOnce
<1>9. EntriesGoing'
  BY <1>0, <1>1, <1>2 DEF EntriesGoing, EntriesApart, Passed
<1>10. UnloadAt'
  BY <1>0, <1>1, <1>2 DEF UnloadAt
<1>11. Written'
  BY <1>0, <1>1, <1>2 DEF Written
<1>b. Balanced'
  <2>1. Gone' = Gone
    BY <1>0, <1>1, <1>2 DEF Gone, EntriesApart
  <2>2. Freed' = Freed
    BY <1>0, <1>1, <1>2 DEF Freed, EntriesApart, Passed
  <2> QED
    BY <1>0, <2>1, <2>2 DEF Balanced
<1> QED
  BY <1>b, <1>3, <1>4, <1>5, <1>6, <1>7, <1>8, <1>9, <1>10, <1>11 DEF TableParts

LEMMA InitReturnsKeeps ==
  ASSUME TypeOK, TypeOK', TableParts, NEW s \in Scripts, InitReturns(s), upset' = {}
  PROVE  TableParts'
<1> USE DEF LoadPCs, TablePCs
<1>0. /\ OneInside /\ LoadsApart /\ BlockFits /\ EntriesApart /\ LoadedLive
      /\ CleanedOnce /\ EntriesGoing /\ UnloadAt /\ Written /\ Balanced /\ count \in Nat
  BY DEF TableParts, TypeOK
<1>1. /\ pc[s] = "exports" /\ cur[s] \in Loads /\ state[cur[s]] = "loading" /\ cur[s] \in mapped
      /\ UNCHANGED <<table, alloc, count, size, name, cleaned, at>>
  BY <1>0 DEF InitReturns, LoadsApart, tableVars
<1>2. /\ \/ pc'[s] = "reserve" /\ state' = state /\ cur'[s] = cur[s] /\ cur[s] \in mapped'
         \/ /\ pc'[s] = "idle" /\ state'[cur[s]] = "failed"
            /\ \A q \in Loads : q # cur[s] => state'[q] = state[q]
      /\ \A q \in Loads : q # cur[s] => (q \in mapped' <=> q \in mapped)
      /\ \A t \in Scripts : t # s => pc'[t] = pc[t] /\ cur'[t] = cur[t]
  BY <1>1 DEF TypeOK, InitReturns, Fail, Goto
<1>3. pc'[s] = "reserve" => \A t \in Scripts : t # s => pc[t] \notin TablePCs
  BY DEF InitReturns, Fail, Goto, EnterTable, TypeOK
<1>4. OneInside'
  BY <1>0, <1>1, <1>2, <1>3 DEF OneInside
<1>5. LoadsApart'
  BY <1>0, <1>1, <1>2 DEF LoadsApart
<1>6. BlockFits'
  BY <1>0, <1>1, <1>2 DEF BlockFits
<1>7. EntriesApart'
  BY <1>0, <1>1, <1>2 DEF EntriesApart
<1>8. LoadedLive'
  BY <1>0, <1>1, <1>2 DEF LoadedLive
<1>9. CleanedOnce'
  BY <1>0, <1>1, <1>2 DEF CleanedOnce
<1>10. EntriesGoing'
  BY <1>0, <1>1, <1>2 DEF EntriesGoing, EntriesApart, Passed
<1>11. UnloadAt'
  BY <1>0, <1>1, <1>2 DEF UnloadAt
<1>12. Written'
  BY <1>0, <1>1, <1>2 DEF Written
<1>b. Balanced'
  <2>1. Gone' = Gone
    BY <1>0, <1>1, <1>2 DEF Gone, EntriesApart
  <2>2. Freed' = Freed
    BY <1>0, <1>1, <1>2 DEF Freed, EntriesApart, Passed
  <2> QED
    BY <1>0, <2>1, <2>2 DEF Balanced
<1> QED
  BY <1>b, <1>4, <1>5, <1>6, <1>7, <1>8, <1>9, <1>10, <1>11, <1>12 DEF TableParts

LEMMA ReserveKeeps ==
  ASSUME TypeOK, TypeOK', TableParts, NEW s \in Scripts, Reserve(s)
  PROVE  TableParts'
<1> USE DEF LoadPCs, TablePCs
<1>0. /\ OneInside /\ LoadsApart /\ BlockFits /\ EntriesApart /\ LoadedLive
      /\ CleanedOnce /\ EntriesGoing /\ UnloadAt /\ Written /\ Balanced /\ count \in Nat
  BY DEF TableParts, TypeOK
<1>1. /\ pc[s] = "reserve" /\ pc'[s] = "store" /\ \A t \in Scripts : t # s => pc'[t] = pc[t]
      /\ UNCHANGED <<count, name, cleaned, at, mapped, state, cur>>
      /\ count > 0 => table' = table
  BY <1>0 DEF Reserve, Goto, loadVars, TypeOK
<1>2. count <= alloc' /\ alloc' = size' /\ count < alloc'
  BY <1>0, NativeTableAssumption DEF Reserve, BlockFits, TypeOK
<1>3. count + 1 <= MaxLoads
  <2> DEFINE f == [i \in 1..(count + 1) |-> IF i <= count THEN table[i] ELSE cur[s]]
  <2>1. \A i \in 1..count : table[i] \in Loads /\ state[table[i]] # "loading"
    BY <1>0 DEF EntriesApart
  <2>2. cur[s] \in Loads /\ state[cur[s]] = "loading"
    BY <1>0, <1>1 DEF LoadsApart
  <2>3. \A i, j \in 1..count : table[i] = table[j] => i = j
    BY <1>0 DEF EntriesApart
  <2>4. count + 1 \in Nat /\ MaxLoads \in Nat /\ count \in Nat
    BY <1>0, NativeTableAssumption
  <2>5. \A i \in 1..(count + 1) : f[i] \in 1..MaxLoads
    BY <2>1, <2>2, <2>4 DEF Loads
  <2>6. \A i, j \in 1..(count + 1) : f[i] = f[j] => i = j
    BY <2>1, <2>2, <2>3, <2>4
  <2> HIDE DEF f
  <2> QED
    BY <2>4, <2>5, <2>6, Pigeons
<1>4. MaxLoads \in Nat /\ \A i \in 1..count : table'[i] = table[i]
  BY <1>0, <1>1, NativeTableAssumption
<1>5. \A t \in Scripts : t # s => pc[t] \notin TablePCs
  BY <1>0, <1>1 DEF OneInside
<1>6. OneInside'
  BY <1>0, <1>1 DEF OneInside
<1>7. LoadsApart'
  BY <1>0, <1>1 DEF LoadsApart
<1>8. BlockFits'
  BY <1>0, <1>1, <1>2, <1>3, <1>4, <1>5 DEF BlockFits
<1>9. EntriesApart'
  BY <1>0, <1>1, <1>4 DEF EntriesApart
<1>10. LoadedLive'
  BY <1>0, <1>1, <1>4 DEF LoadedLive
<1>11. CleanedOnce'
  BY <1>0, <1>1 DEF CleanedOnce
<1>12. EntriesGoing'
  BY <1>0, <1>1, <1>4 DEF EntriesGoing, Passed
<1>13. UnloadAt'
  BY <1>0, <1>1, <1>5 DEF UnloadAt
<1>14. Written'
  BY <1>0, <1>1, <1>5 DEF Written
<1>b. Balanced'
  <2>1. Gone' = Gone
    BY <1>0, <1>1, <1>4 DEF Gone, EntriesApart
  <2>2. Freed' = Freed
    BY <1>0, <1>1, <1>4 DEF Freed, EntriesApart, Passed
  <2> QED
    BY <1>0, <2>1, <2>2 DEF Balanced
<1> QED
  BY <1>b, <1>6, <1>7, <1>8, <1>9, <1>10, <1>11, <1>12, <1>13, <1>14 DEF TableParts

LEMMA StoreKeeps ==
  ASSUME TypeOK, TypeOK', TableParts, NEW s \in Scripts, Store(s)
  PROVE  TableParts'
<1> USE DEF LoadPCs, TablePCs
<1>0. /\ OneInside /\ LoadsApart /\ BlockFits /\ EntriesApart /\ LoadedLive
      /\ CleanedOnce /\ EntriesGoing /\ UnloadAt /\ Written /\ Balanced /\ count \in Nat
  BY DEF TableParts, TypeOK
<1>1. /\ pc[s] = "store" /\ cur[s] \in Loads /\ state[cur[s]] = "loading"
      /\ count < alloc /\ count < MaxLoads
      /\ \A t \in Scripts : t # s => pc[t] \notin TablePCs
  BY <1>0 DEF Store, LoadsApart, BlockFits, OneInside
<1>2. count + 1 \in Slots /\ MaxLoads \in Nat
  BY <1>0, <1>1, NativeTableAssumption DEF Slots
<1>3. /\ UNCHANGED <<alloc, count, size, cleaned, at, mapped, state, cur>>
      /\ pc'[s] = "raise" /\ \A t \in Scripts : t # s => pc'[t] = pc[t]
      /\ name'[cur[s]] = "live" /\ \A q \in Loads : q # cur[s] => name'[q] = name[q]
      /\ table'[count + 1] = cur[s]
  BY <1>1, <1>2 DEF Store, Goto, TypeOK
<1>4. \A i \in 1..count : table'[i] = table[i]
  <2>1. table' = [table EXCEPT ![count + 1] = cur[s]]
    BY <1>1, <1>2 DEF Store
  <2>2. \A i \in 1..count : i \in Slots /\ i # count + 1
    BY <1>0, <1>1, <1>2, NativeTableAssumption DEF Slots
  <2> QED
    BY <2>1, <2>2 DEF TypeOK
<1>5. OneInside'
  BY <1>0, <1>1, <1>3 DEF OneInside
<1>6. LoadsApart'
  BY <1>0, <1>1, <1>3 DEF LoadsApart
<1>7. BlockFits'
  BY <1>0, <1>1, <1>3 DEF BlockFits
<1>8. EntriesApart'
  BY <1>0, <1>1, <1>3, <1>4 DEF EntriesApart
<1>9. LoadedLive'
  BY <1>0, <1>1, <1>3, <1>4 DEF LoadedLive
<1>10. CleanedOnce'
  BY <1>0, <1>1, <1>3 DEF CleanedOnce
<1>11. EntriesGoing'
  <2>1. \A i \in 1..count : table[i] # cur[s]
    BY <1>0, <1>1 DEF EntriesApart
  <2>2. \A i : Passed(i)' <=> Passed(i)
    BY <1>1, <1>3 DEF Passed
  <2>3. \A i \in 1..count :
          table'[i] = table[i] /\ name'[table[i]] = name[table[i]] /\ state'[table[i]] = state[table[i]]
    BY <1>0, <1>3, <1>4, <2>1 DEF EntriesApart
  <2>4. \A i : (\E t \in Scripts : pc'[t] = "unload" /\ at'[t] = i)
                 <=> (\E t \in Scripts : pc[t] = "unload" /\ at[t] = i)
    BY <1>1, <1>3
  <2>5. count' = count
    BY <1>3
  <2> QED
    BY <1>0, <2>2, <2>3, <2>4, <2>5 DEF EntriesGoing
<1>12. UnloadAt'
  BY <1>0, <1>1, <1>3 DEF UnloadAt
<1>13. Written'
  BY <1>0, <1>1, <1>3 DEF Written
<1>b. Balanced'
  <2>1. Gone' = Gone
    BY <1>0, <1>1, <1>3, <1>4 DEF Gone, EntriesApart
  <2>2. Freed' = Freed
    BY <1>0, <1>1, <1>3, <1>4 DEF Freed, EntriesApart, Passed
  <2> QED
    BY <1>0, <2>1, <2>2 DEF Balanced
<1> QED
  BY <1>b, <1>5, <1>6, <1>7, <1>8, <1>9, <1>10, <1>11, <1>12, <1>13 DEF TableParts

LEMMA RaiseKeeps ==
  ASSUME TypeOK, TypeOK', TableParts, NEW s \in Scripts, Raise(s)
  PROVE  TableParts'
<1> USE DEF LoadPCs, TablePCs
<1>0. /\ OneInside /\ LoadsApart /\ BlockFits /\ EntriesApart /\ LoadedLive
      /\ CleanedOnce /\ EntriesGoing /\ UnloadAt /\ Written /\ Balanced /\ count \in Nat
  BY DEF TableParts, TypeOK
<1>1. /\ pc[s] = "raise" /\ cur[s] \in Loads /\ state[cur[s]] = "loading" /\ cur[s] \in mapped
      /\ count < alloc /\ count < MaxLoads /\ alloc = size
      /\ table[count + 1] = cur[s] /\ name[cur[s]] = "live"
      /\ \A t \in Scripts : t # s => pc[t] \notin TablePCs
  BY <1>0 DEF Raise, LoadsApart, BlockFits, OneInside, Written
<1>2. (count + 1) % Word = count + 1
  BY <1>0, <1>1, NativeTableAssumption DEF Word
<1>3.
      /\ UNCHANGED <<table, alloc, size, cleaned, at, mapped, name>> /\ count' = count + 1
      /\ pc'[s] = "idle" /\ \A t \in Scripts : t # s => pc'[t] = pc[t] /\ cur'[t] = cur[t]
      /\ state'[cur[s]] = "loaded" /\ \A q \in Loads : q # cur[s] => state'[q] = state[q]
  BY <1>1, <1>2 DEF Raise, Goto, TypeOK
<1>4. /\ count \in Nat /\ MaxLoads \in Nat /\ alloc \in Nat
      /\ \A i \in 1..(count + 1) : i \in 1..count \/ i = count + 1
  BY <1>0, NativeTableAssumption DEF TypeOK
<1>5. \A t \in Scripts : pc'[t] \notin TablePCs
  BY <1>1, <1>3
<1>6. \A i \in 1..count : table[i] \in Loads /\ table[i] # cur[s]
  BY <1>0, <1>1 DEF EntriesApart
<1>7. OneInside'
  BY <1>0, <1>1, <1>3, <1>5 DEF OneInside
<1>8. LoadsApart'
  BY <1>0, <1>1, <1>3 DEF LoadsApart
<1>9. BlockFits'
  BY <1>0, <1>1, <1>3, <1>4, <1>5 DEF BlockFits
<1>10. EntriesApart'
  BY <1>0, <1>1, <1>3, <1>4, <1>6 DEF EntriesApart
<1>11. LoadedLive'
  BY <1>0, <1>1, <1>3, <1>4 DEF LoadedLive
<1>12. CleanedOnce'
  BY <1>0, <1>1, <1>3 DEF CleanedOnce
<1>13. EntriesGoing'
  BY <1>0, <1>1, <1>3, <1>4, <1>5, <1>6 DEF EntriesGoing, EntriesApart, Passed
<1>14. UnloadAt'
  BY <1>0, <1>1, <1>3, <1>5 DEF UnloadAt
<1>15. Written'
  BY <1>0, <1>1, <1>3, <1>5 DEF Written
<1>b. Balanced'
  <2>1. Gone' = Gone
    BY <1>0, <1>1, <1>3, <1>4, <1>6 DEF Gone
  <2>2. Freed' = Freed
    BY <1>0, <1>1, <1>3, <1>4, <1>5, <1>6 DEF Freed, Passed
  <2> QED
    BY <1>0, <2>1, <2>2 DEF Balanced
<1> QED
  BY <1>b, <1>7, <1>8, <1>9, <1>10, <1>11, <1>12, <1>13, <1>14, <1>15 DEF TableParts

LEMMA FindAndCleanKeeps ==
  ASSUME TypeOK, TypeOK', TableParts, NEW s \in Scripts, FindAndClean(s), upset' = {}
  PROVE  TableParts'
<1> USE DEF LoadPCs, TablePCs
<1>0. /\ OneInside /\ LoadsApart /\ BlockFits /\ EntriesApart /\ LoadedLive
      /\ CleanedOnce /\ EntriesGoing /\ UnloadAt /\ Written /\ Balanced /\ count \in Nat
  BY DEF TableParts, TypeOK
<1>1. PICK i \in 1..count :
        /\ Entry(i) # NoLoad /\ Run(i)
        /\ state' = [state EXCEPT ![Entry(i)] = "unloading"]
        /\ at' = [at EXCEPT ![s] = i]
        /\ EnterTable(s) = {} /\ ~Dangling(i)
  <2>1. PICK i \in Slots :
          /\ i <= count /\ Entry(i) # NoLoad /\ Run(i)
          /\ state' = [state EXCEPT ![Entry(i)] = "unloading"]
          /\ at' = [at EXCEPT ![s] = i]
          /\ upset' = upset \union EnterTable(s) \union Again(i)
    BY DEF FindAndClean, Named, Dangling
  <2>2. EnterTable(s) = {} /\ Again(i) = {}
    BY <2>1
  <2>3. i \in 1..count
    BY <1>0, <2>1, NativeTableAssumption DEF Slots
  <2> QED
    BY <2>1, <2>2, <2>3 DEF Again
<1>2. /\ pc[s] = "idle" /\ UNCHANGED <<table, alloc, count, size, mapped, name, cur>>
      /\ \A t \in Scripts : pc[t] \notin TablePCs
  BY <1>1 DEF FindAndClean, EnterTable, tableVars
<1>3. Entry(i) = table[i] /\ table[i] \in Loads
  BY <1>0, <1>1, NativeTableAssumption DEF Entry, EntriesApart
<1>4. state[table[i]] = "loaded" /\ cleaned[table[i]] = 0
  <2>1. name[table[i]] # "freed"
    BY <1>1, <1>3 DEF Dangling
  <2>2. state[table[i]] # "unloading" /\ state[table[i]] # "unloaded"
    BY <1>0, <1>2, <2>1 DEF EntriesGoing
  <2>3. state[table[i]] = "loaded"
    BY <1>0, <2>2 DEF EntriesApart
  <2> QED
    BY <1>0, <1>3, <2>3 DEF CleanedOnce
<1>5. /\ pc'[s] = "unload" /\ at'[s] = i
      /\ \A t \in Scripts : t # s => pc'[t] = pc[t] /\ at'[t] = at[t]
      /\ state'[table[i]] = "unloading" /\ cleaned'[table[i]] = 1
      /\ \A q \in Loads : q # table[i] => state'[q] = state[q] /\ cleaned'[q] = cleaned[q]
  BY <1>1, <1>3, <1>4 DEF FindAndClean, Goto, TypeOK, Run
<1>6. \A j \in 1..count : /\ table[j] \in Loads /\ (j # i => table[j] # table[i])
                          /\ j # i => state'[table[j]] = state[table[j]]
                          /\ state[table[j]] # "unloading"
  <2>1. \A j \in 1..count : table[j] \in Loads /\ (j # i => table[j] # table[i])
    BY <1>0 DEF EntriesApart
  <2>2. \A j \in 1..count : state[table[j]] # "unloading"
    BY <1>0, <1>2 DEF EntriesGoing
  <2> QED
    BY <1>5, <2>1, <2>2
<1>7. OneInside'
  BY <1>0, <1>2, <1>5 DEF OneInside
<1>8. LoadsApart'
  <2>1. SUFFICES ASSUME NEW t \in Scripts, pc'[t] \in LoadPCs
                 PROVE  /\ cur'[t] \in Loads /\ state'[cur'[t]] = "loading" /\ cur'[t] \in mapped'
                        /\ \A u \in Scripts : pc'[u] \in LoadPCs /\ cur'[u] = cur'[t] => u = t
    BY DEF LoadsApart
  <2>2. t # s /\ pc[t] \in LoadPCs /\ cur'[t] = cur[t] /\ mapped' = mapped
    BY <1>2, <1>5, <2>1
  <2>3. cur[t] \in Loads /\ state[cur[t]] = "loading" /\ cur[t] \in mapped
    BY <1>0, <2>2 DEF LoadsApart
  <2>4. state'[cur[t]] = "loading"
    BY <1>4, <1>5, <2>3
  <2>5. \A u \in Scripts : pc'[u] \in LoadPCs /\ cur'[u] = cur'[t] => u = t
    BY <1>0, <1>2, <1>5, <2>2 DEF LoadsApart
  <2> QED
    BY <2>2, <2>3, <2>4, <2>5
<1>9. BlockFits'
  BY <1>0, <1>2, <1>5 DEF BlockFits
<1>10. EntriesApart'
  BY <1>0, <1>2, <1>5, <1>6 DEF EntriesApart
<1>11. LoadedLive'
  BY <1>0, <1>2, <1>5 DEF LoadedLive
<1>12. CleanedOnce'
  BY <1>0, <1>2, <1>4, <1>5 DEF CleanedOnce
<1>13. EntriesGoing'
  <2>1. ASSUME NEW j \in 1..count
        PROVE  /\ state'[table[j]] = "unloading" <=> j = i
               /\ state'[table[j]] = "unloaded" => name[table[j]] = "freed"
    BY <1>0, <1>5, <1>6 DEF EntriesGoing
  <2>2. \A j \in 1..count : (\E t \in Scripts : pc'[t] = "unload" /\ at'[t] = j) <=> j = i
    BY <1>2, <1>5
  <2>3. \A j : ~Passed(j)'
    BY <1>2, <1>5 DEF Passed
  <2> QED
    BY <1>2, <2>1, <2>2, <2>3 DEF EntriesGoing
<1>14. UnloadAt'
  BY <1>0, <1>1, <1>2, <1>5 DEF UnloadAt
<1>15. Written'
  BY <1>0, <1>2, <1>5 DEF Written
<1>b. Balanced'
  <2>1. Gone' = Gone
    BY <1>1, <1>2, <1>4, <1>5 DEF Gone
  <2>2. Freed' = Freed
    <3>1. \A j : ~Passed(j)' /\ ~Passed(j)
      BY <1>2, <1>5 DEF Passed
    <3> QED
      BY <1>1, <1>2, <1>4, <1>5, <1>6, <3>1 DEF Freed
  <2> QED
    BY <1>0, <2>1, <2>2 DEF Balanced
<1> QED
  BY <1>b, <1>7, <1>8, <1>9, <1>10, <1>11, <1>12, <1>13, <1>14, <1>15 DEF TableParts

(* What counts the libraries and the entries is finite.                    *)
LEMMA CountedSets ==
  ASSUME TypeOK
  PROVE  IsFiniteSet(Gone) /\ IsFiniteSet(Freed)
<1>1. IsFiniteSet(1..MaxLoads) /\ IsFiniteSet(1..count)
  BY FS_Interval, NativeTableAssumption DEF TypeOK
<1>2. Gone \subseteq 1..MaxLoads /\ Freed \subseteq 1..count
  BY DEF Gone, Freed, Loads
<1> QED
  BY <1>1, <1>2, FS_Subset

LEMMA UnlinkKeeps ==
  ASSUME TypeOK, TypeOK', TableParts, NEW s \in Scripts, Unlink(s)
  PROVE  TableParts'
<1> USE DEF LoadPCs, TablePCs
<1>0. /\ OneInside /\ LoadsApart /\ BlockFits /\ EntriesApart /\ LoadedLive
      /\ CleanedOnce /\ EntriesGoing /\ UnloadAt /\ Written /\ Balanced /\ count \in Nat
  BY DEF TableParts, TypeOK
<1>1. /\ pc[s] = "unload" /\ at[s] \in 1..count /\ count >= 1 /\ count <= MaxLoads
      /\ alloc \in Nat /\ count <= alloc /\ alloc = size
      /\ \A t \in Scripts : t # s => pc[t] \notin TablePCs
  BY <1>0 DEF Unlink, UnloadAt, BlockFits, OneInside, TypeOK
<1>2. PICK i \in 1..count : i = at[s]
  BY <1>1
<1>3. Entry(i) = table[i] /\ table[i] \in Loads /\ table[i] # NoLoad
  <2>1. i \in Slots /\ i <= alloc
    BY <1>0, <1>1, NativeTableAssumption DEF Slots
  <2>2. table[i] \in Loads
    BY <1>0 DEF EntriesApart
  <2> QED
    BY <2>1, <2>2 DEF Entry, Loads, NoLoad
<1>4. (count + Word - 1) % Word = count - 1
  BY <1>0, <1>1, NativeTableAssumption DEF Word
<1>5. /\ count' = count - 1 /\ UNCHANGED <<table, cleaned, cur>>
      /\ IF count = 1 THEN alloc' = 0 /\ size' = 0 ELSE alloc' = alloc /\ size' = size
      /\ name' = [name EXCEPT ![table[i]] = "freed"]
      /\ mapped' = mapped \ {table[i]}
      /\ state' = [state EXCEPT ![table[i]] = "unloaded"]
  BY <1>1, <1>2, <1>3, <1>4 DEF Unlink
<1>6. /\ pc'[s] = "idle" /\ \A t \in Scripts : t # s => pc'[t] = pc[t]
      /\ state'[table[i]] = "unloaded" /\ name'[table[i]] = "freed"
      /\ \A q \in Loads : q # table[i] =>
           state'[q] = state[q] /\ name'[q] = name[q] /\ (q \in mapped' <=> q \in mapped)
  BY <1>3, <1>5 DEF Unlink, Goto, TypeOK
<1>7. \A t \in Scripts : pc'[t] \notin TablePCs
  BY <1>1, <1>6
<1>8. /\ \A j \in 1..count' : j \in 1..count /\ j # count
      /\ \A j \in 1..count : j # count => j \in 1..count'
  BY <1>0, <1>1, <1>5
<1>9. \A j \in 1..count : table[j] \in Loads /\ (j # i => table[j] # table[i])
  BY <1>0 DEF EntriesApart
<1>10. /\ state[table[i]] = "unloading"
       /\ \A j \in 1..count : j # i => state[table[j]] # "unloading"
  <2>1. \A j \in 1..count : (\E t \in Scripts : pc[t] = "unload" /\ at[t] = j) <=> j = i
    BY <1>1, <1>2
  <2> QED
    BY <1>0, <2>1 DEF EntriesGoing
<1>11. \A j : ~Passed(j)' /\ ~Passed(j)
  BY <1>1, <1>7 DEF Passed
<1>12. OneInside'
  BY <1>0, <1>7 DEF OneInside
<1>13. LoadsApart'
  BY <1>0, <1>3, <1>5, <1>6, <1>10 DEF LoadsApart
<1>14. BlockFits'
  BY <1>0, <1>1, <1>5, <1>7, NativeTableAssumption DEF BlockFits
<1>15. EntriesApart'
  <2>1. \A j \in 1..count : state'[table[j]] \in {"loaded", "unloading", "unloaded"}
    BY <1>0, <1>6, <1>9 DEF EntriesApart
  <2> QED
    BY <1>0, <1>5, <1>8, <2>1 DEF EntriesApart
<1>16. LoadedLive'
  BY <1>0, <1>6 DEF LoadedLive
<1>17. CleanedOnce'
  BY <1>0, <1>3, <1>5, <1>6, <1>10 DEF CleanedOnce
<1>18. EntriesGoing'
  <2>1. ASSUME NEW j \in 1..count
        PROVE  /\ state'[table[j]] # "unloading"
               /\ state'[table[j]] = "unloaded" => name'[table[j]] = "freed"
    BY <1>0, <1>6, <1>9, <1>10 DEF EntriesGoing
  <2> QED
    BY <1>5, <1>7, <1>8, <1>11, <2>1 DEF EntriesGoing
<1>19. UnloadAt'
  BY <1>7 DEF UnloadAt
<1>20. Written'
  BY <1>7 DEF Written
<1>a. /\ IsFiniteSet(Gone) /\ IsFiniteSet(Freed) /\ Cardinality(Gone) = Cardinality(Freed)
      /\ Cardinality(Freed) \in Nat
  BY <1>0, CountedSets, FS_CardinalityType DEF Balanced
<1>c. Freed' = (Freed \union {i}) \ {count}
  <2>1. ASSUME NEW j \in 1..count PROVE j \in Freed' <=> j # count /\ (j = i \/ j \in Freed)
    BY <1>5, <1>6, <1>8, <1>9, <1>11, <2>1 DEF Freed
  <2>2. Freed' \subseteq 1..count /\ Freed \subseteq 1..count
    BY <1>8 DEF Freed
  <2> QED
    BY <2>1, <2>2
<1>d. i \notin Freed /\ (count \in Freed <=> state[table[count]] = "unloaded")
  <2>1. count \in 1..count
    BY <1>0, <1>1
  <2> QED
    BY <1>10, <1>11, <2>1 DEF Freed
<1>e. ASSUME NEW q \in Loads
      PROVE  q \in Gone' <=> q \in Gone \/ (state[q] = "loaded" /\ q = table[count])
  <2>1. q \in Gone' <=> state[q] = "loaded" /\ \A j \in 1..count : j # count => table[j] # q
    BY <1>5, <1>6, <1>8, <1>10 DEF Gone
  <2>2. count \in 1..count
    BY <1>0, <1>1
  <2>3. \A j \in 1..count : table[j] = table[count] => j = count
    BY <1>0, <2>2 DEF EntriesApart
  <2> QED
    BY <2>1, <2>2, <2>3 DEF Gone
<1>f. Gone' \subseteq Loads /\ Gone \subseteq Loads
  BY DEF Gone
<1>b. Balanced'
  <2>1. CASE i = count
    <3>1. Gone' = Gone
      BY <1>10, <1>e, <1>f, <2>1
    <3>2. Freed' = Freed
      BY <1>c, <1>d, <2>1
    <3> QED
      BY <1>a, <3>1, <3>2 DEF Balanced
  <2>2. CASE i # count /\ state[table[count]] = "loaded"
    <3>1. Gone' = Gone \union {table[count]} /\ table[count] \notin Gone
      <4>1. count \in 1..count /\ table[count] \in Loads
        BY <1>0, <1>1, <1>9
      <4> QED
        BY <1>e, <1>f, <2>2, <4>1 DEF Gone
    <3>2. Freed' = Freed \union {i}
      BY <1>c, <1>d, <2>2
    <3>3. /\ Cardinality(Gone \union {table[count]}) = Cardinality(Gone) + 1
          /\ Cardinality(Freed \union {i}) = Cardinality(Freed) + 1
      BY <1>a, <1>d, <3>1, FS_AddElement
    <3> QED
      BY <1>a, <3>1, <3>2, <3>3 DEF Balanced
  <2>3. CASE i # count /\ state[table[count]] = "unloaded"
    <3>1. Gone' = Gone
      BY <1>e, <1>f, <2>3
    <3>2. Freed' = (Freed \ {count}) \union {i} /\ count \in Freed
      BY <1>c, <1>d, <2>3
    <3>3. /\ IsFiniteSet(Freed \ {count})
          /\ Cardinality(Freed \ {count}) = Cardinality(Freed) - 1
      BY <1>a, <3>2, FS_RemoveElement
    <3>4. Cardinality((Freed \ {count}) \union {i}) = Cardinality(Freed \ {count}) + 1
      BY <1>d, <3>3, FS_AddElement
    <3> QED
      BY <1>a, <3>1, <3>2, <3>3, <3>4 DEF Balanced
  <2>4. count \in 1..count /\ (i # count => state[table[count]] \in {"loaded", "unloaded"})
    BY <1>0, <1>1, <1>10 DEF EntriesApart
  <2> QED
    BY <2>1, <2>2, <2>3, <2>4
<1> QED
  BY <1>b, <1>12, <1>13, <1>14, <1>15, <1>16, <1>17, <1>18, <1>19, <1>20 DEF TableParts

LEMMA UnloadAllKeeps ==
  ASSUME TypeOK, TypeOK', TableParts, NEW s \in Scripts, UnloadAll(s), upset' = {}
  PROVE  TableParts'
<1> USE DEF LoadPCs, TablePCs
<1>0. /\ OneInside /\ LoadsApart /\ BlockFits /\ EntriesApart /\ LoadedLive
      /\ CleanedOnce /\ EntriesGoing /\ UnloadAt /\ Written /\ Balanced /\ count \in Nat
  BY DEF TableParts, TypeOK
<1>1. /\ pc[s] = "idle" /\ count \in Loads /\ count >= 1
      /\ UNCHANGED <<table, alloc, count, size, mapped, name, cur, cleaned, state>>
      /\ \A t \in Scripts : pc[t] \notin TablePCs
  BY NativeTableAssumption DEF UnloadAll, EnterTable, tableVars, loadVars, Loads
<1>2. /\ pc'[s] = "unloadAll" /\ at'[s] = 1
      /\ \A t \in Scripts : t # s => pc'[t] = pc[t] /\ at'[t] = at[t]
  BY DEF UnloadAll, Goto, TypeOK
<1>3. OneInside'
  BY <1>0, <1>1, <1>2 DEF OneInside
<1>4. LoadsApart'
  BY <1>0, <1>1, <1>2 DEF LoadsApart
<1>5. BlockFits'
  BY <1>0, <1>1, <1>2 DEF BlockFits
<1>6. EntriesApart'
  BY <1>0, <1>1, <1>2 DEF EntriesApart
<1>7. LoadedLive'
  BY <1>0, <1>1, <1>2 DEF LoadedLive
<1>8. CleanedOnce'
  BY <1>0, <1>1, <1>2 DEF CleanedOnce
<1>9. EntriesGoing'
  BY <1>0, <1>1, <1>2 DEF EntriesGoing, EntriesApart, Passed
<1>10. UnloadAt'
  BY <1>0, <1>1, <1>2 DEF UnloadAt
<1>11. Written'
  BY <1>0, <1>1, <1>2 DEF Written
<1>b. Balanced'
  <2>1. Gone' = Gone
    BY <1>0, <1>1, <1>2 DEF Gone, EntriesApart
  <2>2. Freed' = Freed
    BY <1>0, <1>1, <1>2 DEF Freed, EntriesApart, Passed
  <2> QED
    BY <1>0, <2>1, <2>2 DEF Balanced
<1> QED
  BY <1>b, <1>3, <1>4, <1>5, <1>6, <1>7, <1>8, <1>9, <1>10, <1>11 DEF TableParts

LEMMA CleanNextKeeps ==
  ASSUME TypeOK, TypeOK', TableParts, NEW s \in Scripts, CleanNext(s), upset' = {}
  PROVE  TableParts'
<1> USE DEF LoadPCs, TablePCs
<1>0. /\ OneInside /\ LoadsApart /\ BlockFits /\ EntriesApart /\ LoadedLive
      /\ CleanedOnce /\ EntriesGoing /\ UnloadAt /\ Written /\ Balanced /\ count \in Nat
  BY DEF TableParts, TypeOK
<1>1. /\ pc[s] = "unloadAll" /\ at[s] \in 1..count /\ at[s] <= alloc /\ count <= MaxLoads
      /\ \A t \in Scripts : t # s => pc[t] \notin TablePCs
  BY <1>0 DEF CleanNext, UnloadAt, BlockFits, OneInside, TypeOK
<1>2. Entry(at[s]) = table[at[s]] /\ table[at[s]] \in Loads
  BY <1>0, <1>1, NativeTableAssumption DEF Entry, EntriesApart, Slots, Loads
<1>3. table[at[s]] # NoLoad
  BY <1>2 DEF Loads, NoLoad
<1>4. state[table[at[s]]] = "loaded" /\ cleaned[table[at[s]]] = 0
  <2>1. state[table[at[s]]] # "unloading"
    BY <1>0, <1>1 DEF EntriesGoing
  <2>2. Again(at[s]) = {}
    BY DEF CleanNext
  <2>3. name[table[at[s]]] # "freed"
    BY <1>2, <1>3, <2>2 DEF Again, Dangling
  <2>4. state[table[at[s]]] # "unloaded"
    BY <1>0, <1>1, <2>3 DEF EntriesGoing
  <2> QED
    BY <1>0, <1>1, <1>2, <2>1, <2>4 DEF EntriesApart, CleanedOnce
<1>5. /\ UNCHANGED <<table, alloc, count, size, cur, pc, mapped>>
      /\ at' = [at EXCEPT ![s] = @ + 1]
      /\ cleaned' = [cleaned EXCEPT ![table[at[s]]] = @ + 1]
      /\ name' = [name EXCEPT ![table[at[s]]] = "freed"]
      /\ state' = [state EXCEPT ![table[at[s]]] = "unloaded"]
  BY <1>2, <1>3 DEF CleanNext, Run, tableVars
<1>6. /\ at'[s] = at[s] + 1
      /\ \A t \in Scripts : t # s => at'[t] = at[t]
      /\ state'[table[at[s]]] = "unloaded" /\ cleaned'[table[at[s]]] = 1
      /\ \A q \in Loads : q # table[at[s]] =>
           state'[q] = state[q] /\ name'[q] = name[q] /\ cleaned'[q] = cleaned[q]
  BY <1>2, <1>4, <1>5 DEF TypeOK
<1>7. OneInside'
  BY <1>0, <1>1, <1>2, <1>4, <1>5, <1>6 DEF OneInside
<1>8. LoadsApart'
  BY <1>0, <1>1, <1>2, <1>4, <1>5, <1>6 DEF LoadsApart
<1>9. BlockFits'
  BY <1>0, <1>1, <1>2, <1>4, <1>5, <1>6 DEF BlockFits
<1>10. EntriesApart'
  BY <1>0, <1>1, <1>2, <1>4, <1>5, <1>6 DEF EntriesApart
<1>11. LoadedLive'
  BY <1>0, <1>1, <1>2, <1>4, <1>5, <1>6 DEF LoadedLive
<1>12. CleanedOnce'
  BY <1>0, <1>1, <1>2, <1>4, <1>5, <1>6 DEF CleanedOnce
<1>13. \A i \in 1..count : /\ table[i] \in Loads /\ (i # at[s] => table[i] # table[at[s]])
                           /\ state[table[i]] # "unloading"
  <2>1. \A i \in 1..count : table[i] \in Loads /\ (i # at[s] => table[i] # table[at[s]])
    BY <1>0, <1>1 DEF EntriesApart
  <2>2. \A i \in 1..count : state[table[i]] # "unloading"
    BY <1>0, <1>1 DEF EntriesGoing
  <2> QED
    BY <2>1, <2>2
<1>16. \A i \in 1..count : Passed(i)' <=> Passed(i) \/ i = at[s]
  <2>1. \A i \in 1..count : Passed(i) <=> i < at[s]
    BY <1>1 DEF Passed
  <2>2. \A i \in 1..count : Passed(i)' <=> i < at[s] + 1
    BY <1>1, <1>5, <1>6 DEF Passed
  <2> QED
    BY <1>1, <2>1, <2>2
<1>17. EntriesGoing'
  <2>1. ASSUME NEW i \in 1..count
        PROVE  /\ state'[table[i]] # "unloading"
               /\ Passed(i)' => state'[table[i]] = "unloaded"
               /\ state'[table[i]] = "unloaded" => name'[table[i]] = "freed"
    <3>1. CASE i = at[s]
      <4>1. name'[table[i]] = "freed"
        BY <1>2, <1>5, <3>1 DEF TypeOK
      <4> QED
        BY <1>6, <3>1, <4>1
    <3>2. CASE i # at[s]
      <4>1. /\ state'[table[i]] = state[table[i]] /\ name'[table[i]] = name[table[i]]
            /\ Passed(i)' <=> Passed(i)
        BY <1>6, <1>13, <1>16, <3>2
      <4> QED
        BY <1>0, <1>13, <4>1 DEF EntriesGoing
    <3> QED
      BY <3>1, <3>2
  <2> QED
    BY <1>1, <1>5, <2>1 DEF EntriesGoing
<1>14. UnloadAt'
  BY <1>0, <1>1, <1>2, <1>4, <1>5, <1>6 DEF UnloadAt
<1>15. Written'
  BY <1>0, <1>1, <1>2, <1>4, <1>5, <1>6 DEF Written
<1>b. Balanced'
  <2>1. Gone' = Gone
    BY <1>1, <1>4, <1>5, <1>6 DEF Gone
  <2>2. Freed' = Freed
    <3>1. ASSUME NEW i \in 1..count PROVE i \in Freed' <=> i \in Freed
      <4>1. CASE i = at[s]
        BY <1>4, <1>5, <1>16, <4>1 DEF Freed
      <4>2. CASE i # at[s]
        BY <1>5, <1>6, <1>13, <1>16, <4>2 DEF Freed
      <4> QED
        BY <4>1, <4>2
    <3>2. Freed' \subseteq 1..count /\ Freed \subseteq 1..count
      BY <1>5 DEF Freed
    <3> QED
      BY <3>1, <3>2
  <2> QED
    BY <1>0, <2>1, <2>2 DEF Balanced
<1> QED
  BY <1>b, <1>7, <1>8, <1>9, <1>10, <1>11, <1>12, <1>14, <1>15, <1>17 DEF TableParts

LEMMA GiveTableBackKeeps ==
  ASSUME TypeOK, TypeOK', TableParts, NEW s \in Scripts, GiveTableBack(s)
  PROVE  TableParts'
<1> USE DEF LoadPCs, TablePCs
<1>0. /\ OneInside /\ LoadsApart /\ BlockFits /\ EntriesApart /\ LoadedLive
      /\ CleanedOnce /\ EntriesGoing /\ UnloadAt /\ Written /\ Balanced /\ count \in Nat
  BY DEF TableParts, TypeOK
<1>1. /\ pc[s] = "unloadAll" /\ at[s] > count /\ count' = 0 /\ alloc' = 0
      /\ UNCHANGED <<table, size, cleaned, cur, name, mapped, state>>
      /\ pc'[s] = "idle" /\ \A t \in Scripts : t # s => pc'[t] = pc[t]
  BY DEF GiveTableBack, Goto, loadVars, TypeOK
<1>2. \A t \in Scripts : pc'[t] \notin TablePCs
  BY <1>0, <1>1 DEF OneInside
<1>3. \A i \in 1..count : Passed(i) /\ state[table[i]] = "unloaded"
  <2>1. \A i \in 1..count : Passed(i)
    BY <1>0, <1>1 DEF Passed, TypeOK
  <2> QED
    BY <1>0, <2>1 DEF EntriesGoing
<1>a. Gone = {} /\ Freed = {}
  <2>1. Freed = {}
    BY <1>3 DEF Freed
  <2>2. Cardinality(Freed) = 0
    BY <2>1, FS_EmptySet
  <2>3. Cardinality(Gone) = 0 /\ IsFiniteSet(Gone)
    BY <1>0, <2>2, CountedSets DEF Balanced
  <2> QED
    BY <2>1, <2>3, FS_EmptySet
<1>c. \A r \in Loads : state[r] # "loaded"
  BY <1>3, <1>a DEF Gone
<1>4. OneInside'
  BY <1>0, <1>1, <1>2 DEF OneInside
<1>5. LoadsApart'
  BY <1>0, <1>1, <1>2 DEF LoadsApart
<1>6. BlockFits'
  BY <1>0, <1>1, <1>2, NativeTableAssumption DEF BlockFits
<1>7. EntriesApart'
  BY <1>0, <1>1, <1>2 DEF EntriesApart
<1>8. LoadedLive'
  BY <1>1, <1>c DEF LoadedLive
<1>9. CleanedOnce'
  BY <1>0, <1>1, <1>2 DEF CleanedOnce
<1>10. EntriesGoing'
  BY <1>0, <1>1, <1>2 DEF EntriesGoing, Passed
<1>11. UnloadAt'
  BY <1>0, <1>1, <1>2 DEF UnloadAt
<1>12. Written'
  BY <1>0, <1>1, <1>2 DEF Written
<1>b. Balanced'
  <2>1. Gone' = {} /\ Freed' = {}
    BY <1>1, <1>c DEF Gone, Freed
  <2> QED
    BY <2>1 DEF Balanced
<1> QED
  BY <1>b, <1>4, <1>5, <1>6, <1>7, <1>8, <1>9, <1>10, <1>11, <1>12 DEF TableParts
-----------------------------------------------------------------------------
LEMMA TableStep == TableInv /\ TypeOK' /\ [Next]_vars => TableInv'
<1> SUFFICES ASSUME TableInv, TypeOK', [Next]_vars, upset' = {}
             PROVE  TableParts'
  BY DEF TableInv
<1>0. TypeOK
  BY DEF TableInv
<1>1. upset = {}
  BY DEF Next, vars, histVars, OpenLibrary, SuspendForInit, InitFails, InitReturns,
         Reserve, Store, Raise, FindAndClean, Unlink, UnloadAll, CleanNext,
         GiveTableBack
<1>2. TableParts
  BY <1>1 DEF TableInv
<1>3. CASE \E s \in Scripts :
             \/ OpenLibrary(s) \/ SuspendForInit(s) \/ InitFails(s) \/ InitReturns(s)
             \/ Reserve(s) \/ Store(s) \/ Raise(s)
  BY <1>0, <1>2, <1>3, OpenLibraryKeeps, SuspendForInitKeeps, InitFailsKeeps,
     InitReturnsKeeps, ReserveKeeps, StoreKeeps, RaiseKeeps
<1>4. CASE \E s \in Scripts :
             \/ FindAndClean(s) \/ Unlink(s)
             \/ UnloadAll(s) \/ CleanNext(s) \/ GiveTableBack(s)
  BY <1>0, <1>2, <1>4, FindAndCleanKeeps, UnlinkKeeps, UnloadAllKeeps, CleanNextKeeps,
     GiveTableBackKeeps
<1>5. CASE UNCHANGED vars
  BY <1>2, <1>5
     DEF vars, tableVars, loadVars, scriptVars, TableParts, OneInside, LoadsApart,
         BlockFits, EntriesApart, LoadedLive, CleanedOnce, EntriesGoing, UnloadAt, Written,
         Balanced, Gone, Freed, Passed
<1> QED
  BY <1>3, <1>4, <1>5 DEF Next

(* The invariant says what the entries in use stand for.                   *)
LEMMA TableInvGives == TableInv => TableIsExact
<1> SUFFICES ASSUME TypeOK, TableParts PROVE TableIsExact
  BY DEF TableInv, TableIsExact, Orderly
<1> USE NativeTableAssumption DEF Loads, NoLoad
<1>0. BlockFits /\ EntriesApart /\ LoadedLive /\ CleanedOnce /\ Balanced
  BY DEF TableParts
<1>1. count <= alloc
  BY <1>0 DEF BlockFits
<1>2. \A i \in 1..count : Entry(i) = table[i] /\ table[i] \in Loads
  BY <1>0 DEF Entry, BlockFits, EntriesApart, TypeOK, Slots
<1>3. \A i \in 1..count :
        Entry(i) # NoLoad /\ \A j \in 1..count : Entry(i) = Entry(j) => i = j
  BY <1>0, <1>2 DEF EntriesApart
<1>4. Unlisted = Gone /\ Stale = Freed
  BY <1>2 DEF Unlisted, Gone, Stale, Freed
<1> QED
  BY <1>0, <1>1, <1>3, <1>4 DEF TableIsExact, CleanedOnce, LoadedLive, Balanced

(* Until two scripts use the table at once or a freed entry is cleaned up  *)
(* again, each entry is of a load of its own, each load is cleaned up once,*)
(* and as many libraries have dropped out as freed entries have stayed.    *)
THEOREM TableIsExactAlways == Spec => []TableIsExact
<1>1. Init => TableInv
  BY InitTable
<1>2. TableInv /\ TypeOK' /\ [Next]_vars => TableInv'
  BY TableStep
<1>3. TableInv => TableIsExact
  BY TableInvGives
<1> QED
  BY <1>1, <1>2, <1>3, TypeCorrect, PTL DEF Spec
-----------------------------------------------------------------------------
(* The characters of a signed file.                                        *)
Symbols == Chars \union {"SIG"}

LEMMA SpaceIs == "SPACE" \in Symbols /\ "SPACE" \in Blank /\ "SPACE" # NUL
BY DEF Symbols, Chars, Blank, NUL

LEMMA BlockIs ==
  /\ Block \in Seq(Symbols) /\ Len(Block) = 12
  /\ Block[1] = "SPACE" /\ Block[2] = "\n" /\ Block[3] = "/" /\ Block[4] = "*"
  /\ Block[5] = "SIG" /\ Block[6] = "SPACE" /\ Block[7] = "\n" /\ Block[8] = "SIG"
  /\ Block[9] = "*" /\ Block[10] = "/" /\ Block[11] = "SPACE" /\ Block[12] = "\n"
<1> DEFINE front == StopString
           back == <<"SIG", "*", "/", "SPACE", "\n">>
<1>1. /\ front \in Seq(Symbols) /\ Len(front) = 7
      /\ front[1] = "SPACE" /\ front[2] = "\n" /\ front[3] = "/" /\ front[4] = "*" /\ front[5] = "SIG"
      /\ front[6] = "SPACE" /\ front[7] = "\n"
  BY DEF StopString, Symbols, Chars, Blank
<1>2. /\ back \in Seq(Symbols) /\ Len(back) = 5
      /\ back[1] = "SIG" /\ back[2] = "*" /\ back[3] = "/" /\ back[4] = "SPACE" /\ back[5] = "\n"
  BY DEF Symbols, Chars, Blank
<1>3. Block = front \o back
  BY DEF Block
<1> HIDE DEF front, back
<1>4. /\ front \o back \in Seq(Symbols) /\ Len(front \o back) = Len(front) + Len(back)
      /\ \A i \in 1..Len(front) : (front \o back)[i] = front[i]
      /\ \A i \in 1..Len(back) : (front \o back)[Len(front) + i] = back[i]
  <2>1. front \in Seq(Symbols) /\ back \in Seq(Symbols)
    BY <1>1, <1>2
  <2> QED
    BY ONLY <2>1
<1>5. Block \in Seq(Symbols) /\ Len(Block) = 12
  BY <1>1, <1>2, <1>3, <1>4
<1>6. \A i \in 1..7 : Block[i] = front[i]
  BY <1>1, <1>3, <1>4, Zenon
<1>7. \A i \in 1..5 : Block[7 + i] = back[i]
  BY <1>1, <1>2, <1>3, <1>4, Zenon
<1>8. /\ Block[8] = "SIG" /\ Block[9] = "*" /\ Block[10] = "/"
      /\ Block[11] = "SPACE" /\ Block[12] = "\n"
  BY <1>2, <1>7
<1> QED
  BY <1>1, <1>5, <1>6, <1>8

LEMMA Modulus ==
  ASSUME NEW L \in Nat, NEW B \in Nat \ {0}
  PROVE  L % B = B - 1 <=> (L + 1) % B = 0
<1> DEFINE q == L \div B  r == L % B  p == (L + 1) \div B  s == (L + 1) % B
<1>1. /\ q \in Int /\ r \in 0..(B - 1) /\ L = B * q + r
  OBVIOUS
<1>2. /\ p \in Int /\ s \in 0..(B - 1) /\ L + 1 = B * p + s
  OBVIOUS
<1> HIDE DEF p, q, r, s
<1>3. B * p + s = B * q + r + 1
  BY <1>1, <1>2
<1>4. B * p = B * q + (r + 1 - s)
  BY ONLY <1>1, <1>2, <1>3, B \in Nat
<1>5. B * (p - q) = r + 1 - s
  BY ONLY <1>1, <1>2, <1>4, B \in Nat
<1>6. CASE p = q
  BY <1>1, <1>2, <1>3, <1>6
<1>7. CASE p = q + 1
  BY <1>1, <1>2, <1>5, <1>7
<1>8. CASE p >= q + 2
  <2>1. B * (p - q) >= B * 2
    BY ONLY <1>1, <1>2, <1>8, B \in Nat \ {0}
  <2> QED
    BY <1>1, <1>2, <1>5, <2>1
<1>9. CASE p < q
  <2>1. B * (p - q) <= B * (-1)
    BY ONLY <1>1, <1>2, <1>9, B \in Nat \ {0}
  <2> QED
    BY <1>1, <1>2, <1>5, <2>1
<1> QED
  BY <1>1, <1>2, <1>6, <1>7, <1>8, <1>9 DEF r, s

(* A set of numbers that is not empty has a least element.                 *)
LEMMA LeastOf ==
  ASSUME NEW S \in SUBSET Nat, S # {}
  PROVE  \E k \in S : \A j \in S : k <= j
<1>1. \E k \in S : \A j \in S : ~ (<<j, k>> \in OpToRel(<, Nat))
  BY NatLessThanWellFounded, WFMin, Zenon
<1>2. PICK k \in S : \A j \in S : ~ (<<j, k>> \in OpToRel(<, Nat))
  BY <1>1
<1>3. ASSUME NEW j \in S PROVE k <= j
  <2>1. <<j, k>> \notin OpToRel(<, Nat)
    BY <1>2
  <2>2. j \in Nat /\ k \in Nat
    BY <1>2
  <2>3. ~ (j < k)
    BY <2>1, <2>2 DEF OpToRel
  <2> QED
    BY <2>2, <2>3
<1> QED
  BY <1>3

(* A set of numbers that counts up from 0 has them all.                    *)
LEMMA Counting ==
  ASSUME NEW S, 0 \in S, \A n \in Nat : n \in S => n + 1 \in S
  PROVE  \A n \in Nat : n \in S
<1> DEFINE T == {n \in Nat : n \notin S}
<1> SUFFICES ASSUME T # {} PROVE FALSE
  OBVIOUS
<1>1. PICK k \in T : \A j \in T : k <= j
  <2>1. T \in SUBSET Nat
    OBVIOUS
  <2> HIDE DEF T
  <2> QED
    BY <2>1, LeastOf
<1>2. k \in Nat /\ k # 0 /\ k \notin S
  BY <1>1
<1>3. k - 1 \in Nat /\ (k - 1) + 1 = k /\ ~(k <= k - 1)
  BY <1>2
<1>4. k - 1 \in T
  BY <1>2, <1>3
<1> QED
  BY <1>1, <1>3, <1>4

LEMMA FirstIs ==
  ASSUME NEW S \in SUBSET Nat
  PROVE  /\ S = {} => First(S) = 0
         /\ S # {} => First(S) \in S /\ \A j \in S : First(S) <= j
BY LeastOf DEF First

(* What a file has at its positions, and what At reads.                    *)
LEMMA FileIs ==
  ASSUME NEW c \in Seq(Chars), NEW d, d = c \o Block
  PROVE  /\ d \in Seq(Symbols) /\ Len(c) \in Nat /\ Len(d) = Len(c) + 12
         /\ \A i \in 1..Len(c) : d[i] = c[i] /\ c[i] \in Chars
         /\ \A i \in 1..12 : d[Len(c) + i] = Block[i]
<1>1. c \in Seq(Symbols) /\ Block \in Seq(Symbols)
  BY BlockIs DEF Symbols
<1>2. /\ c \o Block \in Seq(Symbols) /\ Len(c \o Block) = Len(c) + Len(Block)
      /\ \A i \in 1..Len(c) : (c \o Block)[i] = c[i]
      /\ \A i \in 1..Len(Block) : (c \o Block)[Len(c) + i] = Block[i]
  BY ONLY <1>1
<1>3. Len(c) \in Nat /\ Len(Block) = 12 /\ \A i \in 1..Len(c) : c[i] \in Chars
  BY BlockIs
<1> HIDE DEF Symbols
<1>4. d \in Seq(Symbols) /\ Len(d) = Len(c) + 12
  BY <1>2, <1>3
<1>5. \A i \in 1..Len(c) : d[i] = c[i]
  BY <1>2, Zenon
<1>6. \A i \in 1..12 : d[Len(c) + i] = Block[i]
  BY <1>2, <1>3, Zenon
<1> QED
  BY <1>3, <1>4, <1>5, <1>6

(* Neither a script nor a signed file has the text that stops the scan.    *)
LEMMA TextsGoOn ==
  ASSUME NEW c \in Seq(Chars), NEW i \in 1..Len(c)
  PROVE  ~Stops(c, i)
<1> SUFFICES ASSUME Stops(c, i) PROVE FALSE
  OBVIOUS
<1>1. SubSeq(c, i, Len(c)) \in Seq(Chars)
  OBVIOUS
<1>2. StopString \in Seq(Chars)
  BY <1>1 DEF Stops
<1>3. Len(StopString) = 7 /\ StopString[5] = "SIG"
  BY DEF StopString
<1>4. StopString[5] \in Chars
  <2>1. 5 \in 1..Len(StopString)
    BY <1>3
  <2>2. \A s \in Seq(Chars) : \A k \in 1..Len(s) : s[k] \in Chars
    OBVIOUS
  <2> QED
    BY <1>2, <2>1, <2>2, Zenon
<1> QED
  BY <1>3, <1>4 DEF Chars, Blank

LEMMA FilesGoOn ==
  ASSUME NEW c \in Seq(Chars), NEW d, d = c \o Block, NEW i \in 1..Len(d)
  PROVE  ~Stops(d, i)
<1> SUFFICES ASSUME Stops(d, i) PROVE FALSE
  OBVIOUS
<1>1. /\ d \in Seq(Symbols) /\ Len(c) \in Nat /\ Len(d) = Len(c) + 12
      /\ d[Len(c) + 8] = "SIG"
  <2>1. 8 \in 1..12 /\ Block[8] = "SIG"
    BY BlockIs
  <2>2. \A k \in 1..12 : d[Len(c) + k] = Block[k]
    BY FileIs
  <2>3. d[Len(c) + 8] = "SIG"
    BY <2>1, <2>2
  <2>4. d \in Seq(Symbols) /\ Len(c) \in Nat /\ Len(d) = Len(c) + 12
    BY FileIs
  <2> QED
    BY <2>3, <2>4
<1>2. Len(StopString) = 7 /\ StopString[3] = "/"
  BY DEF StopString
<1>3. /\ Len(SubSeq(d, i, Len(d))) = Len(d) - i + 1
      /\ \A j \in 1..(Len(d) - i + 1) : SubSeq(d, i, Len(d))[j] = d[i + j - 1]
  BY <1>1
<1>4. Len(d) - i + 1 = 7 /\ SubSeq(d, i, Len(d))[3] = "/"
  BY <1>2, <1>3 DEF Stops
<1>5. 3 \in 1..(Len(d) - i + 1) /\ i + 3 - 1 = Len(c) + 8
  BY <1>1, <1>4
<1>6. d[i + 3 - 1] = "/"
  BY <1>3, <1>4, <1>5
<1> QED
  BY <1>1, <1>5, <1>6

(* The scan, from each of its rounds to the next.                          *)
IsScan(c, scan) ==
  scan = [n \in 0..Len(c) |-> IF n = 0 THEN ScanStart ELSE Onward(c, scan[n - 1])]

LEMMA RoundsIsScan ==
  ASSUME NEW c, Len(c) \in Nat
  PROVE  IsScan(c, Rounds(c))
<1> DEFINE L == Len(c)
           At0(f, n) == IF n = 0 THEN ScanStart ELSE Onward(c, f[n - 1])
           Right(f, n) == \A i \in 0..L : i < n => f[i] = At0(f, i)
           Ok(n) == \E f : f = [i \in 0..L |-> f[i]] /\ Right(f, n)
           S == {n \in Nat : Ok(n)}
<1>1. 0 \in S
  <2> DEFINE f == [i \in 0..L |-> 0]
  <2>1. f = [i \in 0..L |-> f[i]]
    OBVIOUS
  <2>2. Right(f, 0)
    OBVIOUS
  <2> QED
    BY <2>1, <2>2
<1>2. ASSUME NEW n \in Nat, Ok(n)
      PROVE  Ok(n + 1)
  <2>1. PICK f : f = [i \in 0..L |-> f[i]] /\ Right(f, n)
    BY <1>2
  <2> DEFINE g == [i \in 0..L |-> At0(f, i)]
  <2>2. g = [i \in 0..L |-> g[i]]
    OBVIOUS
  <2>3. ASSUME NEW i \in 0..L, i < n + 1
        PROVE  g[i] = At0(g, i)
    <3>1. g[i] = At0(f, i)
      OBVIOUS
    <3>2. CASE i = 0
      BY <3>1, <3>2
    <3>3. CASE i # 0
      <4>1. i - 1 \in 0..L /\ i - 1 < n
        BY <2>3, <3>3
      <4>2. g[i - 1] = f[i - 1]
        BY <2>1, <4>1
      <4> HIDE DEF g
      <4> QED
        BY <3>1, <4>2, Zenon
    <3> QED
      BY <3>2, <3>3
  <2> QED
    BY <2>2, <2>3
<1>3. \A n \in Nat : n \in S
  <2>1. \A n \in Nat : n \in S => n + 1 \in S
    <3> HIDE DEF Ok
    <3> QED
      BY <1>2
  <2> HIDE DEF S
  <2> QED
    BY <1>1, <2>1, Counting
<1>4. Ok(L + 1)
  <2>1. L + 1 \in Nat
    OBVIOUS
  <2> HIDE DEF Ok
  <2> QED
    BY <1>3, <2>1
<1>5. PICK f : f = [i \in 0..L |-> f[i]] /\ Right(f, L + 1)
  BY <1>4
<1>6. \A i \in 0..L : f[i] = At0(f, i)
  BY <1>5
<1>7. IsScan(c, f)
  BY <1>5, <1>6 DEF IsScan
<1>8. Rounds(c) = CHOOSE scan : IsScan(c, scan)
  BY DEF Rounds, IsScan
<1> QED
  BY <1>7, <1>8

LEMMA RoundsGoOn ==
  ASSUME NEW c, Len(c) \in Nat
  PROVE  /\ Rounds(c)[0] = ScanStart
         /\ \A n \in 1..Len(c) : Rounds(c)[n] = Onward(c, Rounds(c)[n - 1])
<1>1. PICK scan : scan = Rounds(c)
  OBVIOUS
<1>2. IsScan(c, scan)
  BY <1>1, RoundsIsScan, Zenon
<1>3. scan[0] = ScanStart /\ \A n \in 1..Len(c) : scan[n] = Onward(c, scan[n - 1])
  BY <1>2 DEF IsScan
<1> QED
  BY <1>1, <1>3, Zenon

-----------------------------------------------------------------------------
(* The loop of the scan, which takes at least a character in every round.  *)
Scans ==
  [i : Nat \ {0}, quotes : {"none", "double", "single", "beyond"}, white : BOOLEAN,
   out : Seq(Symbols)]

(* What it put last is a blank when it says so.                            *)
WhiteLast(s) == s.white <=> s.out # <<>> /\ Last(s.out) = "SPACE"

LEMMA CommentBounds ==
  ASSUME NEW c \in Seq(Symbols), NEW i \in 1..Len(c)
  PROVE  AfterComment(c, i) \in {0} \union i..(Len(c) + 1)
<1> DEFINE L == LineEnds(c, i)  C == CommentEnds(c, i)
<1>1. L \subseteq i..Len(c) /\ L \in SUBSET Nat
  BY DEF LineEnds
<1>2. C \subseteq i..Len(c) /\ C \in SUBSET Nat /\ \A k \in C : k + 1 <= Len(c)
  <2>1. ASSUME NEW k \in C PROVE k + 1 <= Len(c)
    <3>1. At(c, k + 1) = "/" /\ k \in Nat
      BY DEF CommentEnds
    <3> QED
      BY <3>1 DEF At, NUL
  <2> QED
    BY <2>1 DEF CommentEnds
<1> HIDE DEF L, C
<1>3. First(L) \in {0} \union i..Len(c)
  BY <1>1, FirstIs
<1>4. First(C) = 0 \/ First(C) \in i..(Len(c) - 1)
  <2>1. First(C) = 0 \/ First(C) \in C
    BY <1>2, FirstIs
  <2>2. ASSUME NEW k \in C PROVE k \in i..(Len(c) - 1)
    <3>1. k \in i..Len(c) /\ k + 1 <= Len(c) /\ Len(c) \in Nat
      BY <1>2
    <3> QED
      BY ONLY <3>1, i \in 1..Len(c)
  <2> QED
    BY <2>1, <2>2
<1> QED
  BY <1>3, <1>4 DEF AfterComment, L, C

LEMMA PutIn ==
  ASSUME NEW s \in Scans, NEW ch \in Symbols \union {NUL}, WhiteLast(s)
  PROVE  Put(s, ch) \in Scans /\ WhiteLast(Put(s, ch))
<1>1. CASE ch = NUL \/ (ch \in Blank /\ s.white)
  BY <1>1 DEF Put
<1>2. CASE ch # NUL /\ ch \in Blank /\ ~s.white
  <2> DEFINE o == Append(s.out, "SPACE")
  <2>1. o \in Seq(Symbols) /\ o # <<>> /\ Last(o) = "SPACE"
    <3>1. s.out \in Seq(Symbols) /\ "SPACE" \in Symbols
      BY DEF Scans, Symbols, Chars, Blank
    <3> HIDE DEF Symbols
    <3> QED
      BY <3>1 DEF Last
  <2>2. Put(s, ch) = [s EXCEPT !.white = TRUE, !.out = o]
    BY <1>2 DEF Put
  <2> HIDE DEF o
  <2>3. Put(s, ch) = [i |-> s.i, quotes |-> s.quotes, white |-> TRUE, out |-> o]
    BY <2>2 DEF Scans
  <2> QED
    BY <2>1, <2>3 DEF Scans, WhiteLast
<1>3. CASE ch # NUL /\ ch \notin Blank
  <2> DEFINE o == Append(s.out, ch)
  <2>1. o \in Seq(Symbols) /\ o # <<>> /\ Last(o) = ch
    BY <1>3 DEF Scans, Last
  <2>2. Put(s, ch) = [s EXCEPT !.white = FALSE, !.out = o]
    BY <1>3 DEF Put
  <2> HIDE DEF o
  <2>3. Put(s, ch) = [i |-> s.i, quotes |-> s.quotes, white |-> FALSE, out |-> o]
    BY <2>2 DEF Scans
  <2>4. ch # "SPACE"
    BY <1>3 DEF Blank
  <2> QED
    BY <2>1, <2>3, <2>4 DEF Scans, WhiteLast
<1> QED
  BY <1>1, <1>2, <1>3

(* What is put does not depend on the position, and does not change it.    *)
MovedTo(s, j, q) == [s EXCEPT !.i = j, !.quotes = q]

LEMMA PutElsewhere ==
  ASSUME NEW s \in Scans, NEW ch \in Symbols \union {NUL}, NEW j \in Nat \ {0},
         NEW q \in {"none", "double", "single", "beyond"}, WhiteLast(s)
  PROVE  Put(MovedTo(s, j, q), ch) = MovedTo(Put(s, ch), j, q)
<1>1. PICK t : t = [s EXCEPT !.i = j, !.quotes = q]
  OBVIOUS
<1>2. t = [i |-> j, quotes |-> q, white |-> s.white, out |-> s.out]
  BY <1>1 DEF Scans
<1>3. t.white = s.white /\ t.out = s.out
  BY <1>2
<1>4. PICK v : v = [Put(s, ch) EXCEPT !.i = j, !.quotes = q]
  OBVIOUS
<1>5. v = [i |-> j, quotes |-> q, white |-> Put(s, ch).white, out |-> Put(s, ch).out]
  <2>1. PICK p : p = Put(s, ch)
    OBVIOUS
  <2>2. p \in Scans /\ v = [p EXCEPT !.i = j, !.quotes = q]
    BY <1>4, <2>1, PutIn, Zenon
  <2>3. v = [i |-> j, quotes |-> q, white |-> p.white, out |-> p.out]
    BY <2>2 DEF Scans
  <2> QED
    BY <2>1, <2>3, Zenon
<1> SUFFICES Put(t, ch) = v
  BY <1>1, <1>4, Zenon DEF MovedTo
<1>6. CASE ch = NUL \/ (ch \in Blank /\ s.white)
  <2>1. ch = NUL \/ (ch \in Blank /\ t.white)
    BY <1>3, <1>6, Zenon
  <2>2. Put(s, ch) = s /\ Put(t, ch) = t
    BY <1>6, <2>1, Zenon DEF Put
  <2> QED
    BY <1>1, <1>4, <2>2, Zenon
<1>7. CASE ch # NUL /\ ch \in Blank /\ ~s.white
  <2> DEFINE o == Append(s.out, "SPACE")
  <2>1. ~t.white
    BY <1>3, <1>7, Zenon
  <2>2. Put(s, ch) = [s EXCEPT !.white = TRUE, !.out = o]
    BY <1>7 DEF Put
  <2>3. Put(t, ch) = [t EXCEPT !.white = TRUE, !.out = o]
    BY <1>3, <1>7, <2>1 DEF Put
  <2> HIDE DEF o
  <2>4. Put(s, ch) = [i |-> s.i, quotes |-> s.quotes, white |-> TRUE, out |-> o]
    BY <2>2 DEF Scans
  <2>5. Put(t, ch) = [i |-> j, quotes |-> q, white |-> TRUE, out |-> o]
    BY <1>2, <2>3
  <2>6. Put(s, ch).white = TRUE /\ Put(s, ch).out = o
    BY <2>4
  <2> QED
    BY <1>5, <2>5, <2>6, Zenon
<1>8. CASE ch # NUL /\ ch \notin Blank
  <2> DEFINE o == Append(s.out, ch)
  <2>1. Put(s, ch) = [s EXCEPT !.white = FALSE, !.out = o]
    BY <1>8 DEF Put
  <2>2. Put(t, ch) = [t EXCEPT !.white = FALSE, !.out = o]
    BY <1>3, <1>8 DEF Put
  <2> HIDE DEF o
  <2>3. Put(s, ch) = [i |-> s.i, quotes |-> s.quotes, white |-> FALSE, out |-> o]
    BY <2>1 DEF Scans
  <2>4. Put(t, ch) = [i |-> j, quotes |-> q, white |-> FALSE, out |-> o]
    BY <1>2, <2>2
  <2>5. Put(s, ch).white = FALSE /\ Put(s, ch).out = o
    BY <2>3
  <2> QED
    BY <1>5, <2>4, <2>5, Zenon
<1> QED
  BY <1>6, <1>7, <1>8, Zenon

(* One round goes on by a character at least.                              *)
Sane(c, s) ==
  /\ s \in Scans /\ WhiteLast(s)
  /\ s.i <= Len(c) + 2
  /\ s.quotes = "beyond" => s.i = Len(c) + 1

LEMMA RoundGoesOn ==
  ASSUME NEW c \in Seq(Symbols), NEW s, Sane(c, s), s.i <= Len(c)
  PROVE  Sane(c, Round(c, s)) /\ Round(c, s).i > s.i
<1> DEFINE q == Quoted(c, s.i, s.quotes)
           j == IF q = "none" THEN AfterComment(c, s.i) ELSE s.i
           ch == At(c, j)
           p == Put(s, ch)
<1>1. s \in Scans /\ s.i \in 1..Len(c) /\ Len(c) \in Nat /\ s.quotes \in {"none", "double", "single"}
  BY DEF Sane, Scans
<1>2. q \in {"none", "double", "single"}
  BY <1>1 DEF Quoted
<1>3. j \in {0} \union s.i..(Len(c) + 1)
  BY <1>1, <1>2, CommentBounds
<1>4. Round(c, s) = IF j = 0 THEN [s EXCEPT !.i = Len(c) + 1, !.quotes = "beyond"]
                    ELSE [p EXCEPT !.i = j + 1, !.quotes = q]
  BY DEF Round
<1> HIDE DEF q, j
<1>5. p \in Scans /\ WhiteLast(p)
  <2>1. ch \in Symbols \union {NUL}
    BY <1>3 DEF At
  <2> HIDE DEF ch
  <2> QED
    BY <1>1, <2>1, PutIn DEF Sane
<1> HIDE DEF p
<1>6. CASE j = 0
  <2>1. Round(c, s) = [i |-> Len(c) + 1, quotes |-> "beyond", white |-> s.white, out |-> s.out]
    BY <1>1, <1>4, <1>6 DEF Scans
  <2>2. Len(c) + 1 \in Nat \ {0} /\ Len(c) + 1 > s.i /\ Len(c) + 1 <= Len(c) + 2
    BY <1>1
  <2>3. Round(c, s).white = s.white /\ Round(c, s).out = s.out
    BY <2>1
  <2>4. WhiteLast(Round(c, s))
    BY <2>3, Zenon DEF Sane, WhiteLast
  <2> QED
    BY <1>1, <2>1, <2>2, <2>4 DEF Sane, Scans
<1>7. CASE j # 0
  <2>1. Round(c, s) = [i |-> j + 1, quotes |-> q, white |-> p.white, out |-> p.out]
    BY <1>4, <1>5, <1>7 DEF Scans
  <2>2. j + 1 \in Nat \ {0} /\ j + 1 > s.i /\ j + 1 <= Len(c) + 2
    BY <1>1, <1>3, <1>7
  <2>3. Round(c, s).white = p.white /\ Round(c, s).out = p.out
    BY <2>1
  <2>4. WhiteLast(Round(c, s))
    BY <1>5, <2>3, Zenon DEF WhiteLast
  <2> QED
    BY <1>2, <1>5, <2>1, <2>2, <2>4 DEF Sane, Scans
<1> QED
  BY <1>6, <1>7

(* After n rounds the scan is past the n-th character, or over.            *)
LEMMA Progress ==
  ASSUME NEW c \in Seq(Symbols), \A i \in 1..Len(c) : ~Stops(c, i)
  PROVE  \A n \in 0..Len(c) :
           Sane(c, Rounds(c)[n]) /\ (Rounds(c)[n].i > n \/ Rounds(c)[n].i > Len(c))
<1> DEFINE R == Rounds(c)
           Ok(n) == Sane(c, R[n]) /\ (R[n].i > n \/ R[n].i > Len(c))
           S == {n \in Nat : n <= Len(c) => Ok(n)}
<1>1. /\ Len(c) \in Nat /\ R[0] = ScanStart
      /\ \A n \in 1..Len(c) : R[n] = Onward(c, R[n - 1])
  BY RoundsGoOn
<1> HIDE DEF R
<1>2. 0 \in S
  <2>1. ScanStart = [i |-> 1, quotes |-> "none", white |-> FALSE, out |-> <<>>]
    BY DEF ScanStart
  <2>2. Sane(c, ScanStart)
    BY <1>1, <2>1 DEF Sane, Scans, WhiteLast
  <2> QED
    BY <1>1, <2>1, <2>2
<1>3. ASSUME NEW n \in Nat, n \in S, n + 1 <= Len(c)
      PROVE  Ok(n + 1)
  <2>1. Sane(c, R[n]) /\ (R[n].i > n \/ R[n].i > Len(c)) /\ R[n].i \in Nat \ {0}
    BY <1>1, <1>3 DEF Sane, Scans
  <2>2. R[n + 1] = Onward(c, R[n])
    <3>1. n + 1 \in 1..Len(c) /\ (n + 1) - 1 = n
      BY <1>1, <1>3
    <3> QED
      BY <1>1, <3>1
  <2>3. CASE R[n].i > Len(c)
    <3>1. R[n + 1] = R[n]
      BY <2>2, <2>3 DEF Onward, Ended
    <3> QED
      BY <2>1, <2>3, <3>1
  <2>4. CASE R[n].i <= Len(c)
    <3>1. R[n].i \in 1..Len(c) /\ ~(R[n].i > Len(c))
      BY <1>1, <2>1, <2>4
    <3>2. R[n + 1] = Round(c, R[n])
      BY <2>2, <3>1 DEF Onward, Ended
    <3>3. Sane(c, R[n + 1]) /\ R[n + 1].i > R[n].i
      BY <2>1, <2>4, <3>2, RoundGoesOn
    <3>4. R[n + 1].i \in Nat
      BY <3>3 DEF Sane, Scans
    <3> QED
      BY <1>1, <2>1, <2>4, <3>3, <3>4
  <2> QED
    BY <1>1, <2>1, <2>3, <2>4
<1>4. \A n \in Nat : n \in S => n + 1 \in S
  <2> HIDE DEF Ok
  <2> QED
    BY <1>3
<1>5. \A n \in Nat : n \in S
  <2> HIDE DEF S
  <2> QED
    BY <1>2, <1>4, Counting
<1> QED
  BY <1>1, <1>5 DEF R

(* A scan that is over stays as it is.                                     *)
LEMMA ScanStays ==
  ASSUME NEW c, Len(c) \in Nat, NEW m \in 0..Len(c), Rounds(c)[m].i > Len(c)
  PROVE  \A n \in m..Len(c) : Rounds(c)[n] = Rounds(c)[m]
<1> DEFINE R == Rounds(c)
           S == {k \in Nat : m + k <= Len(c) => R[m + k] = R[m]}
<1>1. \A n \in 1..Len(c) : R[n] = Onward(c, R[n - 1])
  BY RoundsGoOn
<1> HIDE DEF R
<1>2. 0 \in S
  BY m + 0 = m
<1>3. ASSUME NEW k \in Nat, k \in S, m + (k + 1) <= Len(c)
      PROVE  R[m + (k + 1)] = R[m]
  <2>1. m + (k + 1) \in 1..Len(c) /\ (m + (k + 1)) - 1 = m + k /\ m + k <= Len(c)
    BY <1>3
  <2>2. R[m + k] = R[m]
    BY <1>3, <2>1
  <2>3. R[m + (k + 1)] = Onward(c, R[m])
    BY <1>1, <2>1, <2>2
  <2> QED
    BY <2>3 DEF Onward, Ended, R
<1>4. \A k \in Nat : k \in S
  <2>1. \A k \in Nat : k \in S => k + 1 \in S
    BY <1>3
  <2> HIDE DEF S
  <2> QED
    BY <1>2, <2>1, Counting
<1>5. ASSUME NEW n \in m..Len(c) PROVE R[n] = R[m]
  <2>1. n - m \in Nat /\ m + (n - m) = n /\ n <= Len(c)
    OBVIOUS
  <2>2. n - m \in S
    BY <1>4, <2>1, Zenon
  <2> QED
    BY <2>1, <2>2
<1> QED
  BY <1>5 DEF R

-----------------------------------------------------------------------------
(* The scan of a script beside the scan of the same script signed.         *)
LEMMA QuotedAgrees ==
  ASSUME NEW c \in Seq(Chars), NEW d, d = c \o Block, NEW i \in 1..Len(c), NEW q
  PROVE  Quoted(d, i, q) = Quoted(c, i, q)
<1>1. /\ Len(c) \in Nat /\ Len(d) = Len(c) + 12
      /\ \A k \in 1..Len(c) : d[k] = c[k]
  BY FileIs
<1>2. d[i] = c[i]
  BY <1>1
<1>3. At(d, i - 1) = At(c, i - 1)
  BY <1>1 DEF At
<1> QED
  BY <1>2, <1>3 DEF Quoted

LEMMA CommentsAgree ==
  ASSUME NEW c \in Seq(Chars), NEW d, d = c \o Block, NEW i \in 1..Len(c),
         AfterComment(c, i) # 0
  PROVE  AfterComment(d, i) = AfterComment(c, i)
<1>1. /\ Len(c) \in Nat /\ Len(d) = Len(c) + 12
      /\ \A k \in 1..Len(c) : d[k] = c[k]
      /\ d[Len(c) + 1] = "SPACE"
  <2>1. 1 \in 1..12 /\ Block[1] = "SPACE"
    BY BlockIs
  <2> QED
    BY <2>1, FileIs
<1>2. \A k \in 1..Len(c) : At(d, k) = At(c, k)
  BY <1>1 DEF At
<1>3. At(c, Len(c) + 1) = "NUL" /\ At(d, Len(c) + 1) = "SPACE"
  BY <1>1 DEF At, NUL
<1>4. /\ At(d, i) = At(c, i)
      /\ \/ At(d, i + 1) = At(c, i + 1)
         \/ At(c, i + 1) = "NUL" /\ At(d, i + 1) = "SPACE"
  <2>1. i + 1 \in 1..Len(c) \/ i + 1 = Len(c) + 1
    BY <1>1
  <2> QED
    BY <1>2, <1>3, <2>1
<1>5. \A S \in SUBSET Nat, T \in SUBSET Nat :
        S # {} /\ S \subseteq T /\ (\A k \in T : k \in S \/ \A m \in S : m <= k)
          => First(T) = First(S)
  <2> SUFFICES ASSUME NEW S \in SUBSET Nat, NEW T \in SUBSET Nat, S # {}, S \subseteq T,
                      \A k \in T : k \in S \/ \A m \in S : m <= k
               PROVE  First(T) = First(S)
    OBVIOUS
  <2>1. First(S) \in S /\ (\A j \in S : First(S) <= j) /\ First(T) \in T /\ (\A j \in T : First(T) <= j)
    BY FirstIs
  <2>2. First(S) \in Nat /\ First(T) \in Nat /\ First(T) <= First(S)
    BY <2>1
  <2>3. First(S) <= First(T)
    BY <2>1
  <2> QED
    BY <2>2, <2>3
<1>6. LineEnds(c, i) # {} => First(LineEnds(d, i)) = First(LineEnds(c, i))
  <2>1. LineEnds(c, i) \in SUBSET Nat /\ LineEnds(d, i) \in SUBSET Nat
    BY <1>1 DEF LineEnds
  <2>2. LineEnds(c, i) \subseteq LineEnds(d, i)
    BY <1>1 DEF LineEnds
  <2>3. \A k \in LineEnds(d, i) : k \in LineEnds(c, i) \/ \A m \in LineEnds(c, i) : m <= k
    BY <1>1 DEF LineEnds
  <2> QED
    BY <1>5, <2>1, <2>2, <2>3
<1>7. CommentEnds(c, i) # {} => First(CommentEnds(d, i)) = First(CommentEnds(c, i))
  <2>1. CommentEnds(c, i) \in SUBSET Nat /\ CommentEnds(d, i) \in SUBSET Nat
    BY <1>1 DEF CommentEnds
  <2>2. ASSUME NEW k \in CommentEnds(c, i) PROVE k \in CommentEnds(d, i) /\ k + 1 \in 1..Len(c)
    <3>1. k \in i..Len(c) /\ c[k] = "*" /\ At(c, k + 1) = "/"
      BY DEF CommentEnds
    <3>2. k + 1 \in 1..Len(c)
      BY <3>1 DEF At, NUL
    <3> QED
      BY <1>1, <1>2, <3>1, <3>2 DEF CommentEnds
  <2>3. ASSUME NEW k \in CommentEnds(d, i), k \notin CommentEnds(c, i)
        PROVE  k \notin 1..Len(c)
    <3>1. k \in i..Len(d) /\ d[k] = "*" /\ At(d, k + 1) = "/"
      BY DEF CommentEnds
    <3>2. SUFFICES ASSUME k \in 1..Len(c) PROVE FALSE
      OBVIOUS
    <3>3. k + 1 \in 1..Len(c)
      <4>1. k + 1 \in 1..Len(c) \/ k + 1 = Len(c) + 1
        BY <1>1, <3>2
      <4> QED
        BY <1>3, <3>1, <4>1
    <3> QED
      BY <1>1, <1>2, <2>3, <3>1, <3>2, <3>3 DEF CommentEnds
  <2>4. \A k \in CommentEnds(d, i) : k \in CommentEnds(c, i) \/ \A m \in CommentEnds(c, i) : m <= k
    <3>1. ASSUME NEW k \in CommentEnds(d, i), k \notin CommentEnds(c, i),
                 NEW m \in CommentEnds(c, i)
          PROVE  m <= k
      <4>1. k \in Nat /\ k \notin 1..Len(c) /\ k >= i
        BY <1>1, <2>3, <3>1 DEF CommentEnds
      <4>2. m \in 1..Len(c)
        BY <1>1 DEF CommentEnds
      <4> QED
        BY <1>1, <4>1, <4>2
    <3> QED
      BY <3>1
  <2>5. CommentEnds(c, i) \subseteq CommentEnds(d, i)
    BY <2>2
  <2> QED
    BY <1>5, <2>1, <2>4, <2>5
<1>8. First({}) = 0
  BY FirstIs
<1>9. CASE At(c, i) = "/" /\ At(c, i + 1) = "/"
  <2>1. LineEnds(c, i) # {}
    BY <1>8, <1>9 DEF AfterComment
  <2> QED
    BY <1>4, <1>6, <1>9, <2>1 DEF AfterComment
<1>10. CASE At(c, i) = "/" /\ At(c, i + 1) = "*"
  <2>1. CommentEnds(c, i) # {}
    BY <1>8, <1>10 DEF AfterComment
  <2>2. At(d, i) = "/" /\ At(d, i + 1) = "*"
    BY <1>4, <1>10
  <2> QED
    BY <1>7, <1>10, <2>1, <2>2 DEF AfterComment
<1>11. CASE ~(At(c, i) = "/" /\ At(c, i + 1) \in {"/", "*"})
  BY <1>4, <1>11 DEF AfterComment
<1> QED
  BY <1>9, <1>10, <1>11

(* Where the two scans stand to each other: the script's has run past its  *)
(* end; or they are in the same state; or the script's has stepped over    *)
(* its end, where the other finds the first blank of the block.            *)
Meets(c, s, t) ==
  \/ s.quotes = "beyond"
  \/ s.i <= Len(c) + 1 /\ t = s
  \/ s.i = Len(c) + 2 /\ s.quotes = "none" /\ t = Put(s, "SPACE")

LEMMA SameRound ==
  ASSUME NEW c \in Seq(Chars), NEW d, d = c \o Block, NEW s, Sane(c, s), s.i <= Len(c)
  PROVE  Meets(c, Round(c, s), Round(d, s))
<1> DEFINE q == Quoted(c, s.i, s.quotes)
           j == IF q = "none" THEN AfterComment(c, s.i) ELSE s.i
<1>1. s \in Scans /\ s.i \in 1..Len(c) /\ Len(c) \in Nat /\ c \in Seq(Symbols)
  BY DEF Sane, Scans, Symbols
<1>2. /\ Len(d) = Len(c) + 12
      /\ \A k \in 1..Len(c) : d[k] = c[k]
      /\ d[Len(c) + 1] = "SPACE"
  <2>1. 1 \in 1..12 /\ Block[1] = "SPACE"
    BY BlockIs
  <2> QED
    BY <2>1, FileIs
<1>3. Quoted(d, s.i, s.quotes) = q
  BY <1>1, QuotedAgrees
<1>4. j \in {0} \union s.i..(Len(c) + 1)
  BY <1>1, CommentBounds
<1>5. CASE j = 0
  <2>1. Round(c, s) = [s EXCEPT !.i = Len(c) + 1, !.quotes = "beyond"]
    BY <1>5 DEF Round
  <2>2. Round(c, s).quotes = "beyond"
    BY <1>1, <2>1 DEF Scans
  <2> QED
    BY <2>2 DEF Meets
<1>6. CASE j # 0
  <2>1. j \in 1..(Len(c) + 1)
    BY <1>1, <1>4, <1>6
  <2>2. q = "none" => AfterComment(d, s.i) = AfterComment(c, s.i)
    BY <1>1, <1>6, CommentsAgree
  <2>3. (IF q = "none" THEN AfterComment(d, s.i) ELSE s.i) = j
    BY <2>2
  <2>4. Round(c, s) = [Put(s, At(c, j)) EXCEPT !.i = j + 1, !.quotes = q]
    BY <1>6 DEF Round
  <2>5. Round(d, s) = [Put(s, At(d, j)) EXCEPT !.i = j + 1, !.quotes = q]
    BY <1>3, <1>6, <2>3 DEF Round
  <2>6. CASE j <= Len(c)
    <3>1. At(d, j) = At(c, j)
      BY <1>1, <1>2, <2>1, <2>6 DEF At
    <3>2. Round(d, s) = Round(c, s)
      BY <2>4, <2>5, <3>1
    <3>3. Round(c, s).i = j + 1
      <4>1. At(c, j) \in Symbols
        BY <1>1, <2>1, <2>6 DEF At
      <4>2. Put(s, At(c, j)) \in Scans
        BY <1>1, <4>1, PutIn DEF Sane
      <4> HIDE DEF q, j
      <4> QED
        BY <2>4, <4>2 DEF Scans
    <3>4. j + 1 <= Len(c) + 1
      BY <1>1, <2>1, <2>6
    <3> QED
      BY <3>2, <3>3, <3>4 DEF Meets
  <2>7. CASE j = Len(c) + 1
    <3>1. q = "none"
      BY <1>1, <2>7
    <3>2. At(c, j) = NUL /\ At(d, j) = "SPACE"
      BY <1>1, <1>2, <2>7 DEF At
    <3>3. Round(c, s) = [s EXCEPT !.i = Len(c) + 2, !.quotes = "none"]
      <4>1. Put(s, At(c, j)) = s
        BY <3>2 DEF Put
      <4>2. j + 1 = Len(c) + 2
        BY <1>1, <2>7
      <4> HIDE DEF j, q
      <4> QED
        BY <2>4, <3>1, <4>1, <4>2
    <3>4. Round(d, s) = [Put(s, "SPACE") EXCEPT !.i = Len(c) + 2, !.quotes = "none"]
      <4>1. j + 1 = Len(c) + 2
        BY <1>1, <2>7
      <4> HIDE DEF j, q
      <4> QED
        BY <2>5, <3>1, <3>2, <4>1
    <3>5. Round(d, s) = Put(Round(c, s), "SPACE")
      <4>1. Len(c) + 2 \in Nat \ {0} /\ s \in Scans /\ WhiteLast(s)
        <5>1. Len(c) + 2 \in Nat \ {0}
          BY <1>1
        <5> QED
          BY <5>1 DEF Sane
      <4>2. Put([s EXCEPT !.i = Len(c) + 2, !.quotes = "none"], "SPACE")
              = [Put(s, "SPACE") EXCEPT !.i = Len(c) + 2, !.quotes = "none"]
        <5>1. "SPACE" \in Symbols \union {NUL} /\ "none" \in {"none", "double", "single", "beyond"}
          BY SpaceIs
        <5>2. Put(MovedTo(s, Len(c) + 2, "none"), "SPACE") = MovedTo(Put(s, "SPACE"), Len(c) + 2, "none")
          BY <4>1, <5>1, PutElsewhere, Zenon
        <5> QED
          BY <5>2, Zenon DEF MovedTo
      <4> QED
        BY <3>3, <3>4, <4>2, Zenon
    <3>6. Round(c, s).i = Len(c) + 2 /\ Round(c, s).quotes = "none"
      BY <1>1, <3>3 DEF Scans
    <3> QED
      BY <3>5, <3>6 DEF Meets
  <2> QED
    BY <1>1, <2>1, <2>6, <2>7
<1> QED
  BY <1>5, <1>6

(* What the scan of a script reaches in n rounds, that of the signed       *)
(* script meets in as many or fewer.                                       *)
LEMMA Lockstep ==
  ASSUME NEW c \in Seq(Chars), NEW d, d = c \o Block
  PROVE  \A n \in 0..Len(c) : \E m \in 0..n : Meets(c, Rounds(c)[n], Rounds(d)[m])
<1> DEFINE R == Rounds(c)
           Q == Rounds(d)
           Ok(n) == \E m \in 0..n : Meets(c, R[n], Q[m])
           S == {n \in Nat : n <= Len(c) => Ok(n)}
<1>1. /\ Len(c) \in Nat /\ Len(d) \in Nat /\ Len(d) = Len(c) + 12
      /\ c \in Seq(Symbols) /\ d \in Seq(Symbols)
  <2>1. c \in Seq(Symbols)
    BY DEF Symbols
  <2>2. Len(c) \in Nat /\ Len(d) = Len(c) + 12 /\ d \in Seq(Symbols)
    BY FileIs
  <2> QED
    BY <2>1, <2>2
<1>2. /\ R[0] = ScanStart
      /\ \A n \in 1..Len(c) : R[n] = Onward(c, R[n - 1])
  BY <1>1, RoundsGoOn
<1>3. /\ Q[0] = ScanStart
      /\ \A n \in 1..Len(d) : Q[n] = Onward(d, Q[n - 1])
  BY <1>1, RoundsGoOn
<1>4. \A n \in 0..Len(c) : Sane(c, R[n])
  BY <1>1, TextsGoOn, Progress
<1> HIDE DEF R, Q
<1>5. 0 \in S
  <2>1. ScanStart.i = 1 /\ 1 <= Len(c) + 1
    BY <1>1 DEF ScanStart
  <2>2. Meets(c, R[0], Q[0])
    BY <1>2, <1>3, <2>1 DEF Meets
  <2> QED
    BY <2>2
<1>6. ASSUME NEW n \in Nat, n \in S, n + 1 <= Len(c)
      PROVE  Ok(n + 1)
  <2>1. PICK m \in 0..n : Meets(c, R[n], Q[m])
    BY <1>1, <1>6
  <2>2. Sane(c, R[n]) /\ R[n].i \in Nat
    BY <1>1, <1>4, <1>6 DEF Sane, Scans
  <2>3. R[n + 1] = Onward(c, R[n])
    <3>1. n + 1 \in 1..Len(c) /\ (n + 1) - 1 = n
      BY <1>1, <1>6
    <3> QED
      BY <1>2, <3>1
  <2>4. m \in 0..(n + 1) /\ m + 1 \in 0..(n + 1)
    BY <2>1
  <2>5. CASE R[n].i > Len(c)
    <3>1. R[n + 1] = R[n]
      BY <2>3, <2>5 DEF Onward, Ended
    <3> QED
      BY <2>1, <2>4, <3>1
  <2>6. CASE R[n].i <= Len(c)
    <3>1. R[n].quotes # "beyond" /\ R[n].i # Len(c) + 2 /\ ~(R[n].i > Len(c)) /\ ~(R[n].i > Len(d))
      BY <1>1, <2>2, <2>6 DEF Sane
    <3>2. Q[m] = R[n]
      BY <2>1, <3>1 DEF Meets
    <3>3. R[n].i \in 1..Len(c) /\ R[n].i \in 1..Len(d)
      BY <1>1, <2>2, <2>6 DEF Sane, Scans
    <3>4. R[n + 1] = Round(c, R[n])
      BY <2>3, <3>1, <3>3, TextsGoOn DEF Onward, Ended
    <3>5. Q[m + 1] = Round(d, R[n])
      <4>1. m + 1 \in 1..Len(d) /\ (m + 1) - 1 = m
        BY <1>1, <1>6, <2>1
      <4>2. Q[m + 1] = Onward(d, R[n])
        BY <1>3, <3>2, <4>1
      <4> QED
        BY <3>1, <3>3, <4>2, FilesGoOn DEF Onward, Ended
    <3>6. Meets(c, R[n + 1], Q[m + 1])
      BY <2>2, <2>6, <3>4, <3>5, SameRound
    <3> QED
      BY <2>4, <3>6
  <2> QED
    BY <1>1, <2>2, <2>5, <2>6
<1>7. \A n \in Nat : n \in S
  <2>1. \A n \in Nat : n \in S => n + 1 \in S
    <3> HIDE DEF Ok
    <3> QED
      BY <1>6
  <2> HIDE DEF S
  <2> QED
    BY <1>5, <2>1, Counting
<1> QED
  BY <1>1, <1>7 DEF R, Q

-----------------------------------------------------------------------------
(* The rounds in the block.                                                *)
EndsInBlock(d, L) ==
  /\ L \in Nat /\ Len(d) = L + 12 /\ d \in Seq(Symbols)
  /\ d[L + 1] = "SPACE" /\ d[L + 2] = "\n" /\ d[L + 3] = "/" /\ d[L + 4] = "*"
  /\ d[L + 5] = "SIG" /\ d[L + 6] = "SPACE" /\ d[L + 7] = "\n" /\ d[L + 8] = "SIG"
  /\ d[L + 9] = "*" /\ d[L + 10] = "/" /\ d[L + 11] = "SPACE" /\ d[L + 12] = "\n"

LEMMA BlockAt ==
  ASSUME NEW c \in Seq(Chars), NEW d, d = c \o Block, NEW L, L = Len(c)
  PROVE  EndsInBlock(d, L)
<1>1. L \in Nat /\ Len(d) = L + 12 /\ d \in Seq(Symbols)
  BY FileIs
<1>2. \A i \in 1..12 : d[L + i] = Block[i]
  BY FileIs, Zenon
<1>3. \A i \in {1, 2, 3, 4, 5, 6, 7, 8, 9, 10, 11, 12} : i \in 1..12
  OBVIOUS
<1>4. \A i \in {1, 2, 3, 4, 5, 6, 7, 8, 9, 10, 11, 12} : d[L + i] = Block[i]
  BY <1>2, <1>3, Zenon
<1>5. /\ d[L + 1] = Block[1] /\ d[L + 2] = Block[2] /\ d[L + 3] = Block[3]
      /\ d[L + 4] = Block[4] /\ d[L + 5] = Block[5] /\ d[L + 6] = Block[6]
  BY <1>4
<1>6. /\ d[L + 7] = Block[7] /\ d[L + 8] = Block[8] /\ d[L + 9] = Block[9]
      /\ d[L + 10] = Block[10] /\ d[L + 11] = Block[11] /\ d[L + 12] = Block[12]
  BY <1>4
<1> QED
  BY <1>1, <1>5, <1>6, BlockIs DEF EndsInBlock

(* A blank outside quotes is stepped over and, behind a blank, left out.   *)
LEMMA BlankRound ==
  ASSUME NEW d \in Seq(Symbols), NEW s \in Scans, WhiteLast(s), s.quotes = "none",
         s.i \in 1..Len(d), d[s.i] \in Blank, ~Stops(d, s.i)
  PROVE  Onward(d, s) = MovedTo(Put(s, d[s.i]), s.i + 1, "none")
<1>1. ~Ended(d, s)
  BY DEF Ended
<1>2. Quoted(d, s.i, s.quotes) = "none"
  BY DEF Quoted, Blank
<1>3. At(d, s.i) = d[s.i]
  BY DEF At
<1>4. AfterComment(d, s.i) = s.i
  BY <1>3 DEF AfterComment, Blank
<1>5. s.i # 0
  OBVIOUS
<1>6. Round(d, s) = [Put(s, d[s.i]) EXCEPT !.i = s.i + 1, !.quotes = "none"]
  BY <1>2, <1>3, <1>4, <1>5, Zenon DEF Round
<1> QED
  BY <1>1, <1>6 DEF Onward, MovedTo

(* The comment of the block is stepped over, with the blank behind it.     *)
LEMMA CommentRound ==
  ASSUME NEW d, NEW L, EndsInBlock(d, L), ~Stops(d, L + 3),
         NEW s \in Scans, s.quotes = "none", s.i = L + 3, s.white
  PROVE  Onward(d, s) = MovedTo(s, L + 12, "none")
<1>1. /\ L \in Nat /\ Len(d) = L + 12 /\ d \in Seq(Symbols)
      /\ d[L + 2] = "\n" /\ d[L + 3] = "/" /\ d[L + 4] = "*"
      /\ d[L + 5] = "SIG" /\ d[L + 6] = "SPACE" /\ d[L + 7] = "\n" /\ d[L + 8] = "SIG"
      /\ d[L + 9] = "*" /\ d[L + 10] = "/" /\ d[L + 11] = "SPACE"
  BY DEF EndsInBlock
<1>2. s.i = L + 3 /\ L + 3 \in 1..Len(d)
  BY <1>1
<1>3. ~Ended(d, s)
  BY <1>1, <1>2 DEF Ended
<1>4. Quoted(d, L + 3, "none") = "none"
  BY <1>1 DEF Quoted
<1>5. \A k \in 1..12 : At(d, L + k) = d[L + k]
  <2>1. \A k \in 1..12 : L + k \in 1..Len(d)
    BY <1>1
  <2> QED
    BY <2>1, Zenon DEF At
<1>6. At(d, L + 3) = "/" /\ At(d, (L + 3) + 1) = "*" /\ At(d, L + 11) = "SPACE"
  <2>1. 3 \in 1..12 /\ 4 \in 1..12 /\ 11 \in 1..12 /\ (L + 3) + 1 = L + 4
    BY <1>1
  <2> QED
    BY <1>1, <1>5, <2>1
<1>7. First(CommentEnds(d, L + 3)) = L + 9
  <2>1. L + 9 \in CommentEnds(d, L + 3)
    <3>1. L + 9 \in (L + 3)..Len(d) /\ 10 \in 1..12 /\ (L + 9) + 1 = L + 10
      BY <1>1
    <3> QED
      BY <1>1, <1>5, <3>1 DEF CommentEnds
  <2>2. ASSUME NEW k \in CommentEnds(d, L + 3) PROVE k \in Nat /\ L + 9 <= k
    <3>1. k \in (L + 3)..(L + 12) /\ d[k] = "*" /\ At(d, k + 1) = "/"
      BY <1>1 DEF CommentEnds
    <3>2. k # L + 3 /\ k # L + 5 /\ k # L + 6 /\ k # L + 7 /\ k # L + 8
      BY <1>1, <3>1
    <3>3. k # L + 4
      <4>1. (L + 4) + 1 = L + 5 /\ 5 \in 1..12
        BY <1>1
      <4>2. At(d, (L + 4) + 1) = "SIG"
        BY <1>1, <1>5, <4>1
      <4> QED
        BY <3>1, <4>2
    <3> QED
      BY ONLY <1>1, <3>1, <3>2, <3>3
  <2>3. CommentEnds(d, L + 3) \in SUBSET Nat
    BY <2>2
  <2>4. First(CommentEnds(d, L + 3)) \in CommentEnds(d, L + 3) /\ First(CommentEnds(d, L + 3)) <= L + 9
    BY <2>1, <2>3, FirstIs
  <2> QED
    BY <1>1, <2>2, <2>4
<1>8. AfterComment(d, L + 3) = L + 11
  <2>1. L + 9 # 0 /\ (L + 9) + 2 = L + 11
    BY <1>1
  <2>2. At(d, (L + 3) + 1) # "/"
    BY <1>6
  <2> QED
    BY <1>6, <1>7, <2>1, <2>2, Zenon DEF AfterComment
<1>9. Put(s, "SPACE") = s
  BY SpaceIs, Zenon DEF Put
<1>10. L + 11 # 0 /\ (L + 11) + 1 = L + 12
  BY <1>1
<1>11. Round(d, s) = [s EXCEPT !.i = L + 12, !.quotes = "none"]
  BY <1>2, <1>4, <1>6, <1>8, <1>9, <1>10, Zenon DEF Round
<1> QED
  BY <1>3, <1>11 DEF Onward, MovedTo

(* Further on, in code, behind a blank, with as much put.                  *)
BehindBlank(s, j, out) ==
  /\ s \in Scans /\ WhiteLast(s) /\ s.white
  /\ s.i = j /\ s.quotes = "none" /\ s.out = out

LEMMA MovedIs ==
  ASSUME NEW s, s \in Scans, WhiteLast(s), s.white, NEW j \in Nat \ {0}
  PROVE  BehindBlank(MovedTo(s, j, "none"), j, s.out)
<1>1. PICK t : t = MovedTo(s, j, "none")
  OBVIOUS
<1>2. t = [i |-> j, quotes |-> "none", white |-> s.white, out |-> s.out]
  BY <1>1 DEF MovedTo, Scans
<1>3. t \in Scans /\ t.i = j /\ t.quotes = "none" /\ t.white = s.white /\ t.out = s.out
  BY <1>2 DEF Scans
<1>4. BehindBlank(t, j, s.out)
  BY <1>3, Zenon DEF WhiteLast, BehindBlank
<1> QED
  BY <1>1, <1>4, Zenon

(* Behind the first blank, the block puts nothing.                         *)
LEMMA BlockRounds ==
  ASSUME NEW d, NEW L, EndsInBlock(d, L), \A i \in 1..Len(d) : ~Stops(d, i),
         NEW s, NEW out, BehindBlank(s, L + 2, out),
         NEW m \in 0..(L + 1), Rounds(d)[m] = s
  PROVE  Scan(d).quotes = "none" /\ Scan(d).out = out
<1> DEFINE Q == Rounds(d)
<1>1. /\ L \in Nat /\ Len(d) = L + 12 /\ Len(d) \in Nat /\ d \in Seq(Symbols)
      /\ d[L + 2] \in Blank /\ d[L + 12] \in Blank
  BY DEF EndsInBlock, Blank
<1>2. \A n \in 1..Len(d) : Q[n] = Onward(d, Q[n - 1])
  BY <1>1, RoundsGoOn
<1>3. ASSUME NEW t, NEW j \in 1..Len(d), BehindBlank(t, j, out), d[j] \in Blank
      PROVE  BehindBlank(Onward(d, t), j + 1, out)
  <2>1. Put(t, d[j]) = t
    BY <1>3, Zenon DEF Put, BehindBlank
  <2>2. t \in Scans /\ WhiteLast(t) /\ t.white /\ t.quotes = "none" /\ t.i = j /\ t.out = out
    BY <1>3, Zenon DEF BehindBlank
  <2>3. ~Stops(d, t.i) /\ t.i \in 1..Len(d) /\ d[t.i] \in Blank
    BY <1>3, <2>2
  <2>4. Onward(d, t) = MovedTo(Put(t, d[t.i]), t.i + 1, "none")
    BY <1>1, <2>2, <2>3, BlankRound
  <2>5. Onward(d, t) = MovedTo(t, j + 1, "none")
    BY <2>1, <2>2, <2>4, Zenon
  <2>6. j + 1 \in Nat \ {0}
    OBVIOUS
  <2>7. BehindBlank(MovedTo(t, j + 1, "none"), j + 1, t.out)
    BY <2>2, <2>6, MovedIs, Zenon
  <2> QED
    BY <2>2, <2>5, <2>7, Zenon
<1> HIDE DEF Q
<1>4. /\ m + 1 \in 1..Len(d) /\ (m + 1) - 1 = m
      /\ m + 2 \in 1..Len(d) /\ (m + 2) - 1 = m + 1
      /\ m + 3 \in 1..Len(d) /\ (m + 3) - 1 = m + 2
      /\ L + 2 \in 1..Len(d) /\ (L + 2) + 1 = L + 3 /\ L + 3 \in 1..Len(d)
      /\ L + 12 \in 1..Len(d) /\ (L + 12) + 1 = L + 13 /\ L + 12 \in Nat \ {0}
  BY <1>1
<1>5. BehindBlank(Q[m + 1], L + 3, out)
  <2>1. Q[m + 1] = Onward(d, s)
    BY <1>2, <1>4 DEF Q
  <2>2. BehindBlank(Onward(d, s), (L + 2) + 1, out)
    BY <1>1, <1>3, <1>4, Zenon
  <2> QED
    BY <1>4, <2>1, <2>2, Zenon
<1>6. BehindBlank(Q[m + 2], L + 12, out)
  <2>1. PICK t : t = Q[m + 1]
    OBVIOUS
  <2>2. t \in Scans /\ WhiteLast(t) /\ t.white /\ t.quotes = "none" /\ t.i = L + 3 /\ t.out = out
    BY <1>5, <2>1, Zenon DEF BehindBlank
  <2>3. Q[m + 2] = Onward(d, t)
    BY <1>2, <1>4, <2>1
  <2>4. Onward(d, t) = MovedTo(t, L + 12, "none")
    BY <1>4, <2>2, CommentRound, Zenon
  <2>5. BehindBlank(MovedTo(t, L + 12, "none"), L + 12, t.out)
    BY <1>4, <2>2, MovedIs, Zenon
  <2> QED
    BY <2>2, <2>3, <2>4, <2>5, Zenon
<1>7. BehindBlank(Q[m + 3], L + 13, out)
  <2>1. Q[m + 3] = Onward(d, Q[m + 2])
    BY <1>2, <1>4
  <2>2. BehindBlank(Onward(d, Q[m + 2]), (L + 12) + 1, out)
    BY <1>1, <1>3, <1>4, <1>6, Zenon
  <2> QED
    BY <1>4, <2>1, <2>2, Zenon
<1>8. Q[Len(d)] = Q[m + 3]
  <2>1. m + 3 \in 0..Len(d) /\ Len(d) \in (m + 3)..Len(d) /\ L + 13 > Len(d)
    BY <1>1, <1>4
  <2>2. Q[m + 3].i > Len(d)
    BY <1>7, <2>1 DEF BehindBlank
  <2> QED
    BY <1>1, <2>1, <2>2, ScanStays DEF Q
<1> QED
  BY <1>7, <1>8 DEF Scan, Q, BehindBlank

(* The scan of a signed script puts what that of the script puts, and a    *)
(* blank.                                                                  *)
LEMMA SignedScan ==
  ASSUME NEW c \in Seq(Chars), NEW d, d = c \o Block, Finished(c)
  PROVE  /\ Scan(c) \in Scans /\ WhiteLast(Scan(c))
         /\ Scan(d).quotes = "none" /\ Scan(d).out = Put(Scan(c), "SPACE").out
<1>1. PICK L : L = Len(c)
  OBVIOUS
<1>2. PICK s : s = Scan(c)
  OBVIOUS
<1>3. /\ EndsInBlock(d, L) /\ L \in Nat /\ Len(d) = L + 12 /\ d \in Seq(Symbols)
      /\ d[L + 1] = "SPACE" /\ c \in Seq(Symbols)
      /\ \A i \in 1..Len(d) : ~Stops(d, i)
  <2>1. EndsInBlock(d, L)
    BY <1>1, BlockAt
  <2>2. c \in Seq(Symbols)
    BY DEF Symbols
  <2>3. \A i \in 1..Len(d) : ~Stops(d, i)
    BY FilesGoOn
  <2> QED
    BY <2>1, <2>2, <2>3 DEF EndsInBlock
<1>4. /\ s \in Scans /\ WhiteLast(s) /\ s.quotes = "none" /\ s.i > L /\ s.i <= L + 2
  <2>1. Len(c) \in 0..Len(c)
    BY <1>1, <1>3
  <2>2. Sane(c, Rounds(c)[Len(c)]) /\ Rounds(c)[Len(c)].i > Len(c)
    BY <1>3, <2>1, TextsGoOn, Progress
  <2> QED
    BY <1>1, <1>2, <2>2 DEF Scan, Sane, Finished
<1>5. PICK m \in 0..L : Meets(c, s, Rounds(d)[m])
  <2>1. Len(c) \in 0..Len(c)
    BY <1>1, <1>3
  <2>2. \E m \in 0..Len(c) : Meets(c, Rounds(c)[Len(c)], Rounds(d)[m])
    BY <2>1, Lockstep
  <2> QED
    BY <1>1, <1>2, <2>2, Zenon DEF Scan
<1>6. PICK p : p = Put(s, "SPACE")
  OBVIOUS
<1>7. p \in Scans /\ WhiteLast(p) /\ p.white
  <2>1. p \in Scans /\ WhiteLast(p)
    BY <1>4, <1>6, SpaceIs, PutIn
  <2>2. CASE s.white
    BY <1>4, <1>6, <2>1, <2>2, SpaceIs, Zenon DEF Put
  <2>3. CASE ~s.white
    <3>1. p = [s EXCEPT !.white = TRUE, !.out = Append(@, "SPACE")]
      BY <1>6, <2>3, SpaceIs, Zenon DEF Put
    <3> QED
      BY <1>4, <2>1, <3>1 DEF Scans
  <2> QED
    BY <2>1, <2>2, <2>3
<1>8. CASE s.i = L + 1
  <2>1. Rounds(d)[m] = s
    BY <1>1, <1>3, <1>4, <1>5, <1>8 DEF Meets
  <2>2. L + 2 \in Nat \ {0}
    BY <1>3
  <2>3. BehindBlank(MovedTo(p, L + 2, "none"), L + 2, p.out)
    BY <1>7, <2>2, MovedIs, Zenon
  <2>4. Rounds(d)[m + 1] = MovedTo(p, L + 2, "none")
    <3>1. m + 1 \in 1..Len(d) /\ (m + 1) - 1 = m /\ (L + 1) + 1 = L + 2 /\ L + 1 \in 1..Len(d)
      BY <1>3
    <3>2. Rounds(d)[m + 1] = Onward(d, s)
      <4>1. Rounds(d)[m + 1] = Onward(d, Rounds(d)[(m + 1) - 1])
        <5>1. Len(d) \in Nat
          BY <1>3
        <5>2. \A n \in 1..Len(d) : Rounds(d)[n] = Onward(d, Rounds(d)[n - 1])
          BY <5>1, RoundsGoOn, Zenon
        <5> QED
          BY <3>1, <5>2, Zenon
      <4> QED
        BY <2>1, <3>1, <4>1, Zenon
    <3>3. Onward(d, s) = MovedTo(Put(s, d[s.i]), s.i + 1, "none")
      <4>1. s.i \in 1..Len(d) /\ ~Stops(d, s.i) /\ d[s.i] \in Blank
        BY <1>3, <1>8, <3>1, SpaceIs
      <4> QED
        BY <1>3, <1>4, <4>1, BlankRound
    <3> QED
      BY <1>3, <1>6, <1>8, <3>1, <3>2, <3>3, Zenon
  <2>5. m + 1 \in 0..(L + 1)
    BY <1>3
  <2>6. Scan(d).quotes = "none" /\ Scan(d).out = p.out
    <3>1. PICK n \in 0..(L + 1) : n = m + 1
      BY <2>5
    <3>2. BehindBlank(Rounds(d)[n], L + 2, p.out)
      BY <2>3, <2>4, <3>1, Zenon
    <3> QED
      BY <1>3, <3>2, BlockRounds
  <2> QED
    BY <1>2, <1>4, <1>6, <2>6, Zenon
<1>9. CASE s.i = L + 2
  <2>1. Rounds(d)[m] = p
    BY <1>1, <1>3, <1>4, <1>5, <1>6, <1>9 DEF Meets
  <2>2. p.i = L + 2 /\ p.quotes = "none"
    <3>1. s.i = p.i /\ s.quotes = p.quotes
      BY <1>4, <1>6 DEF Put, Scans
    <3> QED
      BY <1>4, <1>9, <3>1
  <2>3. BehindBlank(p, L + 2, p.out)
    BY <1>7, <2>2, Zenon DEF BehindBlank
  <2>4. m \in 0..(L + 1)
    BY <1>3
  <2>5. Scan(d).quotes = "none" /\ Scan(d).out = p.out
    BY <1>3, <2>1, <2>3, <2>4, BlockRounds
  <2> QED
    BY <1>2, <1>4, <1>6, <2>5, Zenon
<1>10. s.i = L + 1 \/ s.i = L + 2
  BY <1>3, <1>4 DEF Scans
<1> QED
  BY <1>8, <1>9, <1>10

-----------------------------------------------------------------------------
(* The block counts in the hash at the edge of a buffer only.              *)
LEMMA SignedHash ==
  ASSUME NEW c \in Seq(Chars), NEW d, d = c \o Block, Finished(c)
  PROVE  HashSomeStuff(d) = HashSomeStuff(c) <=> ~OnEdge(c)
<1>1. PICK s : s = Scan(c)
  OBVIOUS
<1>2. PICK t : t = Scan(d)
  OBVIOUS
<1>3. /\ s \in Scans /\ WhiteLast(s) /\ s.quotes = "none"
      /\ t.quotes = "none" /\ t.out = Put(s, "SPACE").out
  BY <1>1, <1>2, SignedScan DEF Finished
<1>4. PICK o : o = s.out
  OBVIOUS
<1>5. PICK B : B = BufferSize
  OBVIOUS
<1>6. o \in Seq(Symbols) /\ Len(o) \in Nat /\ B \in Nat \ {0}
  BY <1>3, <1>4, <1>5, ScriptSigningAssumption DEF Scans
<1>7. HashSomeStuff(c) = IF o # <<>> /\ Last(o) = "SPACE" /\ Len(o) % B # 0 THEN Front(o) ELSE o
  BY <1>1, <1>3, <1>4, <1>5, Zenon DEF HashSomeStuff
<1>8. HashSomeStuff(d)
        = IF t.out # <<>> /\ Last(t.out) = "SPACE" /\ Len(t.out) % B # 0 THEN Front(t.out) ELSE t.out
  BY <1>2, <1>3, <1>5, Zenon DEF HashSomeStuff
<1>9. OnEdge(c) <=> Len(o) % B = B - 1 /\ (o # <<>> => Last(o) # "SPACE")
  BY <1>1, <1>4, <1>5, Zenon DEF OnEdge
<1>10. CASE s.white
  <2>1. t.out = o
    BY <1>3, <1>4, <1>10, SpaceIs, Zenon DEF Put
  <2>2. o # <<>> /\ Last(o) = "SPACE"
    BY <1>3, <1>4, <1>10, Zenon DEF WhiteLast
  <2> QED
    BY <1>7, <1>8, <1>9, <2>1, <2>2, Zenon
<1>11. CASE ~s.white
  <2>1. t.out = Append(o, "SPACE")
    <3>1. Put(s, "SPACE") = [s EXCEPT !.white = TRUE, !.out = Append(o, "SPACE")]
      BY <1>4, <1>11, SpaceIs, Zenon DEF Put
    <3> QED
      BY <1>3, <3>1 DEF Scans
  <2>2. ~(o # <<>> /\ Last(o) = "SPACE")
    BY <1>3, <1>4, <1>11, Zenon DEF WhiteLast
  <2>3. /\ Append(o, "SPACE") # <<>> /\ Last(Append(o, "SPACE")) = "SPACE"
        /\ Front(Append(o, "SPACE")) = o /\ Append(o, "SPACE") # o
        /\ Len(Append(o, "SPACE")) = Len(o) + 1
    <3>1. "SPACE" \in Symbols
      BY SpaceIs
    <3> QED
      BY ONLY <1>6, <3>1 DEF Last, Front
  <2>4. HashSomeStuff(c) = o
    BY <1>7, <2>2, Zenon
  <2>5. HashSomeStuff(d) = IF (Len(o) + 1) % B # 0 THEN o ELSE Append(o, "SPACE")
    BY <1>8, <2>1, <2>3, Zenon
  <2>6. OnEdge(c) <=> (Len(o) + 1) % B = 0
    <3>1. Len(o) % B = B - 1 <=> (Len(o) + 1) % B = 0
      BY <1>6, Modulus
    <3> QED
      BY <1>9, <2>2, <3>1, Zenon
  <2> QED
    BY <2>3, <2>4, <2>5, <2>6, Zenon
<1> QED
  BY <1>10, <1>11

LEMMA BlockFound ==
  ASSUME NEW c \in Seq(Chars)
  PROVE  HasBlock(c \o Block)
<1>1. PICK d : d = c \o Block
  OBVIOUS
<1>2. PICK L : L = Len(c)
  OBVIOUS
<1>3. EndsInBlock(d, L)
  BY <1>1, <1>2, BlockAt
<1>4. /\ L \in Nat /\ Len(d) = L + 12 /\ d \in Seq(Symbols)
      /\ d[L + 3] = "/" /\ d[L + 4] = "*" /\ d[L + 5] = "SIG"
  BY <1>3 DEF EndsInBlock
<1>5. SubSeq(d, L + 3, L + 5) = <<"/", "*", "SIG">>
  <2>1. PICK u : u = SubSeq(d, L + 3, L + 5)
    OBVIOUS
  <2>2. L + 3 \in 1..Len(d) /\ L + 5 \in 1..Len(d) /\ (L + 5) - (L + 3) + 1 = 3
    BY <1>4
  <2>3. u \in Seq(Symbols) /\ Len(u) = 3 /\ u[1] = d[L + 3] /\ u[2] = d[L + 4] /\ u[3] = d[L + 5]
    BY <1>4, <2>1, <2>2
  <2>4. u = <<"/", "*", "SIG">>
    BY ONLY <1>4, <2>3
  <2> QED
    BY <2>1, <2>4, Zenon
<1>6. (L + 3) + 2 = L + 5 /\ L + 3 \in 1..Len(d)
  BY <1>4
<1>7. HasBlock(d)
  BY <1>5, <1>6 DEF HasBlock
<1> QED
  BY <1>1, <1>7, Zenon

LEMMA SignedFilesAlwaysLoad == SignedFilesLoad
<1> SUFFICES ASSUME NEW c \in Texts, Finished(c), NEW key \in SecurityKeys,
                    StartupSigning(key).ok
             PROVE  LoadFile(SignedFile(c), StartupSigning(key)) = {"loaded"}
                      <=> ~StartupSigning(key).hProv \/ ~OnEdge(c)
  BY DEF SignedFilesLoad
<1>1. PICK settings : settings = StartupSigning(key)
  OBVIOUS
<1>2. c \in Seq(Chars)
  BY ScriptSigningAssumption DEF Texts, BoundedSeq, SeqOf
<1>3. PICK d : d = c \o Block
  OBVIOUS
<1>4. HasBlock(d) /\ (HashSomeStuff(d) = HashSomeStuff(c) <=> ~OnEdge(c))
  BY <1>2, <1>3, BlockFound, SignedHash
<1>5. PICK file : file = SignedFile(c)
  OBVIOUS
<1>6. file.contents = d /\ file.signature = HashSomeStuff(c)
  BY <1>3, <1>5 DEF SignedFile
<1>7. CASE ~settings.hProv
  BY <1>1, <1>5, <1>7, Zenon DEF LoadFile
<1>8. CASE settings.hProv /\ ~OnEdge(c)
  BY <1>1, <1>4, <1>5, <1>6, <1>8, Zenon DEF LoadFile
<1>9. CASE settings.hProv /\ OnEdge(c)
  <2>1. "refused" \in LoadFile(file, settings)
    BY <1>4, <1>6, <1>9 DEF LoadFile
  <2> QED
    BY <1>1, <1>5, <1>9, <2>1
<1> QED
  BY <1>1, <1>7, <1>8, <1>9, Zenon

(* A script that was signed and not changed is loaded without a question,  *)
(* whenever it is loaded and whatever its length, unless it ends one       *)
(* character before a buffer is full (loadjsfile.cpp 28-96).               *)
THEOREM SignedScriptsLoadAlways == Spec => []SignedScriptsLoad
<1>1. SignedScriptsLoad
  BY SignedFilesAlwaysLoad DEF SignedScriptsLoad
<1> QED
  BY <1>1, PTL
=============================================================================
