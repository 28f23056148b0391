------------------------------ MODULE VarStore ------------------------------
(***************************************************************************)
(* The variable store of the first Gecko extension (js_gecko/varstore.cpp, *)
(* varstore.h): variables by name, each with a type and a union that holds *)
(* either a pointer to a string or a number or truth value.  Names are     *)
(* unique, so the linked list is a function of names here.  AddVariable    *)
(* for strings does not set the type, and overwriting a variable deletes   *)
(* whatever its union holds, pointer or not: what is left then is a store  *)
(* of which nothing is known.                                              *)
(***************************************************************************)
EXTENDS Naturals, Sequences, FiniteSetsExt

CONSTANTS Names,    \* names of variables
          Strings,  \* strings: what a pointer to one leads to
          Scalars,  \* numbers and truth values; 0 is FALSE and NULL, too
          MaxPuts   \* bound: values put into one store

ASSUME VarStoreAssumption ==
  /\ MaxPuts \in Nat /\ 0 \in Scalars /\ Strings \intersect Scalars = {}

Types == {"STRING", "BOOLEAN", "NUMBER"}
Words == Strings \union Scalars

Absent == [type |-> "none", word |-> 0]
Lost == [type |-> "lost", word |-> 0]  \* after a stray delete
Variables == [type : Types, word : Words] \union {Absent, Lost}

(* What Set takes from a script (206-242), and SuckOutVars from a page:    *)
(* the state of a checkbox or the text of any other input (uiutil.cpp      *)
(* 61-129).                                                                *)
Values ==
  [type : {"STRING"}, word : Strings] \union
  [type : {"BOOLEAN", "NUMBER"}, word : Scalars]

EmptyStore == [n \in Names |-> Absent]
Ruined == [n \in Names |-> Lost]
Stores == [Names -> Variables]

(* GetVarObj with wipe deletes the string the variable has: a union that   *)
(* is not zero is taken for a pointer, whatever the type (164-170).  A     *)
(* stray delete is undefined behaviour, and no later put makes it good.    *)
Stray(word) == word \in Scalars \ {0}
WipeDamages(v) == v = Lost \/ Stray(v.word)

(* Mutant: no AddVariable sets the type of a variable that is there.       *)
UpdatedKeepsType(old, value) ==
  IF old # Absent THEN [type |-> old.type, word |-> value.word] ELSE value

(* The three AddVariable: an existing variable keeps its type when it gets *)
(* a string; a new one is zeroed, and STRING is 0 (28-155).                *)
Updated(old, value) ==
  IF value.type = "STRING" /\ old # Absent
  THEN [type |-> old.type, word |-> value.word] ELSE value

AddVariable(store, n, value) ==
  IF WipeDamages(store[n]) THEN Ruined ELSE [store EXCEPT ![n] = Updated(@, value)]
-----------------------------------------------------------------------------
Puts == [name : Names, value : Values]
Histories == UNION {[1..m -> Puts] : m \in 0..MaxPuts}

(* The store after the first i of them.                                    *)
After(puts) ==
  LET store[i \in 0..Len(puts)] ==
        IF i = 0 THEN EmptyStore
        ELSE AddVariable(store[i - 1], puts[i].name, puts[i].value)
  IN store

(* The puts under a name, and those that set a type.                       *)
Under(puts, n) == {i \in 1..Len(puts) : puts[i].name = n}
Typed(puts, n) == {i \in Under(puts, n) : puts[i].value.type # "STRING"}

(* A number or TRUE that is put over.                                      *)
Overwritten(puts) ==
  \E j \in 1..Len(puts), i \in 1..Len(puts) :
    i < j /\ puts[i].name = puts[j].name /\ Stray(puts[i].value.word)

(* A store is ruined exactly by a put over a number or TRUE of the same    *)
(* name, which is deleted like a string.  Without one, a name is in the    *)
(* store exactly when it was put there, and Get reads the word that was    *)
(* put there last, as a value of the type of the last put that was no      *)
(* string: a string over a FALSE or a 0 is read as a truth value or a      *)
(* number (28-204).                                                        *)
PutsAreKept ==
  \A puts \in Histories :
    After(puts)[Len(puts)] =
      IF Overwritten(puts) THEN Ruined
      ELSE [n \in Names |->
              IF Under(puts, n) = {} THEN Absent
              ELSE [type |-> IF Typed(puts, n) = {} THEN "STRING"
                             ELSE puts[Max(Typed(puts, n))].value.type,
                    word |-> puts[Max(Under(puts, n))].value.word]]
=============================================================================
