----------------------------- MODULE WildMatch -----------------------------
(***************************************************************************)
(* The wildcard match that decides which files of a directory the WIM      *)
(* extension leaves out of an image (js_wimg/exceptions.cpp, MatchEntry).  *)
(* The two loops of MatchEntry::Match walk two pointers over strings that  *)
(* end in a NUL; here the pointers are indices and one step is one round   *)
(* of a loop.  Strings are sequences over a small alphabet in which the    *)
(* backslash and the two wildcards have their meaning.                     *)
(***************************************************************************)
EXTENDS Naturals, Sequences

CONSTANTS Letters,     \* the ordinary characters
          Lower,       \* [Letters -> Letters], what _wcslwr_s makes of them
          Slash, Star, Question, NUL,
          MaxTarget,   \* bound: characters of a path
          MaxPattern   \* bound: characters of a pattern

Special == {Slash, Star, Question, NUL}

ASSUME WildMatchAssumption ==
  /\ Lower \in [Letters -> Letters]
  /\ Letters \intersect Special = {}
  /\ Slash # Star /\ Slash # Question /\ Star # Question
  /\ NUL \notin {Slash, Star, Question}
  /\ MaxTarget \in Nat /\ MaxPattern \in Nat

PathChars == Letters \union {Slash}
PatternChars == PathChars \union {Star, Question}

Strings(chars, max) == UNION {[1..n -> chars] : n \in 0..max}

VARIABLES
  target,    \* the path the callback is asked about
  match,     \* matchString, the pattern in lower case
  fileName,  \* the pattern has no backslash
  tp, mp,    \* the two pointers of Match
  at,        \* "name", "drive" (advancing tp), "match", "done"
  sp,        \* the last backslash seen while advancing
  result     \* what Match returns

matchVars == <<target, match, fileName, tp, mp, at, sp, result>>

(* What a pointer to position i of s reads: past the end lies the NUL.     *)
At(s, i) == IF i \in 1..Len(s) THEN s[i] ELSE NUL

MatchTypeOK ==
  /\ target \in Seq(PathChars)
  /\ match \in Seq(PatternChars)
  /\ fileName \in BOOLEAN
  /\ tp \in Nat \ {0} /\ mp \in Nat \ {0} /\ sp \in Nat \ {0}
  /\ at \in {"name", "drive", "match", "done"}
  /\ result \in BOOLEAN

LowerCase(c) == IF c \in Letters THEN Lower[c] ELSE c

NewEntry(copyFrom) == [i \in 1..Len(copyFrom) |-> LowerCase(copyFrom[i])]

IsFileName(copyFrom) == \A i \in 1..Len(copyFrom) : copyFrom[i] # Slash

MatchInit ==
  /\ target \in Strings(PathChars, MaxTarget)
  /\ \E p \in Strings(PatternChars, MaxPattern) :
       match = NewEntry(p) /\ fileName = IsFileName(p)
  /\ tp = 1 /\ mp = 1 /\ sp = 1
  /\ at = IF fileName THEN "name" ELSE "drive"
  /\ result = FALSE
-----------------------------------------------------------------------------
(* A pattern for a file name: to the last backslash that something follows *)
AdvanceName ==
  /\ at = "name" /\ At(target, tp) # NUL
  /\ sp' = IF At(target, tp) = Slash /\ At(target, tp + 1) # NUL THEN tp ELSE sp
  /\ tp' = tp + 1
  /\ UNCHANGED <<target, match, fileName, mp, at, result>>

(* Mutant: the pointer starts one character early.                         *)
NameReachedEarly ==
  /\ at = "name" /\ At(target, tp) = NUL
  /\ tp' = sp - 1 /\ at' = "match"
  /\ UNCHANGED <<target, match, fileName, mp, sp, result>>

NameReached ==
  /\ at = "name" /\ At(target, tp) = NUL
  /\ tp' = sp /\ at' = "match"
  /\ UNCHANGED <<target, match, fileName, mp, sp, result>>

(* A pattern for a path: past the drive, and past its backslash unless the *)
(* path ends there; a path without a backslash is taken from its start.    *)
AdvanceDrive ==
  /\ at = "drive" /\ At(target, tp) \notin {Slash, NUL}
  /\ tp' = tp + 1
  /\ UNCHANGED <<target, match, fileName, mp, at, sp, result>>

(* Mutant: the pointer stays at the backslash.                             *)
DriveReachedAtSlash ==
  /\ at = "drive" /\ At(target, tp) \in {Slash, NUL}
  /\ tp' = IF At(target, tp) = NUL THEN 1 ELSE tp
  /\ at' = "match"
  /\ UNCHANGED <<target, match, fileName, mp, sp, result>>

DriveReached ==
  /\ at = "drive" /\ At(target, tp) \in {Slash, NUL}
  /\ tp' = IF At(target, tp) = NUL THEN 1
           ELSE IF At(target, tp + 1) # NUL THEN tp + 1 ELSE tp
  /\ at' = "match"
  /\ UNCHANGED <<target, match, fileName, mp, sp, result>>
-----------------------------------------------------------------------------
Reading == at = "match" /\ At(target, tp) # NUL

Returns(value) == at' = "done" /\ result' = value

(* The first position from i on where s does not, or does, hold c, or its  *)
(* end: the two inner loops at a star.                                     *)
FirstNot(s, i, c) ==
  CHOOSE k \in i..(Len(s) + 1) :
    At(s, k) # c /\ \A j \in i..(k - 1) : At(s, j) = c
FirstOr(s, i, c) ==
  CHOOSE k \in i..(Len(s) + 1) :
    At(s, k) \in {c, NUL} /\ \A j \in i..(k - 1) : At(s, j) \notin {c, NUL}

(* Stars, then the first character that equals the one after them: the     *)
(* code tries no later one.                                                *)
MatchStar ==
  /\ Reading /\ At(match, mp) = Star
  /\ mp' = FirstNot(match, mp, Star)
  /\ IF At(match, mp') = NUL
     THEN Returns(TRUE) /\ UNCHANGED tp
     ELSE /\ tp' = FirstOr(target, tp, At(match, mp'))
          /\ IF At(target, tp') = NUL
             THEN Returns(FALSE) ELSE UNCHANGED <<at, result>>
  /\ UNCHANGED <<target, match, fileName, sp>>

(* Mutant: the pattern moves on by two characters.                         *)
MatchQuestionTwice ==
  /\ Reading /\ At(match, mp) = Question
  /\ mp' = mp + 2 /\ tp' = tp + 1
  /\ IF At(target, tp') # At(match, mp')
     THEN Returns(FALSE) ELSE UNCHANGED <<at, result>>
  /\ UNCHANGED <<target, match, fileName, sp>>

(* The comparison after a question mark is with the characters behind it,  *)
(* which the next round compares again (a star or a question mark that     *)
(* follows a question mark is taken literally and never equal).            *)
MatchQuestion ==
  /\ Reading /\ At(match, mp) = Question
  /\ mp' = mp + 1 /\ tp' = tp + 1
  /\ IF At(target, tp') # At(match, mp')
     THEN Returns(FALSE) ELSE UNCHANGED <<at, result>>
  /\ UNCHANGED <<target, match, fileName, sp>>

MatchLiteral ==
  /\ Reading /\ At(match, mp) \notin {Star, Question}
  /\ IF At(match, mp) = At(target, tp)
     THEN mp' = mp + 1 /\ tp' = tp + 1 /\ UNCHANGED <<at, result>>
     ELSE Returns(FALSE) /\ UNCHANGED <<mp, tp>>
  /\ UNCHANGED <<target, match, fileName, sp>>

(* The end of the target ends the match, whatever is left of the pattern.  *)
TargetEnds ==
  /\ at = "match" /\ At(target, tp) = NUL
  /\ Returns(TRUE)
  /\ UNCHANGED <<target, match, fileName, tp, mp, sp>>

MatchNext ==
  \/ AdvanceName \/ NameReached \/ AdvanceDrive \/ DriveReached
  \/ MatchStar \/ MatchQuestion \/ MatchLiteral \/ TargetEnds

MatchSpec == MatchInit /\ [][MatchNext]_matchVars /\ WF_matchVars(MatchNext)
-----------------------------------------------------------------------------
(* The part of a path that a pattern is meant for, and where the code      *)
(* starts: at the last backslash that something follows for the name of a  *)
(* file, behind the first backslash for a path.                            *)
Slashes == {i \in 1..Len(target) : target[i] = Slash}

Inner == Slashes \ {Len(target)}

Last(S) == CHOOSE i \in S : \A j \in S : j <= i
First(S) == CHOOSE i \in S : \A j \in S : i <= j

From ==
  IF fileName
  THEN IF Inner = {} THEN 1 ELSE Last(Inner)
  ELSE IF Slashes = {} THEN 1
       ELSE IF First(Slashes) = Len(target) THEN Len(target)
       ELSE First(Slashes) + 1

Part == SubSeq(target, From, Len(target))

FilePortion ==
  IF Inner = {} THEN target ELSE SubSeq(target, Last(Inner) + 1, Len(target))

(* What a pattern means: a star for any characters, a question mark for    *)
(* one, and anything else for itself.                                      *)
Glob(p, s) ==
  LET from[c \in (1..(Len(p) + 1)) \X (1..(Len(s) + 1))] ==
        LET i == c[1]
            j == c[2]
        IN IF i > Len(p) THEN j > Len(s)
           ELSE IF p[i] = Star
                THEN from[<<i + 1, j>>] \/ (j <= Len(s) /\ from[<<i, j + 1>>])
           ELSE /\ j <= Len(s)
                /\ p[i] \in {Question, s[j]}
                /\ from[<<i + 1, j + 1>>]
  IN from[<<1, 1>>]

(* No pointer passes the NUL of its string, on any way through the loops:  *)
(* what is compared is always a character of the strings.                  *)
InBounds == tp <= Len(target) + 1 /\ mp <= Len(match) + 1

(* The patterns for which the one pass without backtracking is enough:     *)
(* nothing but stars follows a star, no wildcard follows a question mark.  *)
OnePass ==
  \A i \in 1..(Len(match) - 1) :
    /\ match[i] = Star => match[i + 1] = Star
    /\ match[i] = Question => match[i + 1] \notin {Star, Question}

(* A file is left out of the image only when some beginning of the pattern *)
(* describes it (the whole pattern need not: Match gives TRUE when the     *)
(* target ends first, so the pattern "ab" leaves out a file "a", too), and *)
(* every file that a pattern of the one-pass kind describes is left out:   *)
(* the pointers start where they should and no comparison goes wrong.      *)
MatchMeans ==
  at = "done" =>
    /\ result => \E n \in 0..Len(match) : Glob(SubSeq(match, 1, n), Part)
    /\ OnePass /\ Glob(match, Part) => result

(* "If we're matching against a filename, advance the target to the        *)
(* filename portion" (exceptions.cpp:40): a pattern that is the name of a  *)
(* file leaves that file out.  The pointer stops at the backslash before   *)
(* the name, so it does not.                                               *)
NamedFileMatches ==
  at = "done" /\ fileName /\ match = FilePortion => result

(* "Otherwise advance past the drive name ("c:\temp" -> "\temp")"          *)
(* (exceptions.cpp:51): a pattern that is the path of a file on its drive, *)
(* from the backslash on, leaves that file out.  The pointer stops behind  *)
(* the backslash, so it does not.                                          *)
PathOnDriveMatches ==
  /\ at = "done" /\ ~fileName /\ Slashes # {}
  /\ match = SubSeq(target, First(Slashes), Len(target))
  => result
=============================================================================
