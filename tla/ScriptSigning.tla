---------------------------- MODULE ScriptSigning ----------------------------
(***************************************************************************)
(* Signed scripts (signscript/signscript.cpp, xprep/loadjsfile.cpp).  The  *)
(* signer hashes a script and appends a signature block, in the form of a  *)
(* comment; the loader hashes the whole file, block included.  Both run    *)
(* the same HashSomeStuff, which leaves comments out and folds white       *)
(* space, so that the block should not count.  The text of the block is    *)
(* one character here, SIG, that scripts do not contain.                   *)
(***************************************************************************)
EXTENDS Naturals, Sequences, SequencesExt

CONSTANTS BufferSize, \* characters hashed at a time (1024 in the code)
          MaxText     \* bound: characters of a script

ASSUME ScriptSigningAssumption == BufferSize \in Nat \ {0} /\ MaxText \in Nat

(* A blank stands for a carriage return as well; a space and a single      *)
(* quote have names.                                                       *)
Blank == {"SPACE", "\n"}
Chars == {"a", "\"", "APOS", "\\", "/", "*"} \union Blank
NUL == "NUL"
Texts == BoundedSeq(Chars, MaxText)

At(c, i) == IF i \in 1..Len(c) THEN c[i] ELSE NUL
-----------------------------------------------------------------------------
(* HashSomeStuff.                                                          *)

StopString == <<"SPACE", "\n", "/", "*", "SIG", "SPACE", "\n">>

(* It compares the whole rest of the contents with stopString, which it is *)
(* only when the file ends there.                                          *)
Stops(c, i) == SubSeq(c, i, Len(c)) = StopString

(* A quote of the other kind inside double quotes does not count; after a  *)
(* backslash the quotes are taken to be over, whatever follows.            *)
Quoted(c, i, q) ==
  LET d == IF c[i] # "\"" THEN q ELSE IF q = "none" THEN "double" ELSE "none"
      s == IF c[i] # "APOS" \/ d = "double" THEN d ELSE IF d = "none" THEN "single" ELSE "none"
  IN IF At(c, i - 1) = "\\" THEN "none" ELSE s

(* The least of some positions, 0 when there is none.                      *)
First(found) ==
  IF found = {} THEN 0 ELSE CHOOSE k \in found : \A j \in found : k <= j

LineEnds(c, i) == {k \in i..Len(c) : c[k] = "\n"}
CommentEnds(c, i) == {k \in i..Len(c) : c[k] = "*" /\ At(c, k + 1) = "/"}

(* Mutant: the second character of the end of a comment is not skipped.    *)
AfterCommentButOne(c, i) ==
  IF At(c, i) = "/" /\ At(c, i + 1) = "/" THEN First(LineEnds(c, i))
  ELSE IF At(c, i) = "/" /\ At(c, i + 1) = "*"
  THEN LET k == First(CommentEnds(c, i)) IN IF k = 0 THEN 0 ELSE k + 1
  ELSE i

(* Where the scan goes on when it is outside quotes: the newline that ends *)
(* a line comment, the character behind any other comment.  The search     *)
(* does not stop at the end of the contents; 0 when it runs past it.       *)
AfterComment(c, i) ==
  IF At(c, i) = "/" /\ At(c, i + 1) = "/" THEN First(LineEnds(c, i))
  ELSE IF At(c, i) = "/" /\ At(c, i + 1) = "*"
  THEN LET k == First(CommentEnds(c, i)) IN IF k = 0 THEN 0 ELSE k + 2
  ELSE i

(* The loop: its position, whether it is inside quotes or has run "beyond" *)
(* the contents, whether what it put last is a blank, and what it has put  *)
(* into the buffer.                                                        *)
ScanStart == [i |-> 1, quotes |-> "none", white |-> FALSE, out |-> <<>>]
Ended(c, s) == s.i > Len(c) \/ Stops(c, s.i)

(* A blank after a blank is left out, any other becomes a space.           *)
Put(s, ch) ==
  IF ch = NUL \/ (ch \in Blank /\ s.white) THEN s
  ELSE IF ch \in Blank THEN [s EXCEPT !.white = TRUE, !.out = Append(@, "SPACE")]
  ELSE [s EXCEPT !.white = FALSE, !.out = Append(@, ch)]

Round(c, s) ==
  LET q == Quoted(c, s.i, s.quotes)
      j == IF q = "none" THEN AfterComment(c, s.i) ELSE s.i
  IN IF j = 0 THEN [s EXCEPT !.i = Len(c) + 1, !.quotes = "beyond"]
     ELSE [Put(s, At(c, j)) EXCEPT !.i = j + 1, !.quotes = q]

Onward(c, s) == IF Ended(c, s) THEN s ELSE Round(c, s)

(* Every round takes a character at least.                                 *)
Rounds(c) ==
  LET scan[n \in 0..Len(c)] == IF n = 0 THEN ScanStart ELSE Onward(c, scan[n - 1])
  IN scan

Scan(c) == Rounds(c)[Len(c)]

(* A buffer that is full is hashed at once; a blank at the end is taken    *)
(* off only if it is in the last buffer, and outside quotes.               *)
HashSomeStuff(c) ==
  LET s == Scan(c) IN
    IF s.out # <<>> /\ Last(s.out) = "SPACE" /\ s.quotes = "none"
       /\ Len(s.out) % BufferSize # 0
    THEN Front(s.out) ELSE s.out
-----------------------------------------------------------------------------
(* The signer appends the block; the signature is what was hashed.         *)
Block == StopString \o <<"SIG", "*", "/", "SPACE", "\n">>
SignedFile(c) == [contents |-> c \o Block, signature |-> HashSomeStuff(c)]

(* StartupSigning: without a Security key, or a certificate in it, nothing *)
(* is checked; a value that is not there means yes.                        *)
Values == {"absent", "zero", "one"}
SecurityKeys == [certificate : {"none", "bad", "good"}, AllowUnsignedCode : Values,
                 PromptAfterBadSigning : Values]

StartupSigning(key) ==
  [ok |-> key.certificate # "bad",
   hProv |-> key.certificate = "good",
   allowUnsignedCode |-> key.AllowUnsignedCode # "zero",
   promptAfterFailedSigning |-> key.PromptAfterBadSigning # "zero"]

HasBlock(c) == \E i \in 1..Len(c) : SubSeq(c, i, i + 2) = <<"/", "*", "SIG">>

(* LoadFile: what may come of it.  The user who goes on with a file that   *)
(* has no block makes it look for the end of a line from NULL.             *)
LoadFile(file, settings) ==
  IF ~settings.hProv THEN {"loaded"}
  ELSE IF ~HasBlock(file.contents)
  THEN {"refused"} \union (IF settings.allowUnsignedCode THEN {"crash"} ELSE {})
  ELSE IF HashSomeStuff(file.contents) = file.signature THEN {"loaded"}
  ELSE {"refused"} \union (IF settings.promptAfterFailedSigning THEN {"loaded"} ELSE {})
-----------------------------------------------------------------------------
(* Properties.                                                             *)

(* Scripts whose scan by the signer ends in code, not in quotes or in a    *)
(* comment without an end, which the block would end.                      *)
Finished(c) == Scan(c).quotes = "none"

(* One more character fills a buffer, and the block begins with a blank:   *)
(* the loader hashes the blank, which the signer did not.                  *)
OnEdge(c) ==
  LET out == Scan(c).out IN
    Len(out) % BufferSize = BufferSize - 1 /\ (out # <<>> => Last(out) # "SPACE")

(* A file that was signed and not changed is loaded without a question,    *)
(* whatever the settings, unless its script ends one character before a    *)
(* buffer is full (loadjsfile.cpp 74-88, signscript.cpp 71-85).            *)
SignedFilesLoad ==
  \A c \in {t \in Texts : Finished(t)} :
    LET file == SignedFile(c)  edge == OnEdge(c) IN
      \A key \in SecurityKeys :
        LET settings == StartupSigning(key) IN
          settings.ok =>
            (LoadFile(file, settings) = {"loaded"} <=> ~settings.hProv \/ ~edge)
=============================================================================
