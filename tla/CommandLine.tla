----------------------------- MODULE CommandLine -----------------------------
(***************************************************************************)
(* How a typed line becomes a command: loadBufferFromStdin (buffer.c) puts *)
(* the characters into a buffer that still holds what earlier lines left   *)
(* there, userInputToCmds (ipk24protocol.c) cuts words out of it with the  *)
(* pointer arithmetic of getWord (utils.c).                                *)
(*                                                                         *)
(* A character is its class: "letter" is allowed in every word, "mark"     *)
(* only in names and messages, "blank" separates words, "cr" ends a word   *)
(* but separates none.  The word a line begins with is one cell if it is a *)
(* command or the beginning of one: "slash" is the bare "/", and "auth"    *)
(* stands for "/a" ... "/auth".                                            *)
(***************************************************************************)
EXTENDS Integers, Sequences, FiniteSetsExt

CONSTANTS
  MaxLine,       \* bound: the number of cells of a line
  maxName,       \* limit of username, channel id and display name (20)
  maxSecret,     \* limit of the secret (128)
  maxContents,   \* limit of the contents of a message (14000)
  Stale          \* the characters an earlier line may have left behind

Chars    == {"letter", "mark", "blank", "cr"}
Commands == {"slash", "auth", "join", "rename", "help", "exit"}
Cells    == Chars \cup Commands \cup {"zero"}

ASSUME LineAssumption == /\ MaxLine \in Nat
                         /\ {maxName, maxSecret, maxContents} \subseteq Nat
                         /\ Stale \subseteq Cells

VARIABLES
  data,      \* clientInput->data
  used,      \* clientInput->used
  stage,     \* "typing" or "parsed"
  pBlocks    \* the type of the command and its words

vars == <<data, used, stage, pBlocks>>

NoBlock   == [start |-> -1, len |-> 0]
NoCommand == [type |-> "NONE", words |-> <<>>]

(* The buffer after a line of one repeated character.                       *)
Capacity == 0 .. 2 * MaxLine + 1
Init == /\ \E c \in Stale : data = [p \in Capacity |-> c]
        /\ used = 0 /\ stage = "typing" /\ pBlocks = NoCommand

(* loadBufferFromStdin: one character.  A command is a word of its own.     *)
TypeChar(c) ==
  /\ stage = "typing" /\ used < MaxLine
  /\ c \in Commands => used = 0
  /\ used = 1 /\ data[0] \in Commands => c \in {"blank", "cr"}
  /\ data' = [data EXCEPT ![used] = c]
  /\ used' = used + 1
  /\ UNCHANGED <<stage, pBlocks>>

-----------------------------------------------------------------------------
(* utils.c.  The arguments are the position in the buffer and the number of *)
(* characters that may be looked at; the byte before the buffer belongs to  *)
(* malloc and is zero.                                                      *)
Line    == [data EXCEPT ![used] = "zero"]
At(p)   == IF p = -1 THEN "zero" ELSE Line[p]
Nearest(hits) == IF hits = {} THEN -1 ELSE Min(hits)

findBlankCharInString(p, n) ==
  Nearest({k \in 0 .. n : At(p + k) \in {"blank", "cr", "zero"}})
findNewLineInString(p, n) ==
  Nearest({k \in 0 .. n : At(p + k) \in {"cr", "zero"}})
skipBlankCharsInString(p, n) == Nearest({k \in 0 .. n - 1 : At(p + k) # "blank"})

(* Faulty variant of getWord: the word begins where the last one ended.     *)
getWordNoSkip(p, n) ==
  IF n <= 0 THEN NoBlock
  ELSE [start |-> p, len |-> findBlankCharInString(p, n)]

(* getWord: a word of length 0 is none.                                     *)
getWord(p, n) ==
  IF n <= 0 THEN NoBlock
  ELSE LET start == p + skipBlankCharsInString(p, n)
       IN  [start |-> start, len |-> findBlankCharInString(start, n)]

End(b) == b.start + b.len

allowedIn == [credentials |-> {"letter", "auth"},
              name        |-> {"letter", "auth", "mark", "slash"},
              message     |-> {"letter", "mark", "blank"}]

controlWord(b, maxLen, kind) ==
  /\ b.len \in 1 .. maxLen
  /\ \A p \in b.start .. End(b) - 1 : At(p) \in allowedIn[kind]

-----------------------------------------------------------------------------
(* userInputToCmds: `cmd` is the length of the first word.  A command is    *)
(* recognised by comparing as many characters as were typed, so that a line *)
(* that begins with a blank, with nothing to compare, is an /auth.          *)
cmdLen == findBlankCharInString(0, used)

Recognised ==
  CASE cmdLen = 0 \/ data[0] \in {"slash", "auth"} -> "AUTH"
    [] cmdLen # 0 /\ data[0] = "join"   -> "JOIN"
    [] cmdLen # 0 /\ data[0] = "rename" -> "RENAME"
    [] cmdLen # 0 /\ data[0] = "help"   -> "HELP"
    [] cmdLen # 0 /\ data[0] = "exit"   -> "EXIT"
    [] OTHER -> "MSG"

Parsed(type, words) == [type |-> type, words |-> words]
Missing == Parsed("MISSING", <<>>)

(* Three words; the space the leading blanks took is not subtracted.        *)
ParseAuth ==
  LET first  == getWord(cmdLen, used - cmdLen)
      second == getWord(End(first), used - (cmdLen + first.len))
      third  == getWord(End(second), used - (cmdLen + first.len + second.len))
  IN  IF first.len = 0 \/ second.len = 0 \/ third.len = 0 THEN Missing
      ELSE IF /\ controlWord(first, maxName, "credentials")
              /\ controlWord(second, maxSecret, "credentials")
              /\ controlWord(third, maxName, "name")
           THEN Parsed("AUTH", <<first, second, third>>)
           ELSE NoCommand

(* Faulty variant of ParseRest: the argument begins right after the command *)
ParseRestNoSkip(type, kind) ==
  LET first == [start |-> cmdLen, len |-> findNewLineInString(cmdLen, used - cmdLen)]
  IN  IF first.len = -1 THEN Missing
      ELSE IF controlWord(first, maxName, kind) THEN Parsed(type, <<first>>)
           ELSE NoCommand

(* One argument, the rest of the line.                                      *)
ParseRest(type, kind) ==
  LET start == cmdLen + skipBlankCharsInString(cmdLen, used - cmdLen)
      len   == findNewLineInString(start, used - cmdLen)
      first == [start |-> start, len |-> len]
  IN  IF len = -1 THEN Missing
      ELSE IF controlWord(first, maxName, kind) THEN Parsed(type, <<first>>)
           ELSE NoCommand

ParseContents ==
  LET all == [start |-> 0, len |-> used]
  IN  IF controlWord(all, maxContents, "message") THEN Parsed("MSG", <<all>>)
      ELSE NoCommand

userInputToCmds ==
  CASE used = 0 -> NoCommand
    [] used # 0 /\ Recognised = "AUTH"   -> ParseAuth
    [] used # 0 /\ Recognised = "JOIN"   -> ParseRest("JOIN", "credentials")
    [] used # 0 /\ Recognised = "RENAME" -> ParseRest("RENAME", "name")
    [] used # 0 /\ Recognised \in {"HELP", "EXIT"} -> Parsed(Recognised, <<>>)
    [] used # 0 /\ Recognised = "MSG"    -> ParseContents

(* The terminator is written, the line is cut up.                           *)
Parse ==
  /\ stage = "typing" /\ stage' = "parsed"
  /\ data' = Line
  /\ pBlocks' = userInputToCmds
  /\ UNCHANGED used

Next == Parse \/ \E c \in Chars \cup Commands : TypeChar(c)

Spec == Init /\ [][Next]_vars

-----------------------------------------------------------------------------
(* Reference: the words of a line are its maximal runs of characters that   *)
(* are neither blank nor the end of a word, found without any arithmetic on *)
(* lengths.                                                                 *)
WordChar(p)  == p \in 0 .. used - 1 /\ data[p] \notin {"blank", "cr"}
StartsAt(p)  == WordChar(p) /\ ~WordChar(p - 1)
Starts       == {p \in 0 .. used - 1 : StartsAt(p)}
EndOf(p)     == Min({q \in p .. used : ~WordChar(q)})
NthWord(n)   == CHOOSE b \in [start : Starts, len : 1 .. MaxLine] :
                  /\ Cardinality({q \in Starts : q <= b.start}) = n
                  /\ End(b) = EndOf(b.start)

(* What is between two words is blank: a stray carriage return is none.     *)
Regular == \A p \in 0 .. used - 1 : data[p] # "cr"

Valid(b, maxLen, kind) ==
  b.len <= maxLen /\ \A p \in b.start .. End(b) - 1 : data[p] \in allowedIn[kind]

(* An /auth with at least one argument is accepted exactly if it has three  *)
(* words that keep to their limits, and they are cut out where they stand,  *)
(* whatever blanks are between them and whatever an earlier line has left   *)
(* behind the end of this one.  Without an argument the failed searches for *)
(* one are used as positions, and an /auth followed by three blanks is      *)
(* accepted: such lines are left out.                                       *)
AuthCutRight ==
  stage = "parsed" /\ used > 0 /\ data[0] = "auth" /\ Regular
    /\ Cardinality(Starts) > 1 =>
  \/ Cardinality(Starts) < 4 /\ pBlocks = Missing
  \/ /\ Cardinality(Starts) >= 4
     /\ LET words == <<NthWord(2), NthWord(3), NthWord(4)>>
            valid == /\ Valid(words[1], maxName, "credentials")
                     /\ Valid(words[2], maxSecret, "credentials")
                     /\ Valid(words[3], maxName, "name")
        IN  pBlocks = IF valid THEN Parsed("AUTH", words) ELSE NoCommand

(* The argument of /join and /rename is the rest of the line from its first *)
(* character that is not blank on; a line without one is reported, although *)
(* the search for it then runs from the position before the blanks.         *)
RestCutRight ==
  stage = "parsed" /\ used > 0 /\ data[0] \in {"join", "rename"} /\ Regular =>
  LET kind == IF data[0] = "join" THEN "credentials" ELSE "name"
      type == IF data[0] = "join" THEN "JOIN" ELSE "RENAME"
  IN  \/ Cardinality(Starts) = 1 /\ pBlocks = Missing
      \/ /\ Cardinality(Starts) > 1
         /\ LET b == [start |-> Min(Starts \ {0}), len |-> used - Min(Starts \ {0})]
            IN  pBlocks = IF Valid(b, maxName, kind) THEN Parsed(type, <<b>>)
                          ELSE NoCommand

(* README: "`/auth {username} {secret} {displayname}`-> autheticates user   *)
(* to the server and sets displayname".                                     *)
AuthAsDocumented ==
  stage = "parsed" /\ pBlocks.type = "AUTH" =>
    data[0] = "auth" /\ Cardinality(Starts) >= 4
==============================================================================
