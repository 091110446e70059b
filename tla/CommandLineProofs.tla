-------------------------- MODULE CommandLineProofs --------------------------
(***************************************************************************)
(* What is cut out of a typed line, for lines of any length, any limits of *)
(* the fields and anything an earlier line has left in the buffer.         *)
(*                                                                         *)
(* The one invariant is LineInv: what was typed, and the terminator behind *)
(* it.  The rest is about the searches.  Each returns the least position   *)
(* with some property, or -1; the lengths they are given are too large by  *)
(* the blanks that were skipped before, so that they may look behind the   *)
(* end of the line.  SkipFinds, BlankFinds and NewLineFinds say that they  *)
(* find the right position all the same, as the terminator comes first;    *)
(* WordFound and WordMissing what getWord makes of it.                     *)
(***************************************************************************)
EXTENDS CommandLine, FiniteSetTheorems, TLAPS

(* The line as it is kept: behind a command comes a blank or the end, and   *)
(* what was parsed is still there.                                          *)
LineInv ==
  /\ used \in 0 .. MaxLine
  /\ data \in [Capacity -> Cells]
  /\ stage \in {"typing", "parsed"}
  /\ \A p \in 0 .. used - 1 : data[p] # "zero"
  /\ \A p \in 1 .. used - 1 : data[p] \in Chars
  /\ used > 1 /\ data[0] \in Commands => data[1] \in {"blank", "cr"}
  /\ stage = "parsed" => data[used] = "zero" /\ pBlocks = userInputToCmds

-----------------------------------------------------------------------------
(* Least positions.                                                         *)
LEMMA LeastElement ==
  ASSUME NEW T \in SUBSET Nat, T # {}
  PROVE  \E x \in T : \A y \in T : x <= y
<1>1. \E x \in T : \A y \in T : <<y, x>> \notin OpToRel(<, Nat)
  BY NatLessThanWellFounded, WFMin
<1>2. \A x, y \in Nat : y < x => <<y, x>> \in OpToRel(<, Nat)
  BY DEF OpToRel
<1>3. \A x, y \in Nat : ~(y < x) => x <= y
  OBVIOUS
<1> QED BY <1>1, <1>2, <1>3

LEMMA MinIs ==
  ASSUME NEW S \in SUBSET Int, NEW m \in S, \A y \in S : m <= y
  PROVE  Min(S) = m
<1>1. Min(S) \in S /\ \A y \in S : Min(S) <= y
  BY Zenon DEF Min
<1>2. Min(S) \in Int /\ m \in Int /\ Min(S) <= m /\ m <= Min(S)
  BY <1>1
<1> HIDE DEF Min
<1> QED BY <1>2

LEMMA NearestIs ==
  ASSUME NEW S \in SUBSET Int, NEW m \in S, \A y \in S : m <= y
  PROVE  Nearest(S) = m
BY MinIs DEF Nearest
-----------------------------------------------------------------------------
(* Writing the terminator changes nothing of what is parsed.                *)
LEMMA SameSearches ==
  ASSUME Line' = Line
  PROVE  /\ \A p : At(p)' = At(p)
         /\ \A p, n : findBlankCharInString(p, n)' = findBlankCharInString(p, n)
         /\ \A p, n : findNewLineInString(p, n)' = findNewLineInString(p, n)
         /\ \A p, n : skipBlankCharsInString(p, n)' = skipBlankCharsInString(p, n)
         /\ \A p, n : getWord(p, n)' = getWord(p, n)
         /\ \A b, m, k : controlWord(b, m, k)' = controlWord(b, m, k)
<1>1. \A p : At(p)' = At(p)
  BY DEF At
<1>2. \A p, n : findBlankCharInString(p, n)' = findBlankCharInString(p, n)
  BY <1>1 DEF findBlankCharInString
<1>3. \A p, n : findNewLineInString(p, n)' = findNewLineInString(p, n)
  BY <1>1 DEF findNewLineInString
<1>4. \A p, n : skipBlankCharsInString(p, n)' = skipBlankCharsInString(p, n)
  BY <1>1 DEF skipBlankCharsInString
<1>5. \A p, n : getWord(p, n)' = getWord(p, n)
  BY <1>2, <1>4 DEF getWord
<1>6. \A b, m, k : controlWord(b, m, k)' = controlWord(b, m, k)
  BY <1>1 DEF controlWord
<1> QED BY <1>1, <1>2, <1>3, <1>4, <1>5, <1>6

LEMMA SameParse ==
  ASSUME Line' = Line, used' = used, data'[0] = data[0] \/ used = 0
  PROVE  userInputToCmds' = userInputToCmds
<1>1. cmdLen' = cmdLen
  BY SameSearches DEF cmdLen
<1>2. ParseAuth' = ParseAuth
  BY <1>1, SameSearches DEF ParseAuth
<1>3. \A t, k : ParseRest(t, k)' = ParseRest(t, k)
  BY <1>1, SameSearches DEF ParseRest
<1>4. ParseContents' = ParseContents
  BY SameSearches DEF ParseContents
<1>5. used # 0 => Recognised' = Recognised
  BY <1>1 DEF Recognised
<1> QED BY <1>2, <1>3, <1>4, <1>5 DEF userInputToCmds
LEMMA LineStep ==
  ASSUME LineInv, [Next]_vars
  PROVE  LineInv'
<1>a. MaxLine \in Nat /\ used \in 0 .. MaxLine /\ 0 .. MaxLine \subseteq Capacity
  BY LineAssumption DEF LineInv, Capacity
<1>1. ASSUME NEW c \in Chars \cup Commands, TypeChar(c)
      PROVE  LineInv'
  <2>1. /\ used' = used + 1 /\ used' \in 0 .. MaxLine
        /\ stage' = "typing" /\ c \in Cells /\ c # "zero"
        /\ data' = [data EXCEPT ![used] = c] /\ used \in Capacity
    BY <1>1, <1>a DEF TypeChar, Cells, Chars, Commands
  <2>2. data' \in [Capacity -> Cells]
    BY <2>1 DEF LineInv
  <2>3. \A p \in 0 .. used' - 1 : data'[p] = IF p = used THEN c ELSE data[p]
    BY <2>1, <1>a DEF LineInv
  <2>4. \A p \in 0 .. used' - 1 : data'[p] # "zero"
    BY <2>1, <2>3, <1>a DEF LineInv
  <2>5. \A p \in 1 .. used' - 1 : data'[p] \in Chars
    BY <2>1, <2>3, <1>1, <1>a DEF LineInv, TypeChar
  <2>6. used' > 1 /\ data'[0] \in Commands => data'[1] \in {"blank", "cr"}
    BY <2>1, <2>3, <1>1, <1>a DEF LineInv, TypeChar
  <2> QED BY <2>1, <2>2, <2>4, <2>5, <2>6 DEF LineInv
<1>2. CASE Parse
  <2>1. /\ used' = used /\ stage' = "parsed" /\ data' = [data EXCEPT ![used] = "zero"]
        /\ pBlocks' = userInputToCmds /\ used \in Capacity
    BY <1>2, <1>a DEF Parse, Line
  <2>2. /\ data' \in [Capacity -> Cells] /\ data'[used] = "zero"
        /\ \A p \in 0 .. used - 1 : data'[p] = data[p]
    BY <2>1, <1>a DEF LineInv, Cells
  <2>3. Line' = Line
    BY <2>1, <2>2 DEF Line, LineInv
  <2>4. data'[0] = data[0] \/ used = 0
    BY <2>2, <1>a
  <2>5. userInputToCmds' = userInputToCmds
    BY <2>1, <2>3, <2>4, SameParse
  <2>6. used > 1 => data'[1] = data[1] /\ data'[0] = data[0]
    BY <2>2, <1>a
  <2>7. \A p \in 0 .. used - 1 : data'[p] # "zero"
    BY <2>2 DEF LineInv
  <2>8. \A p \in 1 .. used - 1 : data'[p] \in Chars
    BY <2>2, <1>a DEF LineInv
  <2> QED BY <2>1, <2>2, <2>5, <2>6, <2>7, <2>8 DEF LineInv
<1>3. CASE UNCHANGED vars
  <2>1. Line' = Line
    BY <1>3 DEF vars, Line
  <2>2. userInputToCmds' = userInputToCmds
    BY <2>1, <1>3, SameParse DEF vars
  <2> QED BY <1>3, <2>2 DEF vars, LineInv
<1> QED BY <1>1, <1>2, <1>3 DEF Next

LEMMA LineInvHolds == Spec => []LineInv
<1>1. Init => LineInv
  BY LineAssumption DEF Init, LineInv, Capacity
<1> QED BY <1>1, LineStep, PTL DEF Spec

-----------------------------------------------------------------------------
(* A line that was parsed, without carriage returns.                        *)
Cut == LineInv /\ stage = "parsed" /\ Regular

Blanks(p, q) == \A k \in p .. q : data[k] = "blank"

LEMMA CutFacts ==
  ASSUME Cut
  PROVE  /\ used \in Nat /\ used <= MaxLine /\ MaxLine \in Nat
         /\ \A p \in 0 .. used : At(p) = data[p]
         /\ data[used] = "zero"
         /\ \A p \in 0 .. used - 1 : data[p] \notin {"zero", "cr"}
         /\ \A p : WordChar(p) <=> p \in 0 .. used - 1 /\ data[p] # "blank"
<1>1. used \in Nat /\ used <= MaxLine /\ MaxLine \in Nat /\ data[used] = "zero"
  BY LineAssumption DEF Cut, LineInv
<1>2. \A p \in 0 .. used - 1 : data[p] \notin {"zero", "cr"}
  BY DEF Cut, LineInv, Regular
<1>3. \A p \in 0 .. used : At(p) = data[p]
  <2>1. ASSUME NEW p \in 0 .. used PROVE At(p) = data[p]
    <3>1. p \in Capacity /\ p # -1 /\ data \in [Capacity -> Cells]
      BY <1>1 DEF Capacity, Cut, LineInv
    <3> QED BY <1>1, <3>1 DEF At, Line
  <2> QED BY <2>1
<1>4. \A p : WordChar(p) <=> p \in 0 .. used - 1 /\ data[p] # "blank"
  BY <1>2 DEF WordChar
<1> QED BY <1>1, <1>2, <1>3, <1>4

(* The searches, given the position they are to find.                       *)
LEMMA SkipFinds ==
  ASSUME Cut, NEW p \in Nat, NEW n \in Nat, NEW s \in p .. used, s - p < n,
         Blanks(p, s - 1), data[s] # "blank"
  PROVE  p + skipBlankCharsInString(p, n) = s
<1> DEFINE S == {k \in 0 .. n - 1 : At(p + k) # "blank"}
<1>a. used \in Nat /\ \A q \in 0 .. used : At(q) = data[q]
  BY CutFacts
<1>1. s - p \in S
  <2>1. s - p \in 0 .. n - 1 /\ p + (s - p) = s /\ s \in 0 .. used
    BY <1>a
  <2> QED BY <2>1, <1>a
<1>2. \A k \in S : s - p <= k
  <2>1. SUFFICES ASSUME NEW k \in S, k < s - p PROVE FALSE
    BY <1>a
  <2>2. p + k \in p .. s - 1 /\ p + k \in 0 .. used
    BY <1>a, <2>1
  <2> QED BY <2>1, <2>2, <1>a DEF Blanks
<1>3. S \in SUBSET Int
  OBVIOUS
<1> HIDE DEF S
<1>4. Nearest(S) = s - p
  BY <1>1, <1>2, <1>3, NearestIs
<1> QED BY <1>4, <1>a DEF S, skipBlankCharsInString

LEMMA BlankFinds ==
  ASSUME Cut, NEW s \in Nat, NEW n \in Nat, NEW e \in s .. used, e - s <= n,
         \A k \in s .. e - 1 : WordChar(k), ~WordChar(e)
  PROVE  findBlankCharInString(s, n) = e - s
<1> DEFINE S == {k \in 0 .. n : At(s + k) \in {"blank", "cr", "zero"}}
<1>a. /\ used \in Nat /\ \A q \in 0 .. used : At(q) = data[q]
      /\ data[used] = "zero" /\ \A q \in 0 .. used - 1 : data[q] \notin {"zero", "cr"}
      /\ \A q : WordChar(q) <=> q \in 0 .. used - 1 /\ data[q] # "blank"
  BY CutFacts
<1>1. e - s \in S
  <2>1. e - s \in 0 .. n /\ s + (e - s) = e /\ e \in 0 .. used
    BY <1>a
  <2>2. data[e] \in {"blank", "zero"}
    BY <1>a, <2>1
  <2> QED BY <2>1, <2>2, <1>a
<1>2. \A k \in S : e - s <= k
  <2>1. SUFFICES ASSUME NEW k \in S, k < e - s PROVE FALSE
    BY <1>a
  <2>2. s + k \in s .. e - 1 /\ s + k \in 0 .. used - 1 /\ s + k \in 0 .. used
    BY <1>a, <2>1
  <2> QED BY <2>1, <2>2, <1>a
<1>3. S \in SUBSET Int
  OBVIOUS
<1> HIDE DEF S
<1>4. Nearest(S) = e - s
  BY <1>1, <1>2, <1>3, NearestIs
<1> QED BY <1>4 DEF S, findBlankCharInString

LEMMA NewLineFinds ==
  ASSUME Cut, NEW s \in 0 .. used, NEW n \in Nat
  PROVE  findNewLineInString(s, n) = IF used - s <= n THEN used - s ELSE -1
<1> DEFINE S == {k \in 0 .. n : At(s + k) \in {"cr", "zero"}}
<1>a. /\ used \in Nat /\ \A q \in 0 .. used : At(q) = data[q]
      /\ data[used] = "zero" /\ \A q \in 0 .. used - 1 : data[q] \notin {"zero", "cr"}
  BY CutFacts
<1>2. \A k \in S : used - s <= k
  <2>1. SUFFICES ASSUME NEW k \in S, k < used - s PROVE FALSE
    BY <1>a
  <2>2. s + k \in 0 .. used - 1 /\ s + k \in 0 .. used
    BY <1>a, <2>1
  <2> QED BY <2>1, <2>2, <1>a
<1>3. S \in SUBSET Int
  OBVIOUS
<1>1. used - s <= n => used - s \in S
  BY <1>a
<1>4. ~(used - s <= n) => S = {}
  BY <1>2, <1>a
<1> HIDE DEF S
<1>5. CASE used - s <= n
  BY <1>1, <1>2, <1>3, <1>5, NearestIs DEF S, findNewLineInString
<1>6. CASE ~(used - s <= n)
  BY <1>4, <1>6 DEF S, findNewLineInString, Nearest
<1> QED BY <1>5, <1>6
-----------------------------------------------------------------------------
(* The words of the line, one after the other.                              *)
LEMMA StartsFinite ==
  ASSUME Cut
  PROVE  /\ Starts \subseteq 0 .. used - 1 /\ IsFiniteSet(Starts)
         /\ \A T \in SUBSET Starts : IsFiniteSet(T) /\ Cardinality(T) \in Nat
<1>1. Starts \subseteq 0 .. used - 1
  BY DEF Starts
<1>2. IsFiniteSet(0 .. used - 1)
  BY CutFacts, FS_Interval
<1>3. IsFiniteSet(Starts)
  BY <1>1, <1>2, FS_Subset
<1> QED BY <1>1, <1>3, FS_Subset, FS_CardinalityType

LEMMA NoStart == ASSUME Cut, NEW q \in Starts
                 PROVE  /\ q \in 0 .. used - 1 /\ WordChar(q) /\ data[q] # "blank"
                        /\ ~WordChar(q - 1)
BY CutFacts DEF Starts, StartsAt

(* Behind the end of a word there are only blanks, or a next word.          *)
LEMMA NextStart ==
  ASSUME Cut, NEW p \in 1 .. used, ~WordChar(p), ~Blanks(p, used - 1)
  PROVE  \E s \in p + 1 .. used - 1 :
           /\ Blanks(p, s - 1) /\ data[s] # "blank" /\ s \in Starts
           /\ \A q \in Starts : q < p \/ q >= s
<1>a. /\ used \in Nat
      /\ \A q : WordChar(q) <=> q \in 0 .. used - 1 /\ data[q] # "blank"
  BY CutFacts
<1> DEFINE T == {k \in p .. used - 1 : data[k] # "blank"}
<1>1. T # {} /\ T \in SUBSET Nat
  BY <1>a DEF Blanks
<1>2. PICK s \in T : \A y \in T : s <= y
  <2> HIDE DEF T
  <2> QED BY <1>1, LeastElement
<1>3. /\ s \in p .. used - 1 /\ data[s] # "blank" /\ WordChar(s)
      /\ s # p /\ s \in Nat
  BY <1>a, <1>2
<1>4. \A k \in p .. s - 1 : data[k] = "blank"
  <2>1. SUFFICES ASSUME NEW k \in p .. s - 1, data[k] # "blank" PROVE FALSE
    OBVIOUS
  <2>2. k \in T /\ k < s
    BY <1>3, <1>a, <2>1
  <2> QED BY <1>2, <1>3, <2>2, <1>a
<1>5. ~WordChar(s - 1)
  BY <1>3, <1>4, <1>a
<1>6. s \in Starts
  BY <1>3, <1>5, <1>a DEF Starts, StartsAt
<1>7. \A q \in Starts : q < p \/ q >= s
  BY <1>4, <1>3, <1>a, NoStart
<1>8. s \in p + 1 .. used - 1
  BY <1>3, <1>a
<1> QED BY <1>3, <1>4, <1>6, <1>7, <1>8 DEF Blanks

(* The end of the word that begins at s.                                    *)
LEMMA EndFacts ==
  ASSUME Cut, NEW s \in Starts
  PROVE  /\ EndOf(s) \in s + 1 .. used
         /\ \A k \in s .. EndOf(s) - 1 : WordChar(k)
         /\ ~WordChar(EndOf(s))
         /\ \A q \in Starts : q <= s \/ q > EndOf(s)
<1>a. /\ used \in Nat /\ s \in 0 .. used - 1 /\ WordChar(s)
      /\ \A q : WordChar(q) <=> q \in 0 .. used - 1 /\ data[q] # "blank"
  BY CutFacts, NoStart
<1> DEFINE T == {q \in s .. used : ~WordChar(q)}
<1>1. used \in T /\ T \in SUBSET Nat
  BY <1>a
<1>2. PICK e \in T : \A y \in T : e <= y
  <2> HIDE DEF T
  <2> QED BY <1>1, LeastElement
<1>3. EndOf(s) = e
  <2>1. T \in SUBSET Int
    BY <1>1
  <2> HIDE DEF T
  <2> QED BY <2>1, <1>2, MinIs DEF EndOf, T
<1>4. e \in s + 1 .. used /\ ~WordChar(e)
  BY <1>a, <1>2
<1>5. \A k \in s .. e - 1 : WordChar(k)
  <2>1. SUFFICES ASSUME NEW k \in s .. e - 1, ~WordChar(k) PROVE FALSE
    OBVIOUS
  <2>2. k \in T /\ k < e
    BY <2>1, <1>a, <1>4
  <2> QED BY <2>2, <1>2, <1>4, <1>a
<1>6. \A q \in Starts : q <= s \/ q > e
  <2>1. SUFFICES ASSUME NEW q \in Starts, q > s, q <= e PROVE FALSE
    BY <1>a, <1>4, NoStart
  <2>2. q - 1 \in s .. e - 1
    BY <2>1, <1>a, <1>4, NoStart
  <2> QED BY <2>2, <1>5, NoStart
<1> QED BY <1>3, <1>4, <1>5, <1>6

(* The command the line begins with is a word of its own.                   *)
LEMMA CommandFirst ==
  ASSUME Cut, used > 0, data[0] \in Commands
  PROVE  /\ 0 \in Starts /\ EndOf(0) = 1 /\ cmdLen = 1 /\ ~WordChar(1)
         /\ WordChar(0) /\ \A q \in Starts : q <= 0 \/ q > 1
<1>a. /\ used \in Nat
      /\ \A q : WordChar(q) <=> q \in 0 .. used - 1 /\ data[q] # "blank"
      /\ \A q \in 0 .. used - 1 : data[q] \notin {"zero", "cr"}
  BY CutFacts
<1>1. WordChar(0) /\ ~WordChar(-1)
  BY <1>a DEF Commands
<1>2. ~WordChar(1)
  BY <1>a DEF Cut, LineInv
<1>3. 0 \in Starts
  BY <1>1, <1>a DEF Starts, StartsAt
<1>4. EndOf(0) \in 0 + 1 .. used /\ \A k \in 0 .. EndOf(0) - 1 : WordChar(k)
  BY <1>3, EndFacts
<1>5. EndOf(0) = 1
  BY <1>2, <1>4, <1>a
<1>6. cmdLen = 1 - 0
  <2>1. 1 \in 0 .. used /\ \A k \in 0 .. 1 - 1 : WordChar(k)
    BY <1>1, <1>a
  <2> QED BY <2>1, <1>2, <1>a, BlankFinds DEF cmdLen
<1>7. \A q \in Starts : q <= 0 \/ q > 1
  BY <1>3, <1>5, EndFacts
<1> QED BY <1>1, <1>2, <1>3, <1>5, <1>6, <1>7

LEMMA ControlIsValid ==
  ASSUME Cut, NEW s \in Nat, NEW l \in Nat \ {0}, s + l <= used,
         NEW m \in Nat, NEW kind
  PROVE  controlWord([start |-> s, len |-> l], m, kind)
           <=> Valid([start |-> s, len |-> l], m, kind)
<1>1. \A p \in s .. s + l - 1 : At(p) = data[p]
  BY CutFacts
<1> QED BY <1>1 DEF controlWord, Valid, End
-----------------------------------------------------------------------------
(* /join and /rename.                                                       *)
LEMMA RestMissing ==
  ASSUME Cut, used > 0, data[0] \in Commands, Blanks(1, used - 1), NEW t, NEW k
  PROVE  ParseRest(t, k) = Missing /\ Cardinality(Starts) = 1
<1>a. used \in Nat /\ \A q \in 0 .. used : At(q) = data[q]
  BY CutFacts
<1>1. cmdLen = 1 /\ 0 \in Starts /\ \A q \in Starts : q <= 0 \/ q > 1
  BY CommandFirst
<1>2. skipBlankCharsInString(1, used - 1) = -1
  <2> DEFINE S == {j \in 0 .. (used - 1) - 1 : At(1 + j) # "blank"}
  <2>1. ASSUME NEW j \in S PROVE FALSE
    <3>1. 1 + j \in 1 .. used - 1 /\ 1 + j \in 0 .. used
      BY <1>a
    <3> QED BY <3>1, <1>a DEF Blanks
  <2>2. S = {}
    BY <2>1
  <2> QED BY <2>2 DEF skipBlankCharsInString, Nearest
<1>3. findNewLineInString(0, used - 1) = -1
  BY <1>a, NewLineFinds
<1>4. ParseRest(t, k) = Missing
  BY <1>1, <1>2, <1>3 DEF ParseRest
<1>5. Starts = {0}
  <2>1. ASSUME NEW q \in Starts PROVE q = 0
    BY <1>a, NoStart DEF Blanks
  <2> QED BY <1>1, <2>1
<1>6. Cardinality(Starts) = 1
  BY <1>5, FS_Singleton
<1> QED BY <1>4, <1>6

LEMMA RestFound ==
  ASSUME Cut, used > 0, data[0] \in Commands, ~Blanks(1, used - 1), NEW t, NEW kind
  PROVE  LET s == Min(Starts \ {0})
             b == [start |-> s, len |-> used - s]
         IN  /\ Cardinality(Starts) > 1
             /\ ParseRest(t, kind) = IF Valid(b, maxName, kind) THEN Parsed(t, <<b>>)
                                     ELSE NoCommand
<1>a. used \in Nat /\ Starts \subseteq 0 .. used - 1 /\ maxName \in Nat
  BY CutFacts, StartsFinite, LineAssumption
<1>1. cmdLen = 1 /\ 0 \in Starts /\ ~WordChar(1) /\ \A q \in Starts : q <= 0 \/ q > 1
  BY CommandFirst
<1>b. used >= 2
  BY <1>a DEF Blanks
<1>2. PICK s \in 1 + 1 .. used - 1 :
        /\ Blanks(1, s - 1) /\ data[s] # "blank" /\ s \in Starts
        /\ \A q \in Starts : q < 1 \/ q >= s
  BY <1>1, <1>a, <1>b, NextStart
<1>3. Min(Starts \ {0}) = s
  <2>1. s \in Starts \ {0} /\ Starts \ {0} \in SUBSET Int
    BY <1>2, <1>a
  <2>2. \A q \in Starts \ {0} : s <= q
    BY <1>2, <1>a
  <2> QED BY <2>1, <2>2, MinIs
<1>4. Cardinality(Starts) > 1
  <2>1. {0, s} \in SUBSET Starts /\ s # 0
    BY <1>1, <1>2, <1>a
  <2>2. Cardinality({0, s}) = 2 /\ IsFiniteSet({0})
    <3>1. IsFiniteSet({0}) /\ Cardinality({0}) = 1 /\ s \notin {0}
      BY <2>1, FS_Singleton
    <3>2. Cardinality({0} \cup {s}) = Cardinality({0}) + 1
      BY <3>1, FS_AddElement
    <3>3. {0} \cup {s} = {0, s}
      OBVIOUS
    <3> QED BY <3>1, <3>2, <3>3
  <2>3. Cardinality({0, s}) <= Cardinality(Starts) /\ Cardinality(Starts) \in Nat
    BY <2>1, StartsFinite, FS_Subset
  <2> QED BY <2>2, <2>3
<1>5. cmdLen + skipBlankCharsInString(cmdLen, used - cmdLen) = s
  <2>1. s \in 1 .. used /\ s - 1 < used - 1 /\ used - 1 \in Nat
    BY <1>a, <1>2
  <2> QED BY <1>1, <1>2, <2>1, SkipFinds
<1>6. findNewLineInString(s, used - cmdLen) = used - s
  <2>1. used - 1 \in Nat /\ s \in 0 .. used /\ used - s <= used - 1
    BY <1>a, <1>2
  <2> QED BY <1>1, <2>1, NewLineFinds
<1> DEFINE b == [start |-> s, len |-> used - s]
<1>7. controlWord(b, maxName, kind) <=> Valid(b, maxName, kind)
  <2>1. used - s \in Nat \ {0} /\ s \in Nat /\ s + (used - s) <= used
    BY <1>a, <1>2
  <2> QED BY <2>1, <1>a, ControlIsValid
<1>8. used - s # -1
  BY <1>a, <1>2
<1>9. ParseRest(t, kind) = IF Valid(b, maxName, kind) THEN Parsed(t, <<b>>)
                           ELSE NoCommand
  BY <1>5, <1>6, <1>7, <1>8 DEF ParseRest
<1> HIDE DEF b
<1> QED BY <1>3, <1>4, <1>9 DEF b

(* The argument of /join and /rename is the rest of the line, or is         *)
(* reported as missing, for lines of any length, any limit and whatever the *)
(* buffer held before.                                                      *)
THEOREM RestCutRightHolds == Spec => []RestCutRight
<1>1. ASSUME LineInv PROVE RestCutRight
  <2>1. SUFFICES ASSUME stage = "parsed", used > 0, data[0] \in {"join", "rename"},
                        Regular
                 PROVE  RestCutRight
    BY DEF RestCutRight
  <2> DEFINE kind == IF data[0] = "join" THEN "credentials" ELSE "name"
             type == IF data[0] = "join" THEN "JOIN" ELSE "RENAME"
  <2>2. Cut /\ data[0] \in Commands /\ cmdLen = 1
    BY <1>1, <2>1, CommandFirst DEF Cut, Commands
  <2>3. pBlocks = ParseRest(type, kind)
    <3>1. Recognised = type
      BY <2>1, <2>2 DEF Recognised
    <3>2. pBlocks = userInputToCmds /\ used # 0
      BY <2>1, <1>1 DEF LineInv
    <3> QED BY <3>1, <3>2, <2>1 DEF userInputToCmds
  <2> HIDE DEF kind, type
  <2>4. CASE Blanks(1, used - 1)
    <3>1. pBlocks = Missing /\ Cardinality(Starts) = 1
      BY <2>1, <2>2, <2>3, <2>4, RestMissing
    <3> QED BY <3>1 DEF RestCutRight
  <2>5. CASE ~Blanks(1, used - 1)
    <3> DEFINE s == Min(Starts \ {0})
               b == [start |-> s, len |-> used - s]
    <3>1. /\ Cardinality(Starts) > 1
          /\ pBlocks = IF Valid(b, maxName, kind) THEN Parsed(type, <<b>>) ELSE NoCommand
      BY <2>1, <2>2, <2>3, <2>5, RestFound
    <3> QED BY <3>1 DEF RestCutRight, kind, type
  <2> QED BY <2>4, <2>5
<1> QED BY <1>1, LineInvHolds, PTL
-----------------------------------------------------------------------------
(* /auth.  The word that begins at s, and the words up to it.               *)
WordAt(s) == [start |-> s, len |-> EndOf(s) - s]
UpTo(s)   == {q \in Starts : q <= s}

LEMMA WordFound ==
  ASSUME Cut, NEW p \in 1 .. used, ~WordChar(p), ~Blanks(p, used - 1),
         NEW n \in Nat, p + n >= used
  PROVE  \E s \in Starts : /\ s > p /\ \A q \in Starts : q < p \/ q >= s
                           /\ getWord(p, n) = WordAt(s)
<1>a. used \in Nat
  BY CutFacts
<1>1. PICK s \in p + 1 .. used - 1 :
        /\ Blanks(p, s - 1) /\ data[s] # "blank" /\ s \in Starts
        /\ \A q \in Starts : q < p \/ q >= s
  BY NextStart
<1>2. p + skipBlankCharsInString(p, n) = s
  <2>1. s \in p .. used /\ s - p < n /\ p \in Nat
    BY <1>a, <1>1
  <2> QED BY <1>1, <2>1, SkipFinds
<1> DEFINE e == EndOf(s)
<1>3. e \in s + 1 .. used /\ (\A k \in s .. e - 1 : WordChar(k)) /\ ~WordChar(e)
  BY <1>1, EndFacts
<1> HIDE DEF e
<1>4. findBlankCharInString(s, n) = e - s
  <2>1. s \in Nat /\ e \in s .. used /\ e - s <= n
    BY <1>a, <1>1, <1>3
  <2> QED BY <1>3, <2>1, BlankFinds
<1>5. ~(n <= 0) /\ s > p
  BY <1>a, <1>1
<1>6. getWord(p, n) = WordAt(s)
  BY <1>2, <1>4, <1>5 DEF getWord, WordAt, e
<1> QED BY <1>1, <1>5, <1>6

LEMMA WordMissing ==
  ASSUME Cut, NEW p \in 1 .. used, Blanks(p, used - 1), NEW n \in Nat, p + n > used
  PROVE  getWord(p, n) = [start |-> used, len |-> 0]
<1>a. used \in Nat /\ data[used] = "zero" /\ ~WordChar(used)
  BY CutFacts
<1>1. p + skipBlankCharsInString(p, n) = used
  <2>1. used \in p .. used /\ used - p < n /\ p \in Nat /\ data[used] # "blank"
    BY <1>a
  <2> QED BY <2>1, SkipFinds
<1>2. findBlankCharInString(used, n) = used - used
  <2>1. used \in used .. used /\ used - used <= n
        /\ \A k \in used .. used - 1 : WordChar(k)
    BY <1>a
  <2> QED BY <1>a, <2>1, BlankFinds
<1>3. used - used = 0 /\ ~(n <= 0)
  BY <1>a
<1> QED BY <1>1, <1>2, <1>3 DEF getWord

LEMMA UpToNext ==
  ASSUME Cut, NEW s \in Starts, NEW t \in Starts, s < t,
         \A q \in Starts : q <= s \/ q >= t
  PROVE  Cardinality(UpTo(t)) = Cardinality(UpTo(s)) + 1
<1>1. \A q \in Starts : q \in Int
  BY NoStart
<1>a. t <= t /\ ~(t <= s) /\ \A q \in Starts : q <= s => q <= t
  BY <1>1
<1>b. \A q \in Starts : q <= t => q <= s \/ q = t
  BY <1>1
<1>2. UpTo(t) = UpTo(s) \cup {t} /\ t \notin UpTo(s)
  BY <1>a, <1>b, Zenon DEF UpTo
<1>3. IsFiniteSet(UpTo(s))
  BY StartsFinite DEF UpTo
<1> QED BY <1>2, <1>3, FS_AddElement

LEMMA UpToGrows ==
  ASSUME Cut, NEW s \in Starts, NEW t \in Starts, s < t
  PROVE  Cardinality(UpTo(s)) # Cardinality(UpTo(t))
<1>1. \A q \in Starts : q \in Int
  BY NoStart
<1>2. t <= t /\ ~(t <= s) /\ \A q \in Starts : q <= s => q <= t
  BY <1>1
<1>3. UpTo(s) \subseteq UpTo(t) /\ t \in UpTo(t) /\ t \notin UpTo(s)
  BY <1>2, Zenon DEF UpTo
<1>4. IsFiniteSet(UpTo(t))
  BY StartsFinite DEF UpTo
<1> QED BY <1>3, <1>4, FS_Subset

LEMMA UpToLast ==
  ASSUME Cut, NEW s \in Starts, \A q \in Starts : q <= s
  PROVE  UpTo(s) = Starts
BY DEF UpTo

LEMMA NthIs ==
  ASSUME Cut, NEW s \in Starts, NEW n, Cardinality(UpTo(s)) = n
  PROVE  NthWord(n) = WordAt(s)
<1>a. used \in Nat /\ used <= MaxLine /\ MaxLine \in Nat /\ Starts \subseteq 0 .. used - 1
  BY CutFacts, StartsFinite
<1> DEFINE W == [start : Starts, len : 1 .. MaxLine]
           Q(b) == Cardinality({q \in Starts : q <= b.start}) = n
                   /\ End(b) = EndOf(b.start)
<1>1. WordAt(s) \in W /\ Q(WordAt(s))
  <2>1. EndOf(s) \in s + 1 .. used
    BY EndFacts
  <2> DEFINE e == EndOf(s)
  <2> HIDE DEF e
  <2>2. e \in s + 1 .. used
    BY <2>1 DEF e
  <2>3. e - s \in 1 .. MaxLine /\ s + (e - s) = e
    BY <2>2, <1>a
  <2>4. WordAt(s) = [start |-> s, len |-> e - s]
    BY DEF WordAt, e
  <2> QED BY <2>3, <2>4 DEF End, UpTo, e
<1>2. ASSUME NEW b \in W, Q(b) PROVE b = WordAt(s)
  <2>1. b.start \in Starts /\ b.len \in 1 .. MaxLine /\ Cardinality(UpTo(b.start)) = n
        /\ b = [start |-> b.start, len |-> b.len]
    BY <1>2 DEF UpTo
  <2>5. b.start = s
    BY <2>1, UpToGrows, NoStart
  <2>6. s + b.len = EndOf(s)
    BY <1>2, <2>5 DEF End
  <2>7. b.len = EndOf(s) - s
    BY <2>6, <2>1, <1>a
  <2> QED BY <2>1, <2>5, <2>7 DEF WordAt
<1> HIDE DEF W, Q
<1>3. (CHOOSE b \in W : Q(b)) = WordAt(s)
  BY <1>1, <1>2
<1> QED BY <1>3 DEF NthWord, W, Q
(* The three words one after the other: s, t and u are where they begin, e  *)
(* and f where the first two end, n1, n2 and n3 what getWord is told is     *)
(* left of the line.                                                        *)
LEMMA AuthCut ==
  ASSUME Cut, used > 0, data[0] = "auth", Cardinality(Starts) > 1
  PROVE  \/ Cardinality(Starts) < 4 /\ ParseAuth = Missing
         \/ /\ Cardinality(Starts) >= 4
            /\ LET words == <<NthWord(2), NthWord(3), NthWord(4)>>
                   valid == /\ Valid(words[1], maxName, "credentials")
                            /\ Valid(words[2], maxSecret, "credentials")
                            /\ Valid(words[3], maxName, "name")
               IN  ParseAuth = IF valid THEN Parsed("AUTH", words) ELSE NoCommand
<1>a. used \in Nat /\ maxName \in Nat /\ maxSecret \in Nat
  BY CutFacts, LineAssumption
<1>b. \A q \in Starts : q \in 0 .. used - 1 /\ q \in Nat
  BY NoStart
<1>c. data[0] \in Commands
  BY DEF Commands
<1>1. /\ cmdLen = 1 /\ 0 \in Starts /\ ~WordChar(1)
      /\ \A q \in Starts : q <= 0 \/ q > 1
  BY <1>c, CommandFirst
<1>2. Cardinality(UpTo(0)) = 1
  <2>1. UpTo(0) = {0}
    BY <1>1, <1>b DEF UpTo
  <2> QED BY <2>1, FS_Singleton
<1>3. ~Blanks(1, used - 1)
  BY <1>c, RestMissing
(* The first word behind the command.                                       *)
<1> DEFINE n1 == used - 1
<1>4. PICK s \in Starts : /\ s > 1 /\ \A q \in Starts : q < 1 \/ q >= s
                          /\ getWord(1, n1) = WordAt(s)
  BY <1>1, <1>3, <1>a, WordFound
<1>5. Cardinality(UpTo(s)) = 2
  <2>1. 0 < s /\ \A q \in Starts : q <= 0 \/ q >= s
    BY <1>4, <1>b
  <2> QED BY <1>1, <1>2, <2>1, UpToNext
<1> DEFINE e == EndOf(s)
<1>6. /\ e \in s + 1 .. used /\ ~WordChar(e) /\ e \in 1 .. used
      /\ \A q \in Starts : q <= s \/ q > e
  BY <1>b, <1>a, EndFacts
(* The second.                                                              *)
<1> DEFINE n2 == used - (1 + (e - s))
<1>7. n2 \in Nat /\ e + n2 > used
  <2> HIDE DEF e
  <2> QED BY <1>4, <1>6, <1>a, <1>b
<1>8. /\ WordAt(s).start = s /\ WordAt(s).len = e - s /\ End(WordAt(s)) = e
      /\ e - s \in Nat \ {0}
  <2>1. WordAt(s) = [start |-> s, len |-> e - s]
    BY DEF WordAt
  <2> HIDE DEF e
  <2> QED BY <2>1, <1>6, <1>a, <1>b DEF End
<1> HIDE DEF e
<1> DEFINE w2 == getWord(e, n2)
<1>9. CASE Blanks(e, used - 1)
  <2>1. w2.len = 0
    BY <1>6, <1>7, <1>9, WordMissing
  <2>2. ParseAuth = Missing
    BY <1>1, <1>4, <1>8, <2>1 DEF ParseAuth
  <2>3. \A q \in Starts : q <= s
    BY <1>6, <1>9, <1>a, <1>b, NoStart DEF Blanks
  <2>4. Cardinality(Starts) = 2
    BY <2>3, <1>5, UpToLast
  <2> QED BY <2>2, <2>4
<1>10. CASE ~Blanks(e, used - 1)
  <2>1. PICK t \in Starts : /\ t > e /\ \A q \in Starts : q < e \/ q >= t
                            /\ w2 = WordAt(t)
    BY <1>6, <1>7, <1>10, <1>a, WordFound
  <2>2. Cardinality(UpTo(t)) = 3
    <3>1. s < t /\ \A q \in Starts : q <= s \/ q >= t
      BY <2>1, <1>6, <1>a, <1>b
    <3> QED BY <1>5, <3>1, UpToNext
  <2> DEFINE f == EndOf(t)
  <2>3. /\ f \in t + 1 .. used /\ ~WordChar(f) /\ f \in 1 .. used
        /\ \A q \in Starts : q <= t \/ q > f
    BY <1>b, <1>a, EndFacts
  (* The third.                                                             *)
  <2> DEFINE n3 == used - (1 + (e - s) + (f - t))
  <2>4. n3 \in Nat /\ f + n3 > used
    <3> HIDE DEF f
    <3> QED BY <1>4, <1>6, <2>1, <2>3, <1>a, <1>b
  <2>5. /\ WordAt(t).start = t /\ WordAt(t).len = f - t /\ End(WordAt(t)) = f
        /\ f - t \in Nat \ {0}
    <3>1. WordAt(t) = [start |-> t, len |-> f - t]
      BY DEF WordAt
    <3> HIDE DEF f
    <3> QED BY <3>1, <2>3, <1>a, <1>b DEF End
  <2> HIDE DEF f
  <2> DEFINE w3 == getWord(f, n3)
  <2>6. CASE Blanks(f, used - 1)
    <3>1. w3.len = 0
      BY <2>3, <2>4, <2>6, WordMissing
    <3>2. ParseAuth = Missing
      BY <1>1, <1>4, <1>8, <2>1, <2>5, <3>1 DEF ParseAuth
    <3>3. \A q \in Starts : q <= t
      BY <2>3, <2>6, <1>a, <1>b, NoStart DEF Blanks
    <3>4. Cardinality(Starts) = 3
      BY <3>3, <2>2, UpToLast
    <3> QED BY <3>2, <3>4
  <2>7. CASE ~Blanks(f, used - 1)
    <3>1. PICK u \in Starts : /\ u > f /\ \A q \in Starts : q < f \/ q >= u
                              /\ w3 = WordAt(u)
      BY <2>3, <2>4, <2>7, <1>a, WordFound
    <3>2. Cardinality(UpTo(u)) = 4
      <4>1. t < u /\ \A q \in Starts : q <= t \/ q >= u
        BY <3>1, <2>3, <1>a, <1>b
      <4> QED BY <2>2, <4>1, UpToNext
    <3>3. NthWord(2) = WordAt(s) /\ NthWord(3) = WordAt(t) /\ NthWord(4) = WordAt(u)
      BY <1>5, <2>2, <3>2, NthIs
    <3>4. Cardinality(Starts) >= 4
      <4>1. UpTo(u) \in SUBSET Starts
        BY DEF UpTo
      <4> QED BY <4>1, <3>2, StartsFinite, FS_Subset
    <3>5. ASSUME NEW x \in Starts, NEW m \in Nat, NEW k
          PROVE  /\ controlWord(WordAt(x), m, k) <=> Valid(WordAt(x), m, k)
                 /\ WordAt(x).len # 0
      <4> DEFINE g == EndOf(x)
      <4>1. g \in x + 1 .. used
        BY EndFacts
      <4>2. WordAt(x) = [start |-> x, len |-> g - x]
        BY DEF WordAt
      <4> HIDE DEF g
      <4>3. x \in Nat /\ g - x \in Nat \ {0} /\ x + (g - x) <= used
        BY <4>1, <1>a, <1>b
      <4> QED BY <4>2, <4>3, ControlIsValid
    <3>6. ParseAuth =
            IF /\ controlWord(WordAt(s), maxName, "credentials")
               /\ controlWord(WordAt(t), maxSecret, "credentials")
               /\ controlWord(WordAt(u), maxName, "name")
            THEN Parsed("AUTH", <<WordAt(s), WordAt(t), WordAt(u)>>)
            ELSE NoCommand
      <4>1. WordAt(s).len # 0 /\ WordAt(t).len # 0 /\ WordAt(u).len # 0
        BY <3>5, <1>a
      <4> QED BY <4>1, <1>1, <1>4, <1>8, <2>1, <2>5, <3>1 DEF ParseAuth
    <3>7. ParseAuth =
            IF /\ Valid(WordAt(s), maxName, "credentials")
               /\ Valid(WordAt(t), maxSecret, "credentials")
               /\ Valid(WordAt(u), maxName, "name")
            THEN Parsed("AUTH", <<WordAt(s), WordAt(t), WordAt(u)>>)
            ELSE NoCommand
      BY <3>5, <3>6, <1>a
    <3> QED BY <3>3, <3>4, <3>7
  <2> QED BY <2>6, <2>7
<1> QED BY <1>9, <1>10

(* An /auth with at least one argument is accepted exactly if it has three  *)
(* within their limits, and those are cut out, for lines of any length and  *)
(* any limits (an /auth with none may be accepted, and is left out):        *)
(* the lengths getWord is called with are not corrected for the blanks      *)
(* before a word, so its searches run past the end of the line into what    *)
(* an earlier line has left, and it is the terminator that stops them.      *)
THEOREM AuthCutRightHolds == Spec => []AuthCutRight
<1>1. ASSUME LineInv PROVE AuthCutRight
  <2>1. SUFFICES ASSUME stage = "parsed", used > 0, data[0] = "auth", Regular,
                        Cardinality(Starts) > 1
                 PROVE  AuthCutRight
    BY DEF AuthCutRight
  <2>2. Cut
    BY <1>1, <2>1 DEF Cut
  <2>3. pBlocks = ParseAuth
    <3>1. Recognised = "AUTH"
      BY <2>1 DEF Recognised
    <3>2. pBlocks = userInputToCmds /\ used # 0
      BY <2>1, <1>1 DEF LineInv
    <3> QED BY <3>1, <3>2 DEF userInputToCmds
  <2> QED BY <2>1, <2>2, <2>3, AuthCut DEF AuthCutRight
<1> QED BY <1>1, LineInvHolds, PTL
=============================================================================
