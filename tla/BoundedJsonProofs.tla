------------------------- MODULE BoundedJsonProofs -------------------------
(***************************************************************************)
(* Proofs about BoundedJson for any limits, any interpreter stack and      *)
(* texts of any length.                                                    *)
(***************************************************************************)
EXTENDS BoundedJson, SequenceTheorems, TLAPS

(***************************************************************************)
(* A stack of containers after a push, a pop, and a change of its top.     *)
(***************************************************************************)
LEMMA StackPush ==
  ASSUME NEW s \in Seq(Frame), NEW f \in Frame
  PROVE  /\ Append(s, f) \in Seq(Frame) /\ Append(s, f) # <<>>
         /\ Len(Append(s, f)) = Len(s) + 1
         /\ Append(s, f)[Len(Append(s, f))] = f
  BY AppendProperties

LEMMA StackTop ==
  ASSUME NEW s \in Seq(Frame), s # <<>>
  PROVE  /\ Len(s) \in Nat \ {0}
         /\ s[Len(s)] \in Frame
  BY EmptySeq, ElementOfSeq

LEMMA StackPop ==
  ASSUME NEW s \in Seq(Frame), s # <<>>
  PROVE  /\ SubSeq(s, 1, Len(s) - 1) \in Seq(Frame)
         /\ Len(SubSeq(s, 1, Len(s) - 1)) = Len(s) - 1
<1>1. Len(s) \in Nat \ {0}
  BY StackTop
<1> DEFINE n == Len(s) - 1
<1>2. 1 \in Int /\ n \in Int /\ n >= 0
  BY <1>1
<1>3. \A i \in 1 .. n : s[i] \in Frame
  BY <1>1, ElementOfSeq
<1> HIDE DEF n
<1>4. /\ SubSeq(s, 1, n) \in Seq(Frame)
      /\ Len(SubSeq(s, 1, n)) = IF 1 <= n THEN n - 1 + 1 ELSE 0
  BY <1>2, <1>3, SubSeqProperties
<1>5. Len(SubSeq(s, 1, n)) = n
  BY <1>2, <1>4
<1> QED
  BY <1>4, <1>5 DEF n

LEMMA StackReplace ==
  ASSUME NEW s \in Seq(Frame), s # <<>>, NEW f \in Frame
  PROVE  /\ [s EXCEPT ![Len(s)] = f] \in Seq(Frame)
         /\ [s EXCEPT ![Len(s)] = f] # <<>>
         /\ Len([s EXCEPT ![Len(s)] = f]) = Len(s)
         /\ [s EXCEPT ![Len(s)] = f][Len(s)] = f
<1>1. Len(s) \in Nat \ {0}
  BY StackTop
<1> QED
  BY <1>1, ExceptSeq, EmptySeq

\* The prescan keeps its own types.
LEMMA ScanTypes ==
  ASSUME TypeOK, NEW c \in Char, Scan(c)
  PROVE  /\ depth' \in Nat /\ tokens' \in Nat /\ stringChars' \in Nat
         /\ inString' \in BOOLEAN /\ inPrimitive' \in BOOLEAN
         /\ escaped' \in BOOLEAN
<1> USE DEF TypeOK
<1>1. CASE StringEnd(c)
  BY <1>1 DEF StringEnd
<1>2. CASE StringChar(c)
  <2>1. Escapes(c) \in BOOLEAN
    BY DEF Escapes
  <2> QED
    BY <1>2, <2>1 DEF StringChar
<1>3. depth + 1 \in Nat /\ tokens + 1 \in Nat /\ 0 \in Nat
  OBVIOUS
<1>4. CASE StringStart(c) \/ Open(c)
  BY <1>3, <1>4, Zenon DEF StringStart, Open
<1>5. CASE Comma(c) \/ Gap(c)
  BY <1>3, <1>5, Zenon DEF Comma, Gap
<1>6. CASE PrimitiveStart(c)
  BY <1>3, <1>6, Zenon DEF PrimitiveStart
<1>7. CASE Close(c)
  <2>1. Shallower \in Nat
    BY DEF Shallower
  <2> QED
    BY <1>7, <2>1 DEF Close
<1>8. CASE PrimitiveChar(c)
  BY <1>8 DEF PrimitiveChar, scan
<1> QED
  BY <1>1, <1>2, <1>4, <1>5, <1>6, <1>7, <1>8 DEF Scan

\* The parser keeps its own types.
LEMMA ParseTypes ==
  ASSUME TypeOK, NEW c \in Char, Parse(c)
  PROVE  /\ room' \in Nat /\ stack' \in Seq(Frame) /\ expect' \in Expectation
         /\ reading' \in Reading /\ lexeme' \in Nat /\ items' \in Nat
         /\ problem' \in Problem
         /\ (expect \in {"key", "firstKey", "colon"} => Inside("object"))'
<1> USE DEF TypeOK, Expectation, Reading, Problem
<1>1. CASE Stopped
  BY <1>1 DEF Stopped, parse, Inside, Top
<1>2. CASE ReadString(c) \/ EndValueString(c)
  BY <1>2 DEF ReadString, EndValueString, StopWith, Inside, Top
<1>3. CASE EndKey(c)
  <2>1. PICK repeats \in BOOLEAN :
          stack' = [stack EXCEPT ![Len(stack)] = WithKey(Top, repeats)]
    BY <1>3 DEF EndKey
  <2>2. stack # <<>> /\ Top.kind = "object" /\ Top \in Frame
    BY <1>3, StackTop DEF EndKey, Inside, Top
  <2> DEFINE named == WithKey(Top, repeats)
  <2>3. named \in Frame /\ named.kind = "object"
    BY <2>2 DEF Frame, WithKey
  <2>5. /\ stack' \in Seq(Frame) /\ stack' # <<>>
        /\ stack'[Len(stack')] = named
    <3> HIDE DEF named
    <3>1. stack' = [stack EXCEPT ![Len(stack)] = named]
      BY <2>1 DEF named
    <3> QED
      BY <2>2, <2>3, <3>1, StackReplace
  <2>6. Inside("object")'
    BY <2>3, <2>5 DEF Inside, Top
  <2> QED
    BY <1>3, <2>5, <2>6 DEF EndKey
<1>4. CASE ReadWord(c) \/ WordAborts(c)
  BY <1>4 DEF ReadWord, WordAborts, WordFails, StopWith, Inside, Top
<1>5. CASE Whitespace(c) \/ BeginString(c) \/ BeginWord(c) \/ Colon(c)
  BY <1>5 DEF Whitespace, BeginString, BeginWord, Colon, Inside, Top
<1>6. CASE BeginContainer(c)
  <2> DEFINE f == [kind |-> IF c = "[" THEN "array" ELSE "object",
                   named |-> FALSE, dup |-> FALSE]
  <2>1. f \in Frame /\ (expect' = "firstKey" => f.kind = "object")
    BY <1>6 DEF Frame, BeginContainer
  <2>2. stack' = Append(stack, f) /\ expect' \in {"first", "firstKey"}
    BY <1>6 DEF BeginContainer
  <2>3. /\ stack' \in Seq(Frame) /\ stack' # <<>>
        /\ stack'[Len(stack')] = f
    <3> HIDE DEF f
    <3> QED
      BY <2>1, <2>2, StackPush
  <2>4. expect' = "firstKey" => Inside("object")'
    BY <2>1, <2>3 DEF Inside, Top
  <2> QED
    BY <1>6, <2>2, <2>3, <2>4 DEF BeginContainer
<1>7. CASE RecursionFails(c) \/ RejectDuplicate(c) \/ Unexpected(c)
  BY <1>7 DEF RecursionFails, RejectDuplicate, Unexpected, StopWith, Inside, Top
<1>8. CASE EndContainer(c)
  <2>1. stack # <<>>
    BY <1>8 DEF EndContainer, ClosesContainer, Inside
  <2>2. Popped \in Seq(Frame)
    BY <2>1, StackPop DEF Popped
  <2> QED
    BY <1>8, <2>2 DEF EndContainer
<1>9. CASE NextMember(c)
  <2>1. stack # <<>> /\ Top.kind \in {"array", "object"}
    BY <1>9, StackTop DEF NextMember, Top, Frame
  <2>2. expect' = "key" => Inside("object")'
    BY <1>9, <2>1 DEF NextMember, Inside, Top
  <2>3. /\ room' = room /\ stack' = stack /\ lexeme' = lexeme
        /\ problem' = problem /\ reading' = "none" /\ items' = items + 1
        /\ expect' \in {"value", "key"}
    BY <1>9 DEF NextMember
  <2> QED
    BY <2>2, <2>3
<1> QED
  BY <1>1, <1>2, <1>3, <1>4, <1>5, <1>6, <1>7, <1>8, <1>9 DEF Parse

-----------------------------------------------------------------------------
(***************************************************************************)
(* Type correctness.                                                       *)
(***************************************************************************)
THEOREM TypeCorrect == Spec => []TypeOK
<1>1. Init => TypeOK
  <2> SUFFICES ASSUME Init PROVE TypeOK
    OBVIOUS
  <2>1. room \in Nat /\ left \in Nat
    BY ParserAssumption, DocumentAssumption DEF Init, ParseInit
  <2>2. stack \in Seq(Frame)
    BY EmptySeq DEF Init, ParseInit
  <2> QED
    BY <2>1, <2>2 DEF Init, TypeOK, ScanInit, ParseInit, Expectation, Reading,
       Problem, Answer
<1>2. TypeOK /\ [Next]_vars => TypeOK'
  <2> SUFFICES ASSUME TypeOK, [Next]_vars PROVE TypeOK'
    OBVIOUS
  <2>1. CASE DocumentLimit \/ BeginText
    BY <2>1 DEF DocumentLimit, BeginText, Return, TypeOK, scan, parse, Answer,
       Limit, Inside, Top
  <2>2. CASE EndText
    <3>1. PICK r \in Problem \cup {"value"} : Outcome(r) /\ Return(Reported(r))
      BY <2>2 DEF EndText
    <3>2. Reported(r) \in Answer
      BY <3>1 DEF Reported, Problem, Answer, Limit
    <3> QED
      BY <3>1, <3>2 DEF Return, TypeOK, scan, parse, Inside, Top
  <2>3. ASSUME NEW c \in Char, ScanLimit(c) PROVE TypeOK'
    BY <2>3 DEF ScanLimit, Return, TypeOK, scan, parse, Answer, Inside, Top
  <2>4. ASSUME NEW c \in Char, ReadCharacter(c) PROVE TypeOK'
    <3>1. Scan(c) /\ Parse(c) /\ left' \in Nat /\ phase' = phase /\ answer' = answer
      BY <2>4 DEF ReadCharacter, TypeOK
    <3> QED
      BY <3>1, ScanTypes, ParseTypes DEF TypeOK
  <2>5. CASE Over \/ UNCHANGED vars
    BY <2>5 DEF Over, vars, scan, parse, TypeOK, Inside, Top
  <2> QED
    BY <2>1, <2>2, <2>3, <2>4, <2>5 DEF Next
<1> QED
  BY <1>1, <1>2, PTL DEF Spec

-----------------------------------------------------------------------------
(***************************************************************************)
(* What one character does to the prescan, inside and outside a string.    *)
(***************************************************************************)
LEMMA ScanInside ==
  ASSUME inString, NEW c \in Char, Scan(c)
  PROVE  /\ depth' = depth /\ tokens' = tokens /\ inPrimitive' = inPrimitive
         /\ c = "quote" /\ ~escaped =>
              ~inString' /\ escaped' = escaped /\ stringChars' = stringChars
         /\ ~(c = "quote" /\ ~escaped) =>
              /\ inString' /\ stringChars' = stringChars + 1
              /\ escaped' <=> c = "backslash" /\ ~escaped
  BY Zenon DEF Scan, StringEnd, StringChar, StringStart, Open, Close, Comma, Gap,
     PrimitiveStart, PrimitiveChar, StartsPrimitive, EndsString, InsideString,
     Escapes

LEMMA ScanOutside ==
  ASSUME ~inString, NEW c \in Char, Scan(c)
  PROVE  /\ escaped' = escaped
         /\ inString' <=> c = "quote"
         /\ inPrimitive' <=> c \in Ordinary
         /\ depth' = IF c \in Opening THEN depth + 1
                     ELSE IF c \in Closing THEN Shallower ELSE depth
         /\ tokens' = IF CountsToken(c) THEN tokens + 1 ELSE tokens
         /\ c = "quote" => stringChars' = 0
<1> USE DEF Opening, Closing, Ordinary
<1>1. c \in {"quote", "backslash", "[", "{", "]", "}", ",", ":", "space", "other"}
  BY DEF Char
<1>2. ~StringEnd(c) /\ ~StringChar(c)
  BY Zenon DEF StringEnd, StringChar, EndsString, InsideString
<1>3. CASE StringStart(c)
  BY <1>3 DEF StringStart, CountsToken
<1>4. CASE Open(c)
  BY <1>4 DEF Open, CountsToken
<1>5. CASE Close(c)
  BY <1>5 DEF Close, CountsToken, StartsPrimitive
<1>6. CASE Comma(c)
  BY <1>6 DEF Comma, CountsToken
<1>7. CASE Gap(c)
  BY <1>7 DEF Gap, CountsToken, StartsPrimitive
<1>8. CASE PrimitiveStart(c)
  BY <1>8 DEF PrimitiveStart, CountsToken, StartsPrimitive
<1>9. CASE PrimitiveChar(c)
  BY <1>9 DEF PrimitiveChar, CountsToken, StartsPrimitive, scan
<1> QED
  BY <1>2, <1>3, <1>4, <1>5, <1>6, <1>7, <1>8, <1>9 DEF Scan

(***************************************************************************)
(* What one character does to the parser when it finds no problem, and     *)
(* that the parser's position stands still when it does.                   *)
(***************************************************************************)
LEMMA ParseStops ==
  ASSUME TypeOK, NEW c \in Char, Parse(c), problem' # "none"
  PROVE  stack' = stack /\ reading' = reading /\ lexeme' = lexeme /\ items' = items
  BY Zenon DEF Parse, Stopped, parse, ReadString, EndValueString, EndKey, ReadWord,
     WordAborts, WordFails, StopWith, Whitespace, BeginString, BeginWord,
     BeginContainer, RecursionFails, EndContainer, RejectDuplicate, NextMember,
     Colon, Unexpected

LEMMA KeyKeepsDepth ==
  ASSUME TypeOK, NEW c \in Char, EndKey(c)
  PROVE  Len(stack') = Len(stack)
<1>1. PICK repeats \in BOOLEAN :
        stack' = [stack EXCEPT ![Len(stack)] = WithKey(Top, repeats)]
  BY DEF EndKey
<1>2. stack \in Seq(Frame) /\ stack # <<>> /\ Top \in Frame
  BY StackTop DEF EndKey, TypeOK, Inside, Top
<1>3. WithKey(Top, repeats) \in Frame
  BY <1>2 DEF Frame, WithKey
<1> QED
  BY <1>1, <1>2, <1>3, StackReplace

LEMMA ParseInside ==
  ASSUME TypeOK, NEW c \in Char, Parse(c), problem' = "none",
         reading \in {"string", "escape"}
  PROVE  /\ problem = "none"
         /\ Len(stack') = Len(stack) /\ items' = items
         /\ c = "quote" /\ reading = "string" => reading' = "none"
         /\ ~(c = "quote" /\ reading = "string") =>
              /\ reading' = IF reading = "string" /\ c = "backslash"
                            THEN "escape" ELSE "string"
              /\ lexeme' = lexeme + 1
<1>1. problem = "none" /\ ~AtStructure(c) /\ reading # "word"
  BY Zenon DEF Parse, Stopped, parse, AtStructure
<1>2. ReadString(c) \/ EndValueString(c) \/ EndKey(c)
  BY <1>1, Zenon DEF Parse, Stopped, parse, ReadWord, WordAborts, Whitespace,
     BeginString, BeginWord, BeginContainer, RecursionFails, EndContainer,
     RejectDuplicate, NextMember, Colon, Unexpected, OpensContainer,
     ClosesContainer
<1>3. CASE ReadString(c)
  BY <1>1, <1>3 DEF ReadString, StopWith
<1>4. CASE EndValueString(c)
  BY <1>1, <1>4 DEF EndValueString
<1>5. CASE EndKey(c)
  BY <1>1, <1>5, KeyKeepsDepth DEF EndKey
<1> QED
  BY <1>2, <1>3, <1>4, <1>5

LEMMA ParseOutside ==
  ASSUME TypeOK, NEW c \in Char, Parse(c), problem' = "none",
         reading \in {"none", "word"}
  PROVE  /\ problem = "none" /\ c # "backslash"
         /\ reading' = IF c = "quote" THEN "string"
                       ELSE IF c = "other" THEN "word" ELSE "none"
         /\ Len(stack') = IF c \in Opening THEN Len(stack) + 1
                          ELSE IF c \in Closing THEN Len(stack) - 1 ELSE Len(stack)
         /\ c \in Closing => Len(stack) > 0
         /\ items' = IF \/ c \in Opening \cup {"quote", ","}
                        \/ c = "other" /\ reading = "none"
                     THEN items + 1 ELSE items
         /\ c = "quote" => lexeme' = 0
<1> USE DEF Opening, Closing
<1>1. problem = "none"
  BY Zenon DEF Parse, Stopped, parse
<1>2. \/ ReadWord(c) \/ Whitespace(c) \/ BeginString(c) \/ BeginWord(c)
      \/ BeginContainer(c) \/ EndContainer(c) \/ NextMember(c) \/ Colon(c)
  BY <1>1 DEF Parse, Stopped, parse, ReadString, EndValueString, EndKey,
     WordAborts, WordFails, StopWith, RecursionFails, RejectDuplicate, Unexpected
<1>3. CASE ReadWord(c)
  BY <1>1, <1>3 DEF ReadWord, WordFails, StopWith
<1>4. CASE Whitespace(c) \/ Colon(c)
  BY <1>1, <1>4 DEF Whitespace, Colon
<1>5. CASE BeginString(c)
  BY <1>1, <1>5 DEF BeginString
<1>6. CASE BeginWord(c)
  BY <1>1, <1>6 DEF BeginWord
<1>7. CASE BeginContainer(c)
  <2> DEFINE f == [kind |-> IF c = "[" THEN "array" ELSE "object",
                   named |-> FALSE, dup |-> FALSE]
  <2>1. f \in Frame /\ stack \in Seq(Frame) /\ stack' = Append(stack, f)
    BY <1>7 DEF Frame, BeginContainer, TypeOK
  <2>2. Len(stack') = Len(stack) + 1
    BY <2>1, StackPush
  <2> QED
    BY <1>1, <1>7, <2>2 DEF BeginContainer, OpensContainer
<1>8. CASE EndContainer(c)
  <2>1. /\ c \in Closing /\ stack # <<>> /\ stack \in Seq(Frame)
        /\ stack' = Popped
    BY <1>8 DEF EndContainer, ClosesContainer, Inside, TypeOK
  <2>2. Len(stack') = Len(stack) - 1 /\ Len(stack) > 0
    <3>1. Len(stack) \in Nat \ {0}
      BY <2>1, StackTop
    <3>2. Len(Popped) = Len(stack) - 1
      BY <2>1, StackPop DEF Popped
    <3>3. Len(stack') = Len(stack) - 1
      BY <2>1, <3>2, Zenon
    <3>4. Len(stack) > 0
      BY <3>1
    <3> QED
      BY <3>3, <3>4
  <2> QED
    BY <1>1, <1>8, <2>1, <2>2 DEF EndContainer, ClosesContainer
<1>9. CASE NextMember(c)
  BY <1>1, <1>9 DEF NextMember
<1> QED
  BY <1>2, <1>3, <1>4, <1>5, <1>6, <1>7, <1>8, <1>9

(***************************************************************************)
(* The inductive invariant: the prescan and the parser agree, and the      *)
(* limits the prescan enforces hold for the parser.                        *)
(***************************************************************************)
LockstepInv == TypeOK /\ Lockstep /\ ParserBounded

LEMMA LockstepStep ==
  ASSUME LockstepInv, NEW c \in Char, ReadCharacter(c)
  PROVE  Lockstep'
<1>1. TypeOK /\ Lockstep /\ Scan(c) /\ Parse(c)
  BY DEF LockstepInv, ReadCharacter
<1> SUFFICES ASSUME problem' = "none"
             PROVE  /\ inString' <=> reading' \in {"string", "escape"}
                    /\ escaped' <=> reading' = "escape"
                    /\ inPrimitive' <=> reading' = "word"
                    /\ depth' = Len(stack')
                    /\ tokens' = items'
                    /\ inString' => stringChars' = lexeme'
  BY DEF Lockstep
<1>2. CASE reading \in {"string", "escape"}
  <2>1. problem = "none" /\ inString
    BY <1>1, <1>2, ParseInside DEF Lockstep
  <2> QED
    BY <1>1, <1>2, <2>1, ParseInside, ScanInside DEF Lockstep
<1>3. CASE reading \in {"none", "word"}
  <2>1. problem = "none" /\ ~inString /\ ~escaped
    BY <1>1, <1>3, ParseOutside DEF Lockstep
  <2>2. Len(stack) \in Nat /\ depth \in Nat
    BY <1>1 DEF TypeOK
  <2>3. depth = Len(stack) /\ tokens = items
    BY <1>1, <2>1 DEF Lockstep
  <2>4. depth' = Len(stack')
    <3>1. depth' = IF c \in Opening THEN depth + 1
                   ELSE IF c \in Closing THEN Shallower ELSE depth
      BY <1>1, <2>1, ScanOutside
    <3>2. /\ Len(stack') = IF c \in Opening THEN Len(stack) + 1
                           ELSE IF c \in Closing THEN Len(stack) - 1 ELSE Len(stack)
          /\ c \in Closing => Len(stack) > 0
      BY <1>1, <1>3, ParseOutside
    <3>3. c \in Closing => Shallower = Len(stack) - 1
      BY <2>2, <2>3, <3>2 DEF Shallower
    <3> QED
      BY <2>3, <3>1, <3>2, <3>3
  <2>5. CountsToken(c) <=> \/ c \in Opening \cup {"quote", ","}
                           \/ c = "other" /\ reading = "none"
    BY <1>1, <1>3, <2>1, ParseOutside
       DEF CountsToken, StartsPrimitive, Ordinary, Lockstep
  <2>6. tokens' = items'
    BY <1>1, <1>3, <2>1, <2>3, <2>5, ParseOutside, ScanOutside
  <2>7. /\ inString' <=> reading' \in {"string", "escape"}
        /\ escaped' <=> reading' = "escape"
        /\ inPrimitive' <=> reading' = "word"
        /\ inString' => stringChars' = lexeme'
    BY <1>1, <1>3, <2>1, ParseOutside, ScanOutside DEF Ordinary
  <2> QED
    BY <2>4, <2>6, <2>7
<1> QED
  BY <1>1, <1>2, <1>3 DEF TypeOK, Reading

LEMMA BoundedStep ==
  ASSUME LockstepInv, NEW c \in Char, ReadCharacter(c)
  PROVE  ParserBounded'
<1>1. /\ TypeOK /\ Lockstep /\ ParserBounded /\ Scan(c) /\ Parse(c)
      /\ ~Exceeds(c, "string_limit") /\ ~Exceeds(c, "token_limit")
      /\ ~Exceeds(c, "depth_limit")
  BY DEF LockstepInv, ReadCharacter, Limit
<1>2. /\ Len(stack) \in Nat /\ items \in Nat /\ lexeme \in Nat
      /\ MaxDepth \in Nat /\ MaxTokens \in Nat /\ MaxString \in Nat
  BY <1>1, PrescanAssumption DEF TypeOK
<1>3. CASE problem' # "none"
  BY <1>1, <1>3, ParseStops DEF ParserBounded
<1>4. CASE problem' = "none" /\ reading \in {"string", "escape"}
  <2>1. problem = "none" /\ inString
    BY <1>1, <1>4, ParseInside DEF Lockstep
  <2>2. ~(c = "quote" /\ reading = "string") => lexeme + 1 <= MaxString
    BY <1>1, <1>2, <2>1, <1>4 DEF Exceeds, InsideString, EndsString, Lockstep, TypeOK
  <2> QED
    BY <1>1, <1>2, <1>4, <2>1, <2>2, ParseInside DEF ParserBounded
<1>5. CASE problem' = "none" /\ reading \in {"none", "word"}
  <2>1. problem = "none" /\ ~inString
    BY <1>1, <1>5, ParseOutside DEF Lockstep
  <2>2. /\ depth = Len(stack) /\ tokens = items
        /\ inPrimitive <=> reading = "word"
    BY <1>1, <2>1 DEF Lockstep
  <2>3. CountsToken(c) => items + 1 <= MaxTokens
    BY <1>1, <1>2, <2>2 DEF Exceeds
  <2>4. c \in Opening => Len(stack) + 1 <= MaxDepth
    <3>1. c \in Opening => CountsToken(c)
      BY <2>1 DEF CountsToken
    <3>2. DepthExceeded(c) => ~(items + 1 <= MaxTokens)
      BY <1>1, <2>2 DEF Exceeds
    <3> QED
      BY <1>2, <2>1, <2>2, <2>3, <3>1, <3>2 DEF DepthExceeded
  <2>5. \/ c \in Opening \cup {"quote", ","}
        \/ c = "other" /\ reading = "none"
        => CountsToken(c)
    BY <1>5, <2>1, <2>2 DEF CountsToken, StartsPrimitive, Ordinary
  <2>6. items' <= MaxTokens
    BY <1>1, <1>2, <1>5, <2>3, <2>5, ParseOutside DEF ParserBounded
  <2>7. Len(stack') <= MaxDepth
    <3>1. /\ Len(stack') = IF c \in Opening THEN Len(stack) + 1
                           ELSE IF c \in Closing THEN Len(stack) - 1 ELSE Len(stack)
          /\ Len(stack) <= MaxDepth
      BY <1>1, <1>5, ParseOutside DEF ParserBounded
    <3> QED
      BY <1>2, <2>4, <3>1
  <2>8. reading' \in {"string", "escape"} => lexeme' <= MaxString
    <3>1. /\ reading' = IF c = "quote" THEN "string"
                        ELSE IF c = "other" THEN "word" ELSE "none"
          /\ c = "quote" => lexeme' = 0
      BY <1>1, <1>5, ParseOutside
    <3> QED
      BY <1>2, <3>1
  <2> QED
    BY <2>6, <2>7, <2>8 DEF ParserBounded
<1> QED
  BY <1>1, <1>3, <1>4, <1>5 DEF TypeOK, Reading

\* Every other step leaves both passes where they are.
LEMMA OtherSteps ==
  ASSUME LockstepInv, UNCHANGED <<scan, parse>>
  PROVE  Lockstep' /\ ParserBounded'
  BY DEF LockstepInv, scan, parse, Lockstep, ParserBounded

LEMMA LockstepInductive ==
  ASSUME LockstepInv, [Next]_vars
  PROVE  Lockstep' /\ ParserBounded'
<1>1. ASSUME NEW c \in Char, ReadCharacter(c) PROVE Lockstep' /\ ParserBounded'
  BY <1>1, LockstepStep, BoundedStep
<1>2. CASE UNCHANGED <<scan, parse>>
  BY <1>2, OtherSteps
<1> QED
  BY <1>1, <1>2 DEF Next, DocumentLimit, BeginText, EndText, Over, ScanLimit,
     Return, vars

(***************************************************************************)
(* The prescan and the parser are in the same place on every prefix that   *)
(* neither has refused, and the parser is within the limits.               *)
(***************************************************************************)
THEOREM LockstepCorrect == Spec => []LockstepInv
<1>1. Init => Lockstep /\ ParserBounded
  BY PrescanAssumption, EmptySeq
     DEF Init, ScanInit, ParseInit, Lockstep, ParserBounded
<1>2. TypeOK /\ Lockstep /\ ParserBounded /\ [Next]_vars => (Lockstep /\ ParserBounded)'
  BY LockstepInductive DEF LockstepInv
<1> QED
  BY <1>1, <1>2, TypeCorrect, PTL DEF Spec, LockstepInv

\* The prescan and the parser agree on every prefix without a problem.
THEOREM StaysInLockstep == Spec => []Lockstep
<1>1. LockstepInv => Lockstep
  BY DEF LockstepInv
<1> QED
  BY <1>1, LockstepCorrect, PTL

\* What json.loads recurses into, builds and reads is within the limits.
THEOREM ParserIsBounded == Spec => []ParserBounded
<1>1. LockstepInv => ParserBounded
  BY DEF LockstepInv
<1> QED
  BY <1>1, LockstepCorrect, PTL

-----------------------------------------------------------------------------
(***************************************************************************)
(* Refusals are justified.  The parser stands still while a call returns,  *)
(* and no answer is given before.                                          *)
(***************************************************************************)
AnswerLast == phase \in {"called", "reading"} => answer = "none"

LEMMA ScanRefusal ==
  ASSUME LockstepInv, RefusalsJustified, NEW c \in Char, ScanLimit(c)
  PROVE  RefusalsJustified'
<1>1. PICK code \in Limit : Exceeds(c, code) /\ Return(code)
  BY DEF ScanLimit
<1>2. /\ answer' = code /\ problem' = problem /\ stack' = stack /\ room' = room
      /\ reading' = reading /\ lexeme' = lexeme /\ items' = items
  BY <1>1 DEF Return, parse
<1> SUFFICES ASSUME problem = "none"
             PROVE  /\ code = "depth_limit" => Len(stack) = MaxDepth
                    /\ code = "token_limit" => items = MaxTokens
                    /\ code = "string_limit" =>
                         reading \in {"string", "escape"} /\ lexeme = MaxString
  BY <1>2 DEF RefusalsJustified
<1>4. /\ depth = Len(stack) /\ tokens = items
      /\ inString <=> reading \in {"string", "escape"}
      /\ inString => stringChars = lexeme
      /\ Len(stack) <= MaxDepth /\ items <= MaxTokens
      /\ reading \in {"string", "escape"} => lexeme <= MaxString
  BY DEF LockstepInv, Lockstep, ParserBounded
<1>5. /\ depth \in Nat /\ tokens \in Nat /\ stringChars \in Nat
      /\ MaxDepth \in Nat /\ MaxTokens \in Nat /\ MaxString \in Nat
  BY PrescanAssumption DEF LockstepInv, TypeOK
<1>6. code = "depth_limit" => depth + 1 > MaxDepth
  BY <1>1 DEF Exceeds, DepthExceeded
<1>7. code = "token_limit" => tokens + 1 > MaxTokens
  BY <1>1 DEF Exceeds
<1>8. code = "string_limit" => inString /\ stringChars + 1 > MaxString
  BY <1>1 DEF Exceeds, InsideString
<1> QED
  BY <1>4, <1>5, <1>6, <1>7, <1>8

LEMMA EndJustified ==
  ASSUME LockstepInv, RefusalsJustified, EndText
  PROVE  RefusalsJustified'
<1>1. PICK r \in Problem \cup {"value"} : Outcome(r) /\ Return(Reported(r))
  BY DEF EndText
<1>2. /\ answer' = Reported(r) /\ problem' = problem /\ stack' = stack /\ room' = room
  BY <1>1 DEF Return, parse
<1>3. problem = "none" => answer' \in {"value", "syntax", "number_limit"}
  BY <1>1, <1>2 DEF Outcome, Reported
<1> QED
  BY <1>2, <1>3 DEF RefusalsJustified

(***************************************************************************)
(* A limit reported on a text that was well formed so far is one the text  *)
(* really reaches.                                                         *)
(***************************************************************************)
THEOREM RefusalsCorrect == Spec => []RefusalsJustified
<1>1. Init => RefusalsJustified /\ AnswerLast
  BY DEF Init, ParseInit, RefusalsJustified, AnswerLast
<1>2. LockstepInv /\ RefusalsJustified /\ AnswerLast /\ [Next]_vars
        => RefusalsJustified' /\ AnswerLast'
  <2> SUFFICES ASSUME LockstepInv, RefusalsJustified, AnswerLast, [Next]_vars
               PROVE  RefusalsJustified' /\ AnswerLast'
    OBVIOUS
  <2>1. CASE DocumentLimit \/ BeginText \/ Over \/ UNCHANGED vars
    BY <2>1 DEF DocumentLimit, BeginText, Over, Return, vars, parse,
       RefusalsJustified, AnswerLast
  <2>2. CASE EndText
    BY <2>2, EndJustified DEF EndText, Return, AnswerLast
  <2>3. ASSUME NEW c \in Char, ScanLimit(c) PROVE RefusalsJustified' /\ AnswerLast'
    BY <2>3, ScanRefusal DEF ScanLimit, Return, AnswerLast
  <2>4. ASSUME NEW c \in Char, ReadCharacter(c)
        PROVE  RefusalsJustified' /\ AnswerLast'
    <3>1. answer' = "none" /\ phase' = "reading"
      BY <2>4 DEF ReadCharacter, AnswerLast
    <3> QED
      BY <3>1 DEF RefusalsJustified, AnswerLast
  <2> QED
    BY <2>1, <2>2, <2>3, <2>4 DEF Next
<1> QED
  BY <1>1, <1>2, LockstepCorrect, PTL DEF Spec

-----------------------------------------------------------------------------
(***************************************************************************)
(* The nesting counter and the interpreter stack.                          *)
(***************************************************************************)
LEMMA DepthStep ==
  ASSUME TypeOK, DepthInRange, NEW c \in Char, ReadCharacter(c)
  PROVE  DepthInRange'
<1>1. Scan(c) /\ ~Exceeds(c, "token_limit") /\ ~Exceeds(c, "depth_limit")
  BY DEF ReadCharacter, Limit
<1>2. depth \in Nat /\ tokens \in Nat /\ MaxDepth \in Nat /\ MaxTokens \in Nat
  BY PrescanAssumption DEF TypeOK
<1>3. CASE inString
  BY <1>1, <1>3, ScanInside DEF DepthInRange
<1>4. CASE ~inString
  <2>1. depth' = IF c \in Opening THEN depth + 1
                 ELSE IF c \in Closing THEN Shallower ELSE depth
    BY <1>1, <1>4, ScanOutside
  <2>2. c \in Opening => depth + 1 <= MaxDepth
    <3>1. CountsToken(c) => tokens + 1 <= MaxTokens
      BY <1>1, <1>2 DEF Exceeds
    <3>2. c \in Opening => CountsToken(c)
      BY <1>4 DEF CountsToken
    <3>3. DepthExceeded(c) => ~(tokens + 1 <= MaxTokens)
      BY <1>1 DEF Exceeds
    <3> QED
      BY <1>2, <1>4, <3>1, <3>2, <3>3 DEF DepthExceeded
  <2> QED
    BY <1>2, <2>1, <2>2 DEF DepthInRange, Shallower
<1> QED
  BY <1>3, <1>4

\* No text, whatever its brackets, drives the counter out of its range.
THEOREM DepthStaysInRange == Spec => []DepthInRange
<1>1. Init => DepthInRange
  BY PrescanAssumption DEF Init, ScanInit, DepthInRange
<1>2. TypeOK /\ DepthInRange /\ [Next]_vars => DepthInRange'
  <2> SUFFICES ASSUME TypeOK, DepthInRange, [Next]_vars PROVE DepthInRange'
    OBVIOUS
  <2>1. CASE UNCHANGED scan
    BY <2>1 DEF scan, DepthInRange
  <2>2. ASSUME NEW c \in Char, ReadCharacter(c) PROVE DepthInRange'
    BY <2>2, DepthStep
  <2> QED
    BY <2>1, <2>2 DEF Next, DocumentLimit, BeginText, EndText, Over, ScanLimit,
       Return, vars
<1> QED
  BY <1>1, <1>2, TypeCorrect, PTL DEF Spec

\* A recursion failure is met where a container begins and the stack is full.
LEMMA RecursionMeans ==
  ASSUME NEW c \in Char, Parse(c), problem = "none", problem' = "recursion"
  PROVE  c \in Opening /\ reading # "string" /\ reading # "escape"
         /\ Len(stack) >= room /\ room' = room
<1>1. RecursionFails(c)
  BY Zenon DEF Parse, Stopped, ReadString, EndValueString, EndKey, ReadWord,
     WordAborts, WordFails, StopWith, Whitespace, BeginString, BeginWord,
     BeginContainer, EndContainer, RejectDuplicate, NextMember, Colon, Unexpected
<1> QED
  BY <1>1 DEF RecursionFails, OpensContainer, AtStructure, StopWith, Opening

LEMMA RoomStep ==
  ASSUME LockstepInv, RoomSuffices, NEW c \in Char, ReadCharacter(c)
  PROVE  RoomSuffices'
<1>1. /\ TypeOK /\ Lockstep /\ Parse(c)
      /\ ~Exceeds(c, "token_limit") /\ ~Exceeds(c, "depth_limit")
  BY DEF LockstepInv, ReadCharacter, Limit
<1>2. CASE Stopped
  BY <1>2 DEF Stopped, parse, RoomSuffices
<1>3. CASE problem = "none" /\ problem' = "recursion"
  <2>1. /\ c \in Opening /\ ~inString /\ depth = Len(stack)
        /\ Len(stack) >= room /\ room' = room
    BY <1>1, <1>3, RecursionMeans DEF Lockstep
  <2>2. /\ depth \in Nat /\ tokens \in Nat /\ room \in Nat
        /\ MaxDepth \in Nat /\ MaxTokens \in Nat
    BY <1>1, PrescanAssumption DEF TypeOK
  <2>3. depth + 1 <= MaxDepth
    <3>1. CountsToken(c) => tokens + 1 <= MaxTokens
      BY <1>1, <2>2 DEF Exceeds
    <3>2. CountsToken(c)
      BY <2>1 DEF CountsToken
    <3>3. DepthExceeded(c) => ~(tokens + 1 <= MaxTokens)
      BY <1>1 DEF Exceeds
    <3> QED
      BY <2>1, <2>2, <3>1, <3>2, <3>3 DEF DepthExceeded
  <2> QED
    BY <2>1, <2>2, <2>3 DEF RoomSuffices
<1>4. CASE problem' # "recursion"
  BY <1>4 DEF RoomSuffices
<1> QED
  BY <1>1, <1>2, <1>3, <1>4 DEF Parse

\* Only an interpreter stack shorter than max_depth fails by recursion.
THEOREM RoomForDepthSuffices == Spec => []RoomSuffices
<1>1. Init => RoomSuffices
  BY DEF Init, ParseInit, RoomSuffices
<1>2. LockstepInv /\ RoomSuffices /\ [Next]_vars => RoomSuffices'
  <2> SUFFICES ASSUME LockstepInv, RoomSuffices, [Next]_vars PROVE RoomSuffices'
    OBVIOUS
  <2>1. CASE UNCHANGED parse
    BY <2>1 DEF parse, RoomSuffices
  <2>2. ASSUME NEW c \in Char, ReadCharacter(c) PROVE RoomSuffices'
    BY <2>2, RoomStep
  <2> QED
    BY <2>1, <2>2 DEF Next, DocumentLimit, BeginText, EndText, Over, ScanLimit,
       Return, vars
<1> QED
  BY <1>1, <1>2, LockstepCorrect, PTL DEF Spec
=============================================================================
