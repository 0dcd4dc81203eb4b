----------------------------- MODULE JsonParser -----------------------------
(***************************************************************************)
(* json.loads as decode_json calls it (_bounded_json.py): the JSON grammar *)
(* is the library's, the hooks for numbers, constants and objects are      *)
(* decode_json's.  It reads the document one character at a time, keeps    *)
(* the containers it is inside, and gives up at the first problem:         *)
(*   "syntax"         JSONDecodeError, or reject_constant                  *)
(*   "duplicate_key"  unique_object, when an object with a repeated key    *)
(*                    is closed                                            *)
(*   "number_limit"   _check_number_length, when a number ends             *)
(*   "recursion"      RecursionError                                       *)
(* Whether a character of class "other" continues a word, and whether a    *)
(* string or word is well formed, is the text's choice.                    *)
(***************************************************************************)
EXTENDS Integers, Sequences

CONSTANTS
    MaxNumber,      \* JsonLimits.max_number_chars, or Unlimited
    Unlimited,
    StackRoom       \* how many containers the interpreter may have room for

ASSUME ParserAssumption ==
    /\ MaxNumber \in Nat \cup {Unlimited}
    /\ Unlimited \notin Nat
    /\ StackRoom \subseteq Nat

VARIABLES
    room,       \* containers the interpreter's stack has room for
    stack,      \* the containers around the current position
    expect,     \* what the grammar allows after the current lexeme
    reading,    \* the lexeme being read
    lexeme,     \* its length so far
    items,      \* values, keys and commas consumed
    problem     \* why parsing stopped, or "none"

parse == <<room, stack, expect, reading, lexeme, items, problem>>

Expectation == {"value", "first", "key", "firstKey", "colon", "after"}
Reading == {"none", "string", "escape", "word"}
Problem == {"none", "syntax", "duplicate_key", "number_limit", "recursion"}

\* A container, whether it has a key yet, and whether one was repeated.
Frame == [kind : {"array", "object"}, named : BOOLEAN, dup : BOOLEAN]

ParseInit ==
    /\ room \in StackRoom
    /\ stack = <<>>
    /\ expect = "value"
    /\ reading = "none"
    /\ lexeme = 0
    /\ items = 0
    /\ problem = "none"

Top == stack[Len(stack)]

Inside(kind) == stack # <<>> /\ Top.kind = kind

Popped == SubSeq(stack, 1, Len(stack) - 1)

StopWith(p) ==
    /\ problem' = p
    /\ UNCHANGED <<room, stack, expect, reading, lexeme, items>>

-----------------------------------------------------------------------------
(***************************************************************************)
(* Inside a string.  Control characters and bad escapes are syntax errors. *)
(***************************************************************************)
ReadString(c) ==
    /\ reading \in {"string", "escape"}
    /\ reading = "escape" \/ c # "quote"
    /\ \/ /\ reading' = IF reading = "string" /\ c = "backslash"
                        THEN "escape" ELSE "string"
          /\ lexeme' = lexeme + 1
          /\ UNCHANGED <<room, stack, expect, items, problem>>
       \/ StopWith("syntax")

EndValueString(c) ==
    /\ reading = "string" /\ c = "quote" /\ expect = "after"
    /\ reading' = "none"
    /\ UNCHANGED <<room, stack, expect, lexeme, items, problem>>

WithKey(frame, repeats) ==
    [frame EXCEPT !.named = TRUE, !.dup = frame.dup \/ repeats]

EndKey(c) ==
    /\ reading = "string" /\ c = "quote" /\ expect = "colon"
    /\ reading' = "none"
    /\ \E repeats \in BOOLEAN :
         /\ repeats => Top.named
         /\ stack' = [stack EXCEPT ![Len(stack)] = WithKey(Top, repeats)]
    /\ UNCHANGED <<room, expect, lexeme, items, problem>>

(***************************************************************************)
(* Inside a number or literal.  The number hook sees a number when it      *)
(* ends, be it because what follows cannot continue it.                    *)
(***************************************************************************)
TooLong(n) == MaxNumber # Unlimited /\ n > MaxNumber

WordFails ==
    \/ StopWith("syntax")
    \/ TooLong(lexeme) /\ StopWith("number_limit")

WordFits == ~TooLong(lexeme) \/ lexeme \in {4, 5}   \* null, true, false

ReadWord(c) ==
    /\ reading = "word" /\ c = "other"
    /\ \/ /\ lexeme' = lexeme + 1
          /\ UNCHANGED <<room, stack, expect, reading, items, problem>>
       \/ WordFails

WordAborts(c) == reading = "word" /\ c # "other" /\ WordFails

-----------------------------------------------------------------------------
(***************************************************************************)
(* Between lexemes, or at the character that ends a word.                  *)
(***************************************************************************)
AtStructure(c) ==
    reading = "none" \/ (reading = "word" /\ c # "other" /\ WordFits)

Whitespace(c) ==
    /\ AtStructure(c) /\ c = "space"
    /\ reading' = "none"
    /\ UNCHANGED <<room, stack, expect, lexeme, items, problem>>

BeginString(c) ==
    /\ AtStructure(c) /\ c = "quote"
    /\ expect \in {"value", "first", "key", "firstKey"}
    /\ reading' = "string"
    /\ lexeme' = 0
    /\ expect' = IF expect \in {"value", "first"} THEN "after" ELSE "colon"
    /\ items' = items + 1
    /\ UNCHANGED <<room, stack, problem>>

BeginWord(c) ==
    /\ reading = "none" /\ c = "other" /\ expect \in {"value", "first"}
    /\ reading' = "word"
    /\ lexeme' = 1
    /\ expect' = "after"
    /\ items' = items + 1
    /\ UNCHANGED <<room, stack, problem>>

OpensContainer(c) ==
    AtStructure(c) /\ c \in {"[", "{"} /\ expect \in {"value", "first"}

BeginContainer(c) ==
    /\ OpensContainer(c) /\ Len(stack) < room
    /\ stack' = Append(stack, [kind |-> IF c = "[" THEN "array" ELSE "object",
                               named |-> FALSE, dup |-> FALSE])
    /\ expect' = IF c = "[" THEN "first" ELSE "firstKey"
    /\ reading' = "none"
    /\ items' = items + 1
    /\ UNCHANGED <<room, lexeme, problem>>

RecursionFails(c) ==
    /\ OpensContainer(c) /\ Len(stack) >= room
    /\ StopWith("recursion")

ClosesContainer(c) ==
    /\ AtStructure(c)
    /\ \/ c = "]" /\ Inside("array")  /\ expect \in {"first", "after"}
       \/ c = "}" /\ Inside("object") /\ expect \in {"firstKey", "after"}

EndContainer(c) ==
    /\ ClosesContainer(c) /\ ~Top.dup
    /\ stack' = Popped
    /\ expect' = "after"
    /\ reading' = "none"
    /\ UNCHANGED <<room, lexeme, items, problem>>

RejectDuplicate(c) ==
    ClosesContainer(c) /\ Top.dup /\ StopWith("duplicate_key")

NextMember(c) ==
    /\ AtStructure(c) /\ c = "," /\ expect = "after" /\ stack # <<>>
    /\ expect' = IF Top.kind = "array" THEN "value" ELSE "key"
    /\ reading' = "none"
    /\ items' = items + 1
    /\ UNCHANGED <<room, stack, lexeme, problem>>

Colon(c) ==
    /\ AtStructure(c) /\ c = ":" /\ expect = "colon"
    /\ reading' = "none"
    /\ expect' = "value"
    /\ UNCHANGED <<room, stack, lexeme, items, problem>>

(***************************************************************************)
(* A character the grammar does not allow here, or a word that is none.    *)
(***************************************************************************)
Allowed(c) ==
    \/ c = "space"
    \/ c = "quote" /\ expect \in {"value", "first", "key", "firstKey"}
    \/ OpensContainer(c) \/ ClosesContainer(c)
    \/ c = "," /\ expect = "after" /\ stack # <<>>
    \/ c = ":" /\ expect = "colon"

Unexpected(c) == AtStructure(c) /\ ~Allowed(c) /\ StopWith("syntax")

Stopped == problem # "none" /\ UNCHANGED parse

Parse(c) ==
    \/ Stopped
    \/ /\ problem = "none"
       /\ \/ ReadString(c) \/ EndValueString(c) \/ EndKey(c)
          \/ ReadWord(c)   \/ WordAborts(c)
          \/ Whitespace(c) \/ BeginString(c) \/ BeginWord(c)
          \/ BeginContainer(c) \/ RecursionFails(c)
          \/ EndContainer(c)   \/ RejectDuplicate(c)
          \/ NextMember(c) \/ Colon(c) \/ Unexpected(c)

(***************************************************************************)
(* What json.loads makes of the end of the text.                           *)
(***************************************************************************)
Outcome(r) ==
    \/ problem # "none" /\ r = problem
    \/ /\ problem = "none"
       /\ \/ /\ expect = "after" /\ stack = <<>>
             /\ reading = "none" \/ (reading = "word" /\ WordFits)
             /\ r = "value"
          \/ reading = "word" /\ r = "syntax"
          \/ reading = "word" /\ TooLong(lexeme) /\ r = "number_limit"
          \/ /\ reading # "word"
             /\ expect # "after" \/ stack # <<>> \/ reading # "none"
             /\ r = "syntax"
=============================================================================
