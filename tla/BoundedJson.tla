---------------------------- MODULE BoundedJson ----------------------------
(***************************************************************************)
(* decode_json (_bounded_json.py): the document limit, the prescan, then   *)
(* json.loads.  Both passes read the same text from left to right, so one  *)
(* step gives the next character to both.  The order of the code is kept   *)
(* by what decides: a limit the prescan meets anywhere in the text is the  *)
(* answer, and the parser's answer counts only once the prescan has        *)
(* accepted the whole text.  The parser variables of a state are therefore *)
(* those json.loads would have on the prefix read so far.                  *)
(***************************************************************************)
EXTENDS Prescan, JsonParser

CONSTANTS
    MaxDocument,    \* JsonLimits.max_document_chars
    TextLength      \* lengths of the texts considered

ASSUME DocumentAssumption == MaxDocument \in Nat /\ TextLength \subseteq Nat

VARIABLES
    left,       \* characters of the text not yet read
    phase,      \* "called", "reading" or "returned"
    answer      \* "value", or the error raised

vars == <<scan, parse, left, phase, answer>>

Limit == {"document_limit", "string_limit", "token_limit", "depth_limit",
          "number_limit"}

Answer == Limit \cup {"none", "value", "syntax", "duplicate_key"}

Init ==
    /\ ScanInit /\ ParseInit
    /\ left \in TextLength
    /\ phase = "called"
    /\ answer = "none"

Return(a) ==
    /\ phase' = "returned"
    /\ answer' = a
    /\ UNCHANGED <<scan, parse, left>>

DocumentLimit ==
    /\ phase = "called" /\ left > MaxDocument
    /\ Return("document_limit")

BeginText ==
    /\ phase = "called" /\ left <= MaxDocument
    /\ phase' = "reading"
    /\ UNCHANGED <<scan, parse, left, answer>>

ScanLimit(c) ==
    /\ phase = "reading" /\ left > 0
    /\ \E code \in Limit : Exceeds(c, code) /\ Return(code)

ReadCharacter(c) ==
    /\ phase = "reading" /\ left > 0
    /\ \A code \in Limit : ~Exceeds(c, code)
    /\ Scan(c) /\ Parse(c)
    /\ left' = left - 1
    /\ UNCHANGED <<phase, answer>>

\* RecursionError is reported as the nesting limit.
Reported(r) == IF r = "recursion" THEN "depth_limit" ELSE r

EndText ==
    /\ phase = "reading" /\ left = 0
    /\ \E r \in Problem \cup {"value"} : Outcome(r) /\ Return(Reported(r))

\* The call is over; any other state without a next step is a deadlock.
Over == phase = "returned" /\ UNCHANGED vars

Next ==
    \/ DocumentLimit \/ BeginText \/ EndText \/ Over
    \/ \E c \in Char : ScanLimit(c) \/ ReadCharacter(c)

Spec == Init /\ [][Next]_vars

-----------------------------------------------------------------------------
TypeOK ==
    /\ depth \in Nat /\ tokens \in Nat /\ stringChars \in Nat
    /\ inString \in BOOLEAN /\ inPrimitive \in BOOLEAN /\ escaped \in BOOLEAN
    /\ room \in Nat /\ stack \in Seq(Frame) /\ expect \in Expectation /\ reading \in Reading
    /\ expect \in {"key", "firstKey", "colon"} => Inside("object")
    /\ lexeme \in Nat /\ items \in Nat /\ problem \in Problem
    /\ left \in Nat
    /\ phase \in {"called", "reading", "returned"}
    /\ answer \in Answer

(***************************************************************************)
(* While the parser has met no problem, the prescan, which knows nothing   *)
(* of the grammar, agrees with it on every character: on what is inside a  *)
(* string, an escape or a word, on the nesting, and on the tokens.         *)
(***************************************************************************)
Lockstep ==
    problem = "none" =>
        /\ inString <=> reading \in {"string", "escape"}
        /\ escaped <=> reading = "escape"
        /\ inPrimitive <=> reading = "word"
        /\ depth = Len(stack)
        /\ tokens = items
        /\ inString => stringChars = lexeme

(***************************************************************************)
(* The limits bound what json.loads does, on valid and invalid texts: how  *)
(* deep it recurses, how many values and keys it builds, and how long a    *)
(* string it reads.                                                        *)
(***************************************************************************)
ParserBounded ==
    /\ Len(stack) <= MaxDepth
    /\ items <= MaxTokens
    /\ reading \in {"string", "escape"} => lexeme <= MaxString

(***************************************************************************)
(* The nesting counter stays between zero and max_depth on every text,     *)
(* also one whose brackets do not match: closing brackets with nothing to  *)
(* close earn no credit for later opening ones.                            *)
(***************************************************************************)
DepthInRange == depth \in 0 .. MaxDepth

(***************************************************************************)
(* The prescan charges for nothing the document does not contain: when a   *)
(* limit is the answer and the text was well formed so far, the parser is  *)
(* at that limit.                                                          *)
(***************************************************************************)
RefusalsJustified ==
    problem = "none" =>
      /\ answer = "depth_limit" => Len(stack) = MaxDepth
      /\ answer = "token_limit" => items = MaxTokens
      /\ answer = "string_limit" =>
           reading \in {"string", "escape"} /\ lexeme = MaxString

(***************************************************************************)
(* An interpreter stack with room for max_depth containers suffices for    *)
(* every text: json.loads raises RecursionError, which decode_json reports *)
(* as the nesting limit, only on a shorter stack.                          *)
(***************************************************************************)
RoomSuffices == problem = "recursion" => room < MaxDepth
=============================================================================
