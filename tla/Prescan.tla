------------------------------ MODULE Prescan ------------------------------
(***************************************************************************)
(* _prescan (_bounded_json.py): one pass over the characters of a document *)
(* that counts nesting, tokens and the length of each string, and raises   *)
(* at the first limit exceeded.  A character is its class: what is neither *)
(* structure, whitespace, a quote nor a backslash is "other".              *)
(*                                                                         *)
(* Scan(c) is what the loop body does with c when it raises nothing, and   *)
(* Exceeds(c, code) says that it raises the limit error `code` instead.    *)
(***************************************************************************)
EXTENDS Integers

CONSTANTS
    MaxDepth,   \* JsonLimits.max_depth
    MaxString,  \* JsonLimits.max_string_chars
    MaxTokens   \* JsonLimits.max_tokens

ASSUME PrescanAssumption ==
    MaxDepth \in Nat /\ MaxString \in Nat /\ MaxTokens \in Nat

VARIABLES depth, tokens, inString, inPrimitive, escaped, stringChars

scan == <<depth, tokens, inString, inPrimitive, escaped, stringChars>>

Char == {"quote", "backslash", "[", "{", "]", "}", ",", ":", "space", "other"}

Opening == {"[", "{"}
Closing == {"]", "}"}

\* Outside strings a backslash is an ordinary character.
Ordinary == {"other", "backslash"}

ScanInit ==
    /\ depth = 0
    /\ tokens = 0
    /\ inString = FALSE
    /\ inPrimitive = FALSE
    /\ escaped = FALSE
    /\ stringChars = 0

-----------------------------------------------------------------------------
EndsString(c) == inString /\ c = "quote" /\ ~escaped

InsideString(c) == inString /\ ~EndsString(c)

StartsPrimitive(c) == ~inString /\ c \in Ordinary /\ ~inPrimitive

CountsToken(c) ==
    ~inString /\ (c \in Opening \cup {"quote", ","} \/ StartsPrimitive(c))

\* Mutant: the depth is compared before it is increased.
DepthExceededLate(c) == ~inString /\ c \in Opening /\ depth > MaxDepth

DepthExceeded(c) == ~inString /\ c \in Opening /\ depth + 1 > MaxDepth

Exceeds(c, code) ==
    \/ InsideString(c) /\ stringChars + 1 > MaxString /\ code = "string_limit"
    \/ CountsToken(c) /\ tokens + 1 > MaxTokens /\ code = "token_limit"
    \/ /\ DepthExceeded(c)
       /\ tokens + 1 <= MaxTokens
       /\ code = "depth_limit"

\* Mutant: a backslash escapes the next character even when it is escaped.
EscapesAlways(c) == c = "backslash"

Escapes(c) == c = "backslash" /\ ~escaped

StringEnd(c) ==
    /\ EndsString(c)
    /\ inString' = FALSE
    /\ UNCHANGED <<depth, tokens, inPrimitive, escaped, stringChars>>

StringChar(c) ==
    /\ InsideString(c)
    /\ stringChars' = stringChars + 1
    /\ escaped' = Escapes(c)
    /\ UNCHANGED <<depth, tokens, inString, inPrimitive>>

\* Mutant: the length of the previous string is not forgotten.
StringStartKeepingCount(c) ==
    /\ ~inString /\ c = "quote"
    /\ tokens' = tokens + 1
    /\ inString' = TRUE
    /\ inPrimitive' = FALSE
    /\ UNCHANGED <<depth, escaped, stringChars>>

StringStart(c) ==
    /\ ~inString /\ c = "quote"
    /\ tokens' = tokens + 1
    /\ inString' = TRUE
    /\ inPrimitive' = FALSE
    /\ stringChars' = 0
    /\ UNCHANGED <<depth, escaped>>

Open(c) ==
    /\ ~inString /\ c \in Opening
    /\ tokens' = tokens + 1
    /\ depth' = depth + 1
    /\ inPrimitive' = FALSE
    /\ UNCHANGED <<inString, escaped, stringChars>>

\* Mutant: an unmatched closing bracket makes the depth negative.
ShallowerUnbounded == depth - 1

Shallower == IF depth = 0 THEN 0 ELSE depth - 1

Close(c) ==
    /\ ~inString /\ c \in Closing
    /\ depth' = Shallower
    /\ inPrimitive' = FALSE
    /\ UNCHANGED <<tokens, inString, escaped, stringChars>>

Comma(c) ==
    /\ ~inString /\ c = ","
    /\ tokens' = tokens + 1
    /\ inPrimitive' = FALSE
    /\ UNCHANGED <<depth, inString, escaped, stringChars>>

Gap(c) ==
    /\ ~inString /\ c \in {":", "space"}
    /\ inPrimitive' = FALSE
    /\ UNCHANGED <<depth, tokens, inString, escaped, stringChars>>

PrimitiveStart(c) ==
    /\ StartsPrimitive(c)
    /\ tokens' = tokens + 1
    /\ inPrimitive' = TRUE
    /\ UNCHANGED <<depth, inString, escaped, stringChars>>

PrimitiveChar(c) ==
    /\ ~inString /\ c \in Ordinary /\ inPrimitive
    /\ UNCHANGED scan

Scan(c) ==
    \/ StringEnd(c)   \/ StringChar(c)
    \/ StringStart(c) \/ Open(c) \/ Close(c) \/ Comma(c) \/ Gap(c)
    \/ PrimitiveStart(c) \/ PrimitiveChar(c)
=============================================================================
