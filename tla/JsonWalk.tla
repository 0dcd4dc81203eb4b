------------------------------ MODULE JsonWalk ------------------------------
(***************************************************************************)
(* _validate_json_tree (adapter_config.py): the walk over a decoded        *)
(* document with an explicit stack, last child first, before any field is  *)
(* interpreted.  The root is exempt from the collection limit; it has a    *)
(* limit of its own.                                                       *)
(***************************************************************************)
EXTENDS JsonTree

CONSTANTS
    MaxItems,   \* limits.max_collection_items
    MaxName     \* limits.max_name_bytes

ASSUME WalkLimitsAssumption == MaxItems \in Nat \ {0} /\ MaxName \in Nat \ {0}

VARIABLES
    stack,      \* paths of the values still to visit, the next one last
    code        \* the error raised, "none" so far

walk == <<tree, stack, code>>

TooLong(text) == Bytes[text] > MaxName

-----------------------------------------------------------------------------
(***************************************************************************)
(* What can be wrong with one value.                                       *)
(***************************************************************************)
\* Mutant: every object is exempt, not just the root.
TooManyListsOnly(p) ==
    /\ Kind(p) = "list"
    /\ Width(tree[p]) > MaxItems

TooMany(p) ==
    /\ Kind(p) \in {"list", "dict"}
    /\ Width(tree[p]) > MaxItems
    /\ Kind(p) = "dict" => p # <<>>

\* The first key that is refused, 0 if none is.
BadKeyAt(p) == SelectInSeq(Keys(p), LAMBDA key : key \in Surrogate \/ TooLong(key))

KeyCode(key) ==
    IF key \in Surrogate THEN "invalid_unicode_scalar" ELSE "name_exceeds_policy_limit"

SurrogateText(p) == Kind(p) = "str" /\ tree[p].text \in Surrogate

Defective(p) == SurrogateText(p) \/ TooMany(p) \/ BadKeyAt(p) # 0

-----------------------------------------------------------------------------
WalkInit ==
    /\ stack = << <<>> >>
    /\ code = "none"

Walking == code = "none" /\ stack # <<>>

Top == Last(stack)

Raise(c) ==
    /\ code' = c
    /\ UNCHANGED <<tree, stack>>

\* Mutant: the children pushed without taking the visited value.
VisitCleanAgain ==
    /\ Walking
    /\ ~Defective(Top)
    /\ stack' = stack \o Children(Top)
    /\ UNCHANGED <<tree, code>>

\* Mutant: the children visited in document order.
VisitCleanForward ==
    /\ Walking
    /\ ~Defective(Top)
    /\ stack' = Front(stack) \o Reverse(Children(Top))
    /\ UNCHANGED <<tree, code>>

\* A value without a defect gives way to its children, if it has any.
VisitClean ==
    /\ Walking
    /\ ~Defective(Top)
    /\ stack' = Front(stack) \o Children(Top)
    /\ UNCHANGED <<tree, code>>

RefuseText ==
    /\ Walking
    /\ SurrogateText(Top)
    /\ Raise("invalid_unicode_scalar")

RefuseCollection ==
    /\ Walking
    /\ TooMany(Top)
    /\ Raise("collection_count_exceeds_policy_limit")

RefuseKey ==
    /\ Walking
    /\ ~TooMany(Top)
    /\ BadKeyAt(Top) # 0
    /\ Raise(KeyCode(Keys(Top)[BadKeyAt(Top)]))

WalkNext == VisitClean \/ RefuseText \/ RefuseCollection \/ RefuseKey

\* The root is the object parse_adapter_config has found it to be.
WalkStart == tree \in Trees /\ Kind(<<>>) = "dict" /\ WalkInit

WalkSpec == WalkStart /\ [][WalkNext]_walk

-----------------------------------------------------------------------------
(***************************************************************************)
(* What a document must not hold, read off the document: a text or a key   *)
(* with a lone surrogate, a key beyond max_name_bytes, and, as the item of *)
(* a list or the member of an object, a list or object of more than        *)
(* max_collection_items.                                                   *)
(***************************************************************************)
Faulty(p) ==
    \/ Kind(p) = "str" /\ tree[p].text \in Surrogate
    \/ \E key \in ToSet(Keys(p)) : key \in Surrogate \/ Bytes[key] > MaxName
    \/ /\ \E q \in DOMAIN tree : p \in ToSet(Children(q))
       /\ Width(tree[p]) > MaxItems

(***************************************************************************)
(* What is still ahead of the walk: the values on the stack and everything *)
(* below them.                                                             *)
(***************************************************************************)
Ahead == {p \in DOMAIN tree : \E i \in DOMAIN stack : IsPrefix(stack[i], p)}

\* q is visited before p: q is above p, or branches off to its right.
Earlier(q, p) ==
    \/ IsStrictPrefix(q, p)
    \/ \E i \in DOMAIN p \cap DOMAIN q :
         /\ SubSeq(p, 1, i - 1) = SubSeq(q, 1, i - 1)
         /\ q[i] > p[i]

(***************************************************************************)
(* No fault is ever left behind, so a document the walk returns on has no  *)
(* lone surrogate, no long key and below its root no large collection,     *)
(* also inside the values the parser never interprets.                     *)
(***************************************************************************)
NothingMissed == \A p \in DOMAIN tree : Faulty(p) => p \in Ahead

(***************************************************************************)
(* The value refused really is faulty, and of several faulty values it is  *)
(* the last in document order that is not inside another: all that the     *)
(* walk visits earlier is without a fault.                                 *)
(***************************************************************************)
ReportsRightmost ==
    code # "none" =>
      /\ Faulty(Top)
      /\ \A p \in DOMAIN tree : Earlier(p, Top) => ~Faulty(p)

(***************************************************************************)
(* Every step of the walk disposes of exactly one value, the one it takes; *)
(* no value is visited twice, and the walk ends after as many steps as the *)
(* document has values.                                                    *)
(***************************************************************************)
OneValueAStep ==
    [][code' = "none" => Top \in Ahead /\ Ahead' = Ahead \ {Top}]_walk
=============================================================================
