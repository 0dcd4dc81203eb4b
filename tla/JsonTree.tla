------------------------------ MODULE JsonTree ------------------------------
(***************************************************************************)
(* What decode_json returns: a tree of JSON values, as a function from the *)
(* paths of the tree to its nodes.  A path gives the position of a child   *)
(* in each list or object on the way down; <<>> is the root.               *)
(*                                                                         *)
(* A text is opaque but for its length in UTF-8, whether it has a lone     *)
(* surrogate (and so no encoding), and being empty.  An integer lexeme is  *)
(* its value and whether it begins with a minus sign, which "-0" does.     *)
(***************************************************************************)
EXTENDS Integers, SequencesExt

CONSTANTS
    Text,       \* the strings of a document, keys included
    Bytes,      \* text -> length of its UTF-8 encoding
    Surrogate,  \* the texts with a lone surrogate
    Trees       \* the trees decode_json can return

ASSUME TextAssumption ==
    /\ Bytes \in [Text -> Nat]
    /\ Surrogate \subseteq Text
    /\ "" \in Text => Bytes[""] = 0

VARIABLE tree   \* the decoded document

Node ==
    [kind : {"null"}]
    \cup [kind : {"bool"}, bool : BOOLEAN]
    \cup {n \in [kind : {"int"}, int : Int, minus : BOOLEAN] :
            IF n.minus THEN n.int <= 0 ELSE n.int >= 0}
    \cup [kind : {"float"}, float : Int, supported : BOOLEAN]
    \cup [kind : {"str"}, text : Text]
    \cup [kind : {"list"}, size : Nat]
    \cup [kind : {"dict"}, keys : Seq(Text)]

Path == Seq(Nat \ {0})

\* Children of a node.
Width(node) ==
    IF node.kind = "dict" THEN Len(node.keys)
    ELSE IF node.kind = "list" THEN node.size
    ELSE 0

(***************************************************************************)
(* A tree has its children exactly where its lists and objects say, and no *)
(* object repeats a key: decode_json refuses one that does.                *)
(***************************************************************************)
IsTree(t) ==
    /\ \A p \in DOMAIN t : p \in Path /\ t[p] \in Node
    /\ <<>> \in DOMAIN t
    /\ \A p \in DOMAIN t : \A i \in 1 .. Width(t[p]) : Append(p, i) \in DOMAIN t
    /\ \A p \in DOMAIN t \ {<<>>} :
         Front(p) \in DOMAIN t /\ Last(p) \in 1 .. Width(t[Front(p)])
    /\ \A p \in DOMAIN t : t[p].kind = "dict" => IsInjective(t[p].keys)

ASSUME TreesAssumption == \A t \in Trees : IsTree(t)

Kind(p) == tree[p].kind

Keys(p) == IF Kind(p) = "dict" THEN tree[p].keys ELSE <<>>

Children(p) == [i \in 1 .. Width(tree[p]) |-> Append(p, i)]

\* mapping.get(key): the path of the member, if there is one.
Member(p, key) == {Append(p, i) : i \in {j \in DOMAIN Keys(p) : Keys(p)[j] = key}}

Has(p, key) == Member(p, key) # {}

Get(p, key) == CHOOSE q \in Member(p, key) : TRUE
=============================================================================
