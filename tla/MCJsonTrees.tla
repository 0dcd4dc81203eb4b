---------------------------- MODULE MCJsonTrees ----------------------------
(***************************************************************************)
(* Documents for TLC, written as nested values and laid out by path.       *)
(***************************************************************************)
EXTENDS Integers, SequencesExt

Leaf(node) == [node |-> node, sub |-> <<>>]

NullValue == Leaf([kind |-> "null"])
BoolValue(b) == Leaf([kind |-> "bool", bool |-> b])
IntValue(i) == Leaf([kind |-> "int", int |-> i, minus |-> i < 0])
MinusZero == Leaf([kind |-> "int", int |-> 0, minus |-> TRUE])
FloatValue(f, supported) == Leaf([kind |-> "float", float |-> f, supported |-> supported])
TextValue(t) == Leaf([kind |-> "str", text |-> t])
ListValue(items) == [node |-> [kind |-> "list", size |-> Len(items)], sub |-> items]
DictValue(keys, items) == [node |-> [kind |-> "dict", keys |-> keys], sub |-> items]

RECURSIVE Lay(_, _)
Lay(value, p) ==
    FoldLeft(LAMBDA done, i : done @@ Lay(value.sub[i], Append(p, i)),
             p :> value.node, [i \in DOMAIN value.sub |-> i])

LayOut(values) == {Lay(v, <<>>) : v \in values}
=============================================================================
