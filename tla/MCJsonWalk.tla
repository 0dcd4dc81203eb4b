----------------------------- MODULE MCJsonWalk -----------------------------
(***************************************************************************)
(* Objects with two members whose values are texts, lists, or objects with *)
(* such values; a collection may have one item, which the root exceeds and *)
(* some lists and objects below it do.  Of the four texts one is too long  *)
(* for a key, one has a lone surrogate and two are neither.                *)
(***************************************************************************)
EXTENDS JsonWalk, MCJsonTrees

MCText == {"k", "n", "long", "lone"}

MCBytes == [t \in MCText |-> IF t = "long" THEN 2 ELSE 1]

MCSurrogate == {"lone"}

Low == {TextValue("k"), TextValue("lone")}

KeySeqs == {<<"k", "n">>, <<"long", "k">>, <<"k", "lone">>}

Nested ==
    Low \cup {ListValue(<<>>)}
    \cup {ListValue(<<v>>) : v \in Low}
    \cup {ListValue(<<v, TextValue("k")>>) : v \in Low}
    \cup {DictValue(<<k>>, <<v>>) : k \in MCText, v \in Low}
    \cup {DictValue(<<"k", "n">>, <<v, TextValue("k")>>) : v \in Low}

Deeper ==
    Nested
    \cup {ListValue(<<v>>) : v \in Nested}
    \cup {DictValue(<<"k">>, <<v>>) : v \in Nested}

MCTrees ==
    LayOut({DictValue(keys, <<v, w>>) : keys \in KeySeqs, v \in Deeper, w \in Nested})
=============================================================================
