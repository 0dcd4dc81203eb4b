-------------------------- MODULE MCManifestParse --------------------------
(***************************************************************************)
(* Two families of headers, for limits of one metadata entry, three        *)
(* tensors, rank two, names of two bytes and integers up to 31.            *)
(*                                                                         *)
(* Schema: one tensor record of every kind, two tensors with any two       *)
(* faults in both orders, more tensors than allowed, and every form of the *)
(* metadata before, between and after them.                                *)
(*                                                                         *)
(* Storage: two tensors with any spans of a payload of two bytes, in both  *)
(* document orders, with shapes of no, one and two bytes; an empty third   *)
(* one; defects of dtype and size.                                         *)
(***************************************************************************)
EXTENDS ManifestParse, MCJsonTrees

MCText ==
    {MetadataKey, "dtype", "shape", "data_offsets", "a", "b", "c", "d", "I8", "F4", "X",
     "long", "lone"}

MCBytes == [t \in MCText |-> IF t = "long" THEN 3 ELSE 2]

MCSurrogate == {"lone"}

MCRankOf ==
    ("F4" :> 0) @@ ("I8" :> 1) @@ ("X" :> 2) @@ (MetadataKey :> 3) @@ ("a" :> 4) @@ ("b" :> 5)
    @@ ("c" :> 6) @@ ("d" :> 7) @@ ("data_offsets" :> 8) @@ ("dtype" :> 9) @@ ("long" :> 10)
    @@ ("shape" :> 11) @@ ("lone" :> 12)

MCBits == ("I8" :> 8) @@ ("F4" :> 4)

I(i) == IntValue(i)

L(items) == ListValue(items)

Record(d, s, o) == DictValue(<<"dtype", "shape", "data_offsets">>, <<d, s, o>>)

I8 == TextValue("I8")

Good == Record(I8, L(<<I(1)>>), L(<<I(0), I(1)>>))

-----------------------------------------------------------------------------
Dtypes == {I8, TextValue("lone"), NullValue, I(0)}

Items == {I(-1), I(0), I(9), I(31), I(32), I(100), MinusZero, FloatValue(0, TRUE), NullValue}

Shapes ==
    {NullValue, DictValue(<<>>, <<>>), L(<<>>)} \cup {L(<<v>>) : v \in Items}
    \cup {L(<<v, w, I(0)>>) : v \in {I(0), I(32), NullValue}, w \in Items}

Offsets ==
    {NullValue, L(<<>>), L(<<I(0)>>), L(<<I(0), I(0), I(0)>>), L(<<NullValue, I(0), I(0)>>)}
    \cup {L(<<v, w>>) : v \in {I(31), I(32), NullValue}, w \in Items}

Records ==
    {NullValue, I(0), L(<<>>), DictValue(<<>>, <<>>), DictValue(<<"lone">>, <<I(0)>>)}
    \cup {Record(I8, s, o) : s \in Shapes, o \in Offsets}
    \cup {Record(d, s, L(<<I(32)>>)) : d \in Dtypes, s \in Shapes}
    \cup {DictValue(<<"data_offsets", k, "shape", "dtype">>,
                    <<L(<<I(0), I(1)>>), I(0), L(<<>>), I8>>) : k \in {"a", "lone"}}
    \cup {DictValue(<<"shape", k, "dtype">>, <<I(0), I(0), I(0)>>) : k \in {"a", "data_offsets"}}

Few ==
    {Good, NullValue, DictValue(<<"lone">>, <<I(0)>>), DictValue(<<"dtype">>, <<I(0)>>),
     Record(I(0), L(<<I(32)>>), L(<<>>)), Record(I8, L(<<I(32)>>), NullValue),
     Record(I8, L(<<I(0), I(0), I(0)>>), L(<<I(32)>>)),
     DictValue(<<"dtype", "shape", "data_offsets", "c">>,
               <<I8, L(<<>>), L(<<I(0), I(0)>>), NullValue>>)}

Names == {<<"a", "b">>, <<"b", "a">>, <<"long", "lone">>, <<"lone", "long">>}

Entries == {TextValue("a"), TextValue("lone"), NullValue, I(0)}

MetadataValues ==
    {NullValue, I(0), L(<<>>), DictValue(<<>>, <<>>)}
    \cup {DictValue(<<k>>, <<v>>) : k \in {"a", "lone"}, v \in Entries}
    \cup {DictValue(<<"a", "b">>, <<v, TextValue("a")>>) : v \in Entries}

WithMetadata ==
    {DictValue(<<MetadataKey>>, <<v>>) : v \in MetadataValues}
    \cup {DictValue(<<MetadataKey, n>>, <<v, r>>) :
            n \in {"a", "lone"}, v \in MetadataValues, r \in Few}
    \cup {DictValue(<<"a", MetadataKey, "b">>, <<q, v, r>>) : v \in MetadataValues, q, r \in Few}
    \cup {DictValue(<<"a", "b", n, "d", MetadataKey>>, <<q, r, Good, Good, v>>) :
            n \in {"c", "lone"}, v \in MetadataValues, q, r \in Few}

SchemaHeaders ==
    {NullValue, I(0), L(<<Good>>), DictValue(<<>>, <<>>)}
    \cup {DictValue(<<"a">>, <<r>>) : r \in Records}
    \cup {DictValue(names, <<q, r>>) : names \in Names, q, r \in Few}
    \cup WithMetadata

-----------------------------------------------------------------------------
Sized(d, dimensions, span) ==
    Record(TextValue(d), L([k \in DOMAIN dimensions |-> I(dimensions[k])]),
           L(<<I(span[1]), I(span[2])>>))

Spans == (0 .. 2) \X (0 .. 2)

Layouts == {Sized("I8", d, o) : d \in {<<>>, <<0>>, <<2>>}, o \in Spans}

Empty(at) == Sized("I8", <<0>>, <<at, at>>)

\* An unknown dtype, half a byte, an element count and a bit count too large.
Unsized ==
    {Sized("X", <<>>, <<0, 1>>), Sized("F4", <<>>, <<0, 0>>), Sized("F4", <<2>>, <<0, 1>>),
     Sized("I8", <<6, 6>>, <<0, 2>>), Sized("I8", <<0, 31>>, <<0, 0>>), Sized("I8", <<16>>, <<0, 2>>)}

StorageHeaders ==
    {DictValue(names, <<q, r>>) : names \in {<<"a", "b">>, <<"b", "a">>}, q, r \in Layouts}
    \cup {DictValue(<<"b", "a", "c">>, <<q, Empty(at), r>>) :
            at \in 0 .. 2, q, r \in {Sized("I8", d, o) : d \in {<<>>, <<0>>}, o \in Spans}}
    \cup {DictValue(<<"a", "b">>, <<q, r>>) : q \in Unsized, r \in Unsized \cup {Sized("I8", <<>>, <<1, 2>>)}}

MCTrees == LayOut(SchemaHeaders \cup StorageHeaders)
=============================================================================
