--------------------------- MODULE MCAdapterConfig ---------------------------
(***************************************************************************)
(* Documents that hold one core field with each of some fifty values, or   *)
(* one field that must hold its default with each of a dozen; every        *)
(* combination of targets, layers, patterns and target parameters; the     *)
(* fields the LoRA rules read; other methods, unknown fields, bad roots.   *)
(* MaxInteger is 16, names have at most two bytes.                         *)
(***************************************************************************)
EXTENDS AdapterConfig, MCJsonTrees

T(t) == TextValue(t)
I(i) == IntValue(i)

Plain ==
    {"", "x", "LORA", "IA3", "CAUSAL_LM", "none", "all", "all-linear", "ALL-LINEAR",
     "Gaussian", "gaussian", "eva", "EVA", "pissa_niter_3", "pissa_niter_x",
     "megatron.core", "long", "lone"}

MCText == Plain \cup KnownFields \cup AutoMappingKeys \cup {"new"}

MCBytes == [t \in MCText |-> IF t = "" THEN 0 ELSE IF t = "long" THEN 3 ELSE 2]

MCSurrogate == {"lone"}

MCLower ==
    [t \in MCText |-> CASE t = "ALL-LINEAR" -> "all-linear"
                        [] t = "Gaussian" -> "gaussian"
                        [] t = "EVA" -> "eva"
                        [] OTHER -> t]

MCIterations == "pissa_niter_3" :> 3

Scalars ==
    {NullValue, BoolValue(TRUE), BoolValue(FALSE), MinusZero}
    \cup {I(i) : i \in {-17, -1, 0, 1, 8, 16, 17}}
    \cup {FloatValue(f, TRUE) : f \in {-33, -1, 1, 2, 3}}
    \cup {FloatValue(1, FALSE)}
    \cup {T(t) : t \in Plain}

OneItem == {I(-1), I(0), I(1), I(17), FloatValue(1, TRUE), T("x"), T(""), T("long"), T("lone")}

Lists ==
    {ListValue(<<>>)}
    \cup {ListValue(<<v>>) : v \in OneItem}
    \cup {ListValue(<<I(2), I(1)>>), ListValue(<<T("x"), T("x")>>), ListValue(<<T("x"), I(1)>>),
          ListValue(<<T("x"), T("")>>), ListValue(<<I(1), I(1), I(1)>>)}

Mappings == {DictValue(<<"parent_library", "base_model_class">>, <<T("x"), v>>) : v \in OneItem}

Objects ==
    {DictValue(<<>>, <<>>)}
    \cup {DictValue(<<"x">>, <<v>>) : v \in OneItem \cup {FloatValue(1, FALSE)}}
    \cup {DictValue(<<k, "x">>, <<v, I(1)>>) : k \in {"", "new", "long", "lone"},
                                               v \in {I(1), I(0), T("x")}}
    \cup {DictValue(<<"x", "new", "long">>, <<I(1), I(1), I(1)>>)}
    \cup Mappings

Samples == Scalars \cup Lists \cup Objects

Few ==
    {NullValue, BoolValue(TRUE), BoolValue(FALSE), I(0), I(1), I(16), I(17), FloatValue(1, TRUE),
     T("x"), T("megatron.core"), ListValue(<<>>), DictValue(<<>>, <<>>),
     DictValue(<<"x">>, <<T("lone")>>)}

Lora(keys, items) == DictValue(<<"peft_type">> \o keys, <<T("LORA")>> \o items)

OneCore == {Lora(<<f>>, <<v>>) : f \in CoreFields, v \in Samples}

OneOther ==
    {Lora(<<f>>, <<v>>) : f \in DefaultOnly \cup {"runtime_config", "new", "", "lone"}, v \in Few}

\* The members among four that are not left out.
Some(options) ==
    LET held == SelectSeq(options, LAMBDA o : o[2] # <<>>)
    IN  Lora([i \in DOMAIN held |-> held[i][1]], [i \in DOMAIN held |-> held[i][2][1]])

Optional(values) == {<<>>} \cup {<<v>> : v \in values}

Layered ==
    {Some(<< <<"layers_pattern", c>>, <<"target_modules", a>>, <<"layers_to_transform", b>>,
             <<"target_parameters", d>> >>) :
       a \in Optional({NullValue, T("x"), T("ALL-LINEAR"), ListValue(<<>>), ListValue(<<T("x")>>)}),
       b \in Optional({NullValue, I(0), MinusZero, I(1), ListValue(<<>>), ListValue(<<I(0)>>)}),
       c \in Optional({NullValue, T(""), T("x"), ListValue(<<>>), ListValue(<<T("x")>>)}),
       d \in Optional({NullValue, I(1), ListValue(<<>>)})}

Read ==
    {Some(<< <<"rank_pattern", a>>, <<"r", b>>, <<"modules_to_save", c>>, <<"revision", d>> >>) :
       a \in Optional({DictValue(<<>>, <<>>), DictValue(<<"x", "new">>, <<I(2), I(1)>>)}),
       b \in Optional({I(1), I(0)}),
       c \in Optional({NullValue, ListValue(<<>>), ListValue(<<T("x")>>)}),
       d \in Optional({T("long")})}

Methods ==
    {DictValue(<<"r", "peft_type">>, <<I(0), v>>) : v \in Samples}
    \cup {DictValue(<<"r">>, <<I(0)>>), DictValue(<<>>, <<>>), I(1), ListValue(<<T("x")>>),
          NullValue}

Wide ==
    {Lora(<<"r", "bias", "new", "x", k>>, <<I(0), I(0), I(0), I(0), I(0)>>) : k \in {"all", "lone"}}

MCTrees == LayOut(OneCore \cup OneOther \cup Layered \cup Read \cup Methods \cup Wide)
=============================================================================
