--------------------------- MODULE AdapterSchema ---------------------------
(***************************************************************************)
(* The fields of adapter_config.json (adapter_config.py): which JSON types *)
(* each decoder takes, which values of those types, and what it makes of   *)
(* them.                                                                   *)
(*                                                                         *)
(* An optional value is <<>> or <<x>>; a sorted tuple without repeats is a *)
(* set; a Decimal is a number of Units; str.lower and the reading of       *)
(* pissa_niter_<digits> are constants, as no other text is taken apart.    *)
(***************************************************************************)
EXTENDS JsonTree

CONSTANTS
    MaxInteger,     \* _MAX_INTEGER
    Unit,           \* the Decimal 1
    Lower,          \* text -> str.lower()
    Iterations      \* the texts pissa_niter_<digits> in range -> their number

ASSUME NumbersAssumption == MaxInteger \in Nat /\ Unit \in Nat \ {0} /\ MaxInteger >= 16

ASSUME FoldingAssumption ==
    /\ Lower \in [Text -> Text]
    /\ DOMAIN Iterations \subseteq Text
    /\ \A t \in DOMAIN Iterations : Iterations[t] \in 0 .. MaxInteger

\* _decode_lora_profile's order.
DecodeOrder ==
    << "task_type", "auto_mapping", "peft_version", "base_model_name_or_path",
       "revision", "inference_mode", "r", "target_modules", "exclude_modules",
       "lora_alpha", "lora_dropout", "fan_in_fan_out", "bias", "use_rslora",
       "modules_to_save", "init_lora_weights", "layers_to_transform",
       "layers_pattern", "rank_pattern", "alpha_pattern" >>

CoreFields == ToSet(DecodeOrder)

\* The fields that are read only to see whether they hold their default,
\* and the types that are not of themselves an error.
Tolerated ==
    [ megatron_config |-> {"null", "dict"},
      megatron_core |-> {"null", "str"},
      trainable_token_indices |-> {"null", "list", "dict"},
      loftq_config |-> {"dict"},
      eva_config |-> {"null", "dict"},
      corda_config |-> {"null", "dict"},
      lora_ga_config |-> {"null", "dict"},
      use_dora |-> {"bool"},
      alora_invocation_tokens |-> {"null", "list"},
      use_qalora |-> {"bool"},
      qalora_group_size |-> {"int"},
      layer_replication |-> {"null", "list"},
      lora_bias |-> {"bool"},
      target_parameters |-> {"null", "list"},
      use_bdlora |-> {"null", "dict"},
      arrow_config |-> {"null", "dict"},
      ensure_weight_tying |-> {"bool"} ]

DefaultOnly == DOMAIN Tolerated

KnownFields == CoreFields \cup DefaultOnly \cup {"peft_type", "runtime_config"}

At(f) == Get(<<>>, f)

Given(f) == Has(<<>>, f)

Explicit == ToSet(Keys(<<>>))

-----------------------------------------------------------------------------
(***************************************************************************)
(* Reading values.                                                         *)
(***************************************************************************)
TextAt(p) == tree[p].text

\* An item that is not a text is no name.
TextsAt(p) == [i \in 1 .. Width(tree[p]) |-> TextAt(Append(p, i))]

NamesAt(p) == ToSet(TextsAt(p))

AllOf(p, kind) == \A q \in ToSet(Children(p)) : Kind(q) = kind

\* Decimal(lexeme.value).
NumberAt(p) == IF Kind(p) = "int" THEN tree[p].int * Unit ELSE tree[p].float

NumberSupported(p) == Kind(p) = "float" => tree[p].supported

NumberWithin(p, lo, hi) == NumberSupported(p) /\ NumberAt(p) \in lo .. hi

IntWithin(p, lo) == tree[p].int \in lo .. MaxInteger

DecimalWithin(p) == NumberWithin(p, -MaxInteger * Unit, MaxInteger * Unit)

-----------------------------------------------------------------------------
(***************************************************************************)
(* rank_pattern and alpha_pattern are read entry by entry up to the first  *)
(* one that is refused.                                                    *)
(***************************************************************************)
EntryTyped(f, p, i) ==
    Kind(Append(p, i)) \in IF f = "rank_pattern" THEN {"int"} ELSE {"int", "float"}

EntryValued(f, p, i) ==
    IF f = "rank_pattern" THEN IntWithin(Append(p, i), 1) ELSE DecimalWithin(Append(p, i))

EntryFits(f, p, i) == Keys(p)[i] # "" /\ EntryTyped(f, p, i) /\ EntryValued(f, p, i)

BadEntries(f, p) == {i \in DOMAIN Keys(p) : ~EntryFits(f, p, i)}

\* The entries the loop enters.
EntriesRead(f, p) == {i \in DOMAIN Keys(p) : \A j \in BadEntries(f, p) : i <= j}

MistypedEntry(f, p) ==
    \E i \in EntriesRead(f, p) : Keys(p)[i] # "" /\ ~EntryTyped(f, p, i)

AutoMappingKeys == {"base_model_class", "parent_library"}

ExactMapping(p) == ToSet(Keys(p)) = AutoMappingKeys

-----------------------------------------------------------------------------
(***************************************************************************)
(* What each core decoder takes.                                           *)
(***************************************************************************)
Nullable ==
    {"task_type", "auto_mapping", "peft_version", "base_model_name_or_path",
     "revision", "target_modules", "exclude_modules", "modules_to_save",
     "layers_to_transform", "layers_pattern"}

\* The decoder returns its default without a look at the value.
Omitted(f) == Given(f) => f \in Nullable /\ Kind(At(f)) = "null"

Forms ==
    [ task_type |-> {"str"},
      auto_mapping |-> {"mapping"},
      peft_version |-> {"str"},
      base_model_name_or_path |-> {"str"},
      revision |-> {"str"},
      inference_mode |-> {"bool"},
      r |-> {"int"},
      target_modules |-> {"str", "strs"},
      exclude_modules |-> {"str", "strs"},
      lora_alpha |-> {"int", "float"},
      lora_dropout |-> {"int", "float"},
      fan_in_fan_out |-> {"bool"},
      bias |-> {"str"},
      use_rslora |-> {"bool"},
      modules_to_save |-> {"strs"},
      init_lora_weights |-> {"bool", "str"},
      layers_to_transform |-> {"int", "ints"},
      layers_pattern |-> {"str", "strs"},
      rank_pattern |-> {"entries"},
      alpha_pattern |-> {"entries"} ]

HasForm(f, p, form) ==
    \/ form = "strs" /\ Kind(p) = "list" /\ AllOf(p, "str")
    \/ form = "ints" /\ Kind(p) = "list" /\ AllOf(p, "int")
    \/ form = "mapping" /\ Kind(p) = "dict" /\ (ExactMapping(p) => AllOf(p, "str"))
    \/ form = "entries" /\ Kind(p) = "dict" /\ ~MistypedEntry(f, p)
    \/ form = Kind(p)

TypeFits(f, p) == \E form \in Forms[f] : HasForm(f, p, form)

TaskTypes ==
    {"SEQ_CLS", "SEQ_2_SEQ_LM", "CAUSAL_LM", "TOKEN_CLS", "QUESTION_ANS",
     "FEATURE_EXTRACTION"}

BiasModes == {"none", "all", "lora_only"}

\* gaussian and olora are recognised in any case, the others only as spelt.
FoldedInitializers == {"gaussian", "olora"}

SpeltInitializers == {"eva", "pissa", "corda", "loftq", "orthogonal", "lora_ga"}

KnownInitializer(t) ==
    \/ Lower[t] \in FoldedInitializers
    \/ t \in SpeltInitializers \cup DOMAIN Iterations

\* For a value of the right type.
ValueFits(f, p) ==
    /\ f = "task_type" => TextAt(p) \in TaskTypes
    /\ f = "bias" => TextAt(p) \in BiasModes
    /\ f = "peft_version" => TextAt(p) # ""
    /\ f = "auto_mapping" => ExactMapping(p) /\ "" \notin NamesAt(p)
    /\ f = "r" => IntWithin(p, 1)
    /\ f \in {"target_modules", "exclude_modules"} /\ Kind(p) = "str" => TextAt(p) # ""
    /\ f \in {"target_modules", "exclude_modules", "modules_to_save", "layers_pattern"}
         /\ Kind(p) = "list" => "" \notin NamesAt(p)
    /\ f = "lora_alpha" => DecimalWithin(p)
    /\ f = "lora_dropout" => NumberWithin(p, 0, Unit)
    /\ f = "init_lora_weights" /\ Kind(p) = "str" => KnownInitializer(TextAt(p))
    /\ f = "layers_to_transform" =>
         \A q \in IF Kind(p) = "int" THEN {p} ELSE ToSet(Children(p)) : IntWithin(q, 0)
    /\ f \in {"rank_pattern", "alpha_pattern"} => BadEntries(f, p) = {}

\* The fields whose text, or list of texts, goes through _check_retained_text.
Measured ==
    {"peft_version", "base_model_name_or_path", "revision", "target_modules",
     "exclude_modules", "modules_to_save", "layers_pattern"}

\* The texts measured, of a value of the right type.
Retained(f, p) ==
    {t \in Text :
       \/ f \in {"rank_pattern", "alpha_pattern"} /\ \E i \in EntriesRead(f, p) : t = Keys(p)[i]
       \/ f = "auto_mapping" /\ ExactMapping(p) /\ t \in NamesAt(p)
       \/ f \in Measured /\ Kind(p) = "str" /\ t = TextAt(p)
       \/ f \in Measured /\ Kind(p) = "list" /\ t \in NamesAt(p)}

-----------------------------------------------------------------------------
(***************************************************************************)
(* What the decoders return.                                               *)
(***************************************************************************)
Selector(kind, values) == [kind |-> kind, values |-> values]

DefaultSelector == Selector("default", {})

Initializer(kind, iterations) == [kind |-> kind, iterations |-> iterations]

DefaultInitializer == Initializer("default", <<>>)

PinnedVersion == "0.19.1"

\* The literal is ASCII.
ASSUME PinnedAssumption == PinnedVersion \notin Surrogate

Default(f) ==
    CASE f \in {"inference_mode", "fan_in_fan_out", "use_rslora"} -> FALSE
      [] f = "peft_version" -> PinnedVersion
      [] f = "r" -> 8
      [] f = "lora_alpha" -> 8 * Unit
      [] f = "lora_dropout" -> 0
      [] f \in {"target_modules", "exclude_modules"} -> DefaultSelector
      [] f = "bias" -> "none"
      [] f = "init_lora_weights" -> DefaultInitializer
      [] OTHER -> <<>>

SelectorAt(f, p) ==
    IF Kind(p) = "list" THEN Selector("names", NamesAt(p))
    ELSE IF f = "target_modules" /\ Lower[TextAt(p)] = "all-linear"
    THEN Selector("all_linear", {})
    ELSE Selector("regex", {TextAt(p)})

InitializerNamed(t) ==
    IF Lower[t] \in FoldedInitializers THEN Initializer(Lower[t], <<>>)
    ELSE IF t \in SpeltInitializers THEN Initializer(t, <<>>)
    ELSE Initializer("pissa_niter", <<Iterations[t]>>)

InitializerAt(p) ==
    IF Kind(p) = "str" THEN InitializerNamed(TextAt(p))
    ELSE IF tree[p].bool THEN DefaultInitializer
    ELSE Initializer("random", <<>>)

LayersAt(p) ==
    {tree[q].int : q \in IF Kind(p) = "int" THEN {p} ELSE ToSet(Children(p))}

PatternTextsAt(p) ==
    IF Kind(p) = "list" THEN TextsAt(p)
    ELSE IF TextAt(p) = "" THEN <<>>
    ELSE <<TextAt(p)>>

EntriesAt(f, p) ==
    [i \in DOMAIN Keys(p) |->
       [pattern |-> Keys(p)[i],
        value |-> IF f = "rank_pattern" THEN tree[Append(p, i)].int
                                        ELSE NumberAt(Append(p, i))]]

\* For a value of the right type that fits.
Normal(f, p) ==
    CASE f \in {"task_type", "base_model_name_or_path", "revision"} -> <<TextAt(p)>>
      [] f \in {"peft_version", "bias"} -> TextAt(p)
      [] f = "auto_mapping" -> <<[k \in AutoMappingKeys |-> TextAt(Get(p, k))]>>
      [] f \in {"target_modules", "exclude_modules"} -> SelectorAt(f, p)
      [] f = "r" -> tree[p].int
      [] f \in {"lora_alpha", "lora_dropout"} -> NumberAt(p)
      [] f = "modules_to_save" -> <<TextsAt(p)>>
      [] f = "init_lora_weights" -> InitializerAt(p)
      [] f = "layers_to_transform" -> <<LayersAt(p)>>
      [] f = "layers_pattern" -> <<PatternTextsAt(p)>>
      [] f \in {"rank_pattern", "alpha_pattern"} -> EntriesAt(f, p)
      [] OTHER -> tree[p].bool

-----------------------------------------------------------------------------
(***************************************************************************)
(* Issues.  The list without repeats that _add_issue keeps is a set.       *)
(***************************************************************************)
Issue(f, kind) == [field |-> f, kind |-> kind]

Blocking(issue) == issue.kind # "ignored_field"

\* A field read only for its default, found to hold it.
HoldsDefault(f) ==
    /\ f = "megatron_core" => Kind(At(f)) = "str" /\ TextAt(At(f)) = "megatron.core"
    /\ f = "loftq_config" => Kind(At(f)) = "dict" /\ Keys(At(f)) = <<>>
    /\ f = "qalora_group_size" => Kind(At(f)) = "int" /\ tree[At(f)].int = 16
    /\ Tolerated[f] = {"bool"} => Kind(At(f)) = "bool" /\ ~tree[At(f)].bool
    /\ "null" \in Tolerated[f] /\ f # "megatron_core" => Kind(At(f)) = "null"

DefaultOnlyKind(f) ==
    IF Kind(At(f)) \notin Tolerated[f] THEN "invalid_type"
    ELSE IF f = "qalora_group_size" /\ ~IntWithin(At(f), 1) THEN "invalid_value"
    ELSE "unsupported_value"

DefaultOnlyIssues ==
    {Issue(f, DefaultOnlyKind(f)) : f \in {g \in DefaultOnly : Given(g) /\ ~HoldsDefault(g)}}
    \cup {Issue(f, "ignored_field") : f \in {"runtime_config"} \cap Explicit}

UnknownIssues == {Issue(f, "unknown_field") : f \in Explicit \ KnownFields}
=============================================================================
