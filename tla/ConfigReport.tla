---------------------------- MODULE ConfigReport ----------------------------
(***************************************************************************)
(* What parse_adapter_config promises of a document, without an order of   *)
(* reading: an error the document really has if it has one, and otherwise  *)
(* a manifest whose profile is closed exactly for an ordinary LoRA         *)
(* configuration, with the document's own rank, rank pattern and saved     *)
(* modules.                                                                *)
(***************************************************************************)
EXTENDS AdapterSchema

CONSTANTS MaxFields, MaxItems, MaxName      \* of AdapterConfigLimits

VARIABLES
    doc,        \* the bytes: whether they fit, are UTF-8, and what decode_json says
    answer      \* what the call has returned or raised

vars == <<doc, tree, answer>>

JsonFailures ==
    [ syntax |-> "document_json",
      duplicate_key |-> "duplicate_json_key",
      depth_limit |-> "json_depth_exceeds_policy_limit",
      string_limit |-> "json_string_exceeds_policy_limit",
      token_limit |-> "json_token_exceeds_policy_limit",
      number_limit |-> "json_number_exceeds_policy_limit" ]

Document == [fits : BOOLEAN, utf8 : BOOLEAN, json : {"value"} \cup DOMAIN JsonFailures]

Readable == doc = [fits |-> TRUE, utf8 |-> TRUE, json |-> "value"]

-----------------------------------------------------------------------------
(***************************************************************************)
(* The errors a document has.                                              *)
(***************************************************************************)
KeysOf(p) == ToSet(Keys(p))

AllKeys == UNION {KeysOf(p) : p \in DOMAIN tree}

AllTexts == AllKeys \cup {tree[p].text : p \in {q \in DOMAIN tree : Kind(q) = "str"}}

Lists == {p \in DOMAIN tree : Kind(p) = "list"}

Objects == {p \in DOMAIN tree : Kind(p) = "dict"}

LoraDeclared ==
    Given("peft_type") /\ Kind(At("peft_type")) = "str" /\ TextAt(At("peft_type")) = "LORA"

\* The texts a manifest would keep.
Kept ==
    AllKeys
    \cup (IF Given("peft_type") /\ Kind(At("peft_type")) = "str"
          THEN {TextAt(At("peft_type"))} ELSE {})
    \cup (IF LoraDeclared
          THEN UNION {Retained(f, At(f)) : f \in {g \in CoreFields :
                        ~Omitted(g) /\ TypeFits(g, At(g))}}
          ELSE {})

TreeErrors ==
    {"invalid_unicode_scalar" : t \in AllTexts \cap Surrogate}
    \cup {"collection_count_exceeds_policy_limit" :
            p \in {q \in Lists \cup (Objects \ {<<>>}) : Width(tree[q]) > MaxItems}}
    \cup {"name_exceeds_policy_limit" : t \in {u \in Kept : Bytes[u] > MaxName}}

Errors ==
    IF ~doc.fits THEN {"document_exceeds_policy_limit"}
    ELSE IF ~doc.utf8 THEN {"document_utf8"}
    ELSE IF doc.json # "value" THEN {JsonFailures[doc.json]}
    ELSE IF Kind(<<>>) # "dict" THEN {"root_not_object"}
    ELSE IF Len(Keys(<<>>)) > MaxFields THEN {"root_field_count_exceeds_policy_limit"}
    ELSE TreeErrors

-----------------------------------------------------------------------------
(***************************************************************************)
(* An ordinary configuration, read off the document.                       *)
(***************************************************************************)
IsText(p) == Kind(p) = "str"

IsNull(p) == Kind(p) = "null"

IsNumber(p, lo, hi) == Kind(p) \in {"int", "float"} /\ NumberWithin(p, lo, hi)

IsInteger(p, lo) == Kind(p) = "int" /\ IntWithin(p, lo)

NonemptyText(p) == IsText(p) /\ TextAt(p) # ""

ListOf(p, Test(_)) == Kind(p) = "list" /\ \A q \in ToSet(Children(p)) : Test(q)

ObjectOf(p, Test(_)) == Kind(p) = "dict" /\ \A q \in ToSet(Children(p)) : Test(q)

Alpha(p) == IsNumber(p, -MaxInteger * Unit, MaxInteger * Unit)

Index(p) == IsInteger(p, 0)

RankOf(p) == IsInteger(p, 1)

OrdinaryCore(f, p) ==
    \/ f \in Nullable /\ IsNull(p)
    \/ f = "task_type" /\ IsText(p) /\ TextAt(p) \in TaskTypes
    \/ f = "auto_mapping" /\ ObjectOf(p, NonemptyText) /\ KeysOf(p) = AutoMappingKeys
    \/ f \in {"peft_version", "target_modules", "exclude_modules"} /\ NonemptyText(p)
    \/ f \in {"base_model_name_or_path", "revision", "layers_pattern"} /\ IsText(p)
    \/ f \in {"target_modules", "exclude_modules", "modules_to_save", "layers_pattern"}
         /\ ListOf(p, NonemptyText)
    \/ f \in {"inference_mode", "fan_in_fan_out", "use_rslora"} /\ Kind(p) = "bool"
    \/ f = "r" /\ RankOf(p)
    \/ f = "lora_alpha" /\ Alpha(p)
    \/ f = "lora_dropout" /\ IsNumber(p, 0, Unit)
    \/ f = "bias" /\ IsText(p) /\ TextAt(p) = "none"
    \/ f = "init_lora_weights" /\ Kind(p) = "bool" /\ tree[p].bool
    \/ f = "layers_to_transform" /\ (Index(p) \/ ListOf(p, Index))
    \/ f = "rank_pattern" /\ ObjectOf(p, RankOf) /\ "" \notin KeysOf(p)
    \/ f = "alpha_pattern" /\ ObjectOf(p, Alpha) /\ "" \notin KeysOf(p)

OrdinaryField(f) ==
    \/ f = "peft_type"
    \/ f = "runtime_config"
    \/ f \in DefaultOnly /\ HoldsDefault(f)
    \/ f \in CoreFields /\ OrdinaryCore(f, At(f))

\* A field that is there and not null.
Stated(f) == Given(f) /\ ~IsNull(At(f))

Empty(p) == (IsText(p) /\ TextAt(p) = "") \/ (Kind(p) = "list" /\ Children(p) = <<>>)

\* Layer filters need a list of targets, and a pattern needs layers, of
\* which a scalar zero names none.
LayersOrdinary ==
    /\ Stated("target_modules") /\ IsText(At("target_modules")) =>
         ~Stated("layers_to_transform") /\ ~Stated("layers_pattern")
    /\ Stated("target_modules") => ~Empty(At("target_modules"))
    /\ Stated("layers_pattern") /\ ~Empty(At("layers_pattern")) =>
         /\ Stated("layers_to_transform")
         /\ ~Empty(At("layers_to_transform"))
         /\ Kind(At("layers_to_transform")) = "int" => tree[At("layers_to_transform")].int # 0

Ordinary == LoraDeclared /\ (\A f \in Explicit : OrdinaryField(f)) /\ LayersOrdinary

-----------------------------------------------------------------------------
Refused(error) == [error |-> error]

Pending == Refused("none")

\* What the LoRA rules read of a manifest.
Facts(r, patterned, saves) == [r |-> r, patterned |-> patterned, saves |-> saves]

Report(method, closed) == [method |-> method, closed |-> closed]

DocumentFacts ==
    Facts(IF Given("r") THEN tree[At("r")].int ELSE 8,
          Given("rank_pattern") /\ Keys(At("rank_pattern")) # <<>>,
          Stated("modules_to_save") /\ ~Empty(At("modules_to_save")))

DocumentMethod ==
    IF ~Given("peft_type") THEN "missing"
    ELSE IF ~NonemptyText(At("peft_type")) THEN "invalid"
    ELSE IF LoraDeclared THEN "supported_lora"
    ELSE "unsupported"

Answer ==
    /\ answer = Pending
    /\ IF Errors # {}
       THEN \E error \in Errors : answer' = Refused(error)
       ELSE answer' = Report(DocumentMethod, IF Ordinary THEN <<DocumentFacts>> ELSE <<>>)
    /\ UNCHANGED <<doc, tree>>

Init ==
    /\ doc \in Document
    /\ IsTree(tree)
    /\ answer = Pending

Spec == Init /\ [][Answer]_vars /\ WF_vars(Answer)
=============================================================================
