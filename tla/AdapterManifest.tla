-------------------------- MODULE AdapterManifest --------------------------
(***************************************************************************)
(* The constructors of adapter_config.py: what LoraConfigProfile and       *)
(* AdapterConfigManifest check again of the values parse_adapter_config    *)
(* gives them.  A failed check is a plain ValueError.                      *)
(*                                                                         *)
(* A profile is its values by field, and whether it declares a version.    *)
(***************************************************************************)
EXTENDS AdapterSchema

RequireText(t) == t \notin Surrogate

RequireNonempty(t) == RequireText(t) /\ t # ""

StringKinds == {"regex", "all_linear"}

SelectorFits(s) ==
    /\ \A t \in s.values : RequireNonempty(t)
    /\ s.kind \in {"default", "all_linear"} => s.values = {}
    /\ s.kind = "regex" => Cardinality(s.values) = 1

InitializerFits(i) ==
    IF i.kind = "pissa_niter" THEN \E n \in 0 .. MaxInteger : i.iterations = <<n>>
    ELSE i.iterations = <<>>

RankEntryFits(e) == RequireNonempty(e.pattern) /\ e.value \in 1 .. MaxInteger

AlphaEntryFits(e) ==
    /\ RequireNonempty(e.pattern)
    /\ e.value \in -MaxInteger * Unit .. MaxInteger * Unit

\* Every element of an optional value.
Each(optional, Test(_)) == \A i \in DOMAIN optional : Test(optional[i])

NamesFit(names) == \A i \in DOMAIN names : RequireNonempty(names[i])

MappingFits(mapping) == \A k \in AutoMappingKeys : RequireNonempty(mapping[k])

LayersFit(layers) == layers \subseteq 0 .. MaxInteger

\* None and an empty tuple alike.
Falsy(optional, empty) == optional \in {<<>>, <<empty>>}

LayerRulesFit(v) ==
    /\ v["target_modules"].kind \in StringKinds =>
         v["layers_to_transform"] = <<>> /\ v["layers_pattern"] = <<>>
    /\ v["target_modules"].kind = "names" => v["target_modules"].values # {}
    /\ ~Falsy(v["layers_pattern"], <<>>) => ~Falsy(v["layers_to_transform"], {})

\* LoraConfigProfile.__post_init__.
ProfileFits(v) ==
    /\ Each(v["task_type"], LAMBDA t : t \in TaskTypes)
    /\ Each(v["auto_mapping"], MappingFits)
    /\ RequireNonempty(v["peft_version"])
    /\ Each(v["base_model_name_or_path"], RequireText)
    /\ Each(v["revision"], RequireText)
    /\ v["r"] \in 1 .. MaxInteger
    /\ SelectorFits(v["target_modules"]) /\ SelectorFits(v["exclude_modules"])
    /\ v["lora_alpha"] \in -MaxInteger * Unit .. MaxInteger * Unit
    /\ v["lora_dropout"] \in 0 .. Unit
    /\ v["bias"] \in BiasModes
    /\ Each(v["modules_to_save"], NamesFit)
    /\ InitializerFits(v["init_lora_weights"])
    /\ Each(v["layers_to_transform"], LayersFit)
    /\ Each(v["layers_pattern"], NamesFit)
    /\ Each(v["rank_pattern"], RankEntryFits)
    /\ Each(v["alpha_pattern"], AlphaEntryFits)
    /\ LayerRulesFit(v)

-----------------------------------------------------------------------------
(***************************************************************************)
(* AdapterConfigManifest.__post_init__.                                    *)
(***************************************************************************)
FieldsWith(issues, kind) == {i.field : i \in {j \in issues : j.kind = kind}}

\* _validate_profile_field_provenance and the version flag.
ProvenanceFits(profile) ==
    /\ \A f \in CoreFields \ Explicit : profile.values[f] = Default(f)
    /\ profile.declared => Given("peft_version")
    /\ ~profile.declared => profile.values["peft_version"] = PinnedVersion

NonordinaryIssues(v) ==
    (IF v["bias"] # "none" THEN {Issue("bias", "unsupported_value")} ELSE {})
    \cup (IF v["init_lora_weights"].kind # "default"
          THEN {Issue("init_lora_weights", "unsupported_value")} ELSE {})

LoraManifestFits(declared, lora, issues) ==
    /\ declared = <<"LORA">> /\ Given("peft_type")
    /\ FieldsWith(issues, "unknown_field") = Explicit \ KnownFields
    /\ \A i \in issues : i.field \notin KnownFields => i.kind = "unknown_field"
    /\ FieldsWith(issues, "ignored_field") = {"runtime_config"} \cap Explicit
    /\ lora = <<>> => \E i \in issues : Blocking(i)
    /\ \A k \in DOMAIN lora :
         /\ ProvenanceFits(lora[k])
         /\ NonordinaryIssues(lora[k].values) \subseteq issues

ManifestFits(method, declared, lora, issues) ==
    /\ \A f \in Explicit : RequireText(f)
    /\ \A i \in issues : i.field \in Explicit
    /\ \A k \in DOMAIN lora : ProfileFits(lora[k].values)
    /\ method = "supported_lora" => LoraManifestFits(declared, lora, issues)
    /\ method # "supported_lora" => lora = <<>> /\ issues = {}
    /\ method \in {"missing", "invalid"} =>
         declared = <<>> /\ (Given("peft_type") <=> method = "invalid")
    /\ method = "unsupported" =>
         /\ declared # <<>> /\ Each(declared, RequireNonempty)
         /\ Given("peft_type") /\ declared # <<"LORA">>

\* closed_profile.
ClosedProfile(method, lora, issues) ==
    /\ method = "supported_lora"
    /\ lora # <<>>
    /\ lora[1].values["bias"] = "none"
    /\ lora[1].values["init_lora_weights"].kind = "default"
    /\ \A i \in issues : ~Blocking(i)
=============================================================================
