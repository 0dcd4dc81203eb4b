---------------------------- MODULE AdapterConfig ----------------------------
(***************************************************************************)
(* parse_adapter_config (adapter_config.py): the document's limits, the    *)
(* walk over the decoded tree, the method, the core fields one after the   *)
(* other, the fields that must hold their default, the rules between       *)
(* fields, and the manifest's constructor.                                 *)
(***************************************************************************)
EXTENDS JsonWalk, AdapterManifest

CONSTANT MaxFields      \* limits.max_root_fields

ASSUME FieldLimitAssumption == MaxFields \in Nat \ {0}

VARIABLES
    doc,        \* the bytes: whether they fit, are UTF-8, and what decode_json says
    phase,      \* where the call is
    method,     \* method_status and declared_peft_type
    decoded,    \* the _Decoded values so far, in DecodeOrder
    lora,       \* <<>> or the profile
    issues      \* the issues so far

fields == <<method, decoded, lora, issues>>

vars == <<doc, tree, stack, code, phase, fields>>

R == INSTANCE ConfigReport WITH answer <- "none"

Start ==
    /\ tree \in Trees
    /\ doc \in R!Document
    \* Bytes that cannot be read have no tree; null stands for it.
    /\ ~R!Readable => Kind(<<>>) = "null"

Init ==
    /\ Start
    /\ WalkInit
    /\ phase = "bytes"
    /\ method = [status |-> "none", declared |-> <<>>]
    /\ decoded = <<>>
    /\ lora = <<>>
    /\ issues = {}

\* The call raises.
Refuse(error) ==
    /\ code' = error
    /\ phase' = "refused"
    /\ UNCHANGED <<doc, tree, stack, fields>>

Proceed(next) ==
    /\ phase' = next
    /\ UNCHANGED <<doc, tree, stack, code>>

-----------------------------------------------------------------------------
(***************************************************************************)
(* The bytes, the root and the tree.  decode_json's own document limit is  *)
(* the byte limit, and a text has no more characters than bytes.           *)
(***************************************************************************)
RefuseSize ==
    /\ phase = "bytes"
    /\ ~doc.fits
    /\ Refuse("document_exceeds_policy_limit")

RefuseUtf8 ==
    /\ phase = "bytes"
    /\ doc.fits /\ ~doc.utf8
    /\ Refuse("document_utf8")

RefuseJson ==
    /\ phase = "bytes"
    /\ doc.fits /\ doc.utf8 /\ doc.json # "value"
    /\ Refuse(R!JsonFailures[doc.json])

RefuseRoot ==
    /\ phase = "bytes"
    /\ R!Readable
    /\ Kind(<<>>) # "dict"
    /\ Refuse("root_not_object")

RefuseFieldCount ==
    /\ phase = "bytes"
    /\ R!Readable
    /\ Kind(<<>>) = "dict"
    /\ Len(Keys(<<>>)) > MaxFields
    /\ Refuse("root_field_count_exceeds_policy_limit")

BeginWalk ==
    /\ phase = "bytes"
    /\ R!Readable
    /\ Kind(<<>>) = "dict"
    /\ Len(Keys(<<>>)) <= MaxFields
    /\ Proceed("walk")
    /\ UNCHANGED fields

Walk ==
    /\ phase = "walk"
    /\ WalkNext
    /\ phase' = IF code' = "none" THEN "walk" ELSE "refused"
    /\ UNCHANGED <<doc, fields>>

EndWalk ==
    /\ phase = "walk"
    /\ stack = <<>>
    /\ Proceed("method")
    /\ UNCHANGED fields

-----------------------------------------------------------------------------
(***************************************************************************)
(* _check_retained_text: a text with a lone surrogate has no encoding to   *)
(* measure and raises a plain UnicodeEncodeError.                          *)
(***************************************************************************)
RetainFails(texts) == \E t \in texts : t \in Surrogate \/ TooLong(t)

RetainCode(t) == IF t \in Surrogate THEN "UnicodeEncodeError" ELSE "name_exceeds_policy_limit"

RefuseRetained(texts) ==
    \E t \in texts :
      /\ RetainFails({t})
      /\ Refuse(RetainCode(t))

Type == At("peft_type")

TypeNamed == Given("peft_type") /\ Kind(Type) = "str" /\ TextAt(Type) # ""

RefuseMethod ==
    /\ phase = "method"
    /\ TypeNamed
    /\ RefuseRetained({TextAt(Type)})

\* Not LoRA: nothing else is read.
ClassifyMethod(status, declared) ==
    /\ method' = [status |-> status, declared |-> declared]
    /\ Proceed("manifest")
    /\ UNCHANGED <<decoded, lora, issues>>

MethodMissing ==
    /\ phase = "method"
    /\ ~Given("peft_type")
    /\ ClassifyMethod("missing", <<>>)

MethodInvalid ==
    /\ phase = "method"
    /\ Given("peft_type")
    /\ ~TypeNamed
    /\ ClassifyMethod("invalid", <<>>)

MethodUnsupported ==
    /\ phase = "method"
    /\ TypeNamed
    /\ ~RetainFails({TextAt(Type)})
    /\ TextAt(Type) # "LORA"
    /\ ClassifyMethod("unsupported", <<TextAt(Type)>>)

MethodLora ==
    /\ phase = "method"
    /\ TypeNamed
    /\ ~RetainFails({TextAt(Type)})
    /\ TextAt(Type) = "LORA"
    /\ method' = [status |-> "supported_lora", declared |-> <<"LORA">>]
    /\ issues' = UnknownIssues
    /\ Proceed("fields")
    /\ UNCHANGED <<decoded, lora>>

-----------------------------------------------------------------------------
(***************************************************************************)
(* _decode_lora_profile, one decoder a step.                               *)
(***************************************************************************)
Decoding == phase = "fields" /\ Len(decoded) < Len(DecodeOrder)

Field == DecodeOrder[Len(decoded) + 1]

Value == At(Field)

Return(value, valid) ==
    /\ decoded' = Append(decoded, [value |-> value, valid |-> valid])
    /\ UNCHANGED <<doc, tree, stack, code, phase, method, lora>>

\* Mutant: the default without the issue.
FaultSilently(kind) ==
    /\ UNCHANGED issues
    /\ Return(Default(Field), TRUE)

\* The decoder adds an issue and returns its default as not valid.
Fault(kind) ==
    /\ issues' = issues \cup {Issue(Field, kind)}
    /\ Return(Default(Field), FALSE)

DecodeOmitted ==
    /\ Decoding
    /\ Omitted(Field)
    /\ UNCHANGED issues
    /\ Return(Default(Field), TRUE)

DecodeRefused ==
    /\ Decoding
    /\ ~Omitted(Field)
    /\ TypeFits(Field, Value)
    /\ RefuseRetained(Retained(Field, Value))

DecodeWrongType ==
    /\ Decoding
    /\ ~Omitted(Field)
    /\ ~TypeFits(Field, Value)
    /\ Fault("invalid_type")

DecodeWrongValue ==
    /\ Decoding
    /\ ~Omitted(Field)
    /\ TypeFits(Field, Value)
    /\ ~RetainFails(Retained(Field, Value))
    /\ ~ValueFits(Field, Value)
    /\ Fault("invalid_value")

\* Understood, but outside the ordinary profile.
Unsupported(value) ==
    \/ Field = "bias" /\ value # "none"
    \/ Field = "init_lora_weights" /\ value.kind # "default"

DecodeValue ==
    /\ Decoding
    /\ ~Omitted(Field)
    /\ TypeFits(Field, Value)
    /\ ~RetainFails(Retained(Field, Value))
    /\ ValueFits(Field, Value)
    /\ issues' = issues \cup {Issue(f, "unsupported_value") :
                                f \in {g \in {Field} : Unsupported(Normal(g, Value))}}
    /\ Return(Normal(Field, Value), TRUE)

ClassifyDefaultOnly ==
    /\ phase = "fields"
    /\ Len(decoded) = Len(DecodeOrder)
    /\ issues' = issues \cup DefaultOnlyIssues
    /\ Proceed("relations")
    /\ UNCHANGED <<method, decoded, lora>>

-----------------------------------------------------------------------------
(***************************************************************************)
(* The rules between fields; each gives up the profile.                    *)
(***************************************************************************)
Decoded(f) == decoded[CHOOSE i \in DOMAIN decoded : DecodeOrder[i] = f].value

AllValid == \A i \in DOMAIN decoded : decoded[i].valid

Target == Decoded("target_modules")

Layers == Decoded("layers_to_transform")

Pattern == Decoded("layers_pattern")

StringWithLayers ==
    Target.kind \in StringKinds /\ (Layers # <<>> \/ Pattern # <<>>)

NoTargets == Target.kind = "names" /\ Target.values = {}

ScalarZero ==
    /\ Given("layers_to_transform")
    /\ Kind(At("layers_to_transform")) = "int"
    /\ tree[At("layers_to_transform")].int = 0

\* Mutant: a scalar zero taken for a layer.
PatternWithoutLayersScalar == ~Falsy(Pattern, <<>>) /\ Falsy(Layers, {})

PatternWithoutLayers == ~Falsy(Pattern, <<>>) /\ (Falsy(Layers, {}) \/ ScalarZero)

Relating == phase = "relations"

GiveUp(faults) ==
    /\ issues' = issues \cup {Issue(f, "invalid_value") : f \in faults}
    /\ Proceed("manifest")
    /\ UNCHANGED <<method, decoded, lora>>

GiveUpInvalid ==
    /\ Relating
    /\ ~AllValid
    /\ GiveUp({})

GiveUpStringTarget ==
    /\ Relating
    /\ AllValid
    /\ StringWithLayers
    /\ GiveUp({f \in {"layers_to_transform", "layers_pattern"} : Decoded(f) # <<>>})

\* Mutant: an absent target list blamed on nothing.
GiveUpNoTargetsSilently ==
    /\ Relating
    /\ AllValid
    /\ ~StringWithLayers
    /\ NoTargets
    /\ GiveUp({})

\* target_parameters has an issue of its own when it is not null.
GiveUpNoTargets ==
    /\ Relating
    /\ AllValid
    /\ ~StringWithLayers
    /\ NoTargets
    /\ GiveUp(IF Given("target_parameters") /\ Kind(At("target_parameters")) # "null"
              THEN {} ELSE {"target_modules"})

GiveUpPattern ==
    /\ Relating
    /\ AllValid
    /\ ~StringWithLayers
    /\ ~NoTargets
    /\ PatternWithoutLayers
    /\ GiveUp({"layers_pattern"})

Profile ==
    [values |-> [f \in CoreFields |-> Decoded(f)],
     declared |-> ~Omitted("peft_version")]

\* A constructor takes its arguments or raises.
Construct(fits, next) ==
    /\ code' = IF fits THEN code ELSE "ValueError"
    /\ phase' = IF fits THEN next ELSE "refused"
    /\ UNCHANGED <<doc, tree, stack>>

\* LoraConfigProfile's constructor.
BuildProfile ==
    /\ Relating
    /\ AllValid /\ ~StringWithLayers /\ ~NoTargets /\ ~PatternWithoutLayers
    /\ LET fits == ProfileFits(Profile.values)
       IN  /\ lora' = IF fits THEN <<Profile>> ELSE <<>>
           /\ Construct(fits, "manifest")
    /\ UNCHANGED <<method, decoded, issues>>

\* AdapterConfigManifest's constructor, and the return.
BuildManifest ==
    /\ phase = "manifest"
    /\ Construct(ManifestFits(method.status, method.declared, lora, issues), "done")
    /\ UNCHANGED fields

-----------------------------------------------------------------------------
ReadBytes ==
    \/ RefuseSize \/ RefuseUtf8 \/ RefuseJson \/ RefuseRoot \/ RefuseFieldCount
    \/ BeginWalk

ReadMethod ==
    \/ RefuseMethod \/ MethodMissing \/ MethodInvalid \/ MethodUnsupported
    \/ MethodLora

Decode ==
    \/ DecodeOmitted \/ DecodeRefused \/ DecodeWrongType \/ DecodeWrongValue
    \/ DecodeValue

Relate ==
    \/ GiveUpInvalid \/ GiveUpStringTarget \/ GiveUpNoTargets \/ GiveUpPattern
    \/ BuildProfile

Next ==
    \/ ReadBytes \/ Walk \/ EndWalk \/ ReadMethod \/ Decode
    \/ ClassifyDefaultOnly \/ Relate \/ BuildManifest

\* One call in one thread, which always goes on.
Spec == Init /\ [][Next]_vars /\ WF_vars(Next)

-----------------------------------------------------------------------------
(***************************************************************************)
(* Every failure is one of the documented codes.  The constructors repeat  *)
(* the decoders' rules and never refuse what the decoders return, no       *)
(* profile goes missing without an issue that says why, and no text        *)
(* without an encoding is ever measured.                                   *)
(***************************************************************************)
NeverEscapes == code \notin {"ValueError", "UnicodeEncodeError"}

(***************************************************************************)
(* A field has at most one issue.  A field that is not what an ordinary    *)
(* configuration has there always has one, and one that is has none but    *)
(* for the rules between fields, which blame the layer filters and the     *)
(* targets only.                                                           *)
(***************************************************************************)
IssuesPrecise ==
    phase = "done" /\ method.status = "supported_lora" =>
      /\ \A i, j \in issues : i.field = j.field => i = j
      /\ \A f \in Explicit :
           ~R!OrdinaryField(f) => \E i \in issues : i.field = f /\ Blocking(i)
      /\ \A i \in issues :
           \/ ~R!OrdinaryField(i.field)
           \/ i.kind = "ignored_field"
           \/ /\ i.field \in {"layers_to_transform", "layers_pattern", "target_modules"}
              /\ i.kind = "invalid_value"
              /\ ~R!LayersOrdinary

(***************************************************************************)
(* Whatever order the fields are read in, the answer is the one the        *)
(* document deserves: a true error if it has one, and a closed profile     *)
(* exactly for an ordinary document, with the document's rank, rank        *)
(* pattern and saved modules.  The call always answers.                    *)
(***************************************************************************)
Outcome ==
    IF code # "none" THEN R!Refused(code)
    ELSE IF phase # "done" THEN R!Pending
    ELSE R!Report(method.status,
                  IF ClosedProfile(method.status, lora, issues)
                  THEN <<R!Facts(lora[1].values["r"],
                                 lora[1].values["rank_pattern"] # <<>>,
                                 ~Falsy(lora[1].values["modules_to_save"], <<>>))>>
                  ELSE <<>>)

Reported == INSTANCE ConfigReport WITH answer <- Outcome

ImplementsConfigReport == Reported!Spec
=============================================================================
