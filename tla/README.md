# peftlint in TLA+

TLA+ models of peftlint (`src/src/peftlint/`), TLC configurations that check
them on small instances, and TLAPS proofs about them for every instance.
PROJECT.json holds the machine-readable side: the runs, a mutant for every
checked property, the source lines each definition stands for, and the hazards.

peftlint is a library of pure functions. Nothing runs concurrently, nothing is
persisted, nothing is retried: a call takes values and returns a value or
raises. What is hard about it is order and duplication: loops that keep a
cursor or a dictionary and must be right whatever the input's order; two
independent readers of one text; rules written twice that must agree; guards
against 64-bit overflow; constructors that validate again what a parser has
just produced; verdicts that must not become "compatible" because something is
missing.

## 1. Inventory

| Component | Source | State | Operations | Modelled |
|---|---|---|---|---|
| Bounded JSON decoding | `_bounded_json.py` | the prescan's counters and flags; json.loads' position | `decode_json`, `_prescan`, the hooks | yes |
| Header read planning | `safetensors.py` | the plan, the envelope | `plan_header_read`, `accept_header` | yes |
| Header schema decoding | `safetensors.py` | members, tensors, notices | `decode_header`, `_decode_metadata`, `_decode_tensor`, `_decode_u64` | yes |
| Checked tensor size | `safetensors.py` | the running product | `_checked_tensor_size` | yes |
| Storage validation | `safetensors.py` | the remaining tensors, the cursor, the manifests | `validate_storage`, `TensorManifest`, `SafetensorsManifest` | yes |
| Saved-key inventory | `lora_inventory.py` | the grouping dictionary, pairs, issues | `inspect_lora_inventory`, `_compile_relationships`, `LoraInventory` | yes |
| LoRA rule evaluation | `lora_evaluation.py` | the collected results | `evaluate_lora_inventory`, PL102, PL110, PL111, PL112 | yes |
| Load-verdict reduction | `evidence.py` | seen scopes, results by rule | `summarize_load` | yes |
| Manifest parsing | `safetensors.py` | what the stages hand over | `parse_safetensors_manifest` | yes |
| Adapter configuration | `adapter_config.py` | the walk's stack, the issues, the profile | `parse_adapter_config`, field decoders, `_validate_json_tree` | yes |
| Load audit | `lora_evaluation.py`, `evidence.py` | what the two hand over | `evaluate_lora_inventory` into `summarize_load` | yes |
| Acquisition, reports | documents only | - | - | no such code; the caller's part in reading a header and in an audit is external |

How they interact. The caller reads a prefix, plans the header read, reads the
header, and the envelope goes through `decode_json` and the schema to a decoded
header; `validate_storage` turns it into a manifest, `inspect_lora_inventory`
turns the manifest into pairs and issues, `evaluate_lora_inventory` compares
those with the parsed configuration, and `summarize_load` reduces the results
of all rules, those four among them, to one verdict. Every stage copies and
re-validates its input through the constructors, so each stage's output must
satisfy the constructor of the next one.

What makes each component correct:

- **Bounded JSON.** The limits bound what json.loads does on every text, and
  nothing is charged that the document does not contain. The prescan does not
  know the grammar, so both rest on it classing each character as the parser
  does, in strings, escapes and words.
- **Tensor size.** The checked size is the exact one or an error for the exact
  reason, in bounded arithmetic.
- **Reading a header.** The caller reads prefix, size and header one after the
  other from a source that may change in between. A judgement is that of one
  object, a mismatch is never blamed on the file, an artifact error never hides
  behind a policy limit, and the plan's constructor never refuses.
- **Header schema.** Whatever order the members come in, the answer is the one
  the header deserves; the error reported is the first in reading order; the
  constructors, which repeat every check, never raise on what was decoded.
- **Storage.** A header is accepted exactly when its tensors tile the payload,
  empty tensors included; the errors are true of the whole header; the
  manifest constructor, which repeats the checks in its own words, never
  raises on what was accepted.
- **Inventory.** Each tensor is reported once, the grouping dictionary loses
  none, the issues come out once each.
- **Evaluation.** No two results share a scope; rules that depend on each other
  agree; four passes mean a sound adapter; a contradiction is never due to
  missing evidence.
- **Configuration.** The walk leaves no fault behind, also in values
  that no decoder reads; a profile is missing exactly when a blocking issue
  says why; rules between fields see what the document says and not what a
  default hides; both constructors accept what the decoders build.
- **Verdict.** A function of the set of results, not of their order; nothing
  foreign or duplicate is reduced; the lists of a summary justify its verdict.

## 2. Modules

| Module | Role | Code |
|---|---|---|
| `Prescan` | the scanner, one action per branch of its loop | `_prescan` |
| `JsonParser` | json.loads as a grammar automaton (external), with decode_json's hooks | `decode_json` |
| `BoundedJson` | both on one text, the document limit, the answer | `decode_json` |
| `BoundedJsonProofs` | proofs | |
| `HeaderInspection` | abstract specification: one judgement of what the source holds at one moment | documents of the source contract |
| `HeaderRead` | the reads of a source adapter (external) around the two calls; implements `HeaderInspection` | `plan_header_read`, `accept_header`, `HeaderReadPlan` |
| `HeaderReadProofs` | proofs | |
| `JsonTree` | a decoded JSON value as a map from paths to nodes | results of `decode_json` |
| `HeaderRecords` | the members of a header: metadata and tensor records | `TensorHeader`, `_decode_u64` |
| `HeaderReport` | abstract specification: the errors a header has and what it declares, in no order | |
| `HeaderSchema` | bytes, metadata, tensors, constructor, in the code's order; implements `HeaderReport` | `decode_header` |
| `ManifestParse` | `HeaderSchema`, then `StorageLayout` on its result | `parse_safetensors_manifest` |
| `ManifestParseProofs` | proofs, of `HeaderSchema` and of the two stages | |
| `TensorSize` | the size computation as recursive functions, compared in `StorageLayout` with the exact product | `_checked_tensor_size` |
| `DecodedHeader` | the decoded header and `ValidLayout`, what a tiling is | `TensorHeader`, `DecodedSafetensorsHeader` |
| `PayloadTiling` | abstract specification: one decision by `ValidLayout` | |
| `StorageLayout` | the two passes and the constructor; implements `PayloadTiling` | `validate_storage` |
| `StorageLayoutProofs` | proofs, of `TensorSize` too | |
| `LoadEvidence` | a request and its results; `VerdictOf`, the declarative answer | `RuleResult`, registry |
| `LoadVerdict` | abstract specification: one answer | |
| `LoadReducer` | validation loop, sort, grouping loop, summary; implements `LoadVerdict` | `summarize_load` |
| `LoadReducerProofs` | proofs | |
| `SavedKeys` | role and target of a name | `_classify_saved_key` |
| `LoraTensors` | a manifest; `PairsOf` and `IssuesOf`, the declarative relationships | `LoraTensor`, `LoraPair`, `LoraInventoryIssue` |
| `LoraRelations` | abstract specification: the inventory in one step | |
| `LoraInventory` | the passes and the constructor; implements `LoraRelations` | `inspect_lora_inventory` |
| `LoraInventoryProofs` | proofs, of the pairs of `LoraTensors` too | |
| `LoraEvaluation` | the four evaluators, one action each, over `LoraTensors` | `evaluate_lora_inventory` |
| `LoadAudit` | `LoraEvaluation`, then `LoadReducer` on its results and those of other rules | `evaluate_lora_inventory`, `summarize_load` |
| `LoadAuditProofs` | proofs, of `LoraEvaluation` and of the audit | |
| `JsonWalk` | the walk with its explicit stack | `_validate_json_tree` |
| `AdapterConfigProofs` | proofs, of `JsonWalk` and of `AdapterConfig` | |
| `AdapterSchema` | every field: how it is typed, valued, decoded and defaulted | the field decoders |
| `AdapterManifest` | what the constructors demand | `LoraConfigProfile`, `AdapterConfigManifest` |
| `ConfigReport` | abstract specification: method, issues and profile a document declares | |
| `AdapterConfig` | the call from the bytes to the manifest; implements `ConfigReport` | `parse_adapter_config` |
| `MC*` | model values and bounds for TLC; `BoundedJson` needs none | |

`LoraEvaluation` builds on `PairsOf` and `IssuesOf` and not on the passes:
`ImplementsRelations` is what makes that sound.

### How state and actions correspond to the code

- **sorted(...)** is not an action. A loop over a sorted tuple takes the least
  remaining element by the same key (`NextByName`, `NextByKey`, `NextTensor`).
  In `LoraInventory` the groups are visited in any order, of which the sorted
  one is one; the refinement shows that the order is immaterial.
- **Names and paths** are ranks in code-point order, the order Python compares
  strings in. `SavedKeys` also has each name's components.
- **Exceptions.** A rule error ends the call in a phase of its own (`rejected`,
  `refused`). An exception that is no rule outcome, raised by a constructor or
  a defensive guard, ends in a phase that a property says is never reached
  (`ctor_error`, `duplicate`, the verdict `invalid`).
- **JSON trees.** A decoded document is a function from paths (sequences of
  positions) to nodes, so that a stack of paths is the code's stack of values
  and document order is the order of the paths. A text is a model string with
  its UTF-8 length and whether it holds a lone surrogate; encoding one that
  does is an action that ends in `UnicodeEncodeError`, outside the taxonomy.
  `HeaderSchema` and `AdapterConfig` take what `decode_json` returns as an
  input, any error code or any tree of a set; `BoundedJson` models the decoding.
- **Fields.** `AdapterSchema` is a table: for each field the JSON forms the
  decoder accepts, the values it supports, and the default. `AdapterConfig`
  goes through the fields in the order of the code and leaves the issue the
  branch taken leaves. A retained string is checked where the code checks it.
- **The source adapter** is not in the code. It is modelled from
  docs/safetensors-parser.md: exact reads, and a conclusion only if the
  identity of the source is that of the beginning.
- **Constructors** called by an operation are part of the action that calls
  them. Those that only copy are left out.
- **JSON.** `BoundedJson` gives each character to the prescan and the parser in
  one step, though the code runs one after the other. Both read the same text
  from the left and neither sees the other, so a state pairs what each knows of
  the same prefix. What the order decides is kept: a limit of the prescan is
  the answer wherever it lies, and the parser's problem is reported only when
  the prescan has accepted the whole text. A character is its class, ten in
  all; whether a word is well formed and whether a key repeats an earlier one
  is chosen nondeterministically, since the classes do not tell.
- **Abstracted data.** Messages, severities, witnesses, metadata, notices and
  payloads are left out; dtypes are the widths the properties tell apart.
- **Integers of a header** are lexemes: `HeaderSchema` compares their digits
  (`Digits`, `FitsU64`) and reads their value only once they are accepted.
- **64-bit arithmetic.** `U64Max` is a constant; the checks use 31 and 127, so
  that overflow happens within reach, and `GuardExact` holds for any value.

## 3. Runs

| Run | Bounds | Question |
|---|---|---|
| `bounded_json` | texts of at most 13 characters, depth 2, strings of 2, 6 tokens, numbers of 2, documents of 12, room for 1, 2 or 8 containers | is the prescan in step with the parser, and are its limits tight? |
| `storage_sizes` | one tensor, three dimensions from twelve values around 127, widths 4 to 64, nine spans | is the checked size exact, and refused for the exact reason? |
| `header_read` | 22 objects, format limit 3, policy limit 2, two changes of the source at any point, every short read | is what is concluded true of one object? |
| `manifest_parse` | 7500 headers over a payload of two bytes: tensor records of every kind, two faults in both orders, metadata of every form before, between and after tensors; two tensors with every span in both document orders, an empty third, dtypes and sizes that fail | is the answer the first true error, or exactly what is declared, and do the two stages together accept exactly the tilings? |
| `storage_layout` | three tensors, offsets and payload 0 to 2, shapes of 0 to 2 bytes | does the walk accept exactly the tilings? |
| `load_reducer` | three results, two required rules, two artifacts, two paths, four kinds of foreign result | is the reduction order-free and justified? |
| `lora_inventory` | six names with every rank and extension combination | do the passes compile the declared relationships? |
| `lora_names` | every subset of eight names that meet each rule of the grammar | is each tensor accounted for once? |
| `json_walk` | 2397 documents, collections nested three deep, limits of one item and one byte | does the walk see every fault, and which does it report? |
| `adapter_config` | 3100 documents: every core field with some fifty values, every default-only field with a dozen, every combination of targets, layers and patterns | is each document answered as it deserves? |
| `load_audit` | four names, three shapes, every configuration, every answer of one more rule or none | what does the verdict say of the adapter? |
| `lora_evaluation` | a weight pair, an embedding member, an unclassified tensor, five shapes, every configuration | are the rules consistent and what do passes mean? |

Why the bounds are enough to be interesting. Three tensors are the least number
for which an empty tensor sits between two others and for which sort order,
cursor and final comparison can disagree in every way; offsets 0 to 2 give
gaps, overlaps, reversed and truncated spans, and two empty tensors at one
offset, which only the name orders. Thirteen characters hold an escaped quote,
two members of an object with a repeated key, nesting past the limit, and a
document past the limit. Three results contain a contradiction and an unknown
for the same rule in either order, and a duplicate after both. The eight names
include each suffix, an empty target, an empty component and a reserved
component. What does not depend on the bounds is proved (section 5).

The objects of `header_read` have fewer than eight bytes, exactly eight, and
more, with a declared header of every size on both sides of both limits and of
the end of the file; with two changes, each of the three reads can see a
different object, and an object can come back. In `manifest_parse` one entry of
metadata, three tensors, rank two and names of two bytes are allowed, so one
more of each is over the limit, integers reach 31, so that 9, 31, 32 and 100 meet
every case of the text comparison, and a third tensor can be the empty one between
two others; each pair of spans comes in both document orders. Its payload has
one size because `storage_layout` varies that, and its sizes are few because
`storage_sizes` compares them all. `json_walk` puts two defects at any two places of a
document, the least for which an order shows. `adapter_config` varies one field
at a time over every JSON form, and together the fields the code relates
(targets, layers, pattern), since no other decoder reads what another one left.
`load_audit` has one orphan, one pair and one unclassified tensor at once with a
rule that is missing, passes, is unknown or contradicts.

A type invariant is a property of a run only in `storage_layout`, where a slip
in the code could break it (`cursor`). The others hold by the shape of the
actions and serve proofs. What could really leave its range in `BoundedJson`,
the nesting counter, is a property of its own, `DepthInRange`.

The property that a run checks is broken by the mutant PROJECT.json names for
it, a plausible slip in the code such as a sort key without the end offset, a
depth compared before it is increased, or a dictionary keyed by less.

Runs whose calls simply end say `CHECK_DEADLOCK FALSE`; there the refinement's
liveness, or a property of the final phase, shows that the call is not stuck
half-way. `bounded_json` and `manifest_parse` have an explicit final step and check for
deadlock, so no character and no header is left without a branch.

**Fairness.** Every specification with liveness states `WF_vars(Next)`: a call is a sequence of statements in
one thread that waits for nothing, so it runs to its end. It is needed for the
liveness half of the refinements (the call does answer) and for nothing else. In `HeaderRead` it is the adapter's `Step` that is fair, never
`Change`: a source may change or not, and the adapter goes on all the same.

## 4. Properties worth knowing

- `AcceptsExactlyTilings`, `DiagnosisTrue`, `ManifestNeverRefuses`
  (`StorageLayout`): completeness as well as soundness. The second key
  component exists only for empty tensors, the third only for the
  constructor's own order check.
- `Lockstep`, `ParserBounded`, `RefusalsJustified` (`BoundedJson`): the limits
  hold for the parser on invalid texts too, up to the point where it stops.
  `DepthInRange`: brackets that do not match earn no credit. `RoomSuffices`: a
  `RecursionError` is reported as the nesting limit, which is the truth about
  the interpreter, not about the document; the prescan sees to it that it can
  happen only on a stack with room for fewer than `max_depth` containers.
- `ImplementsVerdict`, `ReasonsComplete`, `ResultsCanonical` (`LoadReducer`).
- `EveryTensorAccounted`, `NothingOverwritten`, `InventoryNeverRefuses`,
  `ImplementsRelations` (`LoraInventory`).
- `DecisionsRest`, `PassMeansSound`, `FailsClosed`, `EvaluationNeverRefuses`
  (`LoraEvaluation`). PL110, PL111 and PL112 do pass vacuously on an empty
  inventory; `PassMeansSound` says that the four together do not.

- `ImplementsInspection`, `MismatchExplained` (`HeaderRead`): whatever the
  source does between the reads. `ReadInv` is why: as long as the source has
  not changed, everything read is still true of it, and the error raised is the
  first check in the code's order that fails.
- `PlanNeverRefuses` (`HeaderRead`): the constructor of the plan checks in its
  own words what was just computed.
- `ReportsFirst`, `ImplementsHeaderReport` (`HeaderSchema`): `HeaderReport`
  judges an integer by its value, `HeaderSchema` compares the digits of its
  lexeme as `_decode_u64` does, by length and then from the left.
- `ManifestExact`, `ParseNeverEscapes` (`ManifestParse`): the stages together,
  judged by the document and not by what a stage passed on, empty tensors
  included.
- `NothingMissed`, `ReportsRightmost` (`JsonWalk`): the stack makes the walk
  report the last faulty value of a document, and the first one of an object's
  keys. What is faulty (`Faulty`) is read off the document, the items and
  members that are too large among it, and not taken from the walk's checks; `OneValueAStep` bounds it by the document's size.
- `ImplementsConfigReport`, `IssuesPrecise`, `NeverEscapes` (`AdapterConfig`).
- `VerdictExact`, `RulesAnswered`, `AuditNeverRefuses` (`LoadAudit`): a verdict
  is compatible exactly for a sound adapter whose other rules pass, and
  incompatible exactly where something is definitely wrong.

No disagreement between the code and its documents was found.

## 5. Proofs

All by TLAPS, for every value of the constants that satisfies the named
assumptions (names and offsets are naturals, limits are naturals, inputs are
sequences of results, required rules are rules).

- **StorageLayoutProofs.** The inductive invariant is `TypeOK /\ WalkInv`:
  the placed tensors tile the bytes before the cursor (`PlacedTileCursor`),
  they precede every remaining tensor in the sort order (`PlacedFirst`), and
  none is skipped (`NoneSkipped`). Acceptance then means a tiling. That a
  rejected header is none needs the order: an overlap found at the cursor is
  between a placed tensor and one that begins no earlier, and a gap cannot be
  filled by a later tensor, which begins no earlier either. `AcceptsTilings`,
  `DiagnosesTruly`, `ManifestBuilds` and the safety half of the refinement
  (`RefinesTiling`) follow. Nothing is assumed about `CheckedSize`, so they
  hold for any size function. `PlacesEachOnce`: no tensor is placed twice, and
  an accepted manifest has them all.

  `SizesExact` is about the real one, for every shape and limit. `GuardExact`:
  `elements > limit // dimension` holds exactly when the product exceeds the
  limit. `ElementCountExact`: the count is the product, or refused exactly
  where a partial product exceeds the limit with no zero before it.
- **LoadReducerProofs.** The invariant `LoopInv` says what each loop has
  established; `ReasonsJustify` and `RefinesVerdict` (safety half) follow, so
  the defensive guard is unreachable for every set of results.
  `SummaryCanonical`: the lists of a summary are the sorted results of each
  status, whatever order they came in.
- **BoundedJsonProofs.** `Lockstep` and `ParserBounded` are inductive together
  with `TypeOK`: a step of the parser without a problem determines the class of
  the character and its own next position, which is what the prescan computes.
  `RefusalsCorrect` follows with the fact that nothing is answered before the
  call returns. `DepthStaysInRange` needs the prescan alone, also on texts the
  parser has given up; `RoomForDepthSuffices` needs `Lockstep`, since it is the
  parser's stack that is full where the prescan has counted one container more.
- **HeaderReadProofs.** `TypeOK /\ ReadInv` is inductive. `TypeOK` alone is
  not: that the constructor accepts a plan needs that the plan is the one
  computed from the prefix and size read (`PlanTrue`), and that a mismatch has
  an excuse needs what the reads say of an unchanged source (`ReadsTrue`) and
  which check failed (`ErrorTrue`). `PlanNeverRefused`, `MismatchNotTheFile`
  and the safety half of the refinement (`RefinesInspection`) follow, for any
  objects, limits and number of changes.
- **LoraInventoryProofs.** A name is determined by its role
  and target (`NameDetermined`), so the pairs of a manifest are disjoint
  (`PairsDisjoint`) and no group receives two tensors of one side. With that
  the passes are exact (`PassesCorrect`: each holds what its part of the
  manifest declares), every tensor is reported once (`TensorsAccounted`), no
  entry of the dictionary is overwritten (`DictionaryGrows`), the constructor
  accepts (`NeverRefusesHolds`), and the inventory is the declared one
  (`RefinesRelations`, safety half), for every finite manifest.
- **LoadAuditProofs.** Of the evaluators the inductive invariant is
  `ResultsInv`: what each rule evaluated so far has said, scope by scope. Two
  results of one rule and scope are one (`NeverDuplicate`), dependent rules
  agree (`DecisionsSupported`), missing evidence is never a contradiction
  (`ClosedFailure`), four passes mean a sound adapter (`PassSound`). Of the
  audit: the list submitted joins lists in order, each a counted set
  (`InOrderLists`: the number of smaller keys is an injection into the
  positions, hence onto), and the assumptions of `LoadReducerProofs` hold of
  it, so its theorems are used as they stand. `AuditAccepts`, `AnswersItsRules`
  and `VerdictCorrect` follow.
- **AdapterConfigProofs, the walk.** The inductive invariant is `StackOrdered`:
  what is on the stack is in document order, nothing on it is above or below
  another path of it, and all of it precedes what was visited. Hence no value is
  visited twice (`VisitsOnce`) and none is left out (`DefectsStayAhead`),
  whatever the walk refuses a value for. What it refuses is then compared with
  what a document must not hold (`FaultyIs`): the key scan finds a bad key if
  there is one, and the one value that nothing holds is the root, an object.
  Hence `MissesNothing`, and the value reported is the last faulty one of the
  document (`ReportsTheRightmost`).
- **AdapterConfigProofs, the parser.** That a constructor accepts is a statement
  about all twenty fields at once, so the invariant `ConfigInv` says exactly
  what has been computed: `decoded` is the reading of each field so far
  (`ReadUpTo`), the issues are exactly the faults of those fields, the walk has
  left a clean document, and what waits for the manifest's constructor fits it.
  The work is then per field: a supported value, normalised, passes
  `LoraConfigProfile` (`NormalFits`), and so does the default (`DefaultFits`).
  `OnlyDocumentedCodes` follows. The default of `peft_version` passes only
  because the pinned version has an encoding, which is `PinnedAssumption`.

  For `IssuesArePrecise` each field's decoder is compared with what an ordinary
  document has there (`OrdinaryIs`), each rule between fields with
  `LayersOrdinary` (`RulesAre`), and `Settled` keeps apart the issues of fields
  and those of the one broken rule.

  `ReportSteps` is the safety half of the refinement: every step of the parser
  is the one step of `ConfigReport` or a stutter. It needs that each refusal is
  for an error the document has (`WalkErrors`, `ReportDeclared`), that a
  document that reached the manifest has none (`NoErrors`, from what the walk
  and the decoders measured, `MeasuredInv`), and that the profile is closed
  exactly for an ordinary document, with its facts (`ClosedIs`, `FactsAre`). An
  empty method is never measured, so that the report may count it among the
  texts kept rests on the empty text having no bytes, a conjunct of
  `TextAssumption`.

- **ManifestParseProofs, the decoder.** `MembersAre` says which positions the
  tensors are at. Each check is compared with the errors `HeaderReport` lists,
  in both directions: it passes only without them and reports one of them
  (`MetadataDecided`, `TensorDecided`). The inductive invariant `SchemaInv`
  then says exactly what has been read: the metadata, the tensors up to the
  present one, the notices, and why a call was refused. The order of the
  reports (`ReportsInOrder`) and the safety half of the refinement
  (`RefinesReport`) follow. That the constructor accepts (`SchemaNeverEscapes`)
  needs the values too: a tensor read without error has an encodable name of
  bounded size, a shape and two offsets of 64 bits (`TensorFits`). The decoder
  compares integers as text and the report compares them as numbers;
  `IntegerTextExact` says that this is the same for all naturals, by the least
  number whose digits compare wrongly (its tenth would too).
- **ManifestParseProofs, the two stages.** What the decoder hands over is a
  header of `StorageLayout` (`LayoutFits`), with one entry for each declared
  tensor since no object repeats a key and no two texts have one rank
  (`NamesCounted`), so the lemmas of `StorageLayoutProofs` hold of it as they
  stand; they are taken through an instance with its assumptions proved
  (`StorageAssumptions`). `ParseInv` adds that the layout validated stays the
  declared one. `ParsesExactly` and `ParseEscapesNever` follow.

Induction over data is done without the library's induction theorems, whose
operator parameters the provers cannot instantiate: were the statement false
somewhere, there would be a least counterexample (`WFMin` on the naturals), and
its predecessor refutes it.

Only model-checked: the liveness half of the refinements, since liveness under
fairness is out of the prover's reach. Every invariant and every action property
that a run checks is proved, and so is the safety half of every refinement.

## 6. Plan

Every component with state is modelled, and every invariant of a run is proved.
What a change of the code asks for, in this order: the definition that stands
for the changed lines (PROJECT.json, `map`), the run of its component, and the
proof module of the same name, where the lemma about the changed action or check
is the one to repair.

## 7. Not modelled, and why

Reading files and reporting are not in the code; of the callers only what the
documents ask of them is modelled, in `HeaderRead` and `LoadAudit`.
`__setstate__` and the type checks on arguments guard against misuse from Python
and have no state. The wording of messages and evidence-path encoding are
formatting; a path is represented by the scope it encodes, and `PathAssumption`
says that the encoding tells scopes apart. How `json.loads` builds its values is
the library's; the trees are what the code relies on. A decimal is a number of
units, and whether its lexeme has too many digits or too large an exponent is a
flag of the node. Which of several errors of one text a JSON hook reports is modelled
(`JsonParser`) but no property says more of it than the order itself. The
example script and the package's re-exports add no behaviour.
