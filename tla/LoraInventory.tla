--------------------------- MODULE LoraInventory ---------------------------
(***************************************************************************)
(* inspect_lora_inventory with _compile_relationships (lora_inventory.py): *)
(* one loop over the tensors in key order that classifies and groups them, *)
(* one over the groups that pairs them, the mixed-kind pass over the       *)
(* targets, and the LoraInventory constructor.                             *)
(*                                                                         *)
(* The dictionary `grouped` is the set of its leaf entries; writing an     *)
(* entry whose target and role are taken replaces it, as in Python.  The   *)
(* lists are sets, with a flag for an issue appended twice: the final sort *)
(* makes their order a function of their elements.  Groups are visited in  *)
(* every order, of which the code's sorted order is one.                   *)
(***************************************************************************)
EXTENDS LoraTensors

VARIABLES
    phase,      \* "classify", "pair", "build", "done" or "ctor_error"
    todo,       \* tensors not yet classified
    grouped,    \* entries [target, role, name] of the dictionary
    groups,     \* keys <<target, kind>> not yet compiled
    pairs,      \* the list of pairs, as a set
    issues,     \* the list of issues, as a set ...
    repeated    \* ... and whether one was appended twice

vars == <<tensors, phase, todo, grouped, groups, pairs, issues, repeated>>

Init ==
    /\ tensors \in Manifests
    /\ phase = IF Present = {} THEN "build" ELSE "classify"
    /\ todo = Present
    /\ grouped = {}
    /\ groups = {}
    /\ pairs = {}
    /\ issues = IF Present = {} THEN {Issue("empty_inventory", NoScope)} ELSE {}
    /\ repeated = FALSE

AddIssues(new) ==
    /\ issues' = issues \cup new
    /\ repeated' = (repeated \/ issues \cap new # {})

-----------------------------------------------------------------------------
NextTensor(n) ==
    /\ phase = "classify"
    /\ n \in todo
    /\ \A m \in todo : n <= m
    /\ todo' = todo \ {n}

SkipUnclassified(n) ==
    /\ NextTensor(n)
    /\ n \notin Classified
    /\ AddIssues({Issue("unclassified_tensor", TensorScope(n))})
    /\ UNCHANGED <<tensors, phase, grouped, groups, pairs>>

Entry(n) == [target |-> TargetOf[n], role |-> RoleOf[n], name |-> n]

\* Mutant: a tensor with extension fields is reported but not grouped.
GroupUnextended(n) ==
    /\ NextTensor(n)
    /\ n \in Classified
    /\ AddIssues({Issue("unknown_tensor_fields", TensorScope(m)) :
                    m \in {n} \cap Extended})
    /\ grouped' = IF tensors[n].extended THEN grouped ELSE grouped \cup {Entry(n)}
    /\ UNCHANGED <<tensors, phase, groups, pairs>>

GroupTensor(n) ==
    /\ NextTensor(n)
    /\ n \in Classified
    /\ AddIssues({Issue("unknown_tensor_fields", TensorScope(m)) :
                    m \in {n} \cap Extended})
    /\ grouped' = {e \in grouped : <<e.target, e.role>> # <<TargetOf[n], RoleOf[n]>>}
                    \cup {Entry(n)}
    /\ UNCHANGED <<tensors, phase, groups, pairs>>

StartPairing ==
    /\ phase = "classify"
    /\ todo = {}
    /\ phase' = "pair"
    /\ groups' = {<<e.target, KindOf(e.role)>> : e \in grouped}
    /\ UNCHANGED <<tensors, todo, grouped, pairs, issues, repeated>>

-----------------------------------------------------------------------------
Member(g, role) == {e.name : e \in {f \in grouped : f.target = g[1] /\ f.role = role}}

AMembers(g) == Member(g, ARole(g[2]))
BMembers(g) == Member(g, BRole(g[2]))

\* Mutant: extension fields reported again for the members of a pair.
CompilePairReporting(g) ==
    /\ phase = "pair"
    /\ g \in groups
    /\ \E a \in AMembers(g), b \in BMembers(g) :
         /\ pairs' = pairs \cup {Pair(a, b)}
         /\ AddIssues({Issue("unknown_tensor_fields", TensorScope(n)) :
                         n \in {a, b} \cap Extended})
    /\ groups' = groups \ {g}
    /\ UNCHANGED <<tensors, phase, todo, grouped>>

CompilePair(g) ==
    /\ phase = "pair"
    /\ g \in groups
    /\ \E a \in AMembers(g), b \in BMembers(g) :
         /\ pairs' = pairs \cup {Pair(a, b)}
         /\ AddIssues(IF g[2] = "weight" /\ (HighRank(a) \/ HighRank(b))
                      THEN {Issue("unmodeled_weight_orientation", TensorScope(a))}
                      ELSE {})
    /\ groups' = groups \ {g}
    /\ UNCHANGED <<tensors, phase, todo, grouped>>

CompileOrphans(g) ==
    /\ phase = "pair"
    /\ g \in groups
    /\ AMembers(g) = {} \/ BMembers(g) = {}
    /\ AddIssues({Issue("orphan_member", TensorScope(n)) :
                    n \in AMembers(g) \cup BMembers(g)})
    /\ groups' = groups \ {g}
    /\ UNCHANGED <<tensors, phase, todo, grouped, pairs>>

MarkMixed ==
    /\ phase = "pair"
    /\ groups = {}
    /\ phase' = "build"
    /\ AddIssues({Issue("mixed_pair_kind", TargetScope(t)) :
                    t \in {e.target : e \in {f \in grouped :
                             \E h \in grouped : /\ h.target = f.target
                                                /\ KindOf(h.role) # KindOf(f.role)}}})
    /\ UNCHANGED <<tensors, todo, grouped, groups, pairs>>

(***************************************************************************)
(* The LoraInventory constructor refuses a repeated issue; it recompiles   *)
(* the relationships from the same tensors, which cannot differ.           *)
(***************************************************************************)
BuildInventory ==
    /\ phase = "build"
    /\ phase' = IF repeated THEN "ctor_error" ELSE "done"
    /\ UNCHANGED <<tensors, todo, grouped, groups, pairs, issues, repeated>>

Next ==
    \/ \E n \in Present : SkipUnclassified(n) \/ GroupTensor(n)
    \/ StartPairing
    \/ \E g \in groups : CompilePair(g) \/ CompileOrphans(g)
    \/ MarkMixed
    \/ BuildInventory

\* The call runs to its end: nothing else can hold it up.
Spec == Init /\ [][Next]_vars /\ WF_vars(Next)

-----------------------------------------------------------------------------
TypeOK ==
    /\ tensors \in Manifests
    /\ phase \in {"classify", "pair", "build", "done", "ctor_error"}
    /\ todo \subseteq Present
    /\ \A e \in grouped : e.name \in Recognised /\ e = Entry(e.name)
    /\ \A g \in groups : \E e \in grouped : g = <<e.target, KindOf(e.role)>>
    /\ pairs \subseteq [a : Present, b : Present]
    /\ repeated \in BOOLEAN

(***************************************************************************)
(* No tensor of the artifact disappears and none counts twice: each one is *)
(* unclassified, or an orphan, or in exactly one pair.  The dictionary     *)
(* writes would lose a tensor if two names shared a target and role.       *)
(***************************************************************************)
PairsWith(n) == {p \in pairs : n \in {p.a, p.b}}

Reported(kind, n) == Issue(kind, TensorScope(n)) \in issues

EveryTensorAccounted ==
    phase = "done" =>
      \A n \in Present :
        \/ Reported("unclassified_tensor", n) /\ ~Reported("orphan_member", n)
             /\ PairsWith(n) = {}
        \/ Reported("orphan_member", n) /\ ~Reported("unclassified_tensor", n)
             /\ PairsWith(n) = {}
        \/ /\ Cardinality(PairsWith(n)) = 1
           /\ ~Reported("orphan_member", n) /\ ~Reported("unclassified_tensor", n)

(***************************************************************************)
(* The constructor's uniqueness check never refuses a compiled inventory:  *)
(* no pass appends an issue that another pass, or the same one, did.       *)
(***************************************************************************)
InventoryNeverRefuses == phase # "ctor_error"

(***************************************************************************)
(* Grouping never replaces a tensor already grouped.                       *)
(***************************************************************************)
NothingOverwritten == [][grouped \subseteq grouped']_vars

(***************************************************************************)
(* Refinement: the passes compile the declarative pairs and issues, in     *)
(* whatever order the groups are visited.                                  *)
(***************************************************************************)
Compiled ==
    IF phase = "done" THEN {[pairs |-> pairs, issues |-> issues]} ELSE {}

Relations == INSTANCE LoraRelations WITH inventory <- Compiled

ImplementsRelations == Relations!Spec
=============================================================================
