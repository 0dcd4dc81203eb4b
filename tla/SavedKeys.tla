----------------------------- MODULE SavedKeys -----------------------------
(***************************************************************************)
(* The saved-key grammar of lora_inventory.py: which role and target one   *)
(* tensor name proves, and what the relation of roles and targets means.   *)
(*                                                                         *)
(* A name is its rank in code-point order; Components gives its text split *)
(* at the dots, which determines the text.  A suffix begins with a dot, so *)
(* a name ends with it exactly when its last components are the suffix's   *)
(* and at least one component precedes them.  A target is kept as its      *)
(* components.                                                             *)
(***************************************************************************)
EXTENDS Integers, Sequences, FiniteSets

CONSTANTS
    Name,       \* tensor names, as ranks in code-point order
    Components  \* name -> the components of its text

ASSUME NamesAssumption == Name \subseteq Nat
ASSUME ComponentsAssumption ==
    /\ Components \in [Name -> Seq(STRING)]
    /\ \A m, n \in Name : Components[m] = Components[n] => m = n

Suffix ==
    [weight_a    |-> <<"lora_A", "weight">>,
     weight_b    |-> <<"lora_B", "weight">>,
     embedding_a |-> <<"lora_embedding_A">>,
     embedding_b |-> <<"lora_embedding_B">>]

Role == DOMAIN Suffix

Reserved == {"lora_A", "lora_B", "lora_embedding_A", "lora_embedding_B"}

EndsWith(path, suffix) ==
    /\ Len(path) > Len(suffix)
    /\ SubSeq(path, Len(path) - Len(suffix) + 1, Len(path)) = suffix

\* Mutant: only the last component of the prefix is kept as the target.
LastComponentBefore(name, role) ==
    LET k == Len(Components[name]) - Len(Suffix[role])
    IN  SubSeq(Components[name], k, k)

Before(name, role) ==
    SubSeq(Components[name], 1, Len(Components[name]) - Len(Suffix[role]))

IsUnambiguousTarget(target) ==
    \A i \in DOMAIN target : target[i] # "" /\ target[i] \notin Reserved

Matches(name) == {role \in Role : EndsWith(Components[name], Suffix[role])}

(***************************************************************************)
(* _classify_saved_key: the one matching role and its target, unless the   *)
(* target is ambiguous.                                                    *)
(***************************************************************************)
HasRole(name, role) ==
    /\ Matches(name) = {role}
    /\ IsUnambiguousTarget(Before(name, role))

Classified == {n \in Name : \E role \in Role : HasRole(n, role)}

RoleOf == [n \in Classified |-> CHOOSE role \in Role : HasRole(n, role)]

TargetOf == [n \in Classified |-> Before(n, RoleOf[n])]

Kind == {"weight", "embedding"}

KindOf(role) == IF role \in {"weight_a", "weight_b"} THEN "weight" ELSE "embedding"

ARole(kind) == IF kind = "weight" THEN "weight_a" ELSE "embedding_a"

BRole(kind) == IF kind = "weight" THEN "weight_b" ELSE "embedding_b"
=============================================================================
