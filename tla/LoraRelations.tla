--------------------------- MODULE LoraRelations ---------------------------
(***************************************************************************)
(* What inspect_lora_inventory promises: the pairs and issues of a         *)
(* manifest, determined at once by its names, shapes and extensions.       *)
(***************************************************************************)
EXTENDS LoraTensors

VARIABLE inventory      \* {} until it is compiled, then the one inventory

vars == <<tensors, inventory>>

Init == tensors \in Manifests /\ inventory = {}

Compile ==
    /\ inventory = {}
    /\ inventory' = {[pairs |-> PairsOf, issues |-> IssuesOf]}
    /\ UNCHANGED tensors

Spec == Init /\ [][Compile]_vars /\ WF_vars(Compile)
=============================================================================
