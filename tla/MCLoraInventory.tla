-------------------------- MODULE MCLoraInventory --------------------------
(***************************************************************************)
(* Two instances.  MCLoraInventory.cfg: six names, every combination of    *)
(* rank and extension fields.  MCLoraNames.cfg: eight names that meet      *)
(* every rule of the grammar, one shape.  In code-point order: an empty    *)
(* component, a suffix with nothing before it, a weight pair and an        *)
(* embedding pair at one target, a reserved component in the target, and   *)
(* a member whose target has one more component.                           *)
(***************************************************************************)
EXTENDS LoraInventory

MCComponents ==
    << <<"", "lora_A", "weight">>,
       <<"m", "lora_A", "weight">>,
       <<"m", "lora_B", "weight">>,
       <<"m", "lora_embedding_A">>,
       <<"m", "lora_embedding_B">>,
       <<"m", "m", "lora_A", "weight">> >>

MCName == DOMAIN MCComponents

MCShapes == {<<1, 1>>, <<1, 1, 1>>}

MCNamesComponents ==
    << <<"", "lora_A", "weight">>,
       <<"lora_A", "weight">>,
       <<"m", "lora_A", "weight">>,
       <<"m", "lora_B", "lora_A", "weight">>,
       <<"m", "lora_B", "weight">>,
       <<"m", "lora_embedding_A">>,
       <<"m", "lora_embedding_B">>,
       <<"m", "m", "lora_A", "weight">> >>

MCNamesName == DOMAIN MCNamesComponents

MCNamesShapes == {<<1, 1>>}
=============================================================================
