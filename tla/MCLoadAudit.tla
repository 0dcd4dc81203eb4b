---------------------------- MODULE MCLoadAudit ----------------------------
(***************************************************************************)
(* A weight pair and an embedding member at one target, an unclassified    *)
(* tensor, three shapes, and one rule evaluated elsewhere.                 *)
(***************************************************************************)
EXTENDS LoadAudit

MCComponents ==
    << <<"bias">>,
       <<"m", "lora_A", "weight">>,
       <<"m", "lora_B", "weight">>,
       <<"m", "lora_embedding_A">> >>

MCName == DOMAIN MCComponents

MCShapes == {<<1, 2>>, <<2, 1>>, <<1, 1, 1>>}

\* "target:..." comes before "tensor:...".
MCPathOf ==
    [s \in Scopes |-> CASE s[1] = "none" -> 0 [] s[1] = "target" -> 1 [] OTHER -> 1 + s[2]]
=============================================================================
