-------------------------- MODULE MCLoraEvaluation --------------------------
(***************************************************************************)
(* Four names: a weight pair and an embedding member at one target, and an *)
(* unclassified tensor.  The shapes meet every rule of PL111 and PL112:    *)
(* agreeing ranks 1 and 2, disagreeing ranks, a zero width beside agreeing *)
(* ranks, rank one and rank three.                                         *)
(***************************************************************************)
EXTENDS LoraEvaluation

MCComponents ==
    << <<"bias">>,
       <<"m", "lora_A", "weight">>,
       <<"m", "lora_B", "weight">>,
       <<"m", "lora_embedding_A">> >>

MCName == DOMAIN MCComponents

MCShapes == {<<1, 2>>, <<2, 1>>, <<2, 0>>, <<2>>, <<2, 1, 1>>}
=============================================================================
