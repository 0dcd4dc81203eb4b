-------------------------- MODULE MCStorageLayout --------------------------
(***************************************************************************)
(* Two small instances of validate_storage.                                *)
(***************************************************************************)
EXTENDS StorageLayout, SequencesExt

(***************************************************************************)
(* Layouts: three tensors whose spans range over a payload of up to two    *)
(* bytes, so that empty tensors, reversed offsets, holes and overlaps all  *)
(* meet.                                                                   *)
(***************************************************************************)
LayoutBits == "U8" :> 8

LayoutShapes == {<<0>>, <<>>, <<2>>}

(***************************************************************************)
(* Sizes: one tensor of every shape of up to three dimensions around a     *)
(* limit of seven bits, with the widths of the registry (4, 6, 8, 16, 64   *)
(* bits; 32 adds no boundary of its own) and a dtype that is not           *)
(* registered.                                                             *)
(***************************************************************************)
SizesBits ==
    ("F4" :> 4) @@ ("F6_E2M3" :> 6) @@ ("U8" :> 8) @@ ("I16" :> 16) @@ ("I64" :> 64)

Dimensions == {0, 1, 2, 3, 4, 5, 8, 11, 12, 63, 64, 127}

SizesShapes == SeqOf(Dimensions, 3)
=============================================================================
