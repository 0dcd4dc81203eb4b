----------------------------- MODULE TensorSize -----------------------------
(***************************************************************************)
(* The checked byte size of a declared tensor (safetensors.py).            *)
(*                                                                         *)
(* Python integers do not wrap; the code refuses every value an unsigned   *)
(* 64-bit consumer could not hold.  U64Max is that limit, a parameter so   *)
(* that TLC can meet the boundary with small dimensions.  Only the width   *)
(* of a dtype matters here: Bits maps each registered dtype to its bits    *)
(* per element, and a declared dtype outside DOMAIN Bits is unregistered.  *)
(***************************************************************************)
EXTENDS Integers, Sequences

CONSTANTS
    U64Max,     \* the largest size or product the parser accepts (2^64 - 1)
    Bits        \* registered dtype -> bits per element

ASSUME U64MaxAssumption == U64Max \in Nat \ {0}
ASSUME BitsAssumption == Bits \in [DOMAIN Bits -> Nat \ {0}]

\* The two ways a size is refused.  They are negative, so that no byte range
\* ever has the length of a refused size.
Overflow == -1
Misaligned == -2

\* Mutant: the guard off by one at the limit itself.
ProductOverflowsEarly(elements, factor) ==
    factor # 0 /\ elements >= U64Max \div factor

(***************************************************************************)
(* The guard evaluated before each multiplication; zero never overflows.   *)
(***************************************************************************)
ProductOverflows(elements, factor) ==
    factor # 0 /\ elements > U64Max \div factor

(***************************************************************************)
(* The element count of a shape: an ordered product, refused as soon as a  *)
(* prefix overflows, whatever the dimensions that follow.                  *)
(***************************************************************************)
ElementCount(shape) ==
    LET prefix[i \in 0 .. Len(shape)] ==
          IF i = 0 THEN 1
          ELSE IF \/ prefix[i-1] = Overflow
                  \/ ProductOverflows(prefix[i-1], shape[i])
               THEN Overflow
               ELSE prefix[i-1] * shape[i]
    IN  prefix[Len(shape)]

(***************************************************************************)
(* _checked_tensor_size: the exact byte width, or why there is none.       *)
(* The code guards the bit product with elements # 0 instead of            *)
(* bits # 0; widths are never zero.                                        *)
(***************************************************************************)
CheckedSize(shape, dtype) ==
    LET elements == ElementCount(shape)
        bits == elements * Bits[dtype]
    IN  IF \/ elements = Overflow
           \/ elements # 0 /\ elements > U64Max \div Bits[dtype]
        THEN Overflow
        ELSE IF bits % 8 # 0 THEN Misaligned ELSE bits \div 8
=============================================================================
