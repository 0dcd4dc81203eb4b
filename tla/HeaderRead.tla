----------------------------- MODULE HeaderRead -----------------------------
(***************************************************************************)
(* plan_header_read and accept_header (safetensors.py), called by a source *)
(* adapter as docs/safetensors-parser.md asks: an exact read of the        *)
(* prefix, the size, a plan, a read of the planned range, and a comparison *)
(* of the source's identity with that of the beginning.  The source may    *)
(* change between any two of these, and a read may come back short.  The   *)
(* adapter is outside the repository.                                      *)
(***************************************************************************)
EXTENDS Integers

CONSTANTS
    Objects, FormatLimit, MaxHeaderBytes,       \* as in HeaderInspection
    MaxChanges                                  \* changes of the source

ASSUME ReadAssumption ==
    /\ Objects \subseteq [size : Nat, declared : Nat]
    /\ FormatLimit \in Nat
    /\ MaxHeaderBytes \in 1 .. FormatLimit
    /\ MaxChanges \in Nat

VARIABLES
    object,     \* what the source holds
    changes,    \* how often it has changed since it was opened: its identity
    phase,      \* where the inspection is
    prefix,     \* the prefix read, if it has been ...
    declared,   \* ... and the header size it declares
    file_size,  \* the size read, -1 before
    plan,       \* the HeaderReadPlan
    header,     \* the header read
    code,       \* the error raised, "none" so far
    outcome     \* what the adapter has concluded

source == <<object, changes>>
reads == <<prefix, declared, file_size>>
vars == <<source, phase, reads, plan, header, code, outcome>>

Inspected == INSTANCE HeaderInspection

\* Bytes not read yet, and bytes read: the transport may cut them short.
Unread == [length |-> -1, short |-> FALSE]

Bytes(n, wanted) == [length |-> n, short |-> n < wanted]

NoPlan == [header_size |-> 0, header_offset |-> 0, data_offset |-> 0, data_size |-> 0]

Least(a, b) == IF a < b THEN a ELSE b

Init ==
    /\ object \in Objects
    /\ changes = 0
    /\ phase = "open"
    /\ prefix = Unread
    /\ declared = 0
    /\ file_size = -1
    /\ plan = NoPlan
    /\ header = Unread
    /\ code = "none"
    /\ outcome = Inspected!Pending

Raise(error) ==
    /\ code' = error
    /\ phase' = "raised"
    /\ UNCHANGED <<source, reads, plan, header, outcome>>

-----------------------------------------------------------------------------
(***************************************************************************)
(* The source and the adapter's reads.                                     *)
(***************************************************************************)
Change ==
    /\ changes < MaxChanges
    /\ object' \in Objects
    /\ changes' = changes + 1
    /\ UNCHANGED <<phase, reads, plan, header, code, outcome>>

ReadPrefix ==
    /\ phase = "open"
    /\ prefix = Unread
    /\ \E n \in 0 .. Least(8, object.size) :
         prefix' = Bytes(n, Least(8, object.size))
    /\ declared' = object.declared
    /\ UNCHANGED <<source, phase, file_size, plan, header, code, outcome>>

ReadSize ==
    /\ phase = "open"
    /\ file_size = -1
    /\ file_size' = object.size
    /\ UNCHANGED <<source, phase, prefix, declared, plan, header, code, outcome>>

Available == object.size - plan.header_offset

ReadHeader ==
    /\ phase = "planned"
    /\ \E n \in 0 .. plan.header_size :
         /\ n <= Available \/ n = 0
         /\ header' = Bytes(n, plan.header_size)
    /\ phase' = "fetched"
    /\ UNCHANGED <<source, reads, plan, code, outcome>>

-----------------------------------------------------------------------------
(***************************************************************************)
(* plan_header_read, and the constructor of HeaderReadPlan.                *)
(***************************************************************************)
Planning == phase = "open" /\ prefix # Unread /\ file_size # -1

\* The prefix is eight bytes of a file that has as many.
PrefixWhole == file_size >= 8 /\ prefix.length = 8

WithinFormat == PrefixWhole /\ declared <= FormatLimit

WithinFile == WithinFormat /\ declared <= file_size - 8

RefuseTooSmall ==
    /\ Planning
    /\ file_size < 8
    /\ Raise("file_too_small")

\* Mutant: before the size is looked at.
RefusePrefixFirst ==
    /\ Planning
    /\ prefix.length # 8
    /\ Raise("prefix_length")

RefusePrefix ==
    /\ Planning
    /\ file_size >= 8
    /\ prefix.length # 8
    /\ Raise("prefix_length")

RefuseFormatLimit ==
    /\ Planning
    /\ PrefixWhole
    /\ ~WithinFormat
    /\ Raise("header_exceeds_format_limit")

RefuseOutOfBounds ==
    /\ Planning
    /\ WithinFormat
    /\ ~WithinFile
    /\ Raise("header_out_of_bounds")

\* Mutant: before the bounds of the file.
RefusePolicyLimitEarly ==
    /\ Planning
    /\ WithinFormat
    /\ declared > MaxHeaderBytes
    /\ Raise("header_exceeds_policy_limit")

RefusePolicyLimit ==
    /\ Planning
    /\ WithinFile
    /\ declared > MaxHeaderBytes
    /\ Raise("header_exceeds_policy_limit")

\* Mutant: the payload begins where a header without prefix would end.
PlannedUnshifted ==
    [ header_size |-> declared,
      header_offset |-> 8,
      data_offset |-> declared,
      data_size |-> file_size - declared ]

Planned ==
    [ header_size |-> declared,
      header_offset |-> 8,
      data_offset |-> 8 + declared,
      data_size |-> file_size - (8 + declared) ]

PlanFits(p) ==
    /\ file_size >= 8
    /\ p.header_size \in 0 .. MaxHeaderBytes
    /\ p.header_offset = 8
    /\ p.data_offset = 8 + p.header_size
    /\ p.data_size >= 0
    /\ p.data_size = file_size - p.data_offset

PlanHeader ==
    /\ Planning
    /\ WithinFile
    /\ declared <= MaxHeaderBytes
    /\ plan' = Planned
    /\ code' = IF PlanFits(Planned) THEN code ELSE "ValueError"
    /\ phase' = IF PlanFits(Planned) THEN "planned" ELSE "raised"
    /\ UNCHANGED <<source, reads, header, outcome>>

-----------------------------------------------------------------------------
(***************************************************************************)
(* accept_header: the constructor of HeaderEnvelope checks a copy of the   *)
(* plan and the length.                                                    *)
(***************************************************************************)
RefuseLength ==
    /\ phase = "fetched"
    /\ header.length # plan.header_size
    /\ Raise("header_length_mismatch")

AcceptHeader ==
    /\ phase = "fetched"
    /\ header.length = plan.header_size
    /\ phase' = "accepted"
    /\ UNCHANGED <<source, reads, plan, header, code, outcome>>

-----------------------------------------------------------------------------
(***************************************************************************)
(* The classes of the errors raised here, and the adapter's conclusion:    *)
(* nothing if the source has changed or the bytes are not those planned.   *)
(***************************************************************************)
Invalid == {"file_too_small", "header_exceeds_format_limit", "header_out_of_bounds"}

ReadMismatch == {"prefix_length", "header_length_mismatch"}

LimitExceeded == {"header_exceeds_policy_limit"}

Codes == Invalid \cup ReadMismatch \cup LimitExceeded

Conclusion ==
    IF code \in Invalid THEN [kind |-> "invalid"]
    ELSE IF code \in LimitExceeded THEN [kind |-> "limit"]
    ELSE [kind |-> "header", size |-> plan.header_size, payload |-> plan.data_size]

Conclude ==
    /\ phase \in {"raised", "accepted"}
    /\ outcome' = IF changes # 0 \/ code \in ReadMismatch
                  THEN Inspected!Nothing ELSE Conclusion
    /\ phase' = "concluded"
    /\ UNCHANGED <<source, reads, plan, header, code>>

PlanRead ==
    \/ RefuseTooSmall \/ RefusePrefix \/ RefuseFormatLimit
    \/ RefuseOutOfBounds \/ RefusePolicyLimit \/ PlanHeader

Step ==
    ReadPrefix \/ ReadSize \/ PlanRead \/ ReadHeader \/ RefuseLength \/ AcceptHeader \/ Conclude

Next == Change \/ Step

\* The adapter goes on; the source may change at any time or never.
Spec == Init /\ [][Next]_vars /\ WF_vars(Step)

-----------------------------------------------------------------------------
\* The classes of HeaderReadPlan and HeaderEnvelope, with their promises.
TypeOK ==
    /\ object \in Objects
    /\ changes \in 0 .. MaxChanges
    /\ phase \in {"open", "planned", "fetched", "accepted", "raised", "concluded"}
    /\ code \in {"none", "ValueError"} \cup Codes
    /\ phase = "raised" => code # "none"
    /\ phase \in {"planned", "fetched", "accepted"} => code = "none" /\ PlanFits(plan)
    /\ phase = "accepted" => header.length = plan.header_size

(***************************************************************************)
(* What the reads and checks so far have established: as long as the       *)
(* source has not changed they speak of what it still holds, and an error  *)
(* raised is the first of the checks, in their order, that fails.          *)
(***************************************************************************)
ControlTrue ==
    /\ phase # "open" => prefix # Unread /\ file_size # -1
    /\ phase = "open" => code = "none"
    /\ phase # "concluded" => outcome = Inspected!Pending

ReadsTrue ==
    /\ file_size \in Nat \cup {-1}
    /\ declared \in Nat
    /\ prefix.length \in Nat \cup {-1}
    /\ changes = 0 /\ file_size # -1 => file_size = object.size
    /\ changes = 0 /\ prefix # Unread =>
         /\ declared = object.declared
         /\ prefix = Bytes(prefix.length, Least(8, object.size))
         /\ prefix.length <= Least(8, object.size)

PlanTrue ==
    phase \in {"planned", "fetched", "accepted"} =>
        /\ code = "none"
        /\ WithinFile
        /\ declared <= MaxHeaderBytes
        /\ plan = Planned

HeaderTrue ==
    /\ header.length \in Nat \cup {-1}
    /\ phase \in {"fetched", "accepted"} =>
         /\ header.length \in 0 .. plan.header_size
         /\ header = Bytes(header.length, plan.header_size)
    /\ phase = "accepted" => header.length = plan.header_size

ErrorTrue ==
    /\ code = "file_too_small" => file_size < 8
    /\ code = "prefix_length" => file_size >= 8 /\ prefix.length # 8
    /\ code = "header_exceeds_format_limit" => PrefixWhole /\ ~WithinFormat
    /\ code = "header_out_of_bounds" => WithinFormat /\ ~WithinFile
    /\ code = "header_exceeds_policy_limit" => WithinFile /\ declared > MaxHeaderBytes
    /\ code = "header_length_mismatch" => header.short

ReadInv ==
    /\ ControlTrue
    /\ ReadsTrue
    /\ PlanTrue
    /\ HeaderTrue
    /\ ErrorTrue

(***************************************************************************)
(* Nothing outside the taxonomy: the checks of plan_header_read leave the  *)
(* constructor of the plan nothing to refuse, and every header read is     *)
(* within the policy and ends before the payload of the size seen.         *)
(***************************************************************************)
PlanNeverRefuses == code # "ValueError"

(***************************************************************************)
(* A read mismatch is never the file's fault: the source changed, or a     *)
(* read came back short.  It never stands for a defect of the file.        *)
(***************************************************************************)
MismatchExplained ==
    code \in ReadMismatch =>
        \/ changes > 0
        \/ prefix.short
        \/ header.short

(***************************************************************************)
(* Prefix, size and header are read apart and judged as one: whatever the  *)
(* source does in between, an outcome is the judgement of what the source  *)
(* holds at one moment, and never a limit for a malformed envelope.  An    *)
(* outcome is always reached.                                              *)
(***************************************************************************)
ImplementsInspection == Inspected!Spec
=============================================================================
