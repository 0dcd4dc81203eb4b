-------------------------- MODULE HeaderReadProofs --------------------------
(***************************************************************************)
(* For every set of objects, limit and number of changes: the inductive    *)
(* invariant ReadInv, what follows from it, and that every step is a step  *)
(* of HeaderInspection or a stutter.                                       *)
(***************************************************************************)
EXTENDS HeaderRead, TLAPS

(***************************************************************************)
(* The checks of plan_header_read are those of the constructor.            *)
(***************************************************************************)
LEMMA PlannedFits ==
  ASSUME file_size \in Nat, declared \in Nat, WithinFile, declared <= MaxHeaderBytes
  PROVE  PlanFits(Planned)
BY ReadAssumption DEF Planned, PlanFits, WithinFile, WithinFormat, PrefixWhole

LEMMA PayloadLeft ==
  ASSUME NEW d \in Nat, NEW f \in Int, d <= f - 8
  PROVE  f - (8 + d) >= 0
OBVIOUS

LEMMA ObjectTyped ==
  ASSUME object \in Objects
  PROVE  object.size \in Nat /\ object.declared \in Nat
BY ReadAssumption

LEMMA LeastBounds ==
  ASSUME NEW a \in Nat, NEW b \in Nat
  PROVE  Least(a, b) \in Nat /\ Least(a, b) <= a /\ Least(a, b) <= b
BY DEF Least

-----------------------------------------------------------------------------
(***************************************************************************)
(* ReadInv is inductive, together with the types.                          *)
(***************************************************************************)
LEMMA InitialReads == Init => TypeOK /\ ReadInv
BY ReadAssumption
   DEF Init, TypeOK, ReadInv, ControlTrue, ReadsTrue, PlanTrue, HeaderTrue, ErrorTrue, Unread

LEMMA ControlKept ==
  ASSUME ControlTrue, Next
  PROVE  ControlTrue'
<1>1. ASSUME NEW e, Raise(e), phase = "fetched" \/ Planning PROVE ControlTrue'
  BY <1>1 DEF Raise, ControlTrue, reads, Planning
<1> QED
  BY <1>1 DEF ControlTrue, Next, Step, PlanRead, Change, ReadPrefix, ReadSize, ReadHeader,
     RefuseTooSmall, RefusePrefix, RefuseFormatLimit, RefuseOutOfBounds, RefusePolicyLimit,
     PlanHeader, RefuseLength, AcceptHeader, Conclude, Planning, reads

LEMMA ReadsKept ==
  ASSUME TypeOK, ReadsTrue, Next
  PROVE  ReadsTrue'
<1> USE DEF ReadsTrue
<1>1. CASE Change
  BY <1>1, ReadAssumption DEF Change, reads, TypeOK, Unread
<1>2. CASE ReadPrefix
  <2>1. PICK n \in 0 .. Least(8, object.size) : prefix' = Bytes(n, Least(8, object.size))
    BY <1>2 DEF ReadPrefix
  <2> QED
    BY <1>2, <2>1, ObjectTyped, LeastBounds DEF ReadPrefix, source, TypeOK, Bytes
<1>3. CASE ReadSize
  BY <1>3, ObjectTyped DEF ReadSize, source, TypeOK
<1>4. CASE UNCHANGED <<source, reads>>
  BY <1>4 DEF source, reads
<1> QED
  BY <1>1, <1>2, <1>3, <1>4 DEF Next, Step, PlanRead, ReadHeader,
     RefuseTooSmall, RefusePrefix, RefuseFormatLimit, RefuseOutOfBounds, RefusePolicyLimit,
     PlanHeader, RefuseLength, AcceptHeader, Conclude, Raise

LEMMA PlanKept ==
  ASSUME TypeOK, ReadInv, Next
  PROVE  PlanTrue'
<1> USE DEF PlanTrue
<1>1. CASE PlanHeader
  BY <1>1 DEF PlanHeader, ReadInv, ControlTrue, Planning, reads, Planned, WithinFile,
     WithinFormat, PrefixWhole
<1>2. CASE UNCHANGED <<reads, plan, code>> /\ phase' \notin {"planned", "fetched", "accepted"}
  BY <1>2
<1>3. CASE UNCHANGED <<reads, plan, code>> /\ phase \in {"planned", "fetched", "accepted"}
  BY <1>3 DEF ReadInv, reads, Planned, WithinFile, WithinFormat, PrefixWhole
<1>4. ASSUME NEW e, Raise(e) PROVE PlanTrue'
  BY <1>4 DEF Raise
<1>5. CASE Change \/ ReadPrefix \/ ReadSize
  BY <1>5, <1>3 DEF Change, ReadPrefix, ReadSize, reads
<1> QED
  BY <1>1, <1>2, <1>3, <1>4, <1>5 DEF Next, Step, PlanRead, ReadHeader,
     RefuseTooSmall, RefusePrefix, RefuseFormatLimit, RefuseOutOfBounds, RefusePolicyLimit,
     RefuseLength, AcceptHeader, Conclude

LEMMA HeaderKept ==
  ASSUME TypeOK, ReadInv, Next
  PROVE  HeaderTrue'
<1> USE DEF HeaderTrue
<1>1. CASE ReadHeader
  <2>1. PICK n \in 0 .. plan.header_size : header' = Bytes(n, plan.header_size)
    BY <1>1 DEF ReadHeader
  <2>2. plan.header_size \in Nat
    BY <1>1 DEF ReadHeader, ReadInv, PlanTrue, ReadsTrue, Planned
  <2> QED
    BY <1>1, <2>1, <2>2 DEF ReadHeader, Bytes
<1>2. CASE AcceptHeader
  BY <1>2 DEF AcceptHeader, ReadInv
<1>3. CASE UNCHANGED <<plan, header>> /\ phase' \notin {"fetched", "accepted"}
  BY <1>3 DEF ReadInv
<1>4. CASE UNCHANGED <<plan, header, phase>>
  BY <1>4 DEF ReadInv
<1>5. CASE PlanHeader
  BY <1>5 DEF PlanHeader, ReadInv
<1> QED
  BY <1>1, <1>2, <1>3, <1>4, <1>5 DEF Next, Step, PlanRead, Change, ReadPrefix, ReadSize,
     RefuseTooSmall, RefusePrefix, RefuseFormatLimit, RefuseOutOfBounds, RefusePolicyLimit,
     RefuseLength, Conclude, Raise

LEMMA ErrorKept ==
  ASSUME TypeOK, ReadInv, Next
  PROVE  ErrorTrue'
<1> USE DEF ErrorTrue, WithinFile, WithinFormat, PrefixWhole
<1>1. CASE UNCHANGED <<reads, header, code>>
  BY <1>1 DEF ReadInv, reads
<1>2. CASE code' \in {"none", "ValueError"}
  BY <1>2
<1>3. CASE RefuseLength
  <2>1. header.length < plan.header_size
    BY <1>3 DEF RefuseLength, ReadInv, HeaderTrue, PlanTrue, ReadsTrue, Planned
  <2>2. header = Bytes(header.length, plan.header_size)
    BY <1>3 DEF RefuseLength, ReadInv, HeaderTrue
  <2>3. Bytes(header.length, plan.header_size).short = TRUE
    BY <2>1 DEF Bytes
  <2>4. header.short
    BY <2>2, <2>3
  <2> QED
    BY <1>3, <2>4 DEF RefuseLength, Raise
<1>4. CASE RefuseTooSmall \/ RefusePrefix \/ RefuseFormatLimit
            \/ RefuseOutOfBounds \/ RefusePolicyLimit
  BY <1>4 DEF RefuseTooSmall, RefusePrefix, RefuseFormatLimit, RefuseOutOfBounds,
     RefusePolicyLimit, Raise, reads
<1>5. CASE ReadPrefix \/ ReadSize \/ ReadHeader \/ PlanHeader
  BY <1>2, <1>5 DEF ReadPrefix, ReadSize, ReadHeader, PlanHeader, Planning, ReadInv,
     ControlTrue, PlanTrue
<1> QED
  BY <1>1, <1>3, <1>4, <1>5 DEF Next, Step, PlanRead, Change, AcceptHeader, Conclude

LEMMA TypeKept ==
  ASSUME TypeOK, ReadInv, Next
  PROVE  TypeOK'
<1>1. object' \in Objects /\ changes' \in 0 .. MaxChanges
  BY ReadAssumption DEF TypeOK, Next, Step, PlanRead, Change, ReadPrefix, ReadSize, ReadHeader,
     RefuseTooSmall, RefusePrefix, RefuseFormatLimit, RefuseOutOfBounds, RefusePolicyLimit,
     PlanHeader, RefuseLength, AcceptHeader, Conclude, Raise, source
<1>2. /\ phase' \in {"open", "planned", "fetched", "accepted", "raised", "concluded"}
      /\ code' \in {"none", "ValueError"} \cup Codes
      /\ phase' = "raised" => code' # "none"
  BY DEF TypeOK, Next, Step, PlanRead, Change, ReadPrefix, ReadSize, ReadHeader,
     RefuseTooSmall, RefusePrefix, RefuseFormatLimit, RefuseOutOfBounds, RefusePolicyLimit,
     PlanHeader, RefuseLength, AcceptHeader, Conclude, Raise, Codes, Invalid, ReadMismatch,
     LimitExceeded
<1>3. ASSUME phase' \in {"planned", "fetched", "accepted"} PROVE code' = "none" /\ PlanFits(plan)'
  <2>1. PlanTrue' /\ ReadsTrue'
    BY PlanKept, ReadsKept DEF ReadInv
  <2>2. code' = "none" /\ WithinFile' /\ declared' <= MaxHeaderBytes /\ plan' = Planned'
    BY <1>3, <2>1 DEF PlanTrue
  <2>3. file_size' >= 8 /\ declared' <= file_size' - 8
    BY <2>2 DEF WithinFile, WithinFormat, PrefixWhole
  <2>4. declared' \in Nat /\ file_size' \in Int
    BY <2>1 DEF ReadsTrue
  <2>5. /\ plan'.header_size = declared'
        /\ plan'.header_offset = 8
        /\ plan'.data_offset = 8 + declared'
        /\ plan'.data_size = file_size' - (8 + declared')
    BY <2>2 DEF Planned
  <2>6. MaxHeaderBytes \in Nat
    BY ReadAssumption
  <2>7. plan'.header_size \in 0 .. MaxHeaderBytes
    BY <2>2, <2>4, <2>5, <2>6
  <2>8. file_size' - (8 + declared') >= 0
    BY <2>3, <2>4, PayloadLeft
  <2>9. plan'.data_offset = 8 + plan'.header_size
    BY <2>5
  <2>10. PlanFits(plan)'
    BY <2>3, <2>5, <2>7, <2>8, <2>9, Zenon DEF PlanFits
  <2> QED
    BY <2>2, <2>10
<1>4. phase' = "accepted" => header'.length = plan'.header_size
  BY HeaderKept DEF HeaderTrue
<1> QED
  BY <1>1, <1>2, <1>3, <1>4 DEF TypeOK, PlanFits

(***************************************************************************)
(* The classes of the plan and the envelope hold what they promise, and    *)
(* what has been read and raised is true of the source while it does not   *)
(* change: in every state of the inspection.                               *)
(***************************************************************************)
THEOREM ReadsCorrect == Spec => [](TypeOK /\ ReadInv)
<1>1. TypeOK /\ ReadInv /\ [Next]_vars => (TypeOK /\ ReadInv)'
  <2> SUFFICES ASSUME TypeOK, ReadInv, [Next]_vars
               PROVE  (TypeOK /\ ReadInv)'
    OBVIOUS
  <2>1. CASE Next
    BY <2>1, TypeKept, ControlKept, ReadsKept, PlanKept, HeaderKept, ErrorKept DEF ReadInv
  <2>2. CASE UNCHANGED vars
    BY <2>2 DEF vars, source, reads, TypeOK, ReadInv, ControlTrue, ReadsTrue, PlanTrue,
       HeaderTrue, ErrorTrue, PlanFits, Planned, WithinFile, WithinFormat, PrefixWhole
  <2> QED
    BY <2>1, <2>2
<1> QED
  BY InitialReads, <1>1, PTL DEF Spec

(***************************************************************************)
(* The constructor of the plan refuses nothing that plan_header_read       *)
(* builds.                                                                 *)
(***************************************************************************)
THEOREM PlanNeverRefused == Spec => []PlanNeverRefuses
<1>1. Init => PlanNeverRefuses
  BY DEF Init, PlanNeverRefuses
<1>2. TypeOK /\ ReadInv /\ PlanNeverRefuses /\ [Next]_vars => PlanNeverRefuses'
  <2> SUFFICES ASSUME TypeOK, ReadInv, PlanNeverRefuses, [Next]_vars
               PROVE  PlanNeverRefuses'
    OBVIOUS
  <2>1. CASE PlanHeader
    <3>1. file_size \in Nat /\ declared \in Nat
      BY <2>1 DEF PlanHeader, Planning, ReadInv, ReadsTrue
    <3> QED
      BY <2>1, <3>1, PlannedFits DEF PlanHeader, PlanNeverRefuses
  <2> QED
    BY <2>1 DEF PlanNeverRefuses, Next, Step, PlanRead, Change, ReadPrefix, ReadSize, ReadHeader,
       RefuseTooSmall, RefusePrefix, RefuseFormatLimit, RefuseOutOfBounds, RefusePolicyLimit,
       RefuseLength, AcceptHeader, Conclude, Raise, vars
<1> QED
  BY ReadsCorrect, <1>1, <1>2, PTL DEF Spec

(***************************************************************************)
(* A read mismatch is explained by a change or a short read.               *)
(***************************************************************************)
THEOREM MismatchNotTheFile == Spec => []MismatchExplained
<1>1. TypeOK /\ ReadInv => MismatchExplained
  <2> SUFFICES ASSUME TypeOK, ReadInv, code \in ReadMismatch, ~(changes > 0), ~header.short
               PROVE  prefix.short
    BY DEF MismatchExplained
  <2>1. changes = 0
    BY ReadAssumption DEF TypeOK
  <2>2. file_size >= 8 /\ prefix.length # 8
    BY DEF ReadMismatch, ReadInv, ErrorTrue
  <2>3. prefix # Unread /\ file_size # -1
    BY DEF ReadMismatch, ReadInv, ControlTrue
  <2>4. object.size = file_size /\ Least(8, object.size) = 8
    BY <2>1, <2>2, <2>3 DEF ReadInv, ReadsTrue, Least
  <2>5. prefix = Bytes(prefix.length, 8) /\ prefix.length \in Int /\ prefix.length <= 8
    BY <2>1, <2>3, <2>4 DEF ReadInv, ReadsTrue
  <2>6. prefix.length < 8
    BY <2>2, <2>5
  <2>7. Bytes(prefix.length, 8).short = TRUE
    BY <2>6 DEF Bytes
  <2> QED
    BY <2>5, <2>7
<1> QED
  BY ReadsCorrect, <1>1, PTL

-----------------------------------------------------------------------------
(***************************************************************************)
(* What is concluded of an unchanged source is the judgement of what it    *)
(* holds.                                                                  *)
(***************************************************************************)
LEMMA ConclusionJudges ==
  ASSUME TypeOK, ReadInv, phase \in {"raised", "accepted"}, changes = 0,
         code \notin ReadMismatch, PlanNeverRefuses
  PROVE  Conclusion = Inspected!Judgement(object)
<1> USE DEF Inspected!Judgement, Inspected!Malformed, Conclusion, ErrorTrue, WithinFile,
            WithinFormat, PrefixWhole
<1>1. file_size = object.size /\ declared = object.declared
  BY DEF ReadInv, ControlTrue, ReadsTrue
<1>2. object.size \in Nat /\ object.declared \in Nat
  BY ObjectTyped DEF TypeOK
<1>3. CASE code \in Invalid
  BY <1>1, <1>2, <1>3, ReadAssumption DEF Invalid, ReadInv
<1>4. CASE code \in LimitExceeded
  BY <1>1, <1>2, <1>4, ReadAssumption DEF Invalid, LimitExceeded, ReadInv
<1>5. CASE code = "none"
  <2>1. phase = "accepted"
    BY <1>5 DEF TypeOK
  <2>2. WithinFile /\ declared <= MaxHeaderBytes /\ plan = Planned
    BY <2>1 DEF ReadInv, PlanTrue
  <2> QED
    BY <1>1, <1>2, <1>5, <2>2, ReadAssumption DEF Invalid, LimitExceeded, Planned
<1> QED
  BY <1>3, <1>4, <1>5 DEF TypeOK, Codes, PlanNeverRefuses

(***************************************************************************)
(* Refinement: a change of the source is a change, the conclusion is the   *)
(* one inspection, every other step is a stutter.                          *)
(***************************************************************************)
THEOREM RefinesInspection ==
    Spec => Inspected!Init /\ [][Inspected!Next]_(Inspected!vars)
<1>1. Init => Inspected!Init
  BY DEF Init, Inspected!Init
<1>2. TypeOK /\ ReadInv /\ PlanNeverRefuses /\ [Next]_vars => [Inspected!Next]_(Inspected!vars)
  <2> SUFFICES ASSUME TypeOK, ReadInv, PlanNeverRefuses, [Next]_vars
               PROVE  [Inspected!Next]_(Inspected!vars)
    OBVIOUS
  <2>1. CASE Change
    BY <2>1 DEF Change, Inspected!Next, Inspected!Change
  <2>2. CASE Conclude
    <3>1. outcome = Inspected!Pending /\ object' = object
      BY <2>2 DEF Conclude, ReadInv, ControlTrue, source
    <3>2. outcome' \in {Inspected!Judgement(object), Inspected!Nothing}
      BY <2>2, ConclusionJudges DEF Conclude
    <3> QED
      BY <3>1, <3>2 DEF Inspected!Next, Inspected!Inspect
  <2>3. CASE UNCHANGED <<object, outcome>>
    BY <2>3 DEF Inspected!vars
  <2> QED
    BY <2>1, <2>2, <2>3 DEF Next, Step, PlanRead, ReadPrefix, ReadSize, ReadHeader,
       RefuseTooSmall, RefusePrefix, RefuseFormatLimit, RefuseOutOfBounds, RefusePolicyLimit,
       PlanHeader, RefuseLength, AcceptHeader, Raise, vars, source
<1> QED
  BY ReadsCorrect, PlanNeverRefused, <1>1, <1>2, PTL DEF Spec
=============================================================================
