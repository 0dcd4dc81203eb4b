-------------------------- MODULE HeaderInspection --------------------------
(***************************************************************************)
(* What a source adapter learns from a safetensors object that may change  *)
(* while it is being read: the judgement of the object as it is at one     *)
(* moment, as if prefix, size and header had been read together, or        *)
(* nothing.                                                                *)
(***************************************************************************)
EXTENDS Integers

CONSTANTS
    Objects,            \* what a source can hold: its size and declared header size
    FormatLimit,        \* SAFETENSORS_HEADER_LIMIT
    MaxHeaderBytes      \* SafetensorsLimits.max_header_bytes

VARIABLES
    object,     \* what the source holds
    outcome     \* what the adapter has concluded

vars == <<object, outcome>>

Pending == [kind |-> "pending"]

Nothing == [kind |-> "nothing"]

Malformed(o) ==
    \/ o.size < 8
    \/ o.declared > FormatLimit
    \/ 8 + o.declared > o.size

\* A limit is reported only for an envelope that is well formed.
Judgement(o) ==
    IF Malformed(o) THEN [kind |-> "invalid"]
    ELSE IF o.declared > MaxHeaderBytes THEN [kind |-> "limit"]
    ELSE [kind |-> "header", size |-> o.declared, payload |-> o.size - 8 - o.declared]

Init ==
    /\ object \in Objects
    /\ outcome = Pending

Change ==
    /\ object' \in Objects
    /\ UNCHANGED outcome

Inspect ==
    /\ outcome = Pending
    /\ outcome' \in {Judgement(object), Nothing}
    /\ UNCHANGED object

Next == Change \/ Inspect

Spec == Init /\ [][Next]_vars /\ WF_vars(Inspect)
=============================================================================
