--------------------------- MODULE PayloadTiling ---------------------------
(***************************************************************************)
(* What validate_storage promises: one verdict on a decoded header, given  *)
(* by the declarative ValidLayout.  Nothing here sorts, scans or keeps a   *)
(* cursor.                                                                 *)
(***************************************************************************)
EXTENDS DecodedHeader

VARIABLE verdict    \* "pending", "accepted" or "rejected"

vars == <<header, dataSize, verdict>>

Init ==
    /\ header \in Headers
    /\ dataSize \in PayloadSize
    /\ verdict = "pending"

Decide ==
    /\ verdict = "pending"
    /\ verdict' = IF ValidLayout THEN "accepted" ELSE "rejected"
    /\ UNCHANGED <<header, dataSize>>

Spec == Init /\ [][Decide]_vars /\ WF_vars(Decide)
=============================================================================
