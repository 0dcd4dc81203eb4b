---------------------------- MODULE MCHeaderRead ----------------------------
(***************************************************************************)
(* Files shorter than a prefix, as long as one, and with up to four bytes  *)
(* behind it, declaring headers up to one byte past the format's limit.    *)
(***************************************************************************)
EXTENDS HeaderRead

\* A file without a whole prefix declares nothing.
MCObjects ==
    {[size |-> s, declared |-> 0] : s \in {0, 7}}
    \cup [size : {8, 9, 10, 12}, declared : 0 .. 4]
=============================================================================
