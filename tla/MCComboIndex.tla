----------------------------- MODULE MCComboIndex -----------------------------
(***************************************************************************)
(* A device of three blocks under up to four layers.  The writes cut each   *)
(* other at the start, at the end and in the middle, and have neighbours    *)
(* that do and that do not continue each other in the data file.  The two   *)
(* discards leave zeroed neighbours of one and of two blocks, which with     *)
(* MaxLength = 3 are within and at the limit of a fused mapping.             *)
(***************************************************************************)
EXTENDS ComboIndex

Write(o, l, mo) == [offset |-> o, length |-> l, moffset |-> mo, zeroed |-> FALSE, tag |-> 0]

Trim(o, l) == [Write(o, l, 0) EXCEPT !.zeroed = TRUE]

MCWrites ==
    {Write(0, 3, 0), Write(1, 1, 1), Write(2, 1, 0), Trim(0, 2), Trim(1, 2)}
===============================================================================
