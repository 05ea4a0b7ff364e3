------------------------------ MODULE MCLSMTFile ------------------------------
(***************************************************************************)
(* Instances of LSMTFile for TLC.                                            *)
(***************************************************************************)
EXTENDS LSMTFile, TLC

CONSTANTS t1, t2, v1, v2

MCThreads == {t1, t2}

MCValues == {v1, v2}

\* No thread and no written value is treated differently from another.
Symmetry == Permutations(MCThreads) \cup Permutations(MCValues)
===============================================================================
